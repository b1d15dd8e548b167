----------------------------- MODULE RunWrites -----------------------------
(***************************************************************************)
(* One run of the assistant answering the model's tool calls, and the      *)
(* user's approval of those that change the site (desktop/services:        *)
(* assistant_loop.go, execute; assistant_approval.go; engine.go, Elicit).  *)
(*                                                                         *)
(* The run's goroutine takes the calls of a turn in order: reads run       *)
(* together, a change runs alone once the user approved it, on the app's   *)
(* own card or on ffc's question, which the run's Elicitor answers on a    *)
(* goroutine of its own.  The user answers cards and stops the run, and    *)
(* other people save the same document, between any two steps.             *)
(***************************************************************************)
EXTENDS Integers, FiniteSets

CONSTANTS
  MaxCalls,       \* bound: tool calls of one turn
  TurnCap,        \* loopTurnCap
  MaxSaves,       \* bound: how often other people save the document
  StepLimit,      \* bound: the profile's step limit
  ParallelReads   \* loopParallelReads

ASSUME BoundsAreNat == {MaxCalls, MaxSaves} \subseteq Nat
ASSUME LimitsArePositive == {TurnCap, StepLimit, ParallelReads} \subseteq Nat \ {0}

Calls == 1..MaxCalls

\* What a call is for the app: a plain read; update_doc, which is read first
\* and pinned; another change; a change ffc is certain to ask about
\* (WillAsk); one that is refused before it runs.
Kinds == {"read", "update", "write", "willAsk", "refused"}

VARIABLES
  turn,       \* turns so far
  kind,       \* the kind of each call of the turn, "none" past the last
  budget,     \* calls that may still run
  at,         \* where the run's goroutine is
  next,       \* the first call of the turn that has no plan yet
  planned,    \* what plan said of call next
  group,      \* reads planned and not run yet
  st,         \* where each call is
  result,     \* what the model is told of each call
  approval,   \* callEntry.approval
  pinned,     \* the version the call is pinned to (if_unmodified), 0 for none
  card,       \* each call's open card: pending, or answered in its channel
  asking,     \* activeRun.asking, 0 for none
  ask,        \* where the Elicitor's goroutine is, for each call
  owner,      \* the call it reads from asking
  reply,      \* what ffc was answered
  cancelled,  \* the run's ctx is cancelled
  storeErr, violation, outcome,
  honest,     \* ffc asks about the calls it is certain to ask about
  ver,        \* version of the document on the site
  sent,       \* the changes on their way to the site
  \* History variables.
  applied,    \* the calls whose change is on the site
  shown,      \* the version the user was shown with the card, 0 for none
  savedAt,    \* the version the change was made to
  yes         \* the calls the user approved

turnVars == <<turn, kind, budget, at, next, planned, group>>
cardVars == <<card, asking, ask, owner, reply>>
endVars  == <<cancelled, storeErr, violation, outcome>>
siteVars == <<ver, sent, applied, savedAt>>
saidVars == <<shown, yes>>
vars == <<turnVars, st, result, approval, pinned, cardVars, endVars, honest,
          siteVars, saidVars>>

Results   == {"none", "ok", "error", "notRun", "declined", "unknown", "unasked"}
Approvals == {"", "approved", "declined", "cancelled", "ffcApproved", "ffcDeclined"}

TypeOK ==
  /\ turn \in Nat /\ budget \in Nat /\ next \in Nat
  /\ ver \in Nat \ {0}
  /\ kind \in [Calls -> Kinds \cup {"none"}]
  /\ at \in {"turn", "plan", "flush", "handle", "append", "over"}
  /\ planned \in {"done", "write"}
  /\ {group, sent, applied, yes} \subseteq SUBSET Calls
  /\ st \in [Calls -> {"new", "preread", "card", "calling", "done"}]
  /\ result \in [Calls -> Results]
  /\ approval \in [Calls -> Approvals]
  /\ {pinned, shown, savedAt} \subseteq [Calls -> Nat]
  /\ card \in [Calls -> {"none", "pending", "yes", "no"}]
  /\ asking \in Calls \cup {0}
  /\ ask \in [Calls -> {"none", "called", "waiting", "accept", "decline"}]
  /\ owner \in [Calls -> Calls \cup {0}]
  /\ reply \in [Calls -> {"none", "accept", "decline"}]
  /\ {cancelled, storeErr, violation, honest} \subseteq BOOLEAN
  /\ outcome \in {"none", "paused", "done", "error", "cancelled"}

All(x) == [i \in Calls |-> x]

\* A turn's calls before anything is known of them.
NoCalls ==
  /\ st = All("new") /\ result = All("none") /\ approval = All("")
  /\ pinned = All(0) /\ shown = All(0) /\ savedAt = All(0)
  /\ card = All("none") /\ ask = All("none") /\ owner = All(0)
  /\ reply = All("none") /\ sent = {} /\ applied = {} /\ yes = {}

Init ==
  /\ turn = 0 /\ kind = All("none") /\ budget \in 1..StepLimit
  /\ at = "turn" /\ next = 1 /\ planned = "done" /\ group = {}
  /\ NoCalls
  /\ asking = 0
  /\ cancelled = FALSE /\ storeErr = FALSE /\ violation = FALSE
  /\ outcome = "none"
  /\ honest \in BOOLEAN
  /\ ver = 1

-----------------------------------------------------------------------------
(* The loop: a turn of the model, its calls, the end.                      *)

Size == Cardinality({i \in Calls : kind[i] # "none"})

End(o) == at' = "over" /\ outcome' = o

\* The model answers with n calls; those past the budget are refused, and
\* those whose row the store did not take.
TurnCalls(n, k, lost) ==
  /\ at = "turn" /\ ~cancelled /\ turn < TurnCap
  /\ turn' = turn + 1
  /\ kind' = [i \in Calls |-> IF i > n THEN "none"
                              ELSE IF i > budget \/ i \in lost THEN "refused" ELSE k[i]]
  /\ at' = "plan" /\ next' = 1
  /\ storeErr' = (lost # {})
  /\ st' = All("new") /\ result' = All("none") /\ approval' = All("")
  /\ pinned' = All(0) /\ shown' = All(0) /\ savedAt' = All(0)
  /\ card' = All("none") /\ ask' = All("none") /\ owner' = All(0)
  /\ reply' = All("none") /\ sent' = {} /\ applied' = {} /\ yes' = {}
  /\ UNCHANGED <<budget, planned, group, asking, cancelled, violation, outcome,
                 honest, ver>>

\* The provider paused a long turn: the next request continues it.
TurnPauses ==
  /\ at = "turn" /\ ~cancelled /\ turn < TurnCap
  /\ turn' = turn + 1
  /\ UNCHANGED <<kind, budget, at, next, planned, group, st, result, approval,
                 pinned, cardVars, endVars, honest, siteVars, saidVars>>

\* The model answers without a call, or the turn fails or is cut short, or
\* the run has had all its turns.
TurnEnds ==
  /\ at = "turn"
  /\ IF cancelled THEN End("cancelled") \/ End("error")
     ELSE IF turn = TurnCap THEN End("paused")
     ELSE End("done") \/ End("error")
  /\ UNCHANGED <<turn, kind, budget, next, planned, group, st, result, approval,
                 pinned, cardVars, cancelled, storeErr, violation, honest,
                 siteVars, saidVars>>

\* plan: a read joins the group; before any other call the group runs.
Plan ==
  /\ at = "plan" /\ next <= Size
  /\ IF ~cancelled /\ kind[next] = "read"
     THEN /\ group' = group \cup {next}
          /\ next' = next + 1
          /\ UNCHANGED <<at, planned, result>>
     ELSE /\ at' = "flush"
          /\ planned' = IF cancelled \/ kind[next] = "refused" THEN "done" ELSE "write"
          /\ result' = [result EXCEPT ![next] =
                          IF cancelled THEN "notRun"
                          ELSE IF kind[next] = "refused" THEN "error" ELSE @]
          /\ UNCHANGED <<group, next>>
  /\ UNCHANGED <<turn, kind, budget, st, approval, pinned, cardVars, endVars,
                 honest, siteVars, saidVars>>

\* The last group, after the last call.
PlanEnds ==
  /\ at = "plan" /\ next > Size
  /\ at' = "flush"
  /\ UNCHANGED <<turn, kind, budget, next, planned, group, st, result, approval,
                 pinned, cardVars, endVars, honest, siteVars, saidVars>>

\* finish: the row of call i is stored, or the store fails.
Finish(i) ==
  /\ st' = [st EXCEPT ![i] = "done"]
  /\ storeErr' \in {storeErr, TRUE}

Running == {i \in group : st[i] = "calling"}

\* The session is given call i.
Give(i) ==
  /\ st' = [st EXCEPT ![i] = "calling"]

\* runReads: a read of the group starts.
ReadStarts(i) ==
  /\ at = "flush" /\ i \in group /\ st[i] = "new"
  /\ Cardinality(Running) < ParallelReads
  /\ Give(i)
  /\ UNCHANGED <<turnVars, result, approval, pinned, cardVars, endVars, honest,
                 siteVars, shown, yes>>

ReadEnds(i) ==
  /\ at = "flush" /\ i \in Running /\ ask[i] \in {"none", "called"}
  /\ ask[i] = "called" => reply[i] = "decline"
  /\ \E res \in {"ok", IF cancelled THEN "unknown" ELSE "error"} :
       result' = [result EXCEPT ![i] = res]
  /\ Finish(i)
  /\ UNCHANGED <<turnVars, approval, pinned, cardVars, cancelled, violation,
                 outcome, honest, siteVars, saidVars>>

\* Mutant of Flushed: the group is not waited for.
FlushedEarly ==
  /\ at = "flush"
  /\ group' = {}
  /\ at' = IF next > Size THEN "append" ELSE "handle"
  /\ UNCHANGED <<turn, kind, budget, next, planned, st, result, approval,
                 pinned, cardVars, endVars, honest, siteVars, saidVars>>

\* The group has run: now the call that was waiting for it, or the results.
Flushed ==
  /\ at = "flush" /\ \A i \in group : st[i] = "done"
  /\ group' = {}
  /\ at' = IF next > Size THEN "append" ELSE "handle"
  /\ UNCHANGED <<turn, kind, budget, next, planned, st, result, approval,
                 pinned, cardVars, endVars, honest, siteVars, saidVars>>

\* On to the next call of the turn.
Proceed == at' = "plan" /\ next' = next + 1

\* A call that plan answered.
HandleDone ==
  /\ at = "handle" /\ planned = "done"
  /\ Finish(next)
  /\ Proceed
  /\ UNCHANGED <<turn, kind, budget, planned, group, result, approval, pinned,
                 cardVars, cancelled, violation, outcome, honest, siteVars,
                 saidVars>>

\* The budget once the turn's calls are counted.
Left == IF budget > Size THEN budget - Size ELSE 0

\* The results are appended, or the store fails; then the run goes on or ends.
AppendResults ==
  /\ at = "append"
  /\ budget' = Left
  /\ \E fails \in BOOLEAN :
       IF storeErr \/ violation \/ fails THEN End("error")
       ELSE IF cancelled THEN End("cancelled")
       ELSE IF Left = 0 THEN End("paused")
       ELSE at' = "turn" /\ UNCHANGED outcome
  /\ UNCHANGED <<turn, kind, next, planned, group, st, result, approval, pinned,
                 cardVars, cancelled, storeErr, violation, honest, siteVars,
                 saidVars>>

-----------------------------------------------------------------------------
(* runWrite, on the call next.                                             *)

\* The change does not run: its result, and how its approval ended.
NotRun(res, appr) ==
  /\ result' = [result EXCEPT ![next] = res]
  /\ approval' = [approval EXCEPT ![next] = appr]
  /\ Finish(next)
  /\ Proceed
  /\ UNCHANGED <<turn, kind, budget, planned, group, pinned, asking, ask, owner,
                 reply, cancelled, violation, outcome, honest, siteVars,
                 saidVars>>

Writing(place) == at = "handle" /\ planned = "write" /\ st[next] = place

\* The run was stopped before the change was looked at.
WriteStopped ==
  /\ Writing("new") /\ cancelled
  /\ NotRun("notRun", "cancelled")
  /\ UNCHANGED card

\* The change is read first, shown on a card, or given to ffc, which asks.
WriteStarts ==
  /\ Writing("new") /\ ~cancelled
  /\ IF kind[next] = "willAsk"
     THEN Give(next) /\ asking' = next /\ UNCHANGED card
     ELSE /\ st' = [st EXCEPT ![next] = IF kind[next] = "update" THEN "preread"
                                        ELSE "card"]
          /\ card' = [card EXCEPT ![next] = IF kind[next] = "update" THEN @
                                            ELSE "pending"]
          /\ UNCHANGED asking
  /\ UNCHANGED <<turnVars, result, approval, pinned, ask, owner, reply, endVars,
                 honest, siteVars, shown, yes>>

\* pin: to the version read, or to none where the document came without its
\* modified.
Pins == {ver, 0}

\* prepareUpdate: the call is pinned, and what was read is shown.  The call may
\* be one ffc is certain to ask about: then it asks.
PreRead ==
  /\ Writing("preread")
  /\ \E v \in Pins :
       /\ pinned' = [pinned EXCEPT ![next] = v]
       /\ \/ /\ st' = [st EXCEPT ![next] = "card"]
             /\ card' = [card EXCEPT ![next] = "pending"]
             /\ shown' = [shown EXCEPT ![next] = v]
             /\ UNCHANGED <<kind, asking>>
          \/ /\ kind' = [kind EXCEPT ![next] = "willAsk"]
             /\ Give(next) /\ asking' = next
             /\ UNCHANGED <<card, shown>>
  /\ UNCHANGED <<turn, budget, at, next, planned, group, result, approval, ask,
                 owner, reply, endVars, honest, siteVars, yes>>

\* The read failed, or the pinned call is refused.
PreReadFails ==
  /\ Writing("preread")
  /\ IF cancelled THEN NotRun("notRun", "cancelled") ELSE NotRun("error", "")
  /\ UNCHANGED card

\* Mutant of CardRefused: the card is not closed by a stop.
CardRefusedOnly ==
  /\ Writing("card") /\ card[next] = "no"
  /\ NotRun("declined", "declined")
  /\ card' = [card EXCEPT ![next] = "none"]

\* wait, on the app's card: the user said no, or the run was stopped; an
\* approve that raced with a cancel does not run the call.
CardRefused ==
  /\ Writing("card")
  /\ \/ card[next] = "no" /\ NotRun("declined", "declined")
     \/ cancelled /\ NotRun("notRun", "cancelled")
  /\ card' = [card EXCEPT ![next] = "none"]

CardApproved ==
  /\ Writing("card") /\ card[next] = "yes" /\ ~cancelled
  /\ card' = [card EXCEPT ![next] = "none"]
  /\ approval' = [approval EXCEPT ![next] = "approved"]
  /\ Give(next) /\ asking' = next
  /\ UNCHANGED <<turnVars, result, pinned, ask, owner, reply, endVars, honest,
                 siteVars, shown, yes>>

\* What runWrite makes of the call's end: a change ffc did not ask about, and
\* had to, stops the run.
Unasked(i) == kind[i] = "willAsk" /\ approval[i] # "ffcApproved"

WriteEnds(res) ==
  /\ asking' = 0
  /\ approval' = [approval EXCEPT ![next] =
                    IF cancelled /\ @ = "" THEN "cancelled" ELSE @]
  /\ result' = [result EXCEPT ![next] =
                  IF res = "ok" /\ Unasked(next) THEN "unasked" ELSE res]
  /\ violation' = (violation \/ (res = "ok" /\ Unasked(next)))
  /\ Finish(next)
  /\ Proceed
  /\ UNCHANGED <<turn, kind, budget, planned, group, pinned, card, ask, owner,
                 reply, cancelled, outcome, honest, siteVars, saidVars>>

\* ffc's answer reaches the run.
CallOk == Writing("calling") /\ next \in applied /\ WriteEnds("ok")

\* Mutant of CallFails: a stopped call is taken for one that never ran.
CallFailsUnrun ==
  /\ Writing("calling")
  /\ ask[next] = "none" \/ reply[next] = "decline"
  /\ WriteEnds(IF cancelled THEN "notRun" ELSE "error")

\* ffc refuses, the site does, or the answer is not waited for.
CallFails ==
  /\ Writing("calling")
  /\ ask[next] = "none" \/ reply[next] = "decline"
  /\ WriteEnds(IF cancelled THEN "unknown" ELSE "error")

-----------------------------------------------------------------------------
(* ffc and the site, and the Elicitor.                                     *)

\* ffc's question reaches the session: engineElicit starts the Elicitor.
FfcAsks(i) ==
  /\ st[i] = "calling" /\ ask[i] = "none" /\ reply[i] = "none"
  /\ i \notin sent \cup applied
  /\ ask' = [ask EXCEPT ![i] = "called"]
  /\ UNCHANGED <<turnVars, st, result, approval, pinned, card, asking, owner,
                 reply, endVars, honest, siteVars, saidVars>>

\* elicit: the question belongs to the call in asking; with none it declines.
ElicitOpens(i) ==
  /\ ask[i] = "called"
  /\ IF asking = 0
     THEN ask' = [ask EXCEPT ![i] = "decline"] /\ UNCHANGED <<card, owner>>
     ELSE /\ ask' = [ask EXCEPT ![i] = "waiting"]
          /\ owner' = [owner EXCEPT ![i] = asking]
          /\ card' = [card EXCEPT ![asking] = "pending"]
  /\ UNCHANGED <<turnVars, st, result, approval, pinned, asking, reply, endVars,
                 honest, siteVars, saidVars>>

\* What wait made of the card of the question call i asked.
Elicited(i, answer, appr) ==
  /\ ask' = [ask EXCEPT ![i] = answer]
  /\ approval' = [approval EXCEPT ![owner[i]] = appr]
  /\ card' = [card EXCEPT ![owner[i]] = "none"]
  /\ UNCHANGED <<turnVars, st, result, pinned, asking, owner, reply, endVars,
                 honest, siteVars, saidVars>>

ElicitApproved(i) ==
  /\ ask[i] = "waiting" /\ card[owner[i]] = "yes" /\ ~cancelled
  /\ Elicited(i, "accept", "ffcApproved")

ElicitDeclined(i) ==
  /\ ask[i] = "waiting" /\ card[owner[i]] = "no"
  /\ Elicited(i, "decline", "ffcDeclined")

ElicitCancelled(i) ==
  /\ ask[i] = "waiting" /\ cancelled
  /\ Elicited(i, "decline", "cancelled")

\* Mutant of EngineReplies: the Elicitor's answer is not looked at.
EngineRepliesYes(i) ==
  /\ ask[i] \in {"accept", "decline"}
  /\ ask' = [ask EXCEPT ![i] = "none"]
  /\ reply' = [reply EXCEPT ![i] = IF @ # "none" THEN @
                                   ELSE IF cancelled THEN "decline" ELSE "accept"]
  /\ UNCHANGED <<turnVars, st, result, approval, pinned, card, asking, owner,
                 endVars, honest, siteVars, saidVars>>

\* engineElicit has the Elicitor's answer: an accept only while the ctx lives.
EngineReplies(i) ==
  /\ ask[i] \in {"accept", "decline"}
  /\ ask' = [ask EXCEPT ![i] = "none"]
  /\ reply' = [reply EXCEPT ![i] = IF @ # "none" THEN @
                                   ELSE IF cancelled THEN "decline" ELSE ask[i]]
  /\ UNCHANGED <<turnVars, st, result, approval, pinned, card, asking, owner,
                 endVars, honest, siteVars, saidVars>>

\* The ctx ended first: engineElicit declines and drops the late answer.
EngineGivesUp(i) ==
  /\ ask[i] # "none" /\ reply[i] = "none" /\ cancelled
  /\ reply' = [reply EXCEPT ![i] = "decline"]
  /\ UNCHANGED <<turnVars, st, result, approval, pinned, card, asking, ask,
                 owner, endVars, honest, siteVars, saidVars>>

\* A question answered too late (confirmTTL) is asked again.
FfcAsksAgain(i) ==
  /\ st[i] = "calling" /\ ask[i] = "none" /\ reply[i] = "accept" /\ ~cancelled
  /\ i \notin sent \cup applied
  /\ reply' = [reply EXCEPT ![i] = "none"]
  /\ ask' = [ask EXCEPT ![i] = "called"]
  /\ UNCHANGED <<turnVars, st, result, approval, pinned, card, asking, owner,
                 endVars, honest, siteVars, saidVars>>

\* ffc sends the change: it asked when it must, and no ctx ended.
FfcSends(i) ==
  /\ at = "handle" /\ st[i] = "calling" /\ ask[i] = "none" /\ ~cancelled
  /\ reply[i] # "decline" /\ i \notin sent \cup applied
  /\ honest /\ kind[i] = "willAsk" => reply[i] = "accept"
  /\ sent' = sent \cup {i}
  /\ UNCHANGED <<turnVars, st, result, approval, pinned, cardVars, endVars,
                 honest, ver, applied, savedAt, saidVars>>

\* The site makes it, if it has the version the call is pinned to, even after
\* the run was stopped (in a later turn it is one more save elsewhere).
SiteApplies(i) ==
  /\ i \in sent
  /\ pinned[i] # 0 => pinned[i] = ver
  /\ sent' = sent \ {i}
  /\ applied' = applied \cup {i}
  /\ savedAt' = [savedAt EXCEPT ![i] = ver]
  /\ ver' = ver + 1
  /\ UNCHANGED <<turnVars, st, result, approval, pinned, cardVars, endVars,
                 honest, saidVars>>

-----------------------------------------------------------------------------
(* Everybody else.                                                         *)

\* answer: the user settles an open card.
Answer(i, ok) ==
  /\ card[i] = "pending"
  /\ card' = [card EXCEPT ![i] = IF ok THEN "yes" ELSE "no"]
  /\ yes' = IF ok THEN yes \cup {i} ELSE yes
  /\ UNCHANGED <<turnVars, st, result, approval, pinned, asking, ask, owner,
                 reply, endVars, honest, siteVars, shown>>

\* The user stops the run, or the app shuts down.
Cancel ==
  /\ ~cancelled /\ at # "over"
  /\ cancelled' = TRUE
  /\ UNCHANGED <<turnVars, st, result, approval, pinned, cardVars, storeErr,
                 violation, outcome, honest, siteVars, saidVars>>

\* Somebody else saves the document.
SavedElsewhere ==
  /\ ver <= MaxSaves
  /\ ver' = ver + 1
  /\ UNCHANGED <<turnVars, st, result, approval, pinned, cardVars, endVars,
                 honest, sent, applied, savedAt, saidVars>>

-----------------------------------------------------------------------------
Loop ==
  \/ TurnPauses \/ TurnEnds \/ Plan \/ PlanEnds \/ Flushed \/ HandleDone \/ AppendResults
  \/ \E n \in Calls : \E k \in [1..n -> Kinds], lost \in SUBSET (1..n) : TurnCalls(n, k, lost)
  \/ \E i \in Calls : ReadStarts(i) \/ ReadEnds(i)

Write ==
  \/ WriteStopped \/ WriteStarts \/ PreRead \/ PreReadFails
  \/ CardRefused \/ CardApproved \/ CallOk \/ CallFails

Elicitor(i) ==
  \/ ElicitOpens(i) \/ ElicitApproved(i) \/ ElicitDeclined(i)
  \/ ElicitCancelled(i) \/ EngineReplies(i) \/ EngineGivesUp(i)

Outside ==
  \/ \E i \in Calls :
       \/ FfcAsks(i) \/ FfcAsksAgain(i) \/ FfcSends(i) \/ SiteApplies(i)
       \/ \E ok \in BOOLEAN : Answer(i, ok)
  \/ Cancel \/ SavedElsewhere

Next == Loop \/ Write \/ Outside \/ \E i \in Calls : Elicitor(i)

Spec == Init /\ [][Next]_vars

\* A goroutine that can step does, and what it waits for ends once the run is
\* stopped, for every request has its ctx.  Nothing says that the model or the
\* site ever answers, that the user answers a card, or that he stops the run.
Fairness ==
  /\ WF_vars(cancelled /\ (Loop \/ Write))
  /\ \A i \in Calls : WF_vars(Elicitor(i))

FairSpec == Spec /\ Fairness

-----------------------------------------------------------------------------
(* Properties.                                                             *)

\* Every change on the site is one the user approved: on the app's card, or
\* on ffc's question if ffc asks when it says it will.  An update the app
\* showed is made to the version it was shown against, never over a save the
\* user did not see.
NoWriteWithoutYes ==
  /\ honest => applied \subseteq yes
  /\ \A i \in applied : shown[i] # 0 => savedAt[i] = shown[i]

\* What the run records of a call is true of the site: one that was declined,
\* stopped before it ran or refused an approval changed nothing.
RecordIsTrue ==
  \A i \in applied :
    /\ result[i] \notin {"notRun", "declined"}
    /\ honest => approval[i] \notin {"declined", "cancelled", "ffcDeclined"}

\* A change runs alone: everything before it in the turn has finished, and
\* nothing after it has started.
ChangesRunAlone ==
  \A i \in Calls :
    st[i] \in {"preread", "card", "calling"} /\ kind[i] # "read" =>
      \A j \in Calls : (j < i => st[j] = "done") /\ (j > i => st[j] = "new")

\* A run that is stopped ends, whatever it was waiting for.
StopEnds == cancelled ~> at = "over"

=============================================================================
