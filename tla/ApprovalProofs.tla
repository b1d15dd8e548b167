--------------------------- MODULE ApprovalProofs ---------------------------
(***************************************************************************)
(* What is done in the user's name, and who agreed to it.  The assistant,  *)
(* for any number of tool calls, turns and saves elsewhere: no change is   *)
(* made without the user's yes, what a run records of a call is true of    *)
(* the site, and a change runs alone (RunWrites).  ffc mcp, for any rules, *)
(* calls, sites and numbers of handlers: what its policy lets a call do    *)
(* (McpPolicy, McpTools), its calls (McpCalls) and the screen that edits   *)
(* its rules (SafetyScreen).                                               *)
(***************************************************************************)
EXTENDS RunWrites, McpCalls, SafetyScreen, FiniteSetTheorems, TLAPS

-----------------------------------------------------------------------------
Domains ==
  /\ DOMAIN kind = Calls /\ DOMAIN st = Calls /\ DOMAIN result = Calls
  /\ DOMAIN approval = Calls /\ DOMAIN pinned = Calls /\ DOMAIN card = Calls
  /\ DOMAIN ask = Calls /\ DOMAIN owner = Calls /\ DOMAIN reply = Calls
  /\ DOMAIN shown = Calls /\ DOMAIN savedAt = Calls
  /\ next \in Nat \ {0} /\ group \subseteq Calls
  /\ sent \subseteq Calls /\ applied \subseteq Calls

Active(i) == st[i] \in {"preread", "card", "calling"}

\* Where the run's goroutine is says where the calls are: those before the
\* next one are done, but the reads that wait to run together.
GroupOK ==
  /\ \A i \in group :
       kind[i] = "read" /\ i < next /\ st[i] \in {"new", "calling", "done"}
  /\ at = "plan" => \A i \in group : st[i] = "new"
  /\ at \notin {"plan", "flush"} => group = {}

PlaceOK ==
  /\ at \in {"plan", "flush"} =>
       \A i \in Calls : (i < next /\ i \notin group => st[i] = "done")
                        /\ (i >= next => st[i] = "new")
  /\ at = "handle" =>
       /\ next \in Calls
       /\ \A i \in Calls : (i < next => st[i] = "done") /\ (i > next => st[i] = "new")
  /\ at = "handle" /\ planned # "write" => st[next] = "new"
  /\ at = "handle" /\ st[next] = "preread" => kind[next] = "update"
  /\ at \notin {"plan", "flush", "handle"} => \A i \in Calls : ~Active(i)
  /\ at \in {"flush", "handle"} /\ next <= Size /\ planned = "write" => kind[next] # "read"

\* A question of ffc is about the call that runs, unless the run was stopped.
AskOK ==
  /\ asking # 0 => at = "handle" /\ asking = next /\ st[next] = "calling"
  /\ at = "handle" /\ st[next] # "new" => \A i \in Calls \ {next} : ask[i] = "none"
  /\ \A i \in Calls :
       /\ ask[i] # "none" /\ st[i] # "calling" => cancelled
       /\ ask[i] # "none" => reply[i] = "none" \/ (cancelled /\ reply[i] = "decline")
       /\ st[i] \notin {"calling", "done"} => ask[i] = "none" /\ reply[i] = "none"
       /\ ask[i] = "waiting" => owner[i] = i
       /\ reply[i] \in {"none", "accept", "decline"}

\* What is behind a yes: the user's answer to a card.
YesOK ==
  /\ \A i \in Calls : card[i] = "yes" => i \in yes
  /\ at = "handle" /\ st[next] = "calling" =>
       /\ reply[next] = "accept" \/ ask[next] = "accept" =>
            next \in yes /\ approval[next] = "ffcApproved"
       /\ kind[next] # "willAsk" =>
            /\ next \in yes
            /\ ask[next] = "none" /\ reply[next] = "none" => approval[next] = "approved"

\* A change that was sent.
SentOK ==
  \A i \in sent \cup applied :
    /\ st[i] \in {"calling", "done"} /\ ask[i] = "none"
    /\ result[i] \notin {"notRun", "declined"}
    /\ honest => i \in yes /\ approval[i] \in {"approved", "ffcApproved"}

\* A call is told of its end when it ends, or when plan refused it.
ResultOK ==
  \A i \in Calls :
    st[i] # "done" /\ result[i] # "none" =>
      /\ at \in {"flush", "handle"} /\ i = next /\ next <= Size
      /\ planned # "write" /\ st[i] = "new"

\* A shown update is pinned to the version it was shown against.
ShownOK ==
  /\ \A i \in Calls :
       /\ st[i] \in {"new", "preread"} => shown[i] = 0
       /\ shown[i] # 0 => pinned[i] = shown[i]
  /\ \A i \in applied : shown[i] # 0 => savedAt[i] = shown[i]

RunInv == Domains /\ GroupOK /\ PlaceOK /\ AskOK /\ YesOK /\ SentOK /\ ResultOK /\ ShownOK

LEMMA AllDomain == \A x : DOMAIN All(x) = Calls
BY DEF All

LEMMA InitRun == Init => RunInv
<1> SUFFICES ASSUME Init
             PROVE  RunInv
  OBVIOUS
<1>1. Domains /\ sent = {} /\ applied = {}
  <2>1. /\ next = 1 /\ group = {} /\ sent = {} /\ applied = {}
        /\ kind = All("none") /\ st = All("new") /\ result = All("none") /\ approval = All("")
        /\ pinned = All(0) /\ shown = All(0) /\ savedAt = All(0)
        /\ card = All("none") /\ ask = All("none") /\ owner = All(0) /\ reply = All("none")
    BY DEF Init, NoCalls
  <2>2. next \in Nat \ {0} /\ {} \subseteq Calls
    <3>1. next = 1
      BY <2>1
    <3> QED
      BY <3>1
  <2>3. DOMAIN kind = Calls /\ DOMAIN st = Calls /\ DOMAIN result = Calls
    BY <2>1 DEF All
  <2>4. DOMAIN approval = Calls /\ DOMAIN pinned = Calls /\ DOMAIN card = Calls
    BY <2>1 DEF All
  <2>5. /\ DOMAIN ask = Calls /\ DOMAIN owner = Calls /\ DOMAIN reply = Calls
        /\ DOMAIN shown = Calls /\ DOMAIN savedAt = Calls
    BY <2>1 DEF All
  <2> QED
    BY <2>1, <2>2, <2>3, <2>4, <2>5 DEF Domains
<1>2. GroupOK /\ PlaceOK
  BY DEF Init, NoCalls, All, GroupOK, PlaceOK, Active
<1>3. AskOK /\ YesOK
  BY DEF Init, NoCalls, All, AskOK, YesOK
<1>4. SentOK /\ ResultOK /\ ShownOK
  BY <1>1 DEF Init, NoCalls, All, SentOK, ResultOK, ShownOK
<1> QED
  BY <1>1, <1>2, <1>3, <1>4 DEF RunInv

LEMMA SizeBound == Size \in Nat /\ Size <= MaxCalls
<1>1. IsFiniteSet(Calls) /\ Cardinality(Calls) = MaxCalls
  BY FS_Interval, BoundsAreNat DEF Calls
<1>2. {i \in Calls : kind[i] # "none"} \subseteq Calls
  OBVIOUS
<1> QED
  BY <1>1, <1>2, FS_Subset, FS_CardinalityType DEF Size
-----------------------------------------------------------------------------
(* The loop.                                                               *)

\* A step of the loop between the calls: no call moves, no card, no answer.
LoopVars == <<kind, st, approval, pinned, cardVars, cancelled, honest, sent, applied,
              savedAt, shown, yes>>

LEMMA LoopMoves ==
  ASSUME RunInv, UNCHANGED LoopVars, DOMAIN result' = Calls,
         next' \in Nat \ {0}, group' \subseteq Calls, GroupOK', PlaceOK', ResultOK',
         at # "handle", at' = "handle" => st[next'] = "new",
         \A i \in sent \cup applied : result'[i] \notin {"notRun", "declined"}
  PROVE  RunInv'
<1> USE DEF LoopVars, cardVars
<1>1. Domains'
  BY DEF RunInv, Domains
<1>2. AskOK'
  BY DEF RunInv, AskOK
<1>3. YesOK' /\ SentOK' /\ ShownOK'
  BY DEF RunInv, YesOK, SentOK, ShownOK
<1> QED
  BY <1>1, <1>2, <1>3 DEF RunInv

LEMMA TurnsKeep ==
  ASSUME RunInv, TurnPauses \/ TurnEnds \/ AppendResults
  PROVE  RunInv'
<1>1. /\ UNCHANGED LoopVars /\ UNCHANGED <<next, group, result, planned>>
      /\ at \notin {"plan", "flush", "handle"} /\ at' \notin {"plan", "flush", "handle"}
  BY DEF TurnPauses, TurnEnds, AppendResults, End, LoopVars, cardVars, endVars, siteVars, saidVars
<1>2. GroupOK' /\ PlaceOK' /\ ResultOK'
  BY <1>1 DEF RunInv, GroupOK, PlaceOK, ResultOK, LoopVars, Active
<1> QED
  BY <1>1, <1>2, LoopMoves DEF RunInv, Domains, SentOK

LEMMA PlansKeep ==
  ASSUME RunInv, Plan \/ PlanEnds \/ Flushed
  PROVE  RunInv'
<1>0. /\ Domains /\ GroupOK /\ PlaceOK /\ ResultOK /\ UNCHANGED LoopVars
      /\ Size \in Nat /\ Size <= MaxCalls /\ MaxCalls \in Nat
  BY SizeBound, BoundsAreNat
     DEF RunInv, Plan, PlanEnds, Flushed, LoopVars, cardVars, endVars, siteVars, saidVars
<1>1. Size' = Size
  BY <1>0 DEF Size, LoopVars
<1>2. CASE PlanEnds
  <2>1. /\ at = "plan" /\ next > Size /\ at' = "flush" /\ UNCHANGED <<next, group, planned, result>>
    BY <1>2 DEF PlanEnds
  <2>2. GroupOK' /\ PlaceOK' /\ ResultOK'
    BY <1>0, <1>1, <2>1 DEF Domains, GroupOK, PlaceOK, ResultOK, LoopVars, Active
  <2> QED
    BY <1>0, <2>1, <2>2, LoopMoves DEF RunInv, Domains, SentOK
<1>3. CASE Flushed
  <2>1. /\ at = "flush" /\ \A i \in group : st[i] = "done"
        /\ group' = {} /\ at' = IF next > Size THEN "append" ELSE "handle"
        /\ UNCHANGED <<next, planned, result>>
    BY <1>3 DEF Flushed
  <2>2. next <= Size => next \in Calls
    BY <1>0 DEF Domains, Calls
  <2>3. \A i \in Calls : (i < next => st[i] = "done") /\ (i >= next => st[i] = "new")
    BY <1>0, <2>1 DEF PlaceOK
  <2>4. \A i \in Calls : i \in Nat /\ (i < next \/ i >= next)
    BY <1>0 DEF Calls, Domains
  <2>5. GroupOK'
    BY <2>1 DEF GroupOK
  <2>6. CASE next > Size
    <3>1. at' = "append"
      BY <2>1, <2>6
    <3>2. PlaceOK' /\ ResultOK'
      <4>1. ~(next <= Size)
        BY <1>0, <2>6 DEF Domains
      <4> QED
        BY <1>0, <2>1, <2>3, <2>4, <3>1, <4>1 DEF PlaceOK, ResultOK, LoopVars, Active
    <3> QED
      BY <1>0, <2>1, <2>5, <3>1, <3>2, LoopMoves DEF RunInv, Domains, SentOK
  <2>7. CASE next <= Size
    <3>1. at' = "handle" /\ st[next] = "new"
      BY <1>0, <2>1, <2>2, <2>3, <2>7 DEF Domains
    <3>2. PlaceOK'
      <4>1. \A i \in Calls : (i < next => st'[i] = "done") /\ (i > next => st'[i] = "new")
        BY <1>0, <2>3, <2>4 DEF LoopVars, Domains
      <4>2. planned = "write" => kind[next] # "read"
        BY <1>0, <2>1, <2>7 DEF PlaceOK
      <4> QED
        BY <1>0, <2>1, <2>2, <2>7, <3>1, <4>1, <4>2 DEF PlaceOK, LoopVars
    <3>3. ResultOK'
      BY <1>0, <1>1, <2>1, <2>7, <3>1 DEF ResultOK, LoopVars
    <3> QED
      BY <1>0, <2>1, <2>5, <3>1, <3>2, <3>3, LoopMoves DEF RunInv, Domains, SentOK
  <2> QED
    BY <1>0, <2>6, <2>7 DEF Domains
<1>4. CASE Plan
  <2>1. at = "plan" /\ next <= Size /\ next \in Calls /\ st[next] = "new"
    BY <1>0, <1>4 DEF Plan, Domains, PlaceOK, Calls
  <2>2. next \notin sent \cup applied
    BY <2>1 DEF RunInv, SentOK
  <2>3. CASE ~cancelled /\ kind[next] = "read"
    <3>1. /\ group' = group \cup {next} /\ next' = next + 1 /\ UNCHANGED <<at, planned, result>>
      BY <1>4, <2>3 DEF Plan
    <3>2. GroupOK'
      BY <1>0, <2>1, <2>3, <3>1 DEF Domains, GroupOK, LoopVars
    <3>3. \A i \in Calls : i \in Nat
      BY DEF Calls
    <3>4. PlaceOK'
      BY <1>0, <2>1, <3>1, <3>3 DEF Domains, PlaceOK, LoopVars, Active
    <3>5. next' \in Nat \ {0} /\ ResultOK'
      BY <1>0, <2>1, <3>1 DEF Domains, ResultOK, LoopVars
    <3> QED
      BY <1>0, <2>1, <3>1, <3>2, <3>4, <3>5, LoopMoves DEF RunInv, Domains, SentOK
  <2>4. CASE ~(~cancelled /\ kind[next] = "read")
    <3>1. /\ at' = "flush" /\ UNCHANGED <<group, next>>
          /\ planned' = "write" => kind[next] # "read"
          /\ \E r : /\ result' = [result EXCEPT ![next] = r]
                    /\ planned' = "write" => r = result[next]
      BY <1>4, <2>4 DEF Plan
    <3>2. GroupOK' /\ PlaceOK' /\ ResultOK'
      BY <1>0, <1>1, <2>1, <3>1 DEF Domains, GroupOK, PlaceOK, ResultOK, LoopVars, Active
    <3>3. /\ DOMAIN result' = Calls
          /\ \A i \in sent \cup applied : result'[i] \notin {"notRun", "declined"}
      BY <1>0, <2>2, <3>1 DEF RunInv, Domains, SentOK
    <3> QED
      BY <1>0, <2>1, <3>1, <3>2, <3>3, LoopMoves DEF Domains
  <2> QED
    BY <2>3, <2>4
<1> QED
  BY <1>2, <1>3, <1>4

\* A turn's calls are all new.
LEMMA TurnCallsKeep ==
  ASSUME RunInv, NEW n \in Calls, NEW k \in [1..n -> Kinds], NEW lost \in SUBSET (1..n),
         TurnCalls(n, k, lost)
  PROVE  RunInv'
<1>0. Domains /\ GroupOK /\ asking = 0
  BY DEF RunInv, TurnCalls, AskOK
<1>1. /\ at = "turn" /\ at' = "plan" /\ next' = 1 /\ group' = group /\ group = {}
      /\ st' = All("new") /\ result' = All("none") /\ approval' = All("")
      /\ pinned' = All(0) /\ shown' = All(0) /\ savedAt' = All(0)
      /\ card' = All("none") /\ ask' = All("none") /\ owner' = All(0)
      /\ reply' = All("none") /\ sent' = {} /\ applied' = {} /\ yes' = {}
      /\ UNCHANGED <<planned, asking, cancelled, honest>>
      /\ DOMAIN kind' = Calls
  BY <1>0 DEF TurnCalls, GroupOK
<1>2. Domains'
  <2>1. next' \in Nat \ {0} /\ {} \subseteq Calls /\ group' = {}
    <3>1. next' = 1 /\ group' = {}
      BY <1>1
    <3> QED
      BY <3>1
  <2> QED
    BY <1>1, <2>1, AllDomain, Zenon DEF Domains
<1>3. GroupOK' /\ PlaceOK'
  <2>1. \A i \in Calls : st'[i] = "new" /\ ~(i < 1)
    <3>1. \A i \in Calls : ~(i < 1)
      BY BoundsAreNat DEF Calls
    <3>2. \A i \in Calls : st'[i] = "new"
      BY <1>1 DEF All
    <3> QED
      BY <3>1, <3>2
  <2>2. at' = "plan" /\ next' = 1 /\ group' = {}
    BY <1>1
  <2> QED
    BY <2>1, <2>2 DEF GroupOK, PlaceOK
<1>4. AskOK' /\ YesOK'
  BY <1>0, <1>1 DEF AskOK, YesOK, All
<1>5. SentOK' /\ ResultOK' /\ ShownOK'
  BY <1>1 DEF SentOK, ResultOK, ShownOK, All
<1> QED
  BY <1>2, <1>3, <1>4, <1>5 DEF RunInv
-----------------------------------------------------------------------------
(* Reads, and the calls that end without running.                          *)

\* A read starts or ends: no other call is given to ffc in a flush.
LEMMA ReadsKeep ==
  ASSUME RunInv, NEW i \in Calls, ReadStarts(i) \/ ReadEnds(i)
  PROVE  RunInv'
<1>0. /\ Domains /\ GroupOK /\ PlaceOK /\ AskOK /\ SentOK /\ i \in group /\ at = "flush"
      /\ st[i] \in {"new", "calling"}
  BY DEF RunInv, ReadStarts, ReadEnds, Running
<1>1. /\ UNCHANGED <<kind, approval, pinned, card, asking, ask, owner, reply, cancelled, honest,
                     sent, applied, savedAt, shown, yes, at, next, planned, group>>
      /\ \/ st[i] = "new" /\ st' = [st EXCEPT ![i] = "calling"] /\ result' = result
         \/ /\ st[i] = "calling" /\ st' = [st EXCEPT ![i] = "done"]
            /\ ask[i] = "none" \/ reply[i] = "decline"
            /\ \E r \in {"ok", "unknown", "error"} : result' = [result EXCEPT ![i] = r]
  BY DEF ReadStarts, ReadEnds, Running, Give, Finish, turnVars, cardVars, endVars, siteVars, saidVars
<1>2. Domains'
  BY <1>0, <1>1 DEF Domains
<1>3. GroupOK'
  BY <1>0, <1>1 DEF Domains, GroupOK
<1>4. PlaceOK'
  <2>1. i < next /\ next \in Nat /\ i \in Nat
    BY <1>0 DEF GroupOK, Domains, Calls
  <2>2. \A j \in Calls : j # i => st'[j] = st[j]
    BY <1>0, <1>1 DEF Domains
  <2>3. Size' = Size
    BY <1>1 DEF Size
  <2> QED
    BY <1>0, <1>1, <2>1, <2>2, <2>3 DEF PlaceOK
<1>5. AskOK'
  <2>1. ask[i] # "none" => reply[i] = "none" \/ cancelled
    BY <1>0 DEF AskOK
  <2> QED
    BY <1>0, <1>1, <2>1 DEF Domains, AskOK
<1>6. YesOK'
  BY <1>0, <1>1 DEF RunInv, YesOK
<1>7. SentOK'
  BY <1>0, <1>1 DEF Domains, SentOK
<1>8. ResultOK' /\ ShownOK'
  <2>1. i # next
    BY <1>0 DEF GroupOK, Domains, Calls
  <2> QED
    <3>1. ShownOK'
      BY <1>0, <1>1 DEF Domains, RunInv, ShownOK
    <3>2. ResultOK'
      <4>1. Size' = Size
        BY <1>1 DEF Size
      <4>2. ResultOK
        BY DEF RunInv
      <4> QED
        BY <1>0, <1>1, <2>1, <4>1, <4>2 DEF Domains, ResultOK
    <3> QED
      BY <3>1, <3>2
<1> QED
  BY <1>2, <1>3, <1>4, <1>5, <1>6, <1>7, <1>8 DEF RunInv

\* The call next ends: the run goes on to the one after it.  Nothing of the
\* other calls changes.
EndsNext ==
  /\ at = "handle" /\ at' = "plan" /\ next' = next + 1
  /\ st' = [st EXCEPT ![next] = "done"]
  /\ DOMAIN result' = Calls /\ DOMAIN approval' = Calls /\ DOMAIN card' = Calls
  /\ \A i \in Calls \ {next} : result'[i] = result[i] /\ approval'[i] = approval[i] /\ card'[i] = card[i]
  /\ UNCHANGED <<kind, pinned, ask, owner, reply, cancelled, honest, sent, applied, savedAt,
                 shown, yes, planned, group>>

LEMMA NextEnds ==
  ASSUME RunInv, EndsNext, asking' = 0, card'[next] \in {card[next], "none"},
         ask[next] # "none" => cancelled,
         next \in sent \cup applied =>
           /\ result'[next] \notin {"notRun", "declined"}
           /\ honest => approval'[next] \in {"approved", "ffcApproved"}
  PROVE  RunInv'
<1>0. /\ Domains /\ GroupOK /\ PlaceOK /\ AskOK /\ next \in Calls /\ next \in Nat \ {0}
      /\ \A i \in Calls : i \in Nat
  BY DEF RunInv, EndsNext, PlaceOK, Domains, Calls
<1>1. Domains'
  BY <1>0 DEF Domains, EndsNext
<1>2. GroupOK'
  BY <1>0 DEF GroupOK, EndsNext
<1>3. PlaceOK'
  <2>1. \A i \in Calls : (i < next + 1 => st'[i] = "done") /\ (i >= next + 1 => st'[i] = "new")
    BY <1>0 DEF PlaceOK, EndsNext, Domains
  <2> QED
    BY <1>0, <2>1 DEF PlaceOK, EndsNext
<1>4. AskOK'
  BY <1>0 DEF AskOK, EndsNext, Domains
<1>5. YesOK'
  BY <1>0 DEF RunInv, YesOK, EndsNext
<1>6. SentOK'
  BY <1>0 DEF RunInv, SentOK, EndsNext, Domains
<1>7. ResultOK' /\ ShownOK'
  BY <1>0 DEF RunInv, ResultOK, ShownOK, EndsNext, Domains
<1> QED
  BY <1>1, <1>2, <1>3, <1>4, <1>5, <1>6, <1>7 DEF RunInv

LEMMA NotRunKeeps ==
  ASSUME RunInv, at = "handle", st[next] \in {"new", "preread", "card"},
         NEW res, NEW appr, NotRun(res, appr),
         card' = card \/ card' = [card EXCEPT ![next] = "none"]
  PROVE  RunInv'
<1>0. /\ Domains /\ next \in Calls /\ next \notin sent \cup applied /\ asking = 0
      /\ ask[next] = "none"
  BY DEF RunInv, PlaceOK, SentOK, AskOK
<1>1. EndsNext /\ asking' = asking
  BY <1>0 DEF NotRun, Finish, Proceed, EndsNext, Domains, siteVars, saidVars
<1>2. card'[next] \in {card[next], "none"}
  BY <1>0 DEF Domains
<1> QED
  BY <1>0, <1>1, <1>2, NextEnds

LEMMA EndsKeep ==
  ASSUME RunInv,
         \/ HandleDone \/ WriteStopped \/ PreReadFails \/ CardRefused \/ CallOk \/ CallFails
  PROVE  RunInv'
<1>0. /\ Domains /\ PlaceOK /\ AskOK /\ SentOK /\ at = "handle" /\ next \in Calls
  BY DEF RunInv, PlaceOK, HandleDone, WriteStopped, PreReadFails, CardRefused, CallOk, CallFails,
         Writing
<1>1. CASE HandleDone
  <2>1. st[next] = "new" /\ asking = 0 /\ ask[next] = "none" /\ next \notin sent \cup applied
    BY <1>0, <1>1 DEF HandleDone, PlaceOK, AskOK, SentOK
  <2>2. EndsNext /\ UNCHANGED <<asking, card>>
    BY <1>0, <1>1 DEF HandleDone, Finish, Proceed, EndsNext, Domains, cardVars, siteVars, saidVars
  <2> QED
    BY <2>1, <2>2, NextEnds
<1>2. CASE WriteStopped \/ PreReadFails \/ CardRefused
  <2>1. st[next] \in {"new", "preread", "card"}
    BY <1>2 DEF WriteStopped, PreReadFails, CardRefused, Writing
  <2>2. card' = card \/ card' = [card EXCEPT ![next] = "none"]
    BY <1>2 DEF WriteStopped, PreReadFails, CardRefused
  <2>3. \E res, appr : NotRun(res, appr)
    BY <1>2 DEF WriteStopped, PreReadFails, CardRefused
  <2> QED
    BY <1>0, <2>1, <2>2, <2>3, NotRunKeeps
<1>3. ASSUME NEW res \in {"ok", "unknown", "error"}, Writing("calling"), WriteEnds(res),
             ask[next] # "none" => cancelled
      PROVE  RunInv'
  <2>1. EndsNext /\ asking' = 0 /\ card' = card
    BY <1>0, <1>3 DEF WriteEnds, Finish, Proceed, EndsNext, Domains, siteVars, saidVars
  <2>2. result'[next] \in {"ok", "unknown", "error", "unasked"}
    BY <1>0, <1>3 DEF WriteEnds, Domains
  <2>3. approval[next] # "" => approval'[next] = approval[next]
    BY <1>0, <1>3 DEF WriteEnds, Domains
  <2> QED
    BY <1>0, <1>3, <2>1, <2>2, <2>3, NextEnds DEF SentOK
<1>4. CASE CallOk
  BY <1>0, <1>3, <1>4 DEF CallOk, SentOK
<1>5. CASE CallFails
  <2>1. ask[next] # "none" => cancelled
    BY <1>0, <1>5 DEF CallFails, AskOK
  <2> QED
    BY <1>3, <1>5, <2>1 DEF CallFails
<1> QED
  BY <1>1, <1>2, <1>4, <1>5
-----------------------------------------------------------------------------
(* A change on its way to ffc.                                             *)

\* The call next moves on, and stays the one that runs.
MovesNext(to) ==
  /\ at = "handle" /\ planned = "write" /\ at' = at
  /\ st[next] \in {"new", "preread", "card"} /\ to \in {"preread", "card", "calling"}
  /\ st' = [st EXCEPT ![next] = to]
  /\ UNCHANGED <<next, planned, group, result, ask, owner, reply, cancelled, honest, sent,
                 applied, savedAt, yes>>

LEMMA NextMoves ==
  ASSUME RunInv, NEW to, MovesNext(to), DOMAIN kind' = Calls, DOMAIN card' = Calls,
         \A i \in Calls \ {next} : kind'[i] = kind[i],
         kind'[next] # "read" \/ kind'[next] = kind[next], Size' = Size,
         to # "calling" => asking' = asking, to = "calling" => asking' = next,
         st[next] = "new" => ~cancelled, to = "preread" => kind'[next] = "update"
  PROVE  GroupOK' /\ PlaceOK' /\ AskOK' /\ ResultOK'
<1>0. /\ Domains /\ GroupOK /\ PlaceOK /\ AskOK /\ next \in Calls
      /\ \A i \in Calls : i # next => st[i] \notin {"calling"}
  BY DEF RunInv, PlaceOK, MovesNext, Domains, Calls
<1>1. GroupOK'
  BY <1>0 DEF GroupOK, MovesNext
<1>2. PlaceOK'
  <2>1. next <= Size => kind[next] # "read"
    BY <1>0 DEF PlaceOK, MovesNext
  <2> QED
    BY <1>0, <2>1 DEF PlaceOK, MovesNext, Domains
<1>3. AskOK'
  <2>1. ask[next] = "none" /\ reply[next] = "none" /\ asking = 0
    BY <1>0 DEF AskOK, MovesNext
  <2>2. \A i \in Calls \ {next} : ask[i] = "none"
    BY <1>0 DEF AskOK, MovesNext
  <2> QED
    BY <1>0, <2>1, <2>2 DEF AskOK, MovesNext, Domains
<1>4. ResultOK'
  BY <1>0 DEF RunInv, ResultOK, MovesNext, Domains
<1> QED
  BY <1>1, <1>2, <1>3, <1>4

LEMMA StartsKeep ==
  ASSUME RunInv, WriteStarts \/ PreRead \/ CardApproved
  PROVE  RunInv'
<1>0. /\ Domains /\ PlaceOK /\ AskOK /\ YesOK /\ SentOK /\ ShownOK /\ next \in Calls /\ at = "handle"
      /\ st[next] \in {"new", "preread", "card"} /\ next \notin sent \cup applied
      /\ ask[next] = "none" /\ reply[next] = "none"
  BY DEF RunInv, PlaceOK, SentOK, AskOK, WriteStarts, PreRead, CardApproved, Writing
<1>1. CASE WriteStarts
  <2>1. PICK to \in {"preread", "card", "calling"} :
          /\ MovesNext(to) /\ UNCHANGED <<kind, approval, pinned, shown>>
          /\ st[next] = "new" /\ ~cancelled
          /\ to # "calling" => asking' = asking
          /\ to = "calling" => asking' = next /\ kind[next] = "willAsk"
          /\ \/ card' = card
             \/ \E x \in {card[next], "pending"} : card' = [card EXCEPT ![next] = x]
          /\ to = "preread" => kind[next] = "update"
    <3>1. /\ st[next] = "new" /\ ~cancelled /\ planned = "write"
          /\ UNCHANGED <<kind, approval, pinned, shown, at, next, planned, group, result, ask,
                         owner, reply, cancelled, honest, sent, applied, savedAt, yes>>
      BY <1>1 DEF WriteStarts, Writing, turnVars, endVars, siteVars
    <3>2. CASE kind[next] = "willAsk"
      BY <1>0, <1>1, <3>1, <3>2 DEF WriteStarts, Give, MovesNext
    <3>3. CASE kind[next] # "willAsk" /\ kind[next] # "update"
      BY <1>0, <1>1, <3>1, <3>3 DEF WriteStarts, MovesNext
    <3>4. CASE kind[next] = "update"
      <4>1. card' = [card EXCEPT ![next] = card[next]]
        BY <1>0, <1>1, <3>4 DEF WriteStarts, Domains
      <4> QED
        BY <1>0, <1>1, <3>1, <3>4, <4>1 DEF WriteStarts, MovesNext
    <3> QED
      BY <3>2, <3>3, <3>4
  <2>2. Size' = Size
    BY <2>1 DEF Size
  <2>3. Domains'
    BY <1>0, <2>1 DEF Domains, MovesNext
  <2>4. GroupOK' /\ PlaceOK' /\ AskOK' /\ ResultOK'
    BY <1>0, <2>1, <2>2, <2>3, NextMoves DEF Domains
  <2>5. YesOK'
    BY <1>0, <2>1 DEF YesOK, MovesNext, Domains
  <2>6. SentOK'
    BY <1>0, <2>1 DEF SentOK, MovesNext, Domains
  <2>7. ShownOK'
    BY <1>0, <2>1 DEF ShownOK, MovesNext, Domains
  <2> QED
    BY <2>3, <2>4, <2>5, <2>6, <2>7 DEF RunInv
<1>2. CASE PreRead /\ UNCHANGED kind
  <2>1. /\ MovesNext("card") /\ UNCHANGED <<kind, approval, asking>>
        /\ st[next] = "preread"
        /\ card' = [card EXCEPT ![next] = "pending"]
        /\ \E v \in {ver, 0} : /\ shown' = [shown EXCEPT ![next] = v]
                               /\ pinned' = [pinned EXCEPT ![next] = v]
    <3>1. kind[next] = "update" /\ next \in DOMAIN kind
      BY <1>0, <1>2 DEF PreRead, Writing, PlaceOK, Domains
    <3>2. kind' # [kind EXCEPT ![next] = "willAsk"]
      BY <1>2, <3>1
    <3> QED
      BY <1>0, <1>2, <3>2 DEF PreRead, Pins, Writing, MovesNext, endVars, siteVars
  <2>2. Size' = Size
    BY <2>1 DEF Size
  <2>3. Domains'
    BY <1>0, <2>1 DEF Domains, MovesNext
  <2>4. GroupOK' /\ PlaceOK' /\ AskOK' /\ ResultOK'
    BY <1>0, <2>1, <2>2, <2>3, NextMoves DEF Domains
  <2>5. YesOK'
    BY <1>0, <2>1 DEF YesOK, MovesNext, Domains
  <2>6. SentOK'
    BY <1>0, <2>1 DEF SentOK, MovesNext, Domains
  <2>7. ShownOK'
    BY <1>0, <2>1 DEF ShownOK, MovesNext, Domains
  <2> QED
    BY <2>3, <2>4, <2>5, <2>6, <2>7 DEF RunInv
<1>3. CASE PreRead /\ ~UNCHANGED kind
  <2>1. /\ MovesNext("calling") /\ UNCHANGED <<approval, card, shown>> /\ asking' = next
        /\ st[next] = "preread" /\ kind' = [kind EXCEPT ![next] = "willAsk"]
        /\ \E v \in {ver, 0} : pinned' = [pinned EXCEPT ![next] = v]
    BY <1>0, <1>3 DEF PreRead, Pins, Writing, Give, MovesNext, endVars, siteVars
  <2>2. Size' = Size
    <3>1. {i \in Calls : kind'[i] # "none"} = {i \in Calls : kind[i] # "none"}
      BY <1>0, <2>1 DEF Domains, PlaceOK
    <3> QED
      BY <3>1 DEF Size
  <2>3. Domains'
    BY <1>0, <2>1 DEF Domains, MovesNext
  <2>4. GroupOK' /\ PlaceOK' /\ AskOK' /\ ResultOK'
    BY <1>0, <2>1, <2>2, <2>3, NextMoves DEF Domains
  <2>5. YesOK'
    BY <1>0, <2>1 DEF YesOK, MovesNext, Domains
  <2>6. SentOK'
    BY <1>0, <2>1 DEF SentOK, MovesNext, Domains
  <2>7. ShownOK'
    BY <1>0, <2>1 DEF ShownOK, MovesNext, Domains
  <2> QED
    BY <2>3, <2>4, <2>5, <2>6, <2>7 DEF RunInv
<1>4. CASE CardApproved
  <2>1. /\ MovesNext("calling") /\ UNCHANGED <<kind, pinned, shown>> /\ asking' = next
        /\ st[next] = "card" /\ card[next] = "yes"
        /\ card' = [card EXCEPT ![next] = "none"]
        /\ approval' = [approval EXCEPT ![next] = "approved"]
    BY <1>0, <1>4 DEF CardApproved, Writing, Give, MovesNext, turnVars, endVars, siteVars
  <2>2. Size' = Size
    BY <2>1 DEF Size
  <2>3. Domains'
    BY <1>0, <2>1 DEF Domains, MovesNext
  <2>4. GroupOK' /\ PlaceOK' /\ AskOK' /\ ResultOK'
    BY <1>0, <2>1, <2>2, <2>3, NextMoves DEF Domains
  <2>5. YesOK'
    BY <1>0, <2>1 DEF YesOK, MovesNext, Domains
  <2>6. SentOK'
    BY <1>0, <2>1 DEF SentOK, MovesNext, Domains
  <2>7. ShownOK'
    BY <1>0, <2>1 DEF ShownOK, MovesNext, Domains
  <2> QED
    BY <2>3, <2>4, <2>5, <2>6, <2>7 DEF RunInv
<1> QED
  BY <1>1, <1>2, <1>3, <1>4
-----------------------------------------------------------------------------
(* ffc's questions, the site, and the user.                                *)

\* A step outside the loop: no call moves.
StillVars == <<kind, at, next, planned, group, st, result, pinned, asking, honest, shown>>

LEMMA Stays ==
  ASSUME RunInv, UNCHANGED StillVars
  PROVE  GroupOK' /\ PlaceOK' /\ ResultOK'
<1>1. Size' = Size
  BY DEF Size, StillVars
<1>2. GroupOK' /\ ResultOK'
  BY <1>1 DEF RunInv, GroupOK, ResultOK, StillVars
<1>3. PlaceOK'
  BY <1>1 DEF RunInv, PlaceOK, StillVars, Active
<1> QED
  BY <1>2, <1>3

\* In the course of a change, only it has a question that is open.
LEMMA AskedIsNext ==
  ASSUME RunInv, NEW i \in Calls, at = "handle", st[next] = "calling",
         ask[i] # "none" \/ st[i] = "calling"
  PROVE  i = next
<1>1. next \in Nat /\ i \in Nat
  BY DEF RunInv, Domains, Calls
<1> QED
  BY <1>1 DEF RunInv, AskOK, PlaceOK

LEMMA ElicitOpensKeeps ==
  ASSUME RunInv, NEW i \in Calls, ElicitOpens(i)
  PROVE  RunInv'
<1>0. Domains /\ AskOK /\ YesOK /\ SentOK /\ ShownOK /\ ask[i] = "called"
  BY DEF RunInv, ElicitOpens
<1>1. UNCHANGED <<StillVars, approval, reply, cancelled, sent, applied, savedAt, yes>>
  BY DEF ElicitOpens, StillVars, turnVars, endVars, siteVars, saidVars
<1>2. \/ /\ ask' = [ask EXCEPT ![i] = "decline"] /\ UNCHANGED <<card, owner>>
      \/ /\ asking # 0 /\ ask' = [ask EXCEPT ![i] = "waiting"]
         /\ owner' = [owner EXCEPT ![i] = asking]
         /\ card' = [card EXCEPT ![asking] = "pending"]
  BY DEF ElicitOpens
<1>3. asking # 0 => asking = i
  BY <1>0, AskedIsNext DEF AskOK
<1>4. at = "handle" /\ st[next] = "calling" => i = next
  BY <1>0, AskedIsNext
<1>5. Domains'
  BY <1>0, <1>1, <1>2 DEF Domains, StillVars
<1>6. AskOK'
  BY <1>0, <1>1, <1>2, <1>3 DEF AskOK, Domains, StillVars
<1>7. YesOK'
  BY <1>0, <1>1, <1>2, <1>3, <1>4 DEF YesOK, Domains, StillVars
<1>8. SentOK'
  BY <1>0, <1>1, <1>2 DEF SentOK, Domains, StillVars
<1>9. ShownOK'
  BY <1>0, <1>1 DEF ShownOK, StillVars
<1> QED
  BY <1>1, <1>5, <1>6, <1>7, <1>8, <1>9, Stays DEF RunInv

LEMMA ElicitedKeeps ==
  ASSUME RunInv, NEW i \in Calls, ElicitApproved(i) \/ ElicitDeclined(i) \/ ElicitCancelled(i)
  PROVE  RunInv'
<1>0. /\ Domains /\ AskOK /\ YesOK /\ SentOK /\ ShownOK /\ ask[i] = "waiting" /\ owner[i] = i
      /\ i \notin sent \cup applied /\ reply[i] # "accept"
  BY DEF RunInv, ElicitApproved, ElicitDeclined, ElicitCancelled, AskOK, SentOK
<1>1. UNCHANGED <<StillVars, owner, reply, cancelled, sent, applied, savedAt, yes>>
  BY DEF ElicitApproved, ElicitDeclined, ElicitCancelled, Elicited, StillVars, turnVars, endVars,
         siteVars, saidVars
<1>2. PICK answer, appr :
        /\ ask' = [ask EXCEPT ![i] = answer] /\ approval' = [approval EXCEPT ![i] = appr]
        /\ card' = [card EXCEPT ![i] = "none"]
        /\ answer = "decline" \/ (answer = "accept" /\ appr = "ffcApproved" /\ card[i] = "yes")
  BY <1>0 DEF ElicitApproved, ElicitDeclined, ElicitCancelled, Elicited
<1>3. at = "handle" /\ st[next] = "calling" => i = next
  BY <1>0, AskedIsNext
<1>4. Domains'
  BY <1>0, <1>1, <1>2 DEF Domains, StillVars
<1>5. AskOK'
  BY <1>0, <1>1, <1>2 DEF AskOK, Domains, StillVars
<1>6. YesOK'
  BY <1>0, <1>1, <1>2, <1>3 DEF YesOK, Domains, StillVars
<1>7. SentOK'
  BY <1>0, <1>1, <1>2 DEF SentOK, Domains, StillVars
<1>8. ShownOK'
  BY <1>0, <1>1 DEF ShownOK, StillVars
<1> QED
  BY <1>1, <1>4, <1>5, <1>6, <1>7, <1>8, Stays DEF RunInv

\* What ffc is told, and what it asks again.
LEMMA RepliesKeep ==
  ASSUME RunInv, NEW i \in Calls,
         EngineReplies(i) \/ EngineGivesUp(i) \/ FfcAsks(i) \/ FfcAsksAgain(i)
  PROVE  RunInv'
<1>0. /\ Domains /\ AskOK /\ YesOK /\ SentOK /\ ShownOK
      /\ ask[i] # "none" \/ st[i] = "calling"
  BY DEF RunInv, EngineReplies, EngineGivesUp, FfcAsks, FfcAsksAgain
<1>1. UNCHANGED <<StillVars, approval, card, owner, cancelled, sent, applied, savedAt, yes>>
  BY DEF EngineReplies, EngineGivesUp, FfcAsks, FfcAsksAgain, StillVars, turnVars, endVars, siteVars,
         saidVars
<1>2. i \notin sent \cup applied
  BY <1>0 DEF EngineReplies, EngineGivesUp, FfcAsks, FfcAsksAgain, SentOK
<1>3. PICK a, r :
        /\ DOMAIN ask' = Calls /\ DOMAIN reply' = Calls
        /\ \A j \in Calls \ {i} : ask'[j] = ask[j] /\ reply'[j] = reply[j]
        /\ ask'[i] = a /\ reply'[i] = r
        /\ \/ a = "none" /\ ask[i] \in {"accept", "decline"} /\ r = "decline"
           \/ a = "none" /\ ask[i] = "accept" /\ r = "accept"
           \/ ask[i] # "none" /\ a = ask[i] /\ r = "decline" /\ cancelled
           \/ a = "called" /\ st[i] = "calling" /\ ask[i] = "none" /\ r = "none"
  <2>1. CASE EngineReplies(i)
    <3>1. reply[i] # "none" => cancelled /\ reply[i] = "decline"
      BY <1>0, <2>1 DEF EngineReplies, AskOK
    <3> QED
      BY <1>0, <2>1, <3>1 DEF EngineReplies, Domains
  <2>2. CASE EngineGivesUp(i)
    BY <1>0, <2>2 DEF EngineGivesUp, Domains
  <2>3. CASE FfcAsks(i)
    BY <1>0, <2>3 DEF FfcAsks, Domains
  <2>4. CASE FfcAsksAgain(i)
    BY <1>0, <2>4 DEF FfcAsksAgain, Domains
  <2> QED
    BY <2>1, <2>2, <2>3, <2>4
<1>4. at = "handle" /\ st[next] # "new" => i = next
  <2> SUFFICES ASSUME at = "handle", st[next] # "new"
               PROVE  i = next
    OBVIOUS
  <2>1. next \in Nat /\ i \in Nat
    BY <1>0 DEF Domains, Calls
  <2> QED
    BY <1>0, <2>1 DEF RunInv, AskOK, PlaceOK
<1>5. Domains'
  BY <1>0, <1>1, <1>3 DEF Domains, StillVars
<1>6. AskOK'
  BY <1>0, <1>1, <1>3, <1>4 DEF AskOK, StillVars
<1>7. YesOK'
  BY <1>0, <1>1, <1>3, <1>4 DEF YesOK, StillVars
<1>8. SentOK'
  BY <1>0, <1>1, <1>2, <1>3 DEF SentOK, Domains, StillVars
<1>9. ShownOK'
  BY <1>0, <1>1 DEF ShownOK, StillVars
<1> QED
  BY <1>1, <1>5, <1>6, <1>7, <1>8, <1>9, Stays DEF RunInv

\* A change that is sent is the one that runs, and has its yes.
LEMMA SiteKeeps ==
  ASSUME RunInv, NEW i \in Calls, FfcSends(i) \/ SiteApplies(i)
  PROVE  RunInv'
<1>0. Domains /\ PlaceOK /\ AskOK /\ YesOK /\ SentOK /\ ShownOK
  BY DEF RunInv
<1>1. UNCHANGED <<StillVars, approval, card, ask, owner, reply, cancelled, yes>>
  BY DEF FfcSends, SiteApplies, StillVars, turnVars, cardVars, endVars, saidVars
<1>2. AskOK' /\ YesOK'
  BY <1>0, <1>1 DEF AskOK, YesOK, StillVars
<1>3. CASE FfcSends(i)
  <2>1. /\ at = "handle" /\ st[i] = "calling" /\ ask[i] = "none" /\ reply[i] # "decline"
        /\ honest /\ kind[i] = "willAsk" => reply[i] = "accept"
        /\ sent' = sent \cup {i} /\ UNCHANGED <<applied, savedAt>>
    BY <1>3 DEF FfcSends
  <2>2. i = next
    <3>1. next \in Nat /\ i \in Nat
      BY <1>0 DEF Domains, Calls
    <3> QED
      BY <1>0, <2>1, <3>1 DEF PlaceOK
  <2>3. reply[i] \in {"none", "accept"} /\ result[i] \notin {"notRun", "declined"}
    BY <1>0, <2>1 DEF RunInv, ResultOK, AskOK
  <2>4. honest => i \in yes /\ approval[i] \in {"approved", "ffcApproved"}
    BY <1>0, <2>1, <2>2, <2>3 DEF YesOK
  <2>5. SentOK'
    BY <1>0, <1>1, <2>1, <2>3, <2>4 DEF SentOK, StillVars
  <2>6. Domains' /\ ShownOK'
    BY <1>0, <1>1, <2>1 DEF Domains, ShownOK, StillVars
  <2> QED
    BY <1>1, <1>2, <2>5, <2>6, Stays DEF RunInv
<1>4. CASE SiteApplies(i)
  <2>1. /\ i \in sent /\ (pinned[i] # 0 => pinned[i] = ver)
        /\ sent' = sent \ {i} /\ applied' = applied \cup {i}
        /\ savedAt' = [savedAt EXCEPT ![i] = ver]
    BY <1>4 DEF SiteApplies
  <2>2. Domains' /\ SentOK'
    BY <1>0, <1>1, <2>1 DEF Domains, SentOK, StillVars
  <2>3. ShownOK'
    BY <1>0, <1>1, <2>1 DEF Domains, ShownOK, StillVars
  <2> QED
    BY <1>1, <1>2, <2>2, <2>3, Stays DEF RunInv
<1> QED
  BY <1>3, <1>4

LEMMA PeopleKeep ==
  ASSUME RunInv,
         Cancel \/ SavedElsewhere \/ \E i \in Calls, ok \in BOOLEAN : Answer(i, ok)
  PROVE  RunInv'
<1>0. Domains /\ AskOK /\ YesOK /\ SentOK /\ ShownOK
  BY DEF RunInv
<1>1. /\ UNCHANGED <<StillVars, approval, ask, owner, reply, sent, applied, savedAt>>
      /\ cancelled => cancelled'
      /\ \/ UNCHANGED <<card, yes>>
         \/ \E i \in Calls : card' = [card EXCEPT ![i] = "yes"] /\ yes' = yes \cup {i}
         \/ \E i \in Calls : card' = [card EXCEPT ![i] = "no"] /\ yes' = yes
  BY DEF Cancel, SavedElsewhere, Answer, StillVars, turnVars, cardVars, endVars, siteVars, saidVars
<1>2. Domains'
  BY <1>0, <1>1 DEF Domains, StillVars
<1>3. AskOK'
  BY <1>0, <1>1 DEF AskOK, StillVars
<1>4. YesOK'
  BY <1>0, <1>1 DEF YesOK, Domains, StillVars
<1>5. SentOK' /\ ShownOK'
  BY <1>0, <1>1 DEF SentOK, ShownOK, StillVars
<1> QED
  BY <1>1, <1>2, <1>3, <1>4, <1>5, Stays DEF RunInv

LEMMA StepKeeps == RunInv /\ [Next]_vars => RunInv'
<1> SUFFICES ASSUME RunInv, [Next]_vars
             PROVE  RunInv'
  OBVIOUS
<1>1. CASE Loop
  <2>1. ASSUME NEW n \in Calls, NEW k \in [1..n -> Kinds], NEW lost \in SUBSET (1..n),
               TurnCalls(n, k, lost)
        PROVE  RunInv'
    BY <2>1, TurnCallsKeep
  <2> QED
    BY <1>1, <2>1, TurnsKeep, PlansKeep, EndsKeep, ReadsKeep DEF Loop
<1>2. CASE Write
  BY <1>2, EndsKeep, StartsKeep DEF Write
<1>3. CASE Outside
  BY <1>3, RepliesKeep, SiteKeeps, PeopleKeep DEF Outside
<1>4. ASSUME NEW i \in Calls, Elicitor(i)
      PROVE  RunInv'
  BY <1>4, ElicitOpensKeeps, ElicitedKeeps, RepliesKeep DEF Elicitor
<1>5. CASE UNCHANGED vars
  <2>1. UNCHANGED <<StillVars, approval, card, ask, owner, reply, cancelled, sent, applied, savedAt,
                    yes>>
    BY <1>5 DEF vars, StillVars, turnVars, cardVars, endVars, siteVars, saidVars
  <2>2. Domains' /\ AskOK' /\ YesOK' /\ SentOK' /\ ShownOK'
    BY <2>1 DEF RunInv, Domains, AskOK, YesOK, SentOK, ShownOK, StillVars
  <2> QED
    BY <2>1, <2>2, Stays DEF RunInv
<1> QED
  BY <1>1, <1>2, <1>3, <1>4, <1>5 DEF Next

\* The state of the run's goroutine, of its cards and of ffc's questions is
\* consistent, whatever the user, the site and other people do meanwhile.
THEOREM InvHolds == Spec => []RunInv
BY InitRun, StepKeeps, PTL DEF Spec

\* Every change on the site is one the user approved, and a shown update is
\* made to the version that was shown (assistant_approval.go, execute in
\* assistant_loop.go, Elicit in engine.go).
THEOREM YesBeforeWrite == Spec => []NoWriteWithoutYes
<1>1. RunInv => NoWriteWithoutYes
  BY DEF RunInv, SentOK, ShownOK, NoWriteWithoutYes
<1> QED
  BY <1>1, InvHolds, PTL

\* What the run records of a call is true of the site (runWrite).
THEOREM RecordsTrue == Spec => []RecordIsTrue
<1>1. RunInv => RecordIsTrue
  BY DEF RunInv, SentOK, RecordIsTrue
<1> QED
  BY <1>1, InvHolds, PTL

\* A change runs alone in its turn (execute).
THEOREM AloneInTurn == Spec => []ChangesRunAlone
<1>1. RunInv => ChangesRunAlone
  <2> SUFFICES ASSUME RunInv, NEW i \in Calls, Active(i), kind[i] # "read", NEW j \in Calls
               PROVE  (j < i => st[j] = "done") /\ (j > i => st[j] = "new")
    BY DEF ChangesRunAlone, Active
  <2>1. i \in Nat /\ next \in Nat
    BY DEF RunInv, Domains, Calls
  <2>2. at = "handle"
    BY <2>1 DEF RunInv, PlaceOK, GroupOK, Active
  <2>3. i = next
    BY <2>1, <2>2 DEF RunInv, PlaceOK, Active
  <2> QED
    BY <2>2, <2>3 DEF RunInv, PlaceOK
<1> QED
  BY <1>1, InvHolds, PTL

-----------------------------------------------------------------------------
(* What the check before a call says of what the call does. *)

(* A call of the tools' argument schemas (ScenesAssumption). *)
Formed(c) ==
  /\ c.tool \in Tools
  /\ c.method # "" => c.tool = "call_method"
  /\ c.method \in {"frappe.share.add", "add_comment"} => "table" \notin c.opts

LEMMA WriteIsMore ==
  ASSUME NEW p, NEW dt, DoctypeAllowed(p, dt, TRUE)
  PROVE  DoctypeAllowed(p, dt, FALSE)
  BY DEF DoctypeAllowed

LEMMA ScopeAllowed ==
  ASSUME NEW p, NEW c, Check(p, ScopeOf(c)), c.tool # "restore_doc",
         NEW dt \in ScopeOf(c).doctypes
  PROVE  /\ DoctypeAllowed(p, dt, FALSE)
         /\ c.tool \notin ReadTools => DoctypeAllowed(p, dt, TRUE)
<1>1. ScopeOf(c).tool = c.tool
  BY DEF ScopeOf
<1>2. DoctypeAllowed(p, dt, c.tool \notin ReadTools)
  BY <1>1 DEF Check, CheckDoctypes
<1>3. CASE c.tool \in ReadTools
  <2>1. (c.tool \notin ReadTools) = FALSE
    BY <1>3
  <2> QED BY <1>2, <1>3, <2>1
<1>4. CASE c.tool \notin ReadTools
  <2>1. (c.tool \notin ReadTools) = TRUE
    BY <1>4
  <2> QED BY <1>2, <1>4, <2>1, WriteIsMore
<1> QED BY <1>3, <1>4

(* The parts of what a call's scope names. *)
LEMMA ScopeParts ==
  ASSUME NEW c
  PROVE  /\ ToolDoctypes(c) \cup FilterTables(c) \cup Beside(c.tool) \cup ErpDoctypes(c)
              \subseteq ScopeOf(c).doctypes
         /\ c.tool \notin {"erp_item", "erp_party"} => Named(c) \subseteq ScopeOf(c).doctypes
         /\ CommentSavesFiles(c) /\ Beside(c.tool) \cup ToolDoctypes(c) # {}
              => "File" \in ScopeOf(c).doctypes
<1> DEFINE N == NamedDoctypes(c) \cup ToolDoctypes(c) \cup FilterTables(c)
                  \cup Beside(c.tool) \cup ErpDoctypes(c)
<1>1. ScopeOf(c).doctypes = N \cup (IF N # {} /\ CommentSavesFiles(c) THEN {"File"} ELSE {})
  BY DEF ScopeOf
<1>2. c.tool \notin {"erp_item", "erp_party"} => NamedDoctypes(c) = Named(c)
  BY DEF NamedDoctypes, Named
<1> QED BY <1>1, <1>2

(* Without DocType rules, every DocType may be read. *)
LEMMA NoRulesAllow ==
  ASSUME NEW p, ~HasDoctypeRules(p), NEW dt
  PROVE  DoctypeAllowed(p, dt, FALSE)
  BY DEF HasDoctypeRules, DoctypeAllowed, DoctypeDenied, Passes

(* What filters and fields reach. *)
LEMMA ReachAllowed ==
  ASSUME NEW p, NEW c, Check(p, ScopeOf(c)), c.tool \in QueryTools \cup {"call_method"},
         NEW dt \in Reached(c)
  PROVE  DoctypeAllowed(p, dt, FALSE)
<1>1. CASE "join" \in c.opts
  <2>1. ScopeOf(c).joins
    BY <1>1 DEF ScopeOf
  <2> QED BY <2>1, NoRulesAllow DEF Check, CheckQueryFields
<1>2. CASE "join" \notin c.opts
  <2>1. dt \in FilterTables(c)
    BY <1>2 DEF Reached, FilterTables
  <2> QED BY <2>1, ScopeParts, ScopeAllowed DEF QueryTools
<1> QED BY <1>1, <1>2

(* What a call may do: show what may be read, write what may be written, and  *)
(* under read-only nothing.                                                   *)
MayDo(p, c, e) ==
  /\ \A dt \in e.show : DoctypeAllowed(p, dt, FALSE)
  /\ \A dt \in e.write \ {"Prepared Report"} : DoctypeAllowed(p, dt, TRUE)
  /\ ReadOnly(p) => e.write = {}

LEMMA WritesNotReadOnly ==
  ASSUME NEW p, NEW c, Check(p, ScopeOf(c)), c.tool \notin ReadTools
  PROVE  ~ReadOnly(p)
  BY DEF Check, ToolAllowed, ScopeOf

LEMMA KeptIsAllowed ==
  ASSUME NEW p, NEW D, NEW dt \in FilterDoctypes(p, D)
  PROVE  DoctypeAllowed(p, dt, FALSE)
  BY DEF FilterDoctypes

LEMMA NamedAllowed ==
  ASSUME NEW p, NEW c, Check(p, ScopeOf(c)),
         c.tool \notin {"restore_doc", "erp_item", "erp_party"}, NEW dt \in Named(c)
  PROVE  /\ DoctypeAllowed(p, dt, FALSE)
         /\ c.tool \notin ReadTools => DoctypeAllowed(p, dt, TRUE)
  BY ScopeParts, ScopeAllowed

(* The tools that read what their arguments name. *)
LEMMA QueryAllowed ==
  ASSUME NEW p, NEW c, Check(p, ScopeOf(c)), c.tool \in QueryTools, Valid(c)
  PROVE  MayDo(p, c, QueryReads(c))
<1>1. c.doctype # ""
  BY DEF Valid, QueryTools, OptionalDoctype, NoDoctype
<1>2. QueryReads(c).show = {c.doctype} \cup Reached(c) /\ QueryReads(c).write = {}
  BY DEF QueryReads, Effect
<1>3. c.doctype \in Named(c)
  BY <1>1 DEF Named
<1>4. DoctypeAllowed(p, c.doctype, FALSE)
  BY <1>3, NamedAllowed DEF QueryTools
<1> QED BY <1>2, <1>4, ReachAllowed DEF MayDo

LEMMA OneAllowed ==
  ASSUME NEW p, NEW c, Check(p, ScopeOf(c)),
         c.tool \in {"get_doc", "get_schema", "check_permission", "get_transitions",
                    "get_print_html"}
  PROVE  MayDo(p, c, ReadsOne(c))
<1>1. ReadsOne(c).show = Named(c) /\ ReadsOne(c).write = {}
  BY DEF ReadsOne, Effect
<1> QED BY <1>1, NamedAllowed DEF MayDo

LEMMA SearchAllowed ==
  ASSUME NEW p, NEW c, Check(p, ScopeOf(c)), c.tool = "search"
  PROVE  MayDo(p, c, SearchReads(p, c))
<1>1. /\ SearchReads(p, c).write = {}
      /\ SearchReads(p, c).show = IF c.doctype # "" THEN {c.doctype} ELSE FilterDoctypes(p, c.hits)
  BY DEF SearchReads, Effect
<1>2. c.doctype # "" => DoctypeAllowed(p, c.doctype, FALSE)
  BY NamedAllowed DEF Named
<1> QED BY <1>1, <1>2, KeptIsAllowed DEF MayDo

LEMMA ContextAllowed ==
  ASSUME NEW p, NEW c, Check(p, ScopeOf(c)), c.tool = "get_doc_context", Valid(c)
  PROVE  MayDo(p, c, ContextReads(p, c))
<1>1. c.doctype # ""
  BY DEF Valid, OptionalDoctype, NoDoctype
<1>2. /\ ContextReads(p, c).write = {}
      /\ ContextReads(p, c).show = {c.doctype} \cup FilterDocContext(p, c)
  BY DEF ContextReads, Effect
<1>3. DoctypeAllowed(p, c.doctype, FALSE)
  BY <1>1, NamedAllowed DEF Named
<1>4. \A dt \in FilterDocContext(p, c) : DoctypeAllowed(p, dt, FALSE)
  BY KeptIsAllowed DEF FilterDocContext, FilterDoctypes
<1> QED BY <1>2, <1>3, <1>4 DEF MayDo

LEMMA ReportAllowed ==
  ASSUME NEW p, NEW c, Check(p, ScopeOf(c)), CheckReport(p, ScopeOf(c)),
         c.tool = "run_report"
  PROVE  MayDo(p, c, ReportRuns(p, c))
<1>1. /\ ReportRuns(p, c).show = {c.behind}
      /\ ReportRuns(p, c).write = IF PreparedMayStart(p, c) THEN {"Prepared Report"} ELSE {}
  BY DEF ReportRuns, Effect
<1>2. ScopeOf(c).report.asked /\ ScopeOf(c).report.doctype = c.behind
  BY DEF ScopeOf
<1>3. DoctypeAllowed(p, c.behind, FALSE)
  BY <1>2, NoRulesAllow DEF CheckReport
<1>4. ReadOnly(p) => ~PreparedMayStart(p, c)
  BY DEF PreparedMayStart
<1> QED BY <1>1, <1>3, <1>4 DEF MayDo

(* The tools that write. *)
LEMMA WritesAllowed ==
  ASSUME NEW p, NEW c, Check(p, ScopeOf(c)), c.tool \notin ReadTools,
         c.tool # "restore_doc", NEW e,
         e.show \subseteq ScopeOf(c).doctypes, e.write \subseteq ScopeOf(c).doctypes
  PROVE  MayDo(p, c, e)
  BY ScopeAllowed, WritesNotReadOnly DEF MayDo

(* The reading tools that show what their scope names. *)
LEMMA ReadsAllowed ==
  ASSUME NEW p, NEW c, Check(p, ScopeOf(c)), c.tool # "restore_doc", NEW e,
         e.show \subseteq ScopeOf(c).doctypes, e.write = {}
  PROVE  MayDo(p, c, e)
  BY ScopeAllowed DEF MayDo

LEMMA MethodAllows ==
  ASSUME NEW p, NEW c, Check(p, ScopeOf(c)), c.tool = "call_method", Formed(c)
  PROVE  MayDo(p, c, MethodRuns(c))
<1> DEFINE W == CASE c.method = "frappe.share.add" -> {"DocShare"}
                  [] c.method = "add_comment" -> CommentSaved(c)
                  [] c.method \in {"frappe.client.get", "frappe.client.get_time_zone"} -> {}
                  [] OTHER -> Named(c)
<1>1. MethodRuns(c).show = Named(c) \cup Reached(c) /\ MethodRuns(c).write = W
  BY DEF MethodRuns, Effect
<1>2. c.tool \notin ReadTools /\ c.tool # "restore_doc"
  BY DEF ReadTools
<1>3. \A dt \in Named(c) \cup Reached(c) : DoctypeAllowed(p, dt, FALSE)
  BY NamedAllowed, ReachAllowed
<1>4. ~ReadOnly(p)
  BY <1>2, WritesNotReadOnly
<1>5. W \subseteq ScopeOf(c).doctypes
  <2>1. CASE c.method \in {"frappe.share.add", "add_comment"}
    <3>1. FilterTables(c) = {} /\ Beside(c.tool) = {} /\ ErpDoctypes(c) = {}
      BY <2>1 DEF Formed, FilterTables, Beside, ErpDoctypes
    <3>2. AnyMatch(DocMethods, c.method) /\ ~AnyMatch(DocMethodsWithoutDoctype, c.method)
      BY <2>1 DEF AnyMatch, DocMethods, DocMethodsWithoutDoctype, Covered,
         MethodNames, ShareMethods, ClientMethods
    <3>3. ScopeOf(c).tool = "call_method" /\ ScopeOf(c).method = c.method
      BY DEF ScopeOf
    <3>4. ScopeOf(c).doctypes # {}
      BY <3>2, <3>3 DEF Check, CheckMethod
    <3>5. c.doctype # ""
      <4>1. CASE c.doctype = ""
        <5>1. NamedDoctypes(c) = {} /\ ToolDoctypes(c) = {}
          BY <4>1 DEF NamedDoctypes, ToolDoctypes
        <5>2. ScopeOf(c).doctypes = {}
          BY <3>1, <5>1 DEF ScopeOf
        <5> QED BY <3>4, <5>2
      <4> QED BY <4>1
    <3>6. ToolDoctypes(c) = ImplicitDoctypes(c.method)
      BY <3>5 DEF ToolDoctypes
    <3>7. CASE c.method = "frappe.share.add"
      BY <3>6, <3>7, ScopeParts DEF ImplicitDoctypes
    <3>8. CASE c.method = "add_comment"
      <4>1. ToolDoctypes(c) = {"Comment"}
        BY <3>6, <3>8 DEF ImplicitDoctypes
      <4>2. "data" \in c.opts => "File" \in ScopeOf(c).doctypes
        BY <3>8, <4>1, ScopeParts DEF CommentSavesFiles
      <4> QED BY <3>8, <4>1, <4>2, ScopeParts DEF CommentSaved
    <3> QED BY <2>1, <3>7, <3>8
  <2>2. CASE c.method \notin {"frappe.share.add", "add_comment"}
    BY <2>2, ScopeParts
  <2> QED BY <2>1, <2>2
<1>6. \A dt \in W : DoctypeAllowed(p, dt, TRUE)
  BY <1>2, <1>5, ScopeAllowed
<1> HIDE DEF W
<1> QED BY <1>1, <1>3, <1>4, <1>6 DEF MayDo

LEMMA CommentIsNamed ==
  ASSUME NEW c, c.tool = "add_comment"
  PROVE  CommentSaved(c) \subseteq ScopeOf(c).doctypes
<1>1. Beside(c.tool) = {"Comment"}
  BY DEF Beside
<1>2. "data" \in c.opts => "File" \in ScopeOf(c).doctypes
  BY <1>1, ScopeParts DEF CommentSavesFiles
<1> QED BY <1>1, <1>2, ScopeParts DEF CommentSaved

CoreReads == {"list_sites", "ping", "list_doctypes", "list_reports"}
CoreWrites == {"create_doc", "update_doc", "delete_doc", "bulk_create", "bulk_update",
               "bulk_delete"}
LifecycleWrites == {"submit_doc", "cancel_doc", "bulk_submit", "bulk_cancel",
                    "amend_doc", "copy_doc", "rename_doc", "apply_workflow"}
CollabTools == {"add_comment", "assign_to", "remove_assignment", "add_tag", "remove_tag"}
AdminReads == {"site_health", "list_jobs", "scheduler_status"}
Lists == {"get_doc", "get_schema", "check_permission"}

LEMMA AllTools ==
  Tools = QueryTools \cup Lists \cup {"search", "get_doc_context", "run_report", "whoami",
            "call_method", "get_transitions", "restore_doc", "share_doc", "unshare_doc",
            "list_errors", "attach_file", "list_attachments", "get_print_html"}
          \cup CoreReads \cup CoreWrites \cup LifecycleWrites \cup CollabTools
          \cup AdminReads \cup ErpTools
  BY DEF Tools, ReadTools, WriteTools, QueryTools, Lists, CoreReads, CoreWrites,
     LifecycleWrites, CollabTools, AdminReads, ErpTools

LEMMA CoreAllowed ==
  ASSUME NEW p, NEW c, Formed(c), Valid(c), Check(p, ScopeOf(c)),
         CheckReport(p, ScopeOf(c)),
         c.tool \in QueryTools \cup Lists \cup CoreReads \cup CoreWrites
            \cup {"search", "get_doc_context", "run_report", "whoami", "call_method"}
  PROVE  MayDo(p, c, Does(p, c))
<1>1. Does(p, c) = CoreDoes(p, c)
  BY DEF Does, Toolset, QueryTools, Lists, CoreReads, CoreWrites, ErpTools
<1>2. CASE c.tool \in QueryTools
  <2>1. CoreDoes(p, c) = QueryReads(c)
    BY <1>2 DEF CoreDoes, QueryTools
  <2> QED BY <1>1, <1>2, <2>1, QueryAllowed
<1>3. CASE c.tool \in Lists
  <2>1. CoreDoes(p, c) = ReadsOne(c)
    BY <1>3 DEF CoreDoes, Lists, QueryTools
  <2> QED BY <1>1, <1>3, <2>1, OneAllowed DEF Lists
<1>4. CASE c.tool = "search"
  BY <1>1, <1>4, SearchAllowed DEF CoreDoes, QueryTools
<1>5. CASE c.tool = "get_doc_context"
  BY <1>1, <1>5, ContextAllowed DEF CoreDoes, QueryTools
<1>6. CASE c.tool = "run_report"
  BY <1>1, <1>6, ReportAllowed DEF CoreDoes, QueryTools
<1>7. CASE c.tool = "whoami"
  <2>1. CoreDoes(p, c).show = {"User"} /\ CoreDoes(p, c).write = {}
    BY <1>7 DEF CoreDoes, Effect, QueryTools
  <2>2. ToolDoctypes(c) = {"User"}
    BY <1>7 DEF ToolDoctypes
  <2> QED BY <1>1, <1>7, <2>1, <2>2, ScopeParts, ReadsAllowed
<1>8. CASE c.tool = "call_method"
  BY <1>1, <1>8, MethodAllows DEF CoreDoes, QueryTools
<1>9. CASE c.tool \in CoreWrites
  <2>1. CoreDoes(p, c).show = Named(c) /\ CoreDoes(p, c).write = Named(c)
    BY <1>9 DEF CoreDoes, DocWrites, BulkWrites, Effect, QueryTools, CoreWrites
  <2>2. c.tool \notin ReadTools /\ c.tool \notin {"restore_doc", "erp_item", "erp_party"}
    BY <1>9 DEF CoreWrites, ReadTools
  <2> QED BY <1>1, <2>1, <2>2, ScopeParts, WritesAllowed
<1>10. CASE c.tool \in CoreReads
  <2>1. CoreDoes(p, c).show = {} /\ CoreDoes(p, c).write = {}
    BY <1>10 DEF CoreDoes, Effect, QueryTools, CoreReads
  <2> QED BY <1>1, <2>1 DEF MayDo
<1> QED BY <1>2, <1>3, <1>4, <1>5, <1>6, <1>7, <1>8, <1>9, <1>10

LEMMA LifecycleAllowed ==
  ASSUME NEW p, NEW c, Check(p, ScopeOf(c)), CheckRestore(p, ScopeOf(c)),
         c.tool \in LifecycleWrites \cup {"get_transitions", "restore_doc"}
  PROVE  MayDo(p, c, Does(p, c))
<1>1. Does(p, c) = LifecycleDoes(c)
  <2>1. Toolset(c.tool) = "lifecycle"
    BY DEF Toolset, ErpTools, LifecycleWrites
  <2> QED BY <2>1 DEF Does
<1>2. CASE c.tool = "get_transitions"
  BY <1>1, <1>2, OneAllowed DEF LifecycleDoes
<1>3. CASE c.tool = "restore_doc"
  <2>1. LifecycleDoes(c).show = {} /\ LifecycleDoes(c).write = {c.behind}
    BY <1>3 DEF LifecycleDoes, Effect
  <2>2. DoctypeAllowed(p, c.behind, TRUE)
    BY <1>3 DEF CheckRestore, ScopeOf
  <2>3. ~ReadOnly(p)
    BY <1>3, WritesNotReadOnly DEF ReadTools
  <2> QED BY <1>1, <2>1, <2>2, <2>3 DEF MayDo
<1>4. CASE c.tool \in LifecycleWrites
  <2>1. LifecycleDoes(c).show = Named(c) /\ LifecycleDoes(c).write = Named(c)
    BY <1>4 DEF LifecycleDoes, Effect, LifecycleWrites
  <2>2. c.tool \notin ReadTools /\ c.tool \notin {"restore_doc", "erp_item", "erp_party"}
    BY <1>4 DEF LifecycleWrites, ReadTools
  <2> QED BY <1>1, <2>1, <2>2, ScopeParts, WritesAllowed
<1> QED BY <1>2, <1>3, <1>4

LEMMA CollabAllowed ==
  ASSUME NEW p, NEW c, Check(p, ScopeOf(c)), c.tool \in CollabTools
  PROVE  MayDo(p, c, Does(p, c))
<1>1. Does(p, c) = CollabDoes(c)
  <2>1. Toolset(c.tool) = "collab"
    BY DEF Toolset, ErpTools, CollabTools
  <2> QED BY <2>1 DEF Does
<1>2. CollabDoes(c).show = Named(c)
  BY DEF CollabDoes, Effect
<1>3. CollabDoes(c).write \subseteq ScopeOf(c).doctypes
  <2>1. CASE c.tool = "add_comment"
    BY <2>1, CommentIsNamed DEF CollabDoes, Effect
  <2>2. CASE c.tool # "add_comment"
    <3>1. CollabDoes(c).write \subseteq Beside(c.tool)
      BY <2>2 DEF CollabDoes, Effect, Beside, CollabTools
    <3> QED BY <3>1, ScopeParts
  <2> QED BY <2>1, <2>2
<1>4. c.tool \notin ReadTools /\ c.tool \notin {"restore_doc", "erp_item", "erp_party"}
  BY DEF CollabTools, ReadTools
<1> QED BY <1>1, <1>2, <1>3, <1>4, ScopeParts, WritesAllowed

LEMMA AdminAllowed ==
  ASSUME NEW p, NEW c, Check(p, ScopeOf(c)),
         c.tool \in AdminReads \cup {"share_doc", "unshare_doc", "list_errors"}
  PROVE  MayDo(p, c, Does(p, c))
<1>1. Does(p, c) = AdminDoes(p, c)
  <2>1. Toolset(c.tool) = "admin"
    BY DEF Toolset, ErpTools, AdminReads
  <2> QED BY <2>1 DEF Does
<1>2. CASE c.tool \in {"share_doc", "unshare_doc"}
  <2>1. AdminDoes(p, c).show = Named(c) /\ AdminDoes(p, c).write = {"DocShare"}
    BY <1>2 DEF AdminDoes, Effect
  <2>2. Beside(c.tool) = {"DocShare"}
    BY <1>2 DEF Beside
  <2>3. c.tool \notin ReadTools /\ c.tool \notin {"restore_doc", "erp_item", "erp_party"}
    BY <1>2 DEF ReadTools
  <2> QED BY <1>1, <2>1, <2>2, <2>3, ScopeParts, WritesAllowed
<1>3. CASE c.tool = "list_errors"
  <2>1. /\ AdminDoes(p, c).show = {"Error Log"} \cup FilterDoctypes(p, c.hits)
        /\ AdminDoes(p, c).write = {}
    BY <1>3 DEF AdminDoes, Effect
  <2>2. "Error Log" \in Beside(c.tool)
    BY <1>3 DEF Beside
  <2>3. DoctypeAllowed(p, "Error Log", FALSE)
    BY <1>3, <2>2, ScopeParts, ScopeAllowed
  <2> QED BY <1>1, <2>1, <2>3, KeptIsAllowed DEF MayDo
<1>4. CASE c.tool \in AdminReads
  <2>1. AdminDoes(p, c).show = Beside(c.tool) /\ AdminDoes(p, c).write = {}
    BY <1>4 DEF AdminDoes, Effect, AdminReads
  <2> QED BY <1>1, <1>4, <2>1, ScopeParts, ReadsAllowed DEF AdminReads
<1> QED BY <1>2, <1>3, <1>4

LEMMA FilesAllowed ==
  ASSUME NEW p, NEW c, Check(p, ScopeOf(c)),
         c.tool \in {"attach_file", "list_attachments", "get_print_html"}
  PROVE  MayDo(p, c, Does(p, c))
<1>1. Does(p, c) = FilesDo(c)
  <2>1. Toolset(c.tool) = "files"
    BY DEF Toolset, ErpTools
  <2> QED BY <2>1 DEF Does
<1>2. CASE c.tool = "get_print_html"
  BY <1>1, <1>2, OneAllowed DEF FilesDo
<1>3. CASE c.tool # "get_print_html"
  <2>1. ToolDoctypes(c) = {"File"}
    BY <1>3 DEF ToolDoctypes
  <2>2. CASE c.tool = "attach_file"
    <3>1. FilesDo(c).show = Named(c) /\ FilesDo(c).write \subseteq {"File"} \cup Named(c)
      BY <2>2 DEF FilesDo, Effect
    <3> QED BY <1>1, <2>1, <2>2, <3>1, ScopeParts, WritesAllowed DEF ReadTools
  <2>3. CASE c.tool = "list_attachments"
    <3>1. FilesDo(c).show = {"File"} /\ FilesDo(c).write = {}
      BY <2>3 DEF FilesDo, Effect
    <3> QED BY <1>1, <2>1, <2>3, <3>1, ScopeParts, ReadsAllowed
  <2> QED BY <1>3, <2>2, <2>3
<1> QED BY <1>2, <1>3

LEMMA ErpAllowed ==
  ASSUME NEW p, NEW c, Check(p, ScopeOf(c)), c.tool \in ErpTools
  PROVE  MayDo(p, c, Does(p, c))
<1>1. Does(p, c) = ERPDoes(c)
  BY DEF Does, Toolset, ErpTools
<1>2. ERPDoes(c).show = ErpDoctypes(c) /\ ERPDoes(c).write = {}
  BY DEF ERPDoes, Effect
<1> QED BY <1>1, <1>2, ScopeParts, ReadsAllowed DEF ErpTools

(* The check before a call, which knows the arguments alone, and the two      *)
(* checks through the site bound what the tools' own code then does.          *)
THEOREM PolicyBounds ==
  ASSUME NEW p, NEW c, Formed(c), Valid(c), Check(p, ScopeOf(c)),
         CheckReport(p, ScopeOf(c)), CheckRestore(p, ScopeOf(c))
  PROVE  MayDo(p, c, Does(p, c))
<1>1. \/ c.tool \in QueryTools \cup Lists \cup CoreReads \cup CoreWrites
            \cup {"search", "get_doc_context", "run_report", "whoami", "call_method"}
      \/ c.tool \in LifecycleWrites \cup {"get_transitions", "restore_doc"}
      \/ c.tool \in CollabTools
      \/ c.tool \in AdminReads \cup {"share_doc", "unshare_doc", "list_errors"}
      \/ c.tool \in {"attach_file", "list_attachments", "get_print_html"}
      \/ c.tool \in ErpTools
  BY AllTools DEF Formed
<1> QED BY <1>1, CoreAllowed, LifecycleAllowed, CollabAllowed, AdminAllowed,
           FilesAllowed, ErpAllowed

(* What a completion offers is served: the tools a prompt needs touch the     *)
(* DocType named and nothing besides.                                         *)
LEMMA PlainScope ==
  ASSUME NEW t \in PromptTools, NEW dt
  PROVE  /\ ScopeOf(PlainCall(t, dt)).doctypes = {dt} \ {""}
         /\ ScopeOf(PlainCall(t, dt)).tool = t
         /\ ~ScopeOf(PlainCall(t, dt)).joins
<1> DEFINE c == PlainCall(t, dt)
<1>1. c.tool = t /\ c.doctype = dt /\ c.method = "" /\ c.opts = {}
  BY DEF PlainCall
<1> HIDE DEF c
<1>2. NamedDoctypes(c) = {dt} \ {""}
  BY <1>1 DEF NamedDoctypes, PromptTools
<1>3. ToolDoctypes(c) = {}
  BY <1>1 DEF ToolDoctypes, PromptTools
<1>4. Beside(c.tool) = {}
  BY <1>1 DEF Beside, PromptTools
<1>5. ErpDoctypes(c) = {}
  BY <1>1 DEF ErpDoctypes, PromptTools
<1>6. FilterTables(c) = {} /\ ~CommentSavesFiles(c)
  BY <1>1 DEF FilterTables, CommentSavesFiles
<1>7. ScopeOf(c).doctypes = {dt} \ {""}
  BY <1>2, <1>3, <1>4, <1>5, <1>6 DEF ScopeOf
<1>8. ScopeOf(c).tool = t /\ ~ScopeOf(c).joins
  BY <1>1 DEF ScopeOf
<1> QED BY <1>7, <1>8 DEF c

LEMMA OffersAreServed ==
  ASSUME NEW p, NEW tools \in SUBSET PromptTools
  PROVE  OffersServed(p, tools)
<1>1. ASSUME NEW dt \in OfferedDoctypes(p, served, tools, S.cached), NEW t \in tools
      PROVE  Check(p, ScopeOf(PlainCall(t, dt)))
  <2>1. ToolAllowed(p, t) /\ DoctypeAllowed(p, dt, ~(tools \subseteq ReadTools))
    BY <1>1 DEF OfferedDoctypes, Offers
  <2>2. DoctypeAllowed(p, dt, t \notin ReadTools)
    <3>1. CASE t \in ReadTools
      <4>1. (t \notin ReadTools) = FALSE
        BY <3>1
      <4> QED BY <2>1, <4>1 DEF DoctypeAllowed
    <3>2. CASE t \notin ReadTools
      <4>1. (t \notin ReadTools) = TRUE /\ (~(tools \subseteq ReadTools)) = TRUE
        BY <1>1, <3>2
      <4> QED BY <2>1, <4>1
    <3> QED BY <3>1, <3>2
  <2>3. t \notin {"restore_doc", "call_method"}
    BY <1>1 DEF PromptTools
  <2> DEFINE sc == ScopeOf(PlainCall(t, dt))
  <2>4. sc.tool = t /\ sc.doctypes \subseteq {dt} /\ ~sc.joins
    <3>1. t \in PromptTools
      BY <1>1
    <3>2. sc.doctypes = {dt} \ {""} /\ sc.tool = t /\ ~sc.joins
      BY <3>1, PlainScope
    <3> QED BY <3>2
  <2> HIDE DEF sc
  <2>5. CheckDoctypes(p, sc)
    BY <2>2, <2>3, <2>4 DEF CheckDoctypes
  <2>6. Check(p, sc)
    BY <2>1, <2>3, <2>4, <2>5 DEF Check, CheckQueryFields
  <2> QED BY <2>6 DEF sc
<1>2. ASSUME NEW dt \in OfferedReports(p, served, tools, S.cached)
      PROVE  CheckReport(p, ScopeOf([PlainCall("run_report", "") EXCEPT !.behind = dt]))
  <2>1. HasDoctypeRules(p) => dt # "" /\ DoctypeAllowed(p, dt, FALSE)
    BY <1>2 DEF OfferedReports
  <2>2. ScopeOf([PlainCall("run_report", "") EXCEPT !.behind = dt]).report.doctype = dt
    BY DEF PlainCall, ScopeOf
  <2> QED BY <2>1, <2>2 DEF CheckReport
<1> QED BY <1>1, <1>2 DEF OffersServed

-----------------------------------------------------------------------------
(* The inductive invariant of the calls. *)

Fields == {"pc", "call", "st", "site", "rules", "at", "yes", "show", "write"}
Question == [site : S.sites, call : S.calls, exp : Nat]

TypesOK ==
  /\ scene \in DOMAIN Scenes /\ served \subseteq Tools
  /\ now \in Nat
  /\ asked \in Seq(Question) /\ said \in Seq({"none", "yes", "no"}) /\ runs \in Seq(Nat)
  /\ Len(said) = Len(asked) /\ Len(runs) = Len(asked)
  /\ used \subseteq 1..Len(asked)
  /\ DOMAIN h = S.workers
  /\ \A i \in S.workers : DOMAIN h[i] = Fields /\ h[i].st \in {None} \cup 1..Len(asked)

(* A call that was let through keeps the rules it was checked with. *)
CheckedOK ==
  \A i \in S.workers : h[i].pc \notin {"idle", "end"} =>
    /\ h[i].call \in S.calls /\ h[i].site \in S.sites
    /\ Formed(h[i].call) /\ Valid(h[i].call)
    /\ Check(Policy(i), ScopeOf(h[i].call))

DoesOK ==
  \A i \in S.workers : h[i].pc = "ran" =>
    MayDo(Policy(i), h[i].call, [show |-> h[i].show, write |-> h[i].write])

(* A question that can still be answered let one call run at most, and is     *)
(* remembered as spent when it did.                                           *)
SpentOK ==
  \A q \in 1..Len(asked) : now < asked[q].exp =>
    runs[q] <= 1 /\ (runs[q] # 0 => q \in used)

OfCall(i) == asked[h[i].st].site = h[i].site /\ asked[h[i].st].call = h[i].call

(* A handler about to spend an answer has looked at it before it expired; one *)
(* that got past a question it had to ask has a yes to it.                    *)
AnswersOK ==
  \A i \in S.workers :
    /\ h[i].pc = "spend" =>
         /\ h[i].st # None /\ said[h[i].st] # "none" /\ OfCall(i)
         /\ h[i].at \in Nat /\ h[i].at <= now /\ h[i].at < asked[h[i].st].exp
    /\ (/\ h[i].pc \in {"client", "entry", "build", "call", "ran"}
        /\ ScopeOf(h[i].call).confirm /\ ConfirmMode(Policy(i)) = "always") =>
         h[i].yes /\ h[i].st # None /\ said[h[i].st] = "yes" /\ OfCall(i)

(* A site's client is made by a handler that holds the site's lock, of a site *)
(* in the map; once Close has passed a site it has none.                      *)
ClientsOK ==
  /\ DOMAIN client = S.sites /\ DOMAIN building = S.sites
  /\ closing \in {"no", "sites", "done"} /\ left \subseteq known
  /\ closing = "done" => left = {}
  /\ \A i \in S.workers : h[i].pc \in {"entry", "build"} => h[i].site \in known
  /\ \A i \in S.workers : h[i].pc = "build" => building[h[i].site] = i
  /\ \A s \in S.sites :
       /\ building[s] # None => building[s] \in S.workers /\ h[building[s]].pc = "build"
                                 /\ h[building[s]].site = s
       /\ s \notin known \/ (closing # "no" /\ s \notin left) =>
            client[s] = "none" /\ building[s] = None

McpInv == TypesOK /\ CheckedOK /\ DoesOK /\ SpentOK /\ AnswersOK /\ ClientsOK

LEMMA McpBegins == McpInit => McpInv
<1> SUFFICES ASSUME McpInit PROVE McpInv
  OBVIOUS
<1>1. TypesOK
  <2>1. served \subseteq Tools
    BY DEF McpInit, Registered
  <2>2. asked = <<>> /\ said = <<>> /\ runs = <<>> /\ used = {} /\ now = 0
        /\ scene \in DOMAIN Scenes
    BY DEF McpInit
  <2>3. asked \in Seq(Question) /\ said \in Seq({"none", "yes", "no"}) /\ runs \in Seq(Nat)
        /\ Len(asked) = 0 /\ Len(said) = 0 /\ Len(runs) = 0
    BY <2>2
  <2>4. DOMAIN h = S.workers /\ \A i \in S.workers : DOMAIN h[i] = Fields /\ h[i].st = None
    BY DEF McpInit, Idle, Fields
  <2> QED BY <2>1, <2>2, <2>3, <2>4 DEF TypesOK
<1>2. CheckedOK /\ DoesOK /\ AnswersOK
  BY DEF McpInit, Idle, CheckedOK, DoesOK, AnswersOK
<1>3. SpentOK
  BY DEF McpInit, SpentOK
<1>4. ClientsOK
  BY DEF McpInit, Idle, ClientsOK, None
<1> QED BY <1>1, <1>2, <1>3, <1>4 DEF McpInv

(* One handler moves on with the call it has. *)
Fixed == UNCHANGED <<scene, flags, served>>

Moves(i) ==
  /\ Fixed
  /\ DOMAIN h' = S.workers /\ \A j \in S.workers \ {i} : h'[j] = h[j]
  /\ DOMAIN h'[i] = Fields
  /\ h'[i].call = h[i].call /\ h'[i].site = h[i].site
  /\ h'[i].rules = h[i].rules /\ h'[i].st = h[i].st

LEMMA MovesTypes ==
  ASSUME McpInv, NEW i \in S.workers, Moves(i), UNCHANGED <<now, asked, said, used, runs>>
  PROVE  TypesOK'
  BY DEF McpInv, TypesOK, Moves, Fixed, S, Question

LEMMA MovesChecked ==
  ASSUME McpInv, NEW i \in S.workers, Moves(i), h[i].pc \notin {"idle", "end"}
  PROVE  CheckedOK'
  BY DEF McpInv, CheckedOK, Moves, Fixed, S, Policy

LEMMA MovesDoes ==
  ASSUME McpInv, NEW i \in S.workers, Moves(i), h'[i].pc # "ran"
  PROVE  DoesOK'
  BY DEF McpInv, DoesOK, Moves, Fixed, S, Policy

LEMMA SpentStays ==
  ASSUME McpInv, UNCHANGED <<now, asked, used, runs>>
  PROVE  SpentOK'
  BY DEF McpInv, SpentOK

Past == {"client", "entry", "build", "call", "ran"}

LEMMA MovesAnswers ==
  ASSUME McpInv, NEW i \in S.workers, Moves(i), UNCHANGED <<now, asked, said>>,
         h'[i].pc # "spend",
         h'[i].pc \in Past => h[i].pc \in Past /\ h'[i].yes = h[i].yes
  PROVE  AnswersOK'
  BY DEF McpInv, AnswersOK, Moves, Fixed, S, Policy, OfCall, Past

LEMMA MovesClients ==
  ASSUME McpInv, NEW i \in S.workers, Moves(i), UNCHANGED clients,
         h[i].pc # "build", h'[i].pc \notin {"entry", "build"}
  PROVE  ClientsOK'
  BY DEF McpInv, ClientsOK, Moves, Fixed, S, clients

(* The confirmation of a call. *)
LEMMA SkipsQuestion ==
  ASSUME McpInv, NEW i \in S.workers, ConfirmOff(i) \/ CannotAsk(i)
  PROVE  McpInv'
<1>1. h[i].pc \in {"confirm", "ask"}
      /\ UNCHANGED <<scene, flags, served, now, asked, said, used, runs>> /\ UNCHANGED clients
  BY DEF ConfirmOff, CannotAsk, MayAsk, setting, questions
<1>2. PICK pc \in {"client", "end"} :
        /\ h' = [h EXCEPT ![i].pc = pc]
        /\ pc = "client" => ConfirmMode(Policy(i)) # "always" \/ ~ScopeOf(h[i].call).confirm
  BY DEF ConfirmOff, CannotAsk, MustConfirm, Goto
<1>3. /\ Moves(i) /\ h'[i].pc = pc /\ h'[i].rules = h[i].rules
  BY <1>1, <1>2 DEF McpInv, TypesOK, Moves, Fixed, Fields
<1>4. TypesOK' /\ CheckedOK' /\ DoesOK' /\ SpentOK' /\ ClientsOK'
  BY <1>1, <1>3, MovesTypes, MovesChecked, MovesDoes, SpentStays, MovesClients
<1>5. AnswersOK'
  BY <1>1, <1>2, <1>3 DEF McpInv, AnswersOK, Moves, Fixed, S, Policy, OfCall
<1> QED BY <1>4, <1>5 DEF McpInv

LEMMA LooksAtState ==
  ASSUME McpInv, NEW i \in S.workers, LookAtState(i)
  PROVE  McpInv'
<1>1. h[i].pc = "confirm" /\ h' = [h EXCEPT ![i].pc = "spend", ![i].at = now]
      /\ UNCHANGED <<scene, flags, served, now, asked, said, used, runs>> /\ UNCHANGED clients
  BY DEF LookAtState, setting, questions
<1>2. Moves(i) /\ h'[i].pc = "spend" /\ h'[i].at = now
  BY <1>1 DEF McpInv, TypesOK, Moves, Fixed, Fields
<1>3. TypesOK' /\ CheckedOK' /\ DoesOK' /\ SpentOK' /\ ClientsOK'
  BY <1>1, <1>2, MovesTypes, MovesChecked, MovesDoes, SpentStays, MovesClients
<1>4. h[i].st # None /\ said[h[i].st] # "none" /\ OfCall(i) /\ now < asked[h[i].st].exp
  BY DEF LookAtState, Answered, Genuine, OfCall
<1>5. now \in Nat
  BY DEF McpInv, TypesOK
<1>6. AnswersOK'
  BY <1>1, <1>2, <1>4, <1>5 DEF McpInv, AnswersOK, Moves, Fixed, S, Policy, OfCall
<1> QED BY <1>3, <1>6 DEF McpInv

LEMMA Spends ==
  ASSUME McpInv, NEW i \in S.workers, Spend(i)
  PROVE  McpInv'
<1> DEFINE qn == h[i].st
           kept == {u \in used : h[i].at < asked[u].exp}
<1>1. h[i].pc = "spend" /\ UNCHANGED <<scene, flags, served, now, asked, said>>
      /\ UNCHANGED clients
  BY DEF Spend, setting
<1>2. /\ qn \in 1..Len(asked) /\ said[qn] # "none" /\ OfCall(i)
      /\ h[i].at \in Nat /\ h[i].at <= now /\ h[i].at < asked[qn].exp
  BY <1>1 DEF McpInv, TypesOK, AnswersOK
<1>3. /\ now \in Nat /\ Len(asked) \in Nat /\ used \subseteq 1..Len(asked)
      /\ \A q \in 1..Len(asked) : asked[q].exp \in Nat /\ runs[q] \in Nat
      /\ DOMAIN runs = 1..Len(asked)
  <2>1. /\ asked \in Seq(Question) /\ runs \in Seq(Nat) /\ Len(runs) = Len(asked)
        /\ now \in Nat /\ used \subseteq 1..Len(asked)
    BY DEF McpInv, TypesOK
  <2>2. \A x \in Question : x.exp \in Nat
    BY DEF Question
  <2> HIDE DEF Question
  <2> QED BY <2>1, <2>2
<1>4. CASE qn \in kept
  <2>1. used' = kept /\ h' = [h EXCEPT ![i].pc = "ask"] /\ UNCHANGED runs
    BY <1>4 DEF Spend, Goto
  <2>2. Moves(i) /\ h'[i].pc = "ask"
    BY <1>1, <2>1 DEF McpInv, TypesOK, Moves, Fixed, Fields
  <2>3. TypesOK'
    BY <1>1, <2>1, <2>2 DEF McpInv, TypesOK, Moves, Fixed, S, Question
  <2>4. SpentOK'
    BY <1>1, <1>2, <1>3, <2>1 DEF McpInv, SpentOK
  <2>5. CheckedOK' /\ DoesOK' /\ ClientsOK' /\ AnswersOK'
    BY <1>1, <2>2, MovesChecked, MovesDoes, MovesClients, MovesAnswers DEF Past
  <2> QED BY <2>3, <2>4, <2>5 DEF McpInv
<1>5. CASE qn \notin kept
  <2>1. /\ used' = kept \cup {qn} /\ runs' = [runs EXCEPT ![qn] = @ + 1]
        /\ h' = [h EXCEPT ![i].yes = said[qn] = "yes",
                          ![i].pc = IF said[qn] = "yes" THEN "client" ELSE "end"]
    BY <1>5 DEF Spend
  <2>2. /\ Moves(i)
        /\ said[qn] = "yes" => h'[i].yes
        /\ h'[i].pc = IF said[qn] = "yes" THEN "client" ELSE "end"
    BY <1>1, <2>1 DEF McpInv, TypesOK, Moves, Fixed, Fields
  <2>3. runs' \in Seq(Nat) /\ Len(runs') = Len(asked)
    BY <1>2, <1>3, <2>1 DEF McpInv, TypesOK
  <2>4. TypesOK'
    BY <1>1, <1>2, <1>3, <2>1, <2>2, <2>3 DEF McpInv, TypesOK, Moves, Fixed, S, Question
  <2>5. SpentOK'
    <3>1. qn \notin used
      BY <1>2, <1>5
    <3>2. ASSUME NEW q \in 1..Len(asked), now < asked[q].exp
          PROVE  runs'[q] <= 1 /\ (runs'[q] # 0 => q \in used')
      <4>1. runs[q] <= 1 /\ (runs[q] # 0 => q \in used)
        BY <3>2 DEF McpInv, SpentOK
      <4>2. CASE q = qn
        BY <1>3, <2>1, <3>1, <4>1, <4>2
      <4>3. CASE q # qn
        BY <1>2, <1>3, <2>1, <3>2, <4>1, <4>3
      <4> QED BY <4>2, <4>3
    <3> QED BY <1>1, <3>2 DEF SpentOK
  <2>6. CheckedOK' /\ DoesOK' /\ ClientsOK'
    BY <1>1, <2>2, MovesChecked, MovesDoes, MovesClients
  <2>7. AnswersOK'
    <3>1. \A j \in S.workers \ {i} : h'[j] = h[j]
      BY <2>2 DEF Moves
    <3>2. h'[i].pc = "client" => h'[i].yes /\ h'[i].st # None /\ said[h'[i].st] = "yes"
            /\ asked[h'[i].st].site = h'[i].site /\ asked[h'[i].st].call = h'[i].call
      <4>1. qn # None
        BY <1>2, <1>3 DEF None
      <4>2. h'[i].st = qn /\ h'[i].site = h[i].site /\ h'[i].call = h[i].call
        BY <2>2 DEF Moves
      <4> HIDE DEF qn
      <4> QED BY <1>2, <2>2, <4>1, <4>2 DEF OfCall, qn
    <3>3. h'[i].pc \in {"client", "end"}
      BY <2>2
    <3> QED BY <1>1, <2>2, <3>1, <3>2, <3>3 DEF McpInv, AnswersOK, Moves, Fixed, S,
               Policy, OfCall
  <2> QED BY <2>4, <2>5, <2>6, <2>7 DEF McpInv
<1> QED BY <1>4, <1>5

LEMMA Asks ==
  ASSUME McpInv, NEW i \in S.workers, Ask(i)
  PROVE  McpInv'
<1> USE McpAssumption
<1>1. /\ h[i].pc \in {"confirm", "ask"} /\ UNCHANGED <<scene, flags, served, now, used>>
      /\ UNCHANGED clients /\ h' = [h EXCEPT ![i].pc = "end"]
  BY DEF Ask, MayAsk, Goto, setting
<1>2. Moves(i) /\ h'[i].pc = "end"
  BY <1>1 DEF McpInv, TypesOK, Moves, Fixed, Fields
<1>3. CheckedOK' /\ DoesOK' /\ ClientsOK'
  BY <1>1, <1>2, MovesChecked, MovesDoes, MovesClients
<1>4. CASE UNCHANGED <<asked, said, runs>>
  BY <1>1, <1>2, <1>3, <1>4, MovesTypes, SpentStays, MovesAnswers DEF McpInv, Past
<1>5. ASSUME NEW n \in Nat, n = Len(asked) + 1,
             asked' = Append(asked, [site |-> h[i].site, call |-> h[i].call,
                                     exp |-> now + TTL]),
             said' = Append(said, "none"), runs' = Append(runs, 0)
      PROVE  McpInv'
  <2> DEFINE q == [site |-> h[i].site, call |-> h[i].call, exp |-> now + TTL]
  <2>1. /\ asked \in Seq(Question) /\ said \in Seq({"none", "yes", "no"}) /\ runs \in Seq(Nat)
        /\ Len(said) = Len(asked) /\ Len(runs) = Len(asked) /\ now \in Nat
        /\ used \subseteq 1..Len(asked)
    BY DEF McpInv, TypesOK
  <2>2. q \in Question
    <3>1. h[i].site \in S.sites /\ h[i].call \in S.calls
      BY <1>1 DEF McpInv, CheckedOK
    <3>2. now + TTL \in Nat
      BY <2>1
    <3> QED BY <3>1, <3>2 DEF Question
  <2> HIDE DEF q
  <2>3. /\ asked' \in Seq(Question) /\ Len(asked') = n
        /\ \A k \in 1..Len(asked) : asked'[k] = asked[k]
    BY <1>5, <2>1, <2>2 DEF q
  <2>4. /\ said' \in Seq({"none", "yes", "no"}) /\ Len(said') = n
        /\ \A k \in 1..Len(asked) : said'[k] = said[k]
    BY <1>5, <2>1
  <2>5. /\ runs' \in Seq(Nat) /\ Len(runs') = n
        /\ runs'[n] = 0 /\ \A k \in 1..Len(asked) : runs'[k] = runs[k]
    BY <1>5, <2>1
  <2>6. Question' = Question
    BY <1>1 DEF Question, S
  <2>7. TypesOK'
    <3>1. asked' \in Seq(Question')
      BY <2>3, <2>6
    <3>2. used' \subseteq 1..Len(asked')
      BY <1>1, <1>5, <2>1, <2>3
    <3>3. ASSUME NEW j \in S'.workers
          PROVE  DOMAIN h'[j] = Fields /\ h'[j].st \in {None} \cup 1..Len(asked')
      <4>1. j \in S.workers /\ h'[j].st = h[j].st /\ DOMAIN h'[j] = Fields
        BY <1>2, <3>3 DEF McpInv, TypesOK, Moves, Fixed, S
      <4>2. h[j].st \in {None} \cup 1..Len(asked)
        BY <4>1 DEF McpInv, TypesOK
      <4> QED BY <1>5, <2>1, <2>3, <4>1, <4>2
    <3>4. DOMAIN h' = S'.workers /\ scene' \in DOMAIN Scenes /\ served' \subseteq Tools
      BY <1>2 DEF McpInv, TypesOK, Moves, Fixed, S
    <3> QED BY <1>1, <2>1, <2>3, <2>4, <2>5, <3>1, <3>2, <3>3, <3>4 DEF TypesOK
  <2>8. SpentOK'
    <3>1. ASSUME NEW k \in 1..Len(asked'), now' < asked'[k].exp
          PROVE  runs'[k] <= 1 /\ (runs'[k] # 0 => k \in used')
      <4>1. CASE k = n
        BY <2>5, <4>1
      <4>2. CASE k # n
        <5>1. k \in 1..Len(asked)
          BY <1>5, <2>1, <2>3, <4>2
        <5> QED BY <1>1, <2>3, <2>5, <3>1, <5>1 DEF McpInv, SpentOK
      <4> QED BY <4>1, <4>2
    <3> QED BY <3>1 DEF SpentOK
  <2>9. AnswersOK'
    <3>1. \A j \in S.workers : h[j].st # None =>
            asked'[h[j].st] = asked[h[j].st] /\ said'[h[j].st] = said[h[j].st]
      BY <2>3, <2>4 DEF McpInv, TypesOK
    <3> QED BY <1>1, <1>2, <3>1 DEF McpInv, AnswersOK, Moves, Fixed, S, Policy, OfCall
  <2> QED BY <1>3, <2>7, <2>8, <2>9 DEF McpInv
<1>6. Len(asked) + 1 \in Nat
  BY DEF McpInv, TypesOK
<1> QED BY <1>4, <1>5, <1>6 DEF Ask

(* The client of the call's site. *)
LEMMA GetsEntry ==
  ASSUME McpInv, NEW i \in S.workers, GetEntry(i)
  PROVE  McpInv'
<1>1. /\ h[i].pc = "client" /\ closing # "sites"
      /\ UNCHANGED <<scene, flags, served, now, asked, said, used, runs, client,
                     building, closing, left>>
  BY DEF GetEntry, setting, questions, MapFree
<1>2. \/ closing # "no" /\ h' = [h EXCEPT ![i].pc = "end"] /\ known' = known
      \/ closing = "no" /\ h' = [h EXCEPT ![i].pc = "entry"] /\ known' = known \cup {h[i].site}
  BY DEF GetEntry, Goto, Closed
<1>3. Moves(i) /\ h'[i].pc \in {"end", "entry"} /\ h'[i].yes = h[i].yes
      /\ (h'[i].pc = "entry" => h[i].site \in known')
  BY <1>1, <1>2 DEF McpInv, TypesOK, Moves, Fixed, Fields
<1>4. TypesOK' /\ CheckedOK' /\ DoesOK' /\ SpentOK' /\ AnswersOK'
  BY <1>1, <1>3, MovesTypes, MovesChecked, MovesDoes, SpentStays, MovesAnswers DEF Past
<1>5. ClientsOK'
  BY <1>1, <1>2, <1>3 DEF McpInv, ClientsOK, Moves, Fixed, S
<1> QED BY <1>4, <1>5 DEF McpInv

LEMMA GetsClient ==
  ASSUME McpInv, NEW i \in S.workers, GetClient(i)
  PROVE  McpInv'
<1> DEFINE s == h[i].site
<1>1. /\ h[i].pc = "entry" /\ building[s] = None
      /\ UNCHANGED <<scene, flags, served, now, asked, said, used, runs, client,
                     known, closing, left>>
  BY DEF GetClient, setting, questions
<1>2. \/ h' = [h EXCEPT ![i].pc = "end"] /\ building' = building
      \/ h' = [h EXCEPT ![i].pc = "call"] /\ building' = building
      \/ /\ closing = "no" /\ h' = [h EXCEPT ![i].pc = "build"]
         /\ building' = [building EXCEPT ![s] = i]
  BY DEF GetClient, Goto, Closed
<1>3. s \in S.sites /\ s \in known
  BY <1>1 DEF McpInv, CheckedOK, ClientsOK
<1> HIDE DEF s
<1>4. Moves(i) /\ h'[i].pc \in {"end", "call", "build"} /\ h'[i].yes = h[i].yes
  BY <1>1, <1>2 DEF McpInv, TypesOK, Moves, Fixed, Fields
<1>5. TypesOK' /\ CheckedOK' /\ DoesOK' /\ SpentOK' /\ AnswersOK'
  BY <1>1, <1>4, MovesTypes, MovesChecked, MovesDoes, SpentStays, MovesAnswers DEF Past
<1>6. ClientsOK'
  <2>1. CASE building' = building /\ h'[i].pc \in {"end", "call"}
    BY <1>1, <1>4, <2>1 DEF McpInv, ClientsOK, Moves, Fixed, S
  <2>2. CASE /\ closing = "no" /\ h' = [h EXCEPT ![i].pc = "build"]
             /\ building' = [building EXCEPT ![s] = i]
    <3>1. h'[i].pc = "build" /\ h'[i].site = s
      BY <1>1, <1>4, <2>2 DEF McpInv, TypesOK, Moves, Fields, s
    <3>2. building'[s] = i /\ \A x \in S.sites \ {s} : building'[x] = building[x]
      BY <1>3, <2>2 DEF McpInv, ClientsOK
    <3>3. \A x \in S.sites : x # s /\ building[x] # None => building[x] # i
      BY <1>1 DEF McpInv, ClientsOK, s
    <3>4. \A j \in S.workers \ {i} : h[j].pc = "build" => h[j].site # s
      <4>1. None \notin S.workers
        BY ScenesAssumption DEF McpInv, TypesOK, S, None
      <4>2. building[s] = None /\ \A j \in S.workers : h[j].pc = "build" => building[h[j].site] = j
        BY <1>1 DEF McpInv, ClientsOK, s
      <4> QED BY <4>1, <4>2
    <3> QED BY <1>1, <1>3, <1>4, <2>2, <3>1, <3>2, <3>3, <3>4
            DEF McpInv, ClientsOK, Moves, Fixed, S
  <2> QED BY <1>2, <1>4, <2>1, <2>2 DEF McpInv, TypesOK, Moves, Fields
<1> QED BY <1>5, <1>6 DEF McpInv

LEMMA Builds ==
  ASSUME McpInv, NEW i \in S.workers, Build(i)
  PROVE  McpInv'
<1> DEFINE s == h[i].site
<1>1. /\ h[i].pc = "build" /\ building' = [building EXCEPT ![s] = None]
      /\ UNCHANGED <<scene, flags, served, now, asked, said, used, runs,
                     known, closing, left>>
  BY DEF Build, setting, questions
<1>2. \/ h' = [h EXCEPT ![i].pc = "call"] /\ client' = [client EXCEPT ![s] = "open"]
      \/ h' = [h EXCEPT ![i].pc = "end"] /\ client' = client
  BY DEF Build, Goto
<1>3. s \in S.sites /\ s \in known /\ building[s] = i /\ i # None
  BY <1>1, ScenesAssumption DEF McpInv, TypesOK, CheckedOK, ClientsOK, S, None
<1> HIDE DEF s
<1>4. Moves(i) /\ h'[i].pc \in {"end", "call"} /\ h'[i].yes = h[i].yes
  BY <1>1, <1>2 DEF McpInv, TypesOK, Moves, Fixed, Fields
<1>5. TypesOK' /\ CheckedOK' /\ DoesOK' /\ SpentOK' /\ AnswersOK'
  BY <1>1, <1>4, MovesTypes, MovesChecked, MovesDoes, SpentStays, MovesAnswers DEF Past
<1>6. ClientsOK'
  <2>1. building'[s] = None /\ \A x \in S.sites \ {s} : building'[x] = building[x]
    BY <1>1, <1>3 DEF McpInv, ClientsOK
  <2>2. \A x \in S.sites \ {s} : client'[x] = client[x]
    BY <1>2, <1>3 DEF McpInv, ClientsOK
  <2>3. DOMAIN client' = S.sites /\ DOMAIN building' = S.sites
    BY <1>1, <1>2 DEF McpInv, ClientsOK
  <2>4. \A j \in S.workers \ {i} : h[j].pc = "build" => h[j].site # s
    BY <1>3 DEF McpInv, ClientsOK
  <2>5. \A x \in S.sites \ {s} : building[x] # None => building[x] # i
    BY DEF McpInv, ClientsOK, s
  <2>6. closing # "no" => s \in left
    BY <1>3 DEF McpInv, ClientsOK
  <2> QED BY <1>1, <1>3, <1>4, <2>1, <2>2, <2>3, <2>4, <2>5, <2>6
          DEF McpInv, ClientsOK, Moves, Fixed, S
<1> QED BY <1>5, <1>6 DEF McpInv

(* The tool itself, held to the policy (PolicyBounds). *)
LEMMA CallMakes ==
  ASSUME McpInv, NEW i \in S.workers, Call(i)
  PROVE  McpInv'
<1> DEFINE c == h[i].call
           p == Policy(i)
           sc == ScopeOf(c)
           runsIt == /\ CheckReport(p, sc)
                     /\ CheckRestore(p, sc)
                     /\ ~("as_other" \in c.opts /\ c.method = "add_comment")
                     /\ ~ToolRefuses(p, c)
<1>1. /\ h[i].pc = "call" /\ UNCHANGED <<scene, flags, served, now, asked, said, used, runs>>
      /\ UNCHANGED clients
      /\ h' = [h EXCEPT ![i].pc = IF runsIt THEN "ran" ELSE "end",
                        ![i].show = IF runsIt THEN Does(p, c).show ELSE {},
                        ![i].write = IF runsIt THEN Does(p, c).write ELSE {}]
  BY DEF Call, setting, questions
<1>2. runsIt => CheckReport(p, sc) /\ CheckRestore(p, sc)
  OBVIOUS
<1>3. i \in DOMAIN h /\ DOMAIN h[i] = Fields
  BY DEF McpInv, TypesOK
<1> HIDE DEF runsIt, c, p, sc
<1>4. /\ Moves(i) /\ h'[i].yes = h[i].yes
      /\ h'[i].pc = IF runsIt THEN "ran" ELSE "end"
      /\ h'[i].show = IF runsIt THEN Does(p, c).show ELSE {}
      /\ h'[i].write = IF runsIt THEN Does(p, c).write ELSE {}
  BY <1>1, <1>3 DEF McpInv, TypesOK, Moves, Fixed, Fields
<1>5. TypesOK' /\ CheckedOK' /\ SpentOK' /\ AnswersOK' /\ ClientsOK'
  <2>1. h'[i].pc \in {"ran", "end"} /\ Moves(i) /\ h'[i].yes = h[i].yes
    BY <1>4
  <2>2. /\ h[i].pc = "call" /\ UNCHANGED <<now, asked, said, used, runs>>
        /\ UNCHANGED clients
    BY <1>1
  <2> QED BY <2>1, <2>2, MovesTypes, MovesChecked, SpentStays, MovesAnswers, MovesClients
          DEF Past
<1>6. DoesOK'
  <2>1. ASSUME runsIt
        PROVE  MayDo(p, c, [show |-> Does(p, c).show, write |-> Does(p, c).write])
    <3>1. Formed(c) /\ Valid(c) /\ Check(p, sc)
      BY <1>1 DEF McpInv, CheckedOK, c, p, sc
    <3>2. MayDo(p, c, Does(p, c))
      BY <1>2, <2>1, <3>1, PolicyBounds DEF sc
    <3> QED BY <3>2 DEF MayDo
  <2>2. h'[i].pc = "ran" =>
          MayDo(Policy(i)', h'[i].call, [show |-> h'[i].show, write |-> h'[i].write])
    <3>1. Policy(i)' = p /\ h'[i].call = c
      BY <1>4 DEF Policy, Moves, Fixed, p, c
    <3> QED BY <1>4, <2>1, <3>1
  <2>3. ASSUME NEW j \in S.workers \ {i}, h'[j].pc = "ran"
        PROVE  MayDo(Policy(j)', h'[j].call, [show |-> h'[j].show, write |-> h'[j].write])
    BY <1>4, <2>3 DEF McpInv, DoesOK, Moves, Fixed, Policy
  <2> QED BY <1>4, <2>2, <2>3 DEF DoesOK, Moves, Fixed, S
<1> QED BY <1>5, <1>6 DEF McpInv

(* A handler is another one's from here on: idle, or with a call anew. *)
Anew(i) ==
  /\ Fixed
  /\ UNCHANGED <<now, asked, said, used, runs>> /\ UNCHANGED clients
  /\ DOMAIN h' = S.workers /\ \A j \in S.workers \ {i} : h'[j] = h[j]
  /\ DOMAIN h'[i] = Fields
  /\ h'[i].st \in {None} \cup 1..Len(asked)
  /\ h[i].pc # "build" /\ h'[i].pc \in {"idle", "end", "confirm"}
  /\ h'[i].pc = "confirm" =>
       /\ h'[i].call \in S.calls /\ h'[i].site \in S.sites
       /\ Formed(h'[i].call) /\ Valid(h'[i].call)
       /\ Check(Policy(i)', ScopeOf(h'[i].call))

LEMMA StartsAnew ==
  ASSUME McpInv, NEW i \in S.workers, Anew(i)
  PROVE  McpInv'
<1>1. TypesOK'
  BY DEF McpInv, TypesOK, Anew, Fixed, S, Question
<1>2. CheckedOK'
  BY DEF McpInv, CheckedOK, Anew, Fixed, S, Policy
<1>3. DoesOK'
  BY DEF McpInv, DoesOK, Anew, Fixed, S, Policy
<1>4. SpentOK'
  BY SpentStays DEF Anew
<1>5. AnswersOK'
  BY DEF McpInv, AnswersOK, Anew, Fixed, S, Policy, OfCall
<1>6. ClientsOK'
  BY DEF McpInv, ClientsOK, Anew, Fixed, S, clients
<1> QED BY <1>1, <1>2, <1>3, <1>4, <1>5, <1>6 DEF McpInv

LEMMA Returns ==
  ASSUME McpInv, NEW i \in S.workers, Return(i)
  PROVE  McpInv'
<1>1. h[i].pc \in {"end", "ran"} /\ h' = [h EXCEPT ![i] = Idle]
      /\ UNCHANGED <<scene, flags, served, now, asked, said, used, runs>> /\ UNCHANGED clients
  BY DEF Return, setting, questions
<1>2. h'[i] = Idle /\ DOMAIN h' = S.workers /\ \A j \in S.workers \ {i} : h'[j] = h[j]
  BY <1>1 DEF McpInv, TypesOK
<1>3. DOMAIN Idle = Fields /\ Idle.pc = "idle" /\ Idle.st = None
  BY DEF Idle, Fields
<1>4. Anew(i)
  BY <1>1, <1>2, <1>3 DEF Anew, Fixed
<1> QED BY <1>4, StartsAnew

LEMMA SiteIsServed ==
  ASSUME NEW c, SiteFor(c) # ""
  PROVE  SiteFor(c) \in S.sites
  BY DEF SiteFor

LEMMA Prepares ==
  ASSUME McpInv, NEW i \in S.workers, NEW c \in S.calls,
         NEW qn \in {None} \cup DOMAIN asked, Prepare(i, c, qn)
  PROVE  McpInv'
<1> DEFINE site == SiteFor(c)
           own == config[site]
           passes == Check([cfg |-> own, flag |-> flags], ScopeOf(c))
           e == IF Siteless(c.tool)
                  THEN [Idle EXCEPT !.pc = "end", !.call = c]
                ELSE IF ~Valid(c) \/ site = ""
                  THEN [Idle EXCEPT !.pc = "end", !.call = c]
                ELSE [Idle EXCEPT !.call = c, !.st = qn, !.site = site, !.rules = own,
                        !.pc = IF passes THEN "confirm" ELSE "end"]
<1>1. /\ h[i].pc = "idle" /\ c.tool \in served /\ h' = [h EXCEPT ![i] = e]
      /\ UNCHANGED <<scene, flags, served, now, asked, said, used, runs>> /\ UNCHANGED clients
  BY DEF Prepare, setting, questions
<1>2. Formed(c)
  <2>1. c.tool \in Tools /\ scene \in DOMAIN Scenes
    BY <1>1 DEF McpInv, TypesOK
  <2> QED BY <2>1, ScenesAssumption DEF Formed, S
<1>3. site # "" => site \in S.sites
  BY SiteIsServed
<1>4. DOMAIN asked = 1..Len(asked)
  BY DEF McpInv, TypesOK
<1> HIDE DEF own, site, passes
<1>5. /\ DOMAIN e = Fields /\ e.st \in {None} \cup 1..Len(asked)
      /\ e.pc \in {"end", "confirm"}
      /\ e.pc = "confirm" => /\ e.call = c /\ e.site = site /\ e.rules = own
                             /\ Valid(c) /\ site # "" /\ passes
  BY <1>4 DEF Idle, Fields
<1> HIDE DEF e
<1>6. h'[i] = e /\ DOMAIN h' = S.workers /\ \A j \in S.workers \ {i} : h'[j] = h[j]
  BY <1>1 DEF McpInv, TypesOK
<1>7. h'[i].pc = "confirm" => Policy(i)' = [cfg |-> own, flag |-> flags]
  BY <1>1, <1>5, <1>6 DEF Policy
<1>8. Anew(i)
  BY <1>1, <1>2, <1>3, <1>5, <1>6, <1>7 DEF Anew, Fixed, passes
<1> QED BY <1>8, StartsAnew

(* What happens around the handlers. *)
LEMMA Answers ==
  ASSUME McpInv, NEW q \in DOMAIN said, NEW answer \in {"yes", "no"}, UserAnswers(q, answer)
  PROVE  McpInv'
<1>1. /\ said[q] = "none" /\ said' = [said EXCEPT ![q] = answer]
      /\ UNCHANGED <<scene, flags, served, now, asked, used, runs, h>> /\ UNCHANGED clients
  BY DEF UserAnswers, setting
<1>2. /\ said \in Seq({"none", "yes", "no"}) /\ Len(said) = Len(asked)
  BY DEF McpInv, TypesOK
<1>3. said' \in Seq({"none", "yes", "no"}) /\ Len(said') = Len(said)
  BY <1>1, <1>2
<1>4. \A k \in 1..Len(asked) : said[k] # "none" => said'[k] = said[k]
  BY <1>1, <1>2
<1>5. TypesOK' /\ CheckedOK' /\ DoesOK' /\ ClientsOK' /\ SpentOK'
  BY <1>1, <1>2, <1>3, SpentStays
     DEF McpInv, TypesOK, CheckedOK, DoesOK, ClientsOK, S, Question, Policy, clients
<1>6. AnswersOK'
  <2>1. \A i \in S.workers : h[i].st # None => h[i].st \in 1..Len(asked)
    BY DEF McpInv, TypesOK
  <2> QED BY <1>1, <1>4, <2>1 DEF McpInv, AnswersOK, S, OfCall, Policy
<1> QED BY <1>5, <1>6 DEF McpInv

LEMMA Ticks ==
  ASSUME McpInv, Tick
  PROVE  McpInv'
<1>1. /\ now' = now + 1 /\ now \in Nat
      /\ UNCHANGED <<scene, flags, served, asked, said, used, runs, h>> /\ UNCHANGED clients
  BY DEF Tick, setting, McpInv, TypesOK
<1>2. \A k \in 1..Len(asked) : asked[k].exp \in Nat
  <2>1. asked \in Seq(Question) /\ \A x \in Question : x.exp \in Nat
    BY DEF McpInv, TypesOK, Question
  <2> HIDE DEF Question
  <2> QED BY <2>1
<1>3. TypesOK' /\ CheckedOK' /\ DoesOK' /\ ClientsOK'
  BY <1>1 DEF McpInv, TypesOK, CheckedOK, DoesOK, ClientsOK, S, Question, Policy, clients
<1>4. SpentOK'
  BY <1>1, <1>2 DEF McpInv, SpentOK
<1>5. AnswersOK'
  BY <1>1 DEF McpInv, AnswersOK, S, OfCall, Policy
<1> QED BY <1>3, <1>4, <1>5 DEF McpInv

(* Nothing but the clients changes. *)
LEMMA OnlyClients ==
  ASSUME McpInv, UNCHANGED <<scene, flags, served, questions, h>>
  PROVE  TypesOK' /\ CheckedOK' /\ DoesOK' /\ SpentOK' /\ AnswersOK'
<1>1. UNCHANGED <<scene, flags, served, now, asked, said, used, runs, h>>
  BY DEF questions
<1> QED BY <1>1 DEF McpInv, TypesOK, CheckedOK, DoesOK, SpentOK, AnswersOK, S, Question,
           Policy, OfCall

LEMMA Closing ==
  ASSUME McpInv,
         \/ \E s \in S.sites, r \in S.later : EditConfig(s, r)
         \/ Close
         \/ \E s \in S.sites : CloseSite(s)
         \/ CloseReturns
  PROVE  McpInv'
<1>1. UNCHANGED <<scene, flags, served, questions, h>>
  BY DEF EditConfig, Close, CloseSite, CloseReturns, setting
<1>2. CASE \E s \in S.sites, r \in S.later : EditConfig(s, r)
  <2>1. PICK s \in S.sites, r \in S.later : EditConfig(s, r)
    BY <1>2
  <2>2. /\ client' = [client EXCEPT ![s] = IF @ = "open" THEN "stale" ELSE @]
        /\ UNCHANGED <<known, building, closing, left>>
    BY <2>1 DEF EditConfig
  <2> QED BY <1>1, <2>2, OnlyClients DEF McpInv, ClientsOK, S
<1>3. CASE Close
  <2>1. closing' = "sites" /\ left' = known /\ UNCHANGED <<known, client, building>>
    BY <1>3 DEF Close
  <2> QED BY <1>1, <2>1, OnlyClients DEF McpInv, ClientsOK, S
<1>4. CASE \E s \in S.sites : CloseSite(s)
  <2>1. PICK s \in S.sites : CloseSite(s)
    BY <1>4
  <2>2. /\ s \in left /\ building[s] = None /\ client' = [client EXCEPT ![s] = "none"]
        /\ left' = left \ {s} /\ UNCHANGED <<known, building, closing>>
    BY <2>1 DEF CloseSite
  <2>3. closing # "done"
    BY <2>2 DEF McpInv, ClientsOK
  <2> QED BY <1>1, <2>2, <2>3, OnlyClients DEF McpInv, ClientsOK, S
<1>5. CASE CloseReturns
  <2>1. left = {} /\ closing' = "done" /\ closing = "sites"
        /\ UNCHANGED <<known, client, building, left>>
    BY <1>5 DEF CloseReturns
  <2> QED BY <1>1, <2>1, OnlyClients DEF McpInv, ClientsOK, S
<1> QED BY <1>2, <1>3, <1>4, <1>5

LEMMA McpStep == McpInv /\ [McpNext]_mcpVars => McpInv'
<1> SUFFICES ASSUME McpInv, [McpNext]_mcpVars PROVE McpInv'
  OBVIOUS
<1>1. CASE \E i \in S.workers : Handler(i)
  BY <1>1, SkipsQuestion, LooksAtState, Spends, Asks, GetsEntry, GetsClient, Builds, CallMakes,
     Returns DEF Handler
<1>2. CASE \E i \in S.workers, c \in S.calls, qn \in {None} \cup DOMAIN asked :
             Prepare(i, c, qn)
  BY <1>2, Prepares
<1>3. CASE \E q \in DOMAIN said, answer \in {"yes", "no"} : UserAnswers(q, answer)
  BY <1>3, Answers
<1>4. CASE Tick
  BY <1>4, Ticks
<1>5. CASE \/ \E s \in S.sites, r \in S.later : EditConfig(s, r)
           \/ Close
           \/ \E s \in S.sites : CloseSite(s)
           \/ CloseReturns
  BY <1>5, Closing
<1>6. CASE UNCHANGED mcpVars
  BY <1>6 DEF mcpVars, setting, questions, clients, McpInv, TypesOK, CheckedOK, DoesOK,
     SpentOK, AnswersOK, ClientsOK, S, Question, Policy, OfCall
<1> QED BY <1>1, <1>2, <1>3, <1>4, <1>5, <1>6 DEF McpNext

(* The invariant of the calls holds throughout. *)
THEOREM McpHolds == McpSpec => []McpInv
  BY McpBegins, McpStep, PTL DEF McpSpec

(* What a call has shown and written by the time it returns is what its       *)
(* site's rules allow, and every completion on offer is served (mcp.go,       *)
(* mcp_policy.go): for any sites, rules, flags, calls and handlers.           *)
THEOREM KeptToPolicy == McpSpec => []KeepsToPolicy
<1>1. McpInv => KeepsToPolicy
  <2> SUFFICES ASSUME McpInv, NEW i \in S.workers, h[i].pc = "ran"
               PROVE  /\ \A dt \in h[i].show : DoctypeAllowed(Policy(i), dt, FALSE)
                      /\ \A dt \in h[i].write \ {"Prepared Report"} :
                           DoctypeAllowed(Policy(i), dt, TRUE)
                      /\ ReadOnly(Policy(i)) => h[i].write = {}
                      /\ \A tools \in S.prompts : OffersServed(Policy(i), tools)
    BY DEF KeepsToPolicy
  <2>1. MayDo(Policy(i), h[i].call, [show |-> h[i].show, write |-> h[i].write])
    BY DEF McpInv, DoesOK
  <2>2. \A tools \in S.prompts : OffersServed(Policy(i), tools)
    BY ScenesAssumption, OffersAreServed DEF McpInv, TypesOK, S
  <2> QED BY <2>1, <2>2 DEF MayDo
<1> QED BY <1>1, McpHolds, PTL

(* A call Classify promises a question for, or that destroys or shares, is    *)
(* one whose scope asks for confirmation.                                     *)
LEMMA AskedFor ==
  ASSUME NEW c, NEW p, Formed(c)
  PROVE  /\ Destroys(c) \/ Grants(c) => ScopeOf(c).confirm
         /\ WillAsk(p, ScopeOf(c)) => ScopeOf(c).confirm /\ ConfirmMode(p) = "always"
<1>1. ScopeOf(c).confirm = NeedsConfirm(c)
  BY DEF ScopeOf
<1>2. c.method \in {"run_doc_method", "frappe.handler.run_doc_method"} =>
        AnyMatch({"frappe.handler.run_doc_method"}, c.method)
  BY DEF AnyMatch, Covered, MethodNames
<1>3. Destroys(c) \/ Grants(c) => NeedsConfirm(c)
  BY <1>2 DEF Destroys, Grants, NeedsConfirm, Formed
<1> QED BY <1>1, <1>3 DEF WillAsk

(* No call runs unasked where the mode is "always", and one "yes" lets one    *)
(* call run (mcp_confirm.go spend): for any number of handlers and questions. *)
THEOREM AskedFirst == McpSpec => []NeverUnasked
<1>1. McpInv => NeverUnasked
  <2> SUFFICES ASSUME McpInv PROVE NeverUnasked
    OBVIOUS
  <2>1. \A q \in DOMAIN asked : now < asked[q].exp => runs[q] <= 1
    BY DEF McpInv, TypesOK, SpentOK
  <2>2. ASSUME NEW i \in S.workers, h[i].pc = "ran",
               \/ ConfirmMode(Policy(i)) = "always"
                    /\ (Destroys(h[i].call) \/ Grants(h[i].call))
               \/ WillAsk(Policy(i), ScopeOf(h[i].call))
        PROVE  h[i].yes /\ said[h[i].st] = "yes" /\ OfCall(i)
    <3>1. Formed(h[i].call)
      BY <2>2 DEF McpInv, CheckedOK
    <3>2. ScopeOf(h[i].call).confirm /\ ConfirmMode(Policy(i)) = "always"
      BY <2>2, <3>1, AskedFor
    <3> QED BY <2>2, <3>2 DEF McpInv, AnswersOK
  <2> QED BY <2>1, <2>2 DEF NeverUnasked, OfCall
<1> QED BY <1>1, McpHolds, PTL

(* Once Close has returned no site has a client (mcp.go siteClients.Close):   *)
(* for any number of sites and handlers.                                      *)
THEOREM ClosedForGood == McpSpec => []NoClientOutlivesClose
<1>1. McpInv => NoClientOutlivesClose
  BY DEF McpInv, ClientsOK, NoClientOutlivesClose
<1> QED BY <1>1, McpHolds, PTL

-----------------------------------------------------------------------------
(* The Safety screen: what a change that "opens" nothing (comparePolicies)    *)
(* leaves refused.  o are the rules there were, n those saved.                *)

LEMMA DoctypesStayRefused ==
  ASSUME NEW o, NEW n, ~Opens(o, n), NEW f, NEW dt, NEW write,
         DoctypeAllowed([cfg |-> n, flag |-> f], dt, write)
  PROVE  DoctypeAllowed([cfg |-> o, flag |-> f], dt, write)
<1>1. o.denyDoctypes \subseteq n.denyDoctypes
  BY DEF Opens
<1>2. o.allowDoctypes # {} => n.allowDoctypes # {} /\ n.allowDoctypes \subseteq o.allowDoctypes
  BY DEF Opens, AllowOpens
<1>3. dt \in SensitiveDoctypes /\ dt \in n.allowDoctypes => dt \in o.allowDoctypes
  BY DEF Opens, UnlocksSensitive
<1> QED BY <1>1, <1>2, <1>3 DEF DoctypeAllowed, DoctypeDenied, Passes

LEMMA RulesStay ==
  ASSUME NEW o, NEW n, ~Opens(o, n), NEW f, HasDoctypeRules([cfg |-> o, flag |-> f])
  PROVE  HasDoctypeRules([cfg |-> n, flag |-> f])
<1>1. o.denyDoctypes \subseteq n.denyDoctypes
  BY DEF Opens
<1>2. o.allowDoctypes # {} => n.allowDoctypes # {}
  BY DEF Opens, AllowOpens
<1> QED BY <1>1, <1>2 DEF HasDoctypeRules

LEMMA ToolsStayRefused ==
  ASSUME NEW o, NEW n, ~Opens(o, n), NEW f, NEW tool,
         ToolAllowed([cfg |-> n, flag |-> f], tool)
  PROVE  ToolAllowed([cfg |-> o, flag |-> f], tool)
<1>1. o.readOnly => n.readOnly
  BY DEF Opens
<1>2. o.allowTools # {} => n.allowTools # {} /\ n.allowTools \subseteq o.allowTools
  BY DEF Opens, AllowOpens
<1> QED BY <1>1, <1>2 DEF ToolAllowed, ReadOnly, Passes

(* An entry that brings a built-in denied method counts as an opening.        *)
LEMMA DeniedStay ==
  ASSUME NEW o, NEW n, ~Opens(o, n), NEW m,
         AnyMatch(DeniedMethods, m), AnyMatch(n.allowMethods, m)
  PROVE  AnyMatch(o.allowMethods, m)
<1>1. m \in DeniedMethods /\ MethodNames(m) = {m}
  BY DEF AnyMatch, DeniedMethods, Covered, MethodNames
<1>2. PICK x \in n.allowMethods : m \in Covered(x)
  BY <1>1 DEF AnyMatch
<1>3. x \in o.allowMethods
  BY <1>1, <1>2 DEF Opens, UnlocksDenied
<1> QED BY <1>1, <1>2, <1>3 DEF AnyMatch

LEMMA MethodsStayRefused ==
  ASSUME NEW o, NEW n, ~Opens(o, n), NEW f, ~FirstMethods(o, n, f),
         NEW m, MethodAllowed([cfg |-> n, flag |-> f], m)
  PROVE  MethodAllowed([cfg |-> o, flag |-> f], m)
<1>1. o.denyMethods \subseteq n.denyMethods
  BY DEF Opens
<1>2. o.allowMethods # {} => n.allowMethods # {} /\ n.allowMethods \subseteq o.allowMethods
  BY DEF Opens, AllowOpens
<1>3. /\ ~AnyMatch(n.denyMethods, m) /\ ~AnyMatch(f.denyMethods, m)
      /\ AnyMatch(DeniedMethods, m) => AnyMatch(n.allowMethods, m)
      /\ n.allowMethods # {} => AnyMatch(n.allowMethods, m)
      /\ f.allowMethods # {} => AnyMatch(f.allowMethods, m)
      /\ n.allowDoctypes # {} => n.allowMethods # {}
      /\ f.allowDoctypes # {} => n.allowMethods # {} \/ f.allowMethods # {}
  BY DEF MethodAllowed
<1>4. ~AnyMatch(o.denyMethods, m)
  BY <1>1, <1>3 DEF AnyMatch
<1>5. o.allowMethods # {} => AnyMatch(o.allowMethods, m)
  BY <1>2, <1>3 DEF AnyMatch
<1>6. AnyMatch(DeniedMethods, m) => AnyMatch(o.allowMethods, m)
  BY <1>3, DeniedStay
<1>7. o.allowDoctypes # {} => o.allowMethods # {}
  BY <1>3 DEF Opens, methodsBlocked
<1>8. f.allowDoctypes # {} => o.allowMethods # {} \/ f.allowMethods # {}
  BY <1>3 DEF FirstMethods
<1> QED BY <1>3, <1>4, <1>5, <1>6, <1>7, <1>8 DEF MethodAllowed

LEMMA CallsStayRefused ==
  ASSUME NEW o, NEW n, ~Opens(o, n), NEW f, NEW sc, Refused(o, f, sc),
         ~(FirstMethods(o, n, f) /\ sc.tool = "call_method")
  PROVE  Refused(n, f, sc)
<1> DEFINE p == [cfg |-> o, flag |-> f]
           q == [cfg |-> n, flag |-> f]
<1>1. Check(q, sc) => Check(p, sc)
  <2> SUFFICES ASSUME Check(q, sc) PROVE Check(p, sc)
    OBVIOUS
  <2>1. ToolAllowed(p, sc.tool)
    BY ToolsStayRefused DEF Check
  <2>2. CheckDoctypes(p, sc)
    <3>1. \A dt : ~DoctypeDenied(q, dt) => ~DoctypeDenied(p, dt)
      BY DEF DoctypeDenied, Opens
    <3> HIDE DEF p, q
    <3>2. \A dt, w : DoctypeAllowed(q, dt, w) => DoctypeAllowed(p, dt, w)
      BY DoctypesStayRefused DEF p, q
    <3> QED BY <3>1, <3>2 DEF Check, CheckDoctypes
  <2>3. CheckQueryFields(p, sc)
    BY RulesStay DEF Check, CheckQueryFields
  <2>4. sc.tool = "call_method" => CheckMethod(p, sc)
    BY MethodsStayRefused DEF Check, CheckMethod
  <2> QED BY <2>1, <2>2, <2>3, <2>4 DEF Check
<1>2. CheckReport(q, sc) => CheckReport(p, sc)
  BY RulesStay, DoctypesStayRefused DEF CheckReport
<1>3. CheckRestore(q, sc) => CheckRestore(p, sc)
  BY DoctypesStayRefused DEF CheckRestore
<1> QED BY <1>1, <1>2, <1>3 DEF Refused

Modes == {"", "never", "if-supported", "always"}

LEMMA ModeStays ==
  ASSUME NEW o, NEW n, o.confirm \in Modes, n.confirm \in Modes, ~Opens(o, n), NEW f
  PROVE  ~(Mode(n, f) < Mode(o, f))
<1> DEFINE Own(r) == IF r.confirm = "" THEN "if-supported" ELSE r.confirm
<1>1. Rank(Own(o)) <= Rank(Own(n)) /\ Rank(Own(o)) \in Nat /\ Rank(Own(n)) \in Nat
  <2>1. Rank("always") = 3 /\ Rank("if-supported") = 2 /\ Rank("never") = 1
    BY DEF Rank
  <2>2. /\ ScreenRank("") = 1 /\ ScreenRank("if-supported") = 1
        /\ ScreenRank("never") = 0 /\ ScreenRank("always") = 2
    BY DEF ScreenRank
  <2>3. ~(ScreenRank(n.confirm) < ScreenRank(o.confirm))
    BY DEF Opens
  <2>4. \A r : Own(r) = IF r.confirm = "" THEN "if-supported" ELSE r.confirm
    OBVIOUS
  <2> HIDE DEF Own
  <2>5. ASSUME NEW r, r.confirm \in Modes
        PROVE  Rank(Own(r)) \in {1, 2, 3} /\ ScreenRank(r.confirm) = Rank(Own(r)) - 1
    <3>1. CASE r.confirm \in {"", "if-supported"}
      <4>1. Own(r) = "if-supported" /\ ScreenRank(r.confirm) = 1
        BY <2>2, <2>4, <3>1
      <4>2. Rank(Own(r)) = 2
        BY <2>1, <4>1
      <4> QED BY <4>1, <4>2
    <3>2. CASE r.confirm = "never"
      <4>1. Own(r) = "never" /\ ScreenRank(r.confirm) = 0
        BY <2>2, <2>4, <3>2
      <4>2. Rank(Own(r)) = 1
        BY <2>1, <4>1
      <4> QED BY <4>1, <4>2
    <3>3. CASE r.confirm = "always"
      <4>1. Own(r) = "always" /\ ScreenRank(r.confirm) = 2
        BY <2>2, <2>4, <3>3
      <4>2. Rank(Own(r)) = 3
        BY <2>1, <4>1
      <4> QED BY <4>1, <4>2
    <3> QED BY <2>5, <3>1, <3>2, <3>3 DEF Modes
  <2> QED BY <2>3, <2>5
<1>2. Rank(f.confirm) \in Nat
  BY DEF Rank
<1>3. \A r : Mode(r, f) = IF Rank(f.confirm) > Rank(Own(r)) THEN Rank(f.confirm)
                           ELSE Rank(Own(r))
  BY DEF Mode, ConfirmMode
<1> HIDE DEF Own
<1> QED BY <1>1, <1>2, <1>3

(* What the screen calls no opening loosens nothing: what MCP servers refuse  *)
(* under the old rules they refuse under the new, and ask no less             *)
(* (comparePolicies and mcp_policy.go, which are separate code), but for      *)
(* call_method on a server with --allow-doctypes alone whose site lists its   *)
(* first methods.                                                             *)
THEOREM NothingOpened ==
  ASSUME NEW o \in Drafts, NEW n \in Drafts, ~Opens(o, n)
  PROVE  ~Looser(o, n)
<1>1. ASSUME NEW f \in ServerFlags
      PROVE  /\ ~(Mode(n, f) < Mode(o, f))
             /\ \A sc \in Scopes :
                  Refused(o, f, sc) /\ ~(FirstMethods(o, n, f) /\ sc.tool = "call_method") =>
                    Refused(n, f, sc)
  <2>1. o.confirm \in Modes /\ n.confirm \in Modes
    BY RulesAssumption DEF Modes
  <2> QED BY <2>1, ModeStays, CallsStayRefused
<1> QED BY <1>1 DEF Looser

(* The screen saves over the rules it showed, and what opens was confirmed.   *)
ScreenOK ==
  /\ rules \in Drafts \cup {NoRule}
  /\ DOMAIN window = {"at", "base", "draft", "ok", "cur"}
  /\ window.at \in {"shown", "save", "edit"} => window.base \in Drafts
  /\ window.at \in {"save", "edit"} => window.draft \in Drafts
  /\ window.at = "edit" =>
       window.cur = window.base /\ (Opens(window.cur, window.draft) => window.ok)

LEMMA ScreenBegins == ScreenInit => ScreenOK
  BY DEF ScreenInit, ScreenOK, Blank

LEMMA BlankIsOff == DOMAIN Blank = {"at", "base", "draft", "ok", "cur"} /\ Blank.at = "off"
  BY DEF Blank

LEMMA ScreenStep == ScreenOK /\ [ScreenNext]_screenVars => ScreenOK'
<1> SUFFICES ASSUME ScreenOK, [ScreenNext]_screenVars PROVE ScreenOK'
  OBVIOUS
<1>1. CASE Show
  <2>1. window' = [Blank EXCEPT !.at = "shown", !.base = rules] /\ rules' = rules
        /\ rules \in Drafts
    BY <1>1 DEF Show, Readable, ScreenOK
  <2>2. DOMAIN window' = DOMAIN Blank /\ window'.at = "shown" /\ window'.base = rules
    BY <2>1 DEF Blank
  <2> QED BY <2>1, <2>2, BlankIsOff DEF ScreenOK
<1>2. CASE Leave
  BY <1>2, BlankIsOff DEF Leave, ScreenOK
<1>3. CASE SavePolicy
  <2>1. window.at = "save" /\ rules' = rules
    BY <1>3 DEF SavePolicy
  <2>2. \/ window' = Blank
        \/ /\ rules = window.base /\ (Opens(rules, window.draft) => window.ok)
           /\ window' = [window EXCEPT !.at = "edit", !.cur = rules]
    BY <1>3 DEF SavePolicy, Save
  <2>3. CASE window' = Blank
    BY <2>1, <2>3, BlankIsOff DEF ScreenOK
  <2>4. CASE /\ rules = window.base /\ (Opens(rules, window.draft) => window.ok)
             /\ window' = [window EXCEPT !.at = "edit", !.cur = rules]
    <3>1. /\ DOMAIN window' = DOMAIN window /\ window'.at = "edit" /\ window'.cur = rules
          /\ window'.base = window.base /\ window'.draft = window.draft
          /\ window'.ok = window.ok
      BY <2>4 DEF ScreenOK
    <3>2. Opens(rules, window.draft)' <=> Opens(rules, window.draft)
      BY <2>1, <3>1 DEF Opens, ScreenRank, AllowOpens, UnlocksSensitive, UnlocksDenied,
         methodsBlocked, Covered
    <3> QED BY <2>1, <2>4, <3>1, <3>2 DEF ScreenOK
  <2> QED BY <2>2, <2>3, <2>4
<1>4. CASE Commit
  <2>1. window' = Blank /\ rules' \in {window.draft, rules} /\ window.draft \in Drafts
    BY <1>4 DEF Commit, ScreenOK
  <2> QED BY <2>1, BlankIsOff DEF ScreenOK
<1>5. CASE \E d \in Drafts : Preview(d)
  <2>1. PICK d \in Drafts : Preview(d)
    BY <1>5
  <2>2. /\ window.at = "shown" /\ rules' = rules
        /\ window' = [window EXCEPT !.at = "save", !.draft = d, !.ok = Opens(rules, d)]
    BY <2>1 DEF Preview
  <2>3. /\ DOMAIN window' = DOMAIN window /\ window'.at = "save"
        /\ window'.base = window.base /\ window'.draft = d
    BY <2>2 DEF ScreenOK
  <2> QED BY <2>2, <2>3 DEF ScreenOK
<1>6. CASE OthersEdit
  <2>1. window' = window /\ rules' \in Drafts \cup {NoRule}
    BY <1>6 DEF OthersEdit, ScreenOK
  <2> QED BY <2>1 DEF ScreenOK, Opens
<1>7. CASE UNCHANGED screenVars
  BY <1>7 DEF screenVars, ScreenOK
<1> QED BY <1>1, <1>2, <1>3, <1>4, <1>5, <1>6, <1>7 DEF ScreenNext

(* A save that opens access was confirmed, but for the first methods that a   *)
(* site lists for a server with --allow-doctypes alone, and only the rules    *)
(* the screen showed are replaced (SavePolicy in policy.go, against ffc's own *)
(* edits): for any rules, flags and calls.                                    *)
THEOREM OpeningAsked == ScreenSpec => OpeningIsAsked
<1> DEFINE A == window.at = "edit" /\ rules' # rules /\ window' # window =>
                  rules = window.base /\ ~odd /\ (Looser(rules, rules') => window.ok)
<1>1. ScreenOK /\ [ScreenNext]_screenVars => [A]_screenVars
  <2> SUFFICES ASSUME ScreenOK, ScreenNext, window.at = "edit", rules' # rules,
                      window' # window
               PROVE  rules = window.base /\ ~odd /\ (Looser(rules, rules') => window.ok)
    OBVIOUS
  <2>1. Commit
    BY DEF ScreenNext, Show, Leave, SavePolicy, Preview, OthersEdit
  <2>2. Unmoved /\ rules' = window.draft
    BY <2>1 DEF Commit
  <2>3. /\ rules = window.base /\ rules = window.cur /\ ~odd
        /\ rules \in Drafts /\ window.draft \in Drafts
        /\ Opens(rules, window.draft) => window.ok
    BY <2>2 DEF Unmoved, Readable, ScreenOK
  <2>4. Looser(rules, window.draft) => Opens(rules, window.draft)
    BY <2>3, NothingOpened
  <2> QED BY <2>2, <2>3, <2>4
<1> QED BY <1>1, ScreenBegins, ScreenStep, PTL DEF ScreenSpec, OpeningIsAsked
=============================================================================
