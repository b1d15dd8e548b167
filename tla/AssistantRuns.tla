--------------------------- MODULE AssistantRuns ---------------------------
(***************************************************************************)
(* The assistant's runs over its store (desktop/services: assistant.go,    *)
(* assistant_loop.go, assistant_title.go, history.go, message_actions.go;  *)
(* desktop/store: api.go, history.go).                                     *)
(*                                                                         *)
(* Calls from the web view hold the lifecycle lock for reading (enter) and *)
(* act on runs under the runner's lock, so each critical section of r.mu   *)
(* is one action; a run is a goroutine that finishes in steps (FinishRun,  *)
(* leaving r.active, the events, the title) with other calls in between.   *)
(* The store outlives the process: a crash keeps it and loses the rest.    *)
(***************************************************************************)
EXTENDS Integers, FiniteSets

CONSTANTS
  Convs,      \* conversations
  MaxRuns,    \* bound: how many runs CreateRun makes
  Callers,    \* goroutines of calls from the web view
  Ephemeral,  \* the conversations that are not kept (ephemeral = 1)
  MaxStarts,  \* bound: how often the app starts
  NoConv

ASSUME MaxRunsIsNat == MaxRuns \in Nat
ASSUME StartsAreNat == MaxStarts \in Nat
ASSUME EphemeralAreConvs == Ephemeral \subseteq Convs
ASSUME NoConvIsNone == NoConv \notin Convs

\* The runs, numbered in the order CreateRun makes them.
Runs == 1..MaxRuns

VARIABLES
  exists,     \* store: the conversations there are
  title,      \* store: title and title_source
  titleRows,  \* store: usage rows of kind title
  status,     \* store: runs.status
  convOf,     \* store: runs.conv_id
  storeOpen,
  pc,         \* where each run's goroutine is
  out,        \* the outcome the run's loop ended with
  active,     \* runner.active
  cancelled,  \* the runs whose ctx is cancelled
  titleOf,    \* runner.titleCancels: the run that titles each conversation
  titleStop,  \* the conversations whose title call's ctx is cancelled
  rclosed,    \* runner.closed
  call,       \* each caller's call: where, and on which conversation
  svc,        \* where the service's life is
  starts,
  lost        \* history: the runs whose last status did not reach the store

storeVars == <<exists, title, titleRows, status, convOf, storeOpen>>
runVars   == <<pc, out, active, cancelled, rclosed>>
titleVars == <<titleOf, titleStop>>
vars == <<storeVars, runVars, titleVars, call, svc, starts, lost>>

Idle == [at |-> "idle", conv |-> NoConv]

Titling == {"title", "titleState", "titleConv", "titleCall", "titleUsage",
            "titleSet", "titleEnd"}
PCs     == {"none", "loop", "finish", "unlist", "gone"} \cup Titling
Ends    == {"paused", "done", "error", "cancelled"}
Titles  == {"none", "first", "model", "user"}

TypeOK ==
  /\ exists \subseteq Convs
  /\ title \in [Convs -> Titles]
  /\ titleRows \in [Convs -> Nat]
  /\ status \in [Runs -> {"none", "running"} \cup Ends]
  /\ convOf \in [Runs -> Convs \cup {NoConv}]
  /\ storeOpen \in BOOLEAN
  /\ pc \in [Runs -> PCs]
  /\ out \in [Runs -> {"none"} \cup Ends]
  /\ active \subseteq Runs
  /\ cancelled \subseteq Runs
  /\ titleOf \in [Convs -> Runs \cup {0}]
  /\ titleStop \subseteq Convs
  /\ rclosed \in BOOLEAN
  /\ call \in [Callers -> [at : {"idle", "in", "untitled", "titled", "sent", "exit"},
                           conv : Convs \cup {NoConv}]]
  /\ svc \in {"open", "stopping", "draining", "engine", "locked", "closed", "off"}
  /\ starts \in Nat
  /\ lost \subseteq Runs

Init ==
  /\ svc \in {"open", "off"}    \* it runs, or is yet to start
  /\ exists = Convs
  /\ title = [c \in Convs |-> "none"]
  /\ titleRows = [c \in Convs |-> 0]
  /\ status = [r \in Runs |-> "none"]
  /\ convOf = [r \in Runs |-> NoConv]
  /\ storeOpen = (svc = "open")
  /\ pc = [r \in Runs |-> "none"]
  /\ out = [r \in Runs |-> "none"]
  /\ active = {} /\ cancelled = {} /\ rclosed = FALSE
  /\ titleOf = [c \in Convs |-> 0] /\ titleStop = {}
  /\ call = [u \in Callers |-> Idle]
  /\ starts = IF svc = "open" THEN 1 ELSE 0
  /\ lost = {}

\* What a process knows when it starts, and after one died.
FreshProcess ==
  /\ pc' = [r \in Runs |-> "none"]
  /\ out' = [r \in Runs |-> "none"]
  /\ active' = {} /\ cancelled' = {} /\ rclosed' = FALSE
  /\ titleOf' = [c \in Convs |-> 0] /\ titleStop' = {}
  /\ call' = [u \in Callers |-> Idle]

-----------------------------------------------------------------------------
(* The store's operations that runs are made of.                           *)

RunsOf(c) == {r \in Runs : convOf[r] = c}

\* ListRuns' last: runs are numbered in the order they were created.
Last(c) == CHOOSE r \in RunsOf(c) : \A q \in RunsOf(c) : q <= r

\* Mutant of Abandon: the paused runs are left alone.
AbandonNone(st, c) == st

\* AbandonPausedRuns.
Abandon(st, c) ==
  [r \in Runs |-> IF convOf[r] = c /\ st[r] = "paused" THEN "done" ELSE st[r]]

\* DELETE FROM conversations: runs and usage go with them.
Forget(D) ==
  /\ exists' = exists \ D
  /\ title' = [c \in Convs |-> IF c \in D THEN "none" ELSE title[c]]
  /\ titleRows' = [c \in Convs |-> IF c \in D THEN 0 ELSE titleRows[c]]
  /\ status' = [r \in Runs |-> IF convOf[r] \in D THEN "none" ELSE status[r]]

\* CreateRun's next id, when there is one left.
Unused == {r \in Runs : convOf[r] = NoConv}
NextRun == CHOOSE r \in Unused : \A q \in Unused : r <= q

-----------------------------------------------------------------------------
(* Calls from the web view.                                                *)

\* enter: the lifecycle lock for reading, and the service is there.
Enter(u, c) ==
  /\ call[u].at = "idle" /\ svc = "open"
  /\ call' = [call EXCEPT ![u] = [at |-> "in", conv |-> c]]
  /\ UNCHANGED <<storeVars, runVars, titleVars, svc, starts, lost>>

\* The call returns and gives the lifecycle lock back.
Exit(u) ==
  /\ call[u].at = "exit"
  /\ call' = [call EXCEPT ![u] = Idle]
  /\ UNCHANGED <<storeVars, runVars, titleVars, svc, starts, lost>>

Goto(u, place) == call' = [call EXCEPT ![u].at = place]

\* The conversation a call is about.
On(u) == call[u].conv

Busy(c) == \E r \in active : convOf[r] = c

\* admit: a run may start.
Admit(c) == ~rclosed /\ ~Busy(c)

\* launch.
Launch(r) ==
  /\ active' = active \cup {r}
  /\ pc' = [pc EXCEPT ![r] = "loop"]
  /\ out' = [out EXCEPT ![r] = "none"]
  /\ cancelled' = cancelled \ {r}
  /\ lost' = lost \ {r}
  /\ UNCHANGED rclosed

\* Send reads the conversation before it starts the run.
SendReads(u) ==
  /\ call[u].at = "in"
  /\ Goto(u, IF On(u) \notin exists THEN "exit"
             ELSE IF title[On(u)] = "none" THEN "untitled" ELSE "titled")
  /\ UNCHANGED <<storeVars, runVars, titleVars, svc, starts, lost>>

\* CreateRun and launch, the conversation's paused runs abandoned first.
StartRun(c) ==
  /\ Unused # {}
  /\ convOf' = [convOf EXCEPT ![NextRun] = c]
  /\ status' = [Abandon(status, c) EXCEPT ![NextRun] = "running"]
  /\ Launch(NextRun)
  /\ UNCHANGED <<exists, title, titleRows, storeOpen>>

\* startParts: admitted, the message is appended and the run launched.
SendStarts(u) ==
  /\ call[u].at \in {"untitled", "titled"}
  /\ On(u) \in exists /\ Admit(On(u))
  /\ StartRun(On(u))
  /\ Goto(u, IF call[u].at = "untitled" THEN "sent" ELSE "exit")
  /\ UNCHANGED <<titleVars, svc, starts>>

\* startParts fails: refused, or the paused runs were closed and an
\* attachment is gone, so nothing was sent.
SendFails(u) ==
  /\ call[u].at \in {"untitled", "titled"}
  /\ \/ UNCHANGED status
     \/ On(u) \in exists /\ Admit(On(u)) /\ status' = Abandon(status, On(u))
  /\ Goto(u, "exit")
  /\ UNCHANGED <<exists, title, titleRows, convOf, storeOpen, runVars,
                 titleVars, svc, starts, lost>>

\* Send names an untitled conversation after its message, after the run
\* started: SetFallbackTitle leaves a title the model or the user set.
SendTitles(u) ==
  /\ call[u].at = "sent"
  /\ title' = [title EXCEPT ![On(u)] =
                 IF On(u) \in exists /\ @ = "none" THEN "first" ELSE @]
  /\ Goto(u, "exit")
  /\ UNCHANGED <<exists, titleRows, status, convOf, storeOpen, runVars,
                 titleVars, svc, starts, lost>>

\* Retry: the last prompt is answered again by a new run.  (Messages are not
\* modelled: wherever a run was made a prompt may be left, though all may have
\* been taken back.)
Retry(u) ==
  /\ call[u].at = "in"
  /\ On(u) \in exists /\ Admit(On(u)) /\ RunsOf(On(u)) # {}
  /\ StartRun(On(u))
  /\ Goto(u, "exit")
  /\ UNCHANGED <<titleVars, svc, starts>>

\* Continue: of two concurrent calls only one finds the run paused.
Continue(u, r) ==
  /\ call[u].at = "in" /\ convOf[r] = On(u) /\ On(u) \in exists
  /\ Admit(On(u)) /\ status[r] = "paused"
  /\ status' = [status EXCEPT ![r] = "running"]
  /\ Launch(r)
  /\ Goto(u, "exit")
  /\ UNCHANGED <<exists, title, titleRows, convOf, storeOpen, titleVars, svc,
                 starts>>

\* Rewind, or DeleteExchange of the last exchange: the paused run goes too.
TakeBack(u) ==
  /\ call[u].at = "in" /\ On(u) \in exists /\ ~Busy(On(u))
  /\ status' = Abandon(status, On(u))
  /\ Goto(u, "exit")
  /\ UNCHANGED <<exists, title, titleRows, convOf, storeOpen, runVars,
                 titleVars, svc, starts, lost>>

\* Cancel of an active run.
Cancel(u, r) ==
  /\ call[u].at = "in" /\ r \in active /\ convOf[r] = On(u)
  /\ cancelled' = cancelled \cup {r}
  /\ Goto(u, "exit")
  /\ UNCHANGED <<storeVars, pc, out, active, rclosed, titleVars, svc, starts,
                 lost>>

Rename(u) ==
  /\ call[u].at = "in" /\ On(u) \in exists
  /\ title' = [title EXCEPT ![On(u)] = "user"]
  /\ Goto(u, "exit")
  /\ UNCHANGED <<exists, titleRows, status, convOf, storeOpen, runVars,
                 titleVars, svc, starts, lost>>

\* DeleteConversation, with no run on it: its title call is cancelled too.
Delete(u) ==
  /\ call[u].at = "in" /\ On(u) \in exists /\ ~Busy(On(u))
  /\ titleStop' = titleStop \cup {c \in {On(u)} : titleOf[c] # 0}
  /\ Forget({On(u)})
  /\ Goto(u, "exit")
  /\ UNCHANGED <<convOf, storeOpen, runVars, titleOf, svc, starts, lost>>

\* The conversations SweepRetention may delete: not those with an active run
\* or a title call in flight, nor those with a paused run.
Sweepable ==
  {c \in exists : /\ ~Busy(c) /\ titleOf[c] = 0
                  /\ \A r \in RunsOf(c) : status[r] # "paused"}

\* The retention sweep, on one caller: whichever of them are old and unpinned.
Sweep(u) ==
  /\ call[u].at = "in"
  /\ \E D \in SUBSET Sweepable : D # {} /\ Forget(D)
  /\ Goto(u, "exit")
  /\ UNCHANGED <<convOf, storeOpen, runVars, titleVars, svc, starts, lost>>

-----------------------------------------------------------------------------
(* A run's goroutine.                                                      *)

\* The loop ends: cancelled only if its ctx is.
LoopEnds(r) ==
  /\ pc[r] = "loop"
  /\ \E o \in Ends :
       /\ o = "cancelled" => r \in cancelled
       /\ out' = [out EXCEPT ![r] = o]
  /\ pc' = [pc EXCEPT ![r] = "finish"]
  /\ UNCHANGED <<storeVars, active, cancelled, rclosed, titleVars, call, svc,
                 starts, lost>>

\* FinishRun records the outcome.
FinishRun(r) ==
  /\ pc[r] = "finish"
  /\ status' = [status EXCEPT ![r] = out[r]]
  /\ pc' = [pc EXCEPT ![r] = "unlist"]
  /\ UNCHANGED <<exists, title, titleRows, convOf, storeOpen, out, active,
                 cancelled, rclosed, titleVars, call, svc, starts, lost>>

\* The store fails: the run ends in error, and the store does not know it.
FinishFails(r) ==
  /\ pc[r] = "finish"
  /\ out' = [out EXCEPT ![r] = "error"]
  /\ pc' = [pc EXCEPT ![r] = "unlist"]
  /\ lost' = lost \cup {r}
  /\ UNCHANGED <<storeVars, active, cancelled, rclosed, titleVars, call, svc,
                 starts>>

\* The run leaves r.active; after a done one the title is next (autoTitle).
Unlist(r) ==
  /\ pc[r] = "unlist"
  /\ active' = active \ {r}
  /\ pc' = [pc EXCEPT ![r] = IF out[r] = "done" THEN "title" ELSE "gone"]
  /\ UNCHANGED <<storeVars, out, cancelled, rclosed, titleVars, call, svc,
                 starts, lost>>

Step(r, from, to) == pc[r] = from /\ pc' = [pc EXCEPT ![r] = to]

Conv(r) == convOf[r]

\* startTitle: one title call per conversation, none once the runner closed.
StartTitle(r) ==
  /\ pc[r] = "title"
  /\ IF rclosed \/ titleOf[Conv(r)] # 0
     THEN Step(r, "title", "gone") /\ UNCHANGED titleVars
     ELSE /\ Step(r, "title", "titleState")
          /\ titleOf' = [titleOf EXCEPT ![Conv(r)] = r]
          /\ titleStop' = titleStop \ {Conv(r)}
  /\ UNCHANGED <<storeVars, out, active, cancelled, rclosed, call, svc, starts,
                 lost>>

\* GetTitleState and ListConversationUsage: only a kept conversation that the
\* first words name, and that no title call was paid for.
WantsTitle(c) ==
  /\ c \in exists \ Ephemeral
  /\ title[c] \in {"none", "first"}
  /\ titleRows[c] = 0

CheckTitle(r) ==
  /\ Step(r, "titleState", IF WantsTitle(Conv(r)) THEN "titleConv" ELSE "titleEnd")
  /\ UNCHANGED <<storeVars, out, active, cancelled, rclosed, titleVars, call,
                 svc, starts, lost>>

\* titleCall reads the conversation again, then asks the model.
AskTitle(r) ==
  /\ Step(r, "titleConv", IF Conv(r) \in exists THEN "titleCall" ELSE "titleEnd")
  /\ UNCHANGED <<storeVars, out, active, cancelled, rclosed, titleVars, call,
                 svc, starts, lost>>

\* The title call's ctx is the runner's, with a cancel of its own.
TitleCancelled(c) == c \in titleStop \/ rclosed

\* The model answered, with usage or none, or the call failed.
TitleAnswers(r) ==
  /\ \/ Step(r, "titleCall", "titleUsage") /\ ~TitleCancelled(Conv(r))
     \/ Step(r, "titleCall", "titleSet") /\ ~TitleCancelled(Conv(r))
     \/ Step(r, "titleCall", "titleEnd")
  /\ UNCHANGED <<storeVars, out, active, cancelled, rclosed, titleVars, call,
                 svc, starts, lost>>

\* AddUsage, whose failure (the conversation was deleted) is ignored; a call
\* that was paid for may still have failed, or brought no title.
PayTitle(r) ==
  /\ \/ Step(r, "titleUsage", "titleSet") \/ Step(r, "titleUsage", "titleEnd")
  /\ titleRows' = [titleRows EXCEPT ![Conv(r)] =
                     IF Conv(r) \in exists THEN @ + 1 ELSE @]
  /\ UNCHANGED <<exists, title, status, convOf, storeOpen, out, active,
                 cancelled, rclosed, titleVars, call, svc, starts, lost>>

\* SetAutoTitle leaves a title the user set.
SetTitle(r) ==
  /\ Step(r, "titleSet", "titleEnd")
  /\ title' = [title EXCEPT ![Conv(r)] =
                 IF Conv(r) \in exists /\ @ # "user" THEN "model" ELSE @]
  /\ UNCHANGED <<exists, titleRows, status, convOf, storeOpen, out, active,
                 cancelled, rclosed, titleVars, call, svc, starts, lost>>

\* The deferred release of startTitle.
EndTitle(r) ==
  /\ Step(r, "titleEnd", "gone")
  /\ titleOf' = [titleOf EXCEPT ![Conv(r)] = 0]
  /\ UNCHANGED <<storeVars, out, active, cancelled, rclosed, titleStop, call,
                 svc, starts, lost>>

-----------------------------------------------------------------------------
(* The life of the service.                                                *)

\* ServiceShutdown: later calls find no service.
ShutdownBegins ==
  /\ svc = "open"
  /\ svc' = "stopping"
  /\ UNCHANGED <<storeVars, runVars, titleVars, call, starts, lost>>

\* Mutant of ShutdownRuns: the runs are not cancelled.
ShutdownWaits ==
  /\ svc = "stopping"
  /\ svc' = "draining"
  /\ rclosed' = TRUE
  /\ UNCHANGED <<storeVars, pc, out, active, cancelled, titleVars, call, starts,
                 lost>>

\* runner.shutdown, first part: closed, and every run's ctx cancelled.
ShutdownRuns ==
  /\ svc = "stopping"
  /\ svc' = "draining"
  /\ rclosed' = TRUE
  /\ cancelled' = cancelled \cup active
  /\ UNCHANGED <<storeVars, pc, out, active, titleVars, call, starts, lost>>

\* wg.Wait: every run's goroutine has returned.
RunsDrained ==
  /\ svc = "draining"
  /\ \A r \in Runs : pc[r] \in {"none", "gone"}
  /\ svc' = "engine"
  /\ UNCHANGED <<storeVars, runVars, titleVars, call, starts, lost>>

\* Mutant of ShutdownLocks: calls in flight are not waited for.
ShutdownHurries ==
  /\ svc = "engine"
  /\ svc' = "locked"
  /\ UNCHANGED <<storeVars, runVars, titleVars, call, starts, lost>>

\* After Engine.Close, life.Lock: every call in flight has returned.
ShutdownLocks ==
  /\ svc = "engine"
  /\ \A u \in Callers : call[u] = Idle
  /\ svc' = "locked"
  /\ UNCHANGED <<storeVars, runVars, titleVars, call, starts, lost>>

\* endHistory and the store's Close.
ShutdownEnds ==
  /\ svc = "locked"
  /\ Forget(exists \cap Ephemeral)
  /\ svc' = "closed"
  /\ storeOpen' = FALSE
  /\ UNCHANGED <<convOf, runVars, titleVars, call, starts, lost>>

\* The process dies: the store stays as it is.
Crash ==
  /\ svc \notin {"closed", "off"}
  /\ svc' = "off"
  /\ storeOpen' = FALSE
  /\ lost' = lost \cup {r \in Runs : status[r] = "running"}
  /\ FreshProcess
  /\ UNCHANGED <<exists, title, titleRows, status, convOf, starts>>

\* ServiceStartup: the conversations that are not kept are removed first.
Start ==
  /\ svc \in {"closed", "off"} /\ starts < MaxStarts
  /\ starts' = starts + 1
  /\ svc' = "open"
  /\ storeOpen' = TRUE
  /\ Forget(exists \cap Ephemeral)
  /\ FreshProcess
  /\ UNCHANGED <<convOf, lost>>

-----------------------------------------------------------------------------
WebCall(u) ==
  \/ \E c \in Convs : Enter(u, c)
  \/ SendReads(u) \/ SendStarts(u) \/ SendFails(u) \/ SendTitles(u)
  \/ Retry(u) \/ TakeBack(u) \/ Rename(u) \/ Delete(u) \/ Sweep(u) \/ Exit(u)
  \/ \E r \in Runs : Continue(u, r) \/ Cancel(u, r)

Goroutine(r) ==
  \/ LoopEnds(r) \/ FinishRun(r) \/ FinishFails(r) \/ Unlist(r)
  \/ StartTitle(r) \/ CheckTitle(r) \/ AskTitle(r) \/ TitleAnswers(r)
  \/ PayTitle(r) \/ SetTitle(r) \/ EndTitle(r)

Life ==
  \/ ShutdownBegins \/ ShutdownRuns \/ RunsDrained \/ ShutdownLocks
  \/ ShutdownEnds \/ Crash \/ Start

Next ==
  \/ \E u \in Callers : WebCall(u)
  \/ \E r \in Runs : Goroutine(r)
  \/ Life

Spec == Init /\ [][Next]_vars

\* A goroutine that can step does.  A cancelled loop ends, since every wait in
\* it has the run's ctx; a title call ends, for it has titleTimeout; a call of
\* the web view ends.  Nothing says that a run that is not cancelled ends (it
\* may wait for the user), or that the user calls or the app quits.
Fairness ==
  /\ \A u \in Callers : WF_vars(call[u].at # "idle" /\ WebCall(u))
  /\ \A r \in Runs :
       /\ WF_vars(r \in cancelled /\ LoopEnds(r))
       /\ WF_vars(pc[r] # "loop" /\ Goroutine(r))
  /\ WF_vars(ShutdownRuns) /\ WF_vars(RunsDrained) /\ WF_vars(ShutdownLocks)
  /\ WF_vars(ShutdownEnds)

FairSpec == Spec /\ Fairness

-----------------------------------------------------------------------------
(* Properties.                                                             *)

\* A paused run is always its conversation's last: so there is at most one,
\* and GetConversation, which looks at the last run only, misses none that
\* Continue would resume.
PausedIsLast ==
  \A r \in Runs :
    status[r] = "paused" => convOf[r] \in exists /\ r = Last(convOf[r])

\* At most one goroutine works on a conversation until its outcome is stored,
\* and its title is paid for once, however its runs and titles overlap.
OncePerConv ==
  /\ \A r, q \in Runs :
       /\ {pc[r], pc[q]} \subseteq {"loop", "finish", "unlist"}
       /\ convOf[r] = convOf[q]
       => r = q
  /\ \A c \in Convs : titleRows[c] <= 1

\* The runs of a conversation take turns: one works, and only the last is left
\* to be continued.
RunsTakeTurns == PausedIsLast /\ OncePerConv

\* The store is open as long as a run, a title or a call may use it, and a run
\* it says is running is active, or its process died, or the store refused its
\* outcome: nothing else leaves a run running for ever.
StoreOpenWhenUsed ==
  /\ ~storeOpen =>
       /\ \A r \in Runs : pc[r] \in {"none", "gone"}
       /\ \A u \in Callers : call[u] = Idle
  /\ \A r \in Runs : status[r] = "running" => r \in active \cup lost

\* ServiceShutdown returns: none of its waits is for something that waits for
\* it.
ShutdownReturns == svc = "stopping" ~> svc \in {"closed", "off"}
=============================================================================
