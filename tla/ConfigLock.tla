----------------------------- MODULE ConfigLock -----------------------------
(***************************************************************************)
(* The config file and its lock (internal/config/file.go): every write is  *)
(* a read, an edit and an atomic rename under config.yaml.lock, which a    *)
(* process takes by creating it with O_EXCL, and which another process     *)
(* breaks once it is older than lockStale, for its owner has crashed.      *)
(*                                                                         *)
(* A process is one call of edit at a time: an ffc command, the MCP server *)
(* or the app.  Each system call on the lock or the config is one action.  *)
(***************************************************************************)
EXTENDS Integers, FiniteSets

CONSTANTS
  Procs,
  Denied,      \* the processes that may not write in the config's directory
  MaxTakes,    \* bound: how many lock files are made
  MaxCrashes   \* bound: how many processes crash

ASSUME FiniteProcs == IsFiniteSet(Procs)
ASSUME BoundsAreNat == MaxTakes \in Nat /\ MaxCrashes \in Nat
ASSUME DeniedAreProcs == Denied \subseteq Procs

VARIABLES
  pc,       \* where each process is
  lock,     \* the lock file there is, by number, or 0
  takes,    \* lock files made so far
  mine,     \* the token of the lock each process made, or 0
  stale,    \* the lock files older than lockStale
  overdue,  \* the processes that have waited for lockWait
  buf,      \* the config each process has read
  file,     \* the config: the edits it shows
  made      \* history: the edits made

lockVars == <<lock, takes, mine, stale>>
fileVars == <<buf, file, made>>
vars == <<pc, overdue, lockVars, fileVars>>

Waiting == {"try", "stat", "break", "late"}
Holding == {"token", "read", "edit", "release", "remove"}

\* The numbers of the lock files, each with a token of its own.
Locks == 1..MaxTakes

TypeOK ==
  /\ pc \in [Procs -> {"idle", "dead"} \cup Waiting \cup Holding]
  /\ lock \in Locks \cup {0}
  /\ takes \in Locks \cup {0}
  /\ mine \in [Procs -> Locks \cup {0}]
  /\ stale \subseteq Locks
  /\ overdue \subseteq Procs
  /\ buf \in [Procs -> SUBSET Locks]
  /\ {file, made} \subseteq SUBSET Locks

Init ==
  /\ pc = [p \in Procs |-> "idle"]
  /\ lock = 0 /\ takes = 0
  /\ mine = [p \in Procs |-> 0]
  /\ stale = {} /\ overdue = {}
  /\ buf = [p \in Procs |-> {}]
  /\ file = {} /\ made = {}

-----------------------------------------------------------------------------
(* lockFile.                                                               *)

Move(p, from, to) == pc[p] = from /\ pc' = [pc EXCEPT ![p] = to]

\* The deadline is set: now and lockWait.
Begin(p) ==
  /\ Move(p, "idle", "try")
  /\ overdue' = overdue \ {p}
  /\ UNCHANGED <<lockVars, fileVars>>

\* OpenFile with O_EXCL makes the lock file.
Take(p) ==
  /\ Move(p, "try", "token")
  /\ lock = 0 /\ p \notin Denied /\ takes < MaxTakes
  /\ takes' = takes + 1
  /\ lock' = takes'
  /\ mine' = [mine EXCEPT ![p] = takes']
  /\ UNCHANGED <<stale, overdue, fileVars>>

\* OpenFile fails otherwise: an error.
TakeFails(p) ==
  /\ Move(p, "try", "idle")
  /\ lock = 0
  /\ UNCHANGED <<overdue, lockVars, fileVars>>

\* The lock file is there.
Finds(p) ==
  /\ Move(p, "try", "stat")
  /\ lock # 0
  /\ UNCHANGED <<overdue, lockVars, fileVars>>

\* The token is written to the lock file.
TokenWritten(p) ==
  /\ Move(p, "token", "read")
  /\ UNCHANGED <<overdue, lockVars, fileVars>>

\* It cannot be: the file is removed, an error.
TokenFails(p) ==
  /\ Move(p, "token", "idle")
  /\ lock' = 0
  /\ mine' = [mine EXCEPT ![p] = 0]
  /\ UNCHANGED <<takes, stale, overdue, fileVars>>

\* Mutant of Stats: the age is not looked at.
StatsUnaged(p) ==
  /\ Move(p, "stat", IF lock # 0 THEN "break" ELSE "late")
  /\ UNCHANGED <<overdue, lockVars, fileVars>>

\* Stat: how old the lock file is, if it is still there.
Stats(p) ==
  /\ Move(p, "stat", IF lock \in stale THEN "break" ELSE "late")
  /\ UNCHANGED <<overdue, lockVars, fileVars>>

\* Remove of a lock seen stale, whatever file is there now; its error is not
\* looked at.
Break(p) ==
  /\ Move(p, "break", "try")
  /\ lock' = IF p \in Denied THEN lock ELSE 0
  /\ UNCHANGED <<takes, mine, stale, overdue, fileVars>>

\* Mutant of Late: no deadline.
LateForever(p) ==
  /\ Move(p, "late", "try")
  /\ UNCHANGED <<overdue, lockVars, fileVars>>

\* Past the deadline, an error; before it, a short sleep.
Late(p) ==
  /\ Move(p, "late", IF p \in overdue THEN "idle" ELSE "try")
  /\ UNCHANGED <<overdue, lockVars, fileVars>>

-----------------------------------------------------------------------------
(* edit, under the lock.                                                   *)

\* Mutant of Read: a config that was read before is not read again.
ReadCached(p, fresh) ==
  /\ Move(p, "read", "edit")
  /\ buf' = [buf EXCEPT ![p] = IF fresh THEN {} ELSE IF @ # {} THEN @ ELSE file]
  /\ UNCHANGED <<overdue, lockVars, file, made>>

\* Edit reads the file; Overwrite starts from an empty one.
Read(p, fresh) ==
  /\ Move(p, "read", "edit")
  /\ buf' = [buf EXCEPT ![p] = IF fresh THEN {} ELSE file]
  /\ UNCHANGED <<overdue, lockVars, file, made>>

\* The file cannot be read, or the callback has nothing to write or fails, or
\* the temporary file cannot be written.
Skips(p) ==
  /\ Move(p, "read", "release") \/ Move(p, "edit", "release")
  /\ UNCHANGED <<overdue, lockVars, fileVars>>

\* WriteFileAtomic renames the edited config over the file.
Rename(p) ==
  /\ Move(p, "edit", "release")
  /\ file' = buf[p] \cup {mine[p]}
  /\ made' = made \cup {mine[p]}
  /\ UNCHANGED <<overdue, lockVars, buf>>

\* The release reads the token: only its own lock is removed.
ReleaseReads(p) ==
  /\ Move(p, "release", IF lock = mine[p] THEN "remove" ELSE "idle")
  /\ mine' = [mine EXCEPT ![p] = IF lock = @ THEN @ ELSE 0]
  /\ UNCHANGED <<overdue, lock, takes, stale, fileVars>>

ReleaseRemoves(p) ==
  /\ Move(p, "remove", "idle")
  /\ lock' = 0
  /\ mine' = [mine EXCEPT ![p] = 0]
  /\ UNCHANGED <<takes, stale, overdue, fileVars>>

-----------------------------------------------------------------------------
(* Time and crashes.                                                       *)

\* lockWait has passed since the process began.
TimePasses(p) ==
  /\ pc[p] \in Waiting /\ p \notin overdue
  /\ overdue' = overdue \cup {p}
  /\ UNCHANGED <<pc, lockVars, fileVars>>

\* A lock grows older than lockStale.  Only a dead process's does: the request
\* a live one makes under the lock ends in MaxLockHold, a third of lockStale.
Ages ==
  /\ lock # 0 /\ lock \notin stale
  /\ \A p \in Procs : mine[p] # lock
  /\ stale' = stale \cup {lock}
  /\ UNCHANGED <<pc, lock, takes, mine, overdue, fileVars>>

\* The process dies, between any two steps.
Crash(p) ==
  /\ pc[p] # "dead"
  /\ Cardinality({q \in Procs : pc[q] = "dead"}) < MaxCrashes
  /\ pc' = [pc EXCEPT ![p] = "dead"]
  /\ mine' = [mine EXCEPT ![p] = 0]
  /\ UNCHANGED <<overdue, lock, takes, stale, fileVars>>

-----------------------------------------------------------------------------
Locking(p) ==
  \/ Take(p) \/ TakeFails(p) \/ Finds(p) \/ Stats(p) \/ Break(p) \/ Late(p)

Editing(p) ==
  \/ TokenWritten(p) \/ TokenFails(p)
  \/ (\E fresh \in BOOLEAN : Read(p, fresh)) \/ Skips(p) \/ Rename(p)
  \/ ReleaseReads(p) \/ ReleaseRemoves(p)

Next ==
  \/ \E p \in Procs :
       Begin(p) \/ Locking(p) \/ Editing(p) \/ TimePasses(p) \/ Crash(p)
  \/ Ages

Spec == Init /\ [][Next]_vars

\* A live process steps on, and time passes.  Nothing makes a process edit.
Fairness ==
  \A p \in Procs :
    WF_vars(Locking(p)) /\ WF_vars(Editing(p)) /\ WF_vars(TimePasses(p))

FairSpec == Spec /\ Fairness

-----------------------------------------------------------------------------
(* Properties.                                                             *)

\* The lock is exclusive, across processes: what the doc comment of lockFile
\* says.
MutualExclusion ==
  \A p, q \in Procs : pc[p] \in Holding /\ pc[q] \in Holding => p = q

\* The configs that processes read, change and write back are what making each
\* edit at once gives: none reverts another.
Atomic == INSTANCE AtomicEdits WITH Edits <- Locks

ImplementsAtomicEdits == Atomic!Spec

\* Past its deadline no process waits for the lock for ever.
WaitIsBounded == \A p \in Procs : p \in overdue ~> pc[p] \notin Waiting
=============================================================================
