--------------------------- MODULE EngineServers ---------------------------
(***************************************************************************)
(* The assistant engine (desktop/services/engine.go): one in-process MCP   *)
(* server per key (site and spec), built on first use, shared by reference *)
(* counting, retired when the configuration changes, when nobody used it   *)
(* for engineIdleAfter, or when the engine closes, and closed when it is   *)
(* retired and its last reference is gone.                                 *)
(*                                                                         *)
(* A caller is a goroutine that opens a session, uses it and closes it: a  *)
(* run of the assistant, or a prompt preview.  Every critical section of   *)
(* e.mu is one action; what happens between two of them interleaves.       *)
(***************************************************************************)
EXTENDS Integers, FiniteSets

CONSTANTS
  Callers,    \* goroutines that open sessions, each one session at a time
  Servers,    \* the engineServer values: one per build
  Keys,       \* (site, spec hash)
  MaxOpens,   \* bound: how many Opens the callers make together
  MaxEdits,   \* bound: how many times the configuration is edited
  NoServer,   \* nil *engineServer
  Nobody,     \* no goroutine has taken the server to close it
  Closer,     \* the goroutine in Engine.Close
  Other       \* a goroutine in build, idle or Invalidate

ASSUME FiniteCallers == IsFiniteSet(Callers)
ASSUME BoundsAreNat == MaxOpens \in Nat /\ MaxEdits \in Nat
ASSUME NoServerIsNone == NoServer \notin Servers
ASSUME GoroutinesDiffer ==
  /\ {Nobody, Closer, Other} \cap Callers = {}
  /\ Nobody # Closer /\ Nobody # Other /\ Closer # Other

VARIABLES
  pc,         \* where each caller is
  at,         \* the server each caller holds a reference to
  sclosed,    \* EngineSession.closed: begin() ran on the caller's session
  inCall,     \* a Tools or Call is in flight on the caller's session
  openInv,    \* config version invalidated when the caller's Open began
  cache,      \* Engine.servers
  phase,      \* the build of each server
  buildRef,   \* build still holds its own reference
  refs,       \* engineServer.refs
  retired,    \* engineServer.retired
  taker,      \* who set srvClosed, and so calls closeSrv
  shut,       \* closeSrv has returned for the server
  idleGen,    \* engineServer.idleGen
  timers,     \* idle timers armed: the generations they were armed with
  builtCfg,   \* config version the build read
  closed,     \* Engine.closed
  sessions,   \* Engine.sessions, by caller
  closer,     \* where Engine.Close is
  snap,       \* the sessions Close found
  cfgVer,     \* version of the config file
  invVer,     \* version of the config file at the last Invalidate
  opens       \* Opens made so far

callerVars == <<pc, at, sclosed, inCall, openInv>>
buildVars  == <<phase, buildRef, builtCfg>>
refVars    == <<refs, retired, taker, idleGen, timers>>
engineVars == <<closed, sessions, closer, snap>>
cfgVars    == <<cfgVer, invVer>>

vars == <<callerVars, cache, buildVars, refVars, shut, engineVars, cfgVars,
          opens>>

PCs     == {"idle", "starting", "waiting", "opening", "open", "closing",
            "leaving", "failing"}
Phases  == {"fresh", "queued", "reading", "login", "built", "failed"}
Takers  == Callers \cup {Nobody, Closer, Other}

TypeOK ==
  /\ pc \in [Callers -> PCs]
  /\ at \in [Callers -> Servers \cup {NoServer}]
  /\ sclosed \in [Callers -> BOOLEAN]
  /\ inCall \in [Callers -> BOOLEAN]
  /\ openInv \in [Callers -> Nat]
  /\ cache \in [Keys -> Servers \cup {NoServer}]
  /\ phase \in [Servers -> Phases]
  /\ buildRef \in [Servers -> BOOLEAN]
  /\ builtCfg \in [Servers -> Nat]
  /\ refs \in [Servers -> Int]
  /\ retired \in [Servers -> BOOLEAN]
  /\ taker \in [Servers -> Takers]
  /\ shut \in [Servers -> BOOLEAN]
  /\ idleGen \in [Servers -> Nat]
  /\ timers \in [Servers -> SUBSET Nat]
  /\ closed \in BOOLEAN
  /\ sessions \in SUBSET Callers
  /\ closer \in {"no", "begin", "drain", "wait", "done"}
  /\ snap \in SUBSET Callers
  /\ cfgVer \in Nat
  /\ invVer \in Nat
  /\ opens \in Nat

Init ==
  /\ pc = [c \in Callers |-> "idle"]
  /\ at = [c \in Callers |-> NoServer]
  /\ sclosed = [c \in Callers |-> FALSE]
  /\ inCall = [c \in Callers |-> FALSE]
  /\ openInv = [c \in Callers |-> 0]
  /\ cache = [k \in Keys |-> NoServer]
  /\ phase = [s \in Servers |-> "fresh"]
  /\ buildRef = [s \in Servers |-> FALSE]
  /\ builtCfg = [s \in Servers |-> 0]
  /\ refs = [s \in Servers |-> 0]
  /\ retired = [s \in Servers |-> FALSE]
  /\ taker = [s \in Servers |-> Nobody]
  /\ shut = [s \in Servers |-> FALSE]
  /\ idleGen = [s \in Servers |-> 0]
  /\ timers = [s \in Servers |-> {}]
  /\ closed = FALSE
  /\ sessions = {}
  /\ closer = "no"
  /\ snap = {}
  /\ cfgVer = 0
  /\ invVer = 0
  /\ opens = 0

-----------------------------------------------------------------------------
(* The helpers that run under e.mu.                                        *)

\* Mutant of MustClose: a server is closed though it is in use.
MustCloseUsed(s, n) == phase[s] = "built" /\ taker[s] = Nobody

\* takeClose of a retired server, once refs is n: it must be closed, and no
\* goroutine has taken it to do so.
MustClose(s, n) ==
  phase[s] = "built" /\ taker[s] = Nobody /\ n <= 0

\* Mutant of ArmsTimer: only the first release to leave a server unused does.
ArmsTimerOnce(s, n) ==
  n = 0 /\ ~retired[s] /\ ~closed /\ phase[s] = "built" /\ idleGen[s] = 0

\* Whether release arms an idle timer once refs is n.
ArmsTimer(s, n) ==
  n = 0 /\ ~retired[s] /\ ~closed /\ phase[s] = "built"

\* release by goroutine g: refs-- and takeClose, or a new idle timer.
Release(g, s) ==
  LET n == refs[s] - 1
  IN  /\ refs' = [refs EXCEPT ![s] = n]
      /\ taker' = [taker EXCEPT ![s] = IF retired[s] /\ MustClose(s, n) THEN g ELSE @]
      /\ idleGen' = [idleGen EXCEPT ![s] = IF ArmsTimer(s, n) THEN @ + 1 ELSE @]
      /\ timers' = [timers EXCEPT ![s] =
                      IF ArmsTimer(s, n) THEN @ \cup {idleGen[s] + 1} ELSE @]
      /\ UNCHANGED retired

Cached == {cache[k] : k \in Keys} \ {NoServer}

\* The entry leaves the cache, if it is still there.
Uncache(s) ==
  cache' = [k \in Keys |-> IF cache[k] = s THEN NoServer ELSE cache[k]]

\* retireAll by goroutine g: every cached server is retired, the unused taken.
RetireAll(g) ==
  /\ cache' = [k \in Keys |-> NoServer]
  /\ retired' = [s \in Servers |-> retired[s] \/ s \in Cached]
  /\ taker' = [s \in Servers |->
                 IF s \in Cached /\ MustClose(s, refs[s]) THEN g ELSE taker[s]]
  /\ UNCHANGED <<refs, idleGen, timers>>

-----------------------------------------------------------------------------
(* Open: acquire, build and newSession.                                    *)

\* The caller is not inside closeSrv, which release calls before it returns.
Free(c) == pc[c] = "idle" /\ \A s \in Servers : taker[s] = c => shut[s]

\* The first critical section of acquire, on entry s: e.servers[k] or new.
TakeRef(c, s) ==
  /\ Free(c) /\ opens < MaxOpens
  /\ ~closed
  /\ refs' = [refs EXCEPT ![s] = @ + 1]
  /\ at' = [at EXCEPT ![c] = s]
  /\ openInv' = [openInv EXCEPT ![c] = invVer]
  /\ opens' = opens + 1
  /\ UNCHANGED <<sclosed, inCall, buildRef, builtCfg, retired, taker, idleGen,
                 timers, shut, engineVars, cfgVars>>

\* acquire finds a cached server, built or still building.
Acquire(c, k) ==
  /\ cache[k] # NoServer
  /\ TakeRef(c, cache[k])
  /\ pc' = [pc EXCEPT ![c] = "waiting"]
  /\ UNCHANGED <<cache, phase>>

\* acquire puts a new entry in the cache: this caller starts its build.
AcquireNew(c, k, s) ==
  /\ cache[k] = NoServer /\ phase[s] = "fresh"
  /\ TakeRef(c, s)
  /\ cache' = [cache EXCEPT ![k] = s]
  /\ phase' = [phase EXCEPT ![s] = "queued"]
  /\ pc' = [pc EXCEPT ![c] = "starting"]

\* The second critical section of acquire: the build's own reference.
StartBuild(c) ==
  /\ pc[c] = "starting"
  /\ refs' = [refs EXCEPT ![at[c]] = @ + 1]
  /\ buildRef' = [buildRef EXCEPT ![at[c]] = TRUE]
  /\ phase' = [phase EXCEPT ![at[c]] = "reading"]
  /\ pc' = [pc EXCEPT ![c] = "waiting"]
  /\ UNCHANGED <<at, sclosed, inCall, openInv, cache, builtCfg, retired, taker,
                 idleGen, timers, shut, engineVars, cfgVars, opens>>

\* NewMCPServer reads the config file, then may log in to the site.
BuildRead(s) ==
  /\ phase[s] = "reading"
  /\ phase' = [phase EXCEPT ![s] = "login"]
  /\ builtCfg' = [builtCfg EXCEPT ![s] = cfgVer]
  /\ UNCHANGED <<callerVars, cache, buildRef, refVars, shut, engineVars,
                 cfgVars, opens>>

\* build publishes the server to its waiters.
BuildOk(s) ==
  /\ phase[s] = "login" /\ ~closed
  /\ phase' = [phase EXCEPT ![s] = "built"]
  /\ UNCHANGED <<callerVars, cache, buildRef, builtCfg, refVars, shut,
                 engineVars, cfgVars, opens>>

\* NewMCPServer failed: an error, its timeout, or the end of the engine's ctx.
BuildFails(s) ==
  /\ phase[s] \in {"reading", "login"}
  /\ phase' = [phase EXCEPT ![s] = "failed"]
  /\ Uncache(s)
  /\ UNCHANGED <<callerVars, buildRef, builtCfg, refVars, shut, engineVars,
                 cfgVars, opens>>

\* NewMCPServer succeeded after Close began: the server is closed at once.
BuildLate(s) ==
  /\ phase[s] = "login" /\ closed
  /\ phase' = [phase EXCEPT ![s] = "failed"]
  /\ taker' = [taker EXCEPT ![s] = Other]
  /\ Uncache(s)
  /\ UNCHANGED <<callerVars, buildRef, builtCfg, refs, retired, idleGen,
                 timers, shut, engineVars, cfgVars, opens>>

\* build's deferred release, after closeSrv of a late server.
EndBuild(s) ==
  /\ buildRef[s] /\ phase[s] \in {"built", "failed"}
  /\ taker[s] # Nobody => shut[s]
  /\ Release(Other, s)
  /\ buildRef' = [buildRef EXCEPT ![s] = FALSE]
  /\ UNCHANGED <<callerVars, cache, phase, builtCfg, shut, engineVars, cfgVars,
                 opens>>

\* The caller drops its reference and is done with the server.
Leave(c) ==
  /\ Release(c, at[c])
  /\ pc' = [pc EXCEPT ![c] = "idle"]
  /\ at' = [at EXCEPT ![c] = NoServer]
  /\ openInv' = [openInv EXCEPT ![c] = 0]
  /\ UNCHANGED <<sclosed, inCall, cache, buildVars, shut, engineVars, cfgVars,
                 opens>>

\* The caller's ctx ended while it waited, whether the server is ready or not.
Cancelled(c) ==
  /\ pc[c] = "waiting"
  /\ Leave(c)

\* The build failed: so does the Open.
WaitFails(c) ==
  /\ pc[c] = "waiting" /\ phase[at[c]] = "failed"
  /\ Leave(c)

\* The server is ready: newSession starts a client on it.
Ready(c) ==
  /\ pc[c] = "waiting" /\ phase[at[c]] = "built"
  /\ pc' = [pc EXCEPT ![c] = "opening"]
  /\ UNCHANGED <<at, sclosed, inCall, openInv, cache, buildVars, refVars, shut,
                 engineVars, cfgVars, opens>>

\* Mutants of Register: a session is registered after Close listed them, or
\* under its server.
RegisterLate(c) ==
  /\ pc[c] = "opening"
  /\ sessions' = sessions \cup {c}
  /\ sclosed' = [sclosed EXCEPT ![c] = FALSE]
  /\ pc' = [pc EXCEPT ![c] = "open"]
  /\ UNCHANGED <<at, inCall, openInv, cache, buildVars, refVars, shut, closed,
                 closer, snap, cfgVars, opens>>

\* newSession registers the session, unless Close has begun.
Register(c) ==
  /\ pc[c] = "opening" /\ ~closed
  /\ sessions' = sessions \cup {c}
  /\ sclosed' = [sclosed EXCEPT ![c] = FALSE]
  /\ pc' = [pc EXCEPT ![c] = "open"]
  /\ UNCHANGED <<at, inCall, openInv, cache, buildVars, refVars, shut, closed,
                 closer, snap, cfgVars, opens>>

\* newSession fails: the client, initialize, or Close has begun.
OpenFails(c) ==
  /\ pc[c] = "opening"
  /\ pc' = [pc EXCEPT ![c] = "failing"]
  /\ UNCHANGED <<at, sclosed, inCall, openInv, cache, buildVars, refVars, shut,
                 engineVars, cfgVars, opens>>

\* OpenSpec releases the server of a session that did not start.
ReleaseFailed(c) ==
  /\ pc[c] = "failing"
  /\ Leave(c)

-----------------------------------------------------------------------------
(* The session.                                                            *)

\* enter: a call begins unless the session is closed.
CallBegins(c) ==
  /\ pc[c] = "open" /\ ~sclosed[c] /\ ~inCall[c]
  /\ inCall' = [inCall EXCEPT ![c] = TRUE]
  /\ UNCHANGED <<pc, at, sclosed, openInv, cache, buildVars, refVars, shut,
                 engineVars, cfgVars, opens>>

CallEnds(c) ==
  /\ inCall[c]
  /\ inCall' = [inCall EXCEPT ![c] = FALSE]
  /\ UNCHANGED <<pc, at, sclosed, openInv, cache, buildVars, refVars, shut,
                 engineVars, cfgVars, opens>>

\* EngineSession.Close by the session's owner: begin.
CloseSession(c) ==
  /\ pc[c] = "open"
  /\ pc' = [pc EXCEPT ![c] = "closing"]
  /\ sclosed' = [sclosed EXCEPT ![c] = TRUE]
  /\ UNCHANGED <<at, inCall, openInv, cache, buildVars, refVars, shut,
                 engineVars, cfgVars, opens>>

\* Mutant of FinishSession: only the session's owner ends it.
FinishOwnSession(c) ==
  /\ pc[c] = "closing" /\ ~inCall[c]
  /\ sessions' = sessions \ {c}
  /\ pc' = [pc EXCEPT ![c] = "leaving"]
  /\ UNCHANGED <<at, sclosed, inCall, openInv, cache, buildVars, refVars, shut,
                 closed, closer, snap, cfgVars, opens>>

\* finishOnce, by the owner or by Engine.Close: the calls have ended.
FinishSession(c) ==
  /\ pc[c] = "closing" \/ (pc[c] = "open" /\ c \in snap /\ closer = "wait")
  /\ ~inCall[c]
  /\ sessions' = sessions \ {c}
  /\ pc' = [pc EXCEPT ![c] = "leaving"]
  /\ UNCHANGED <<at, sclosed, inCall, openInv, cache, buildVars, refVars, shut,
                 closed, closer, snap, cfgVars, opens>>

ReleaseSession(c) ==
  /\ pc[c] = "leaving"
  /\ Leave(c)

-----------------------------------------------------------------------------
(* idle, Invalidate and Close.                                             *)

\* closeSrv by the goroutine that took the server.
CloseServer(s) ==
  /\ taker[s] # Nobody /\ ~shut[s]
  /\ shut' = [shut EXCEPT ![s] = TRUE]
  /\ UNCHANGED <<callerVars, cache, buildVars, refVars, engineVars, cfgVars,
                 opens>>

\* Whether the idle timer of generation g still finds its server unused.
StillIdle(s, g) ==
  ~closed /\ ~retired[s] /\ refs[s] <= 0 /\ idleGen[s] = g /\ s \in Cached

\* An idle timer fires: idle retires the server, or does nothing.
IdleFires(s, g) ==
  /\ g \in timers[s]
  /\ timers' = [timers EXCEPT ![s] = @ \ {g}]
  /\ IF StillIdle(s, g)
     THEN /\ Uncache(s)
          /\ retired' = [retired EXCEPT ![s] = TRUE]
          /\ taker' = [taker EXCEPT ![s] =
                         IF MustClose(s, refs[s]) THEN Other ELSE @]
     ELSE UNCHANGED <<cache, retired, taker>>
  /\ UNCHANGED <<callerVars, buildVars, refs, idleGen, shut, engineVars,
                 cfgVars, opens>>

EditConfig ==
  /\ cfgVer < MaxEdits
  /\ cfgVer' = cfgVer + 1
  /\ UNCHANGED <<callerVars, cache, buildVars, refVars, shut, engineVars,
                 invVer, opens>>

\* The watcher saw the config change: every cached server is retired.
Invalidate ==
  /\ invVer # cfgVer
  /\ invVer' = cfgVer
  /\ RetireAll(Other)
  /\ UNCHANGED <<callerVars, buildVars, shut, engineVars, cfgVer, opens>>

\* Engine.Close: later Opens are refused; the sessions are listed.
CloseBegins ==
  /\ ~closed
  /\ closed' = TRUE
  /\ snap' = sessions
  /\ closer' = "begin"
  /\ UNCHANGED <<callerVars, cache, buildVars, refVars, shut, sessions,
                 cfgVars, opens>>

\* Close marks one of the listed sessions closed (begin).
CloseMarks(c) ==
  /\ closer = "begin" /\ c \in snap /\ ~sclosed[c]
  /\ sclosed' = [sclosed EXCEPT ![c] = TRUE]
  /\ UNCHANGED <<pc, at, inCall, openInv, cache, buildVars, refVars, shut,
                 engineVars, cfgVars, opens>>

\* All are marked: the engine's ctx ends and every cached server is retired.
CloseRetires ==
  /\ closer = "begin" /\ \A c \in snap : sclosed[c]
  /\ closer' = "drain"
  /\ RetireAll(Closer)
  /\ UNCHANGED <<callerVars, buildVars, shut, closed, sessions, snap, cfgVars,
                 opens>>

\* The unused servers are closed: Close goes on to the sessions.
CloseDrained ==
  /\ closer = "drain" /\ \A s \in Servers : taker[s] = Closer => shut[s]
  /\ closer' = "wait"
  /\ UNCHANGED <<callerVars, cache, buildVars, refVars, shut, closed, sessions,
                 snap, cfgVars, opens>>

\* Every listed session has finished its own Close: Close returns.
CloseEnds ==
  /\ closer = "wait" /\ \A c \in snap : Free(c)
  /\ closer' = "done"
  /\ UNCHANGED <<callerVars, cache, buildVars, refVars, shut, closed, sessions,
                 snap, cfgVars, opens>>

-----------------------------------------------------------------------------
Opening(c) ==
  \/ \E k \in Keys : Acquire(c, k) \/ \E s \in Servers : AcquireNew(c, k, s)
  \/ StartBuild(c) \/ Cancelled(c) \/ WaitFails(c)
  \/ Ready(c) \/ Register(c) \/ OpenFails(c) \/ ReleaseFailed(c)

Using(c) ==
  \/ CallBegins(c) \/ CallEnds(c)
  \/ CloseSession(c) \/ FinishSession(c) \/ ReleaseSession(c)

Serving(s) ==
  \/ BuildRead(s) \/ BuildOk(s) \/ BuildFails(s) \/ BuildLate(s)
  \/ EndBuild(s) \/ CloseServer(s)
  \/ \E g \in timers[s] : IdleFires(s, g)

Closing ==
  \/ CloseBegins \/ CloseRetires \/ CloseDrained \/ CloseEnds
  \/ \E c \in Callers : CloseMarks(c)

Next ==
  \/ \E c \in Callers : Opening(c) \/ Using(c)
  \/ \E s \in Servers : Serving(s)
  \/ EditConfig \/ Invalidate
  \/ Closing

Spec == Init /\ [][Next]_vars

\* What the code's scheduling gives: a goroutine that can step does; a call
\* whose session is closed ends, for its ctx is cancelled; a build ends, for
\* it has engineBuildTimeout; an armed timer fires.  Nothing says that a
\* caller opens a session or closes it, that a call on an open session ends
\* (it may wait for the user), or that Close or Invalidate is called.
Fairness ==
  /\ \A c \in Callers :
       /\ WF_vars(StartBuild(c)) /\ WF_vars(Ready(c) \/ WaitFails(c))
       /\ WF_vars(Register(c) \/ OpenFails(c)) /\ WF_vars(ReleaseFailed(c))
       /\ WF_vars(sclosed[c] /\ CallEnds(c)) /\ WF_vars(FinishSession(c))
       /\ WF_vars(ReleaseSession(c)) /\ WF_vars(CloseMarks(c))
  /\ \A s \in Servers :
       /\ WF_vars(BuildRead(s)) /\ WF_vars(EndBuild(s))
       /\ WF_vars(BuildOk(s) \/ BuildFails(s) \/ BuildLate(s))
       /\ WF_vars(CloseServer(s))
       /\ WF_vars(\E g \in timers[s] : IdleFires(s, g))
  /\ WF_vars(CloseRetires) /\ WF_vars(CloseDrained) /\ WF_vars(CloseEnds)

FairSpec == Spec /\ Fairness

-----------------------------------------------------------------------------
(* Properties.                                                             *)

\* Where a caller has a server that is built.
InHand == {"opening", "open", "closing", "leaving", "failing"}

Users(s) == {c \in Callers : at[c] = s}

\* Reference counting is exact: a server's refs are the callers that hold it
\* and its own build, whatever order acquire, build, release, idle,
\* Invalidate and Close interleave in.
RefsAreHolders ==
  \A s \in Servers :
    refs[s] = Cardinality(Users(s)) + (IF buildRef[s] THEN 1 ELSE 0)

\* closeSrv never runs on a server while a session opens on it, is open on
\* it or has a call in flight on it.
NeverClosedInUse ==
  \A c \in Callers :
    pc[c] \in InHand =>
      taker[at[c]] = Nobody /\ ~shut[at[c]]

\* No session outlives what it was opened on: one opened after Invalidate
\* runs on a server that read a config file at least as new as the one
\* invalidated (a build in flight at the Invalidate serves only those that
\* asked for it before), and once Close has returned none is registered and
\* none accepts a call.
NoSessionOutlives ==
  /\ \A c \in Callers : pc[c] \in InHand => builtCfg[at[c]] >= openInv[c]
  /\ closer = "done" =>
       sessions = {} /\ \A c \in Callers : pc[c] \notin {"open", "closing"}

\* Close returns: the sessions' calls end, and no wait is circular.
CloseReturns == closed ~> closer = "done"

-----------------------------------------------------------------------------
(* The engine implements ServerLifecycle: a server is open from the moment *)
(* its build succeeds (late or not) until closeSrv returns, and its users  *)
(* are the callers that were given it and have not released it.            *)

StateOf(s) ==
  IF shut[s] THEN "closed"
  ELSE IF phase[s] = "built" \/ taker[s] # Nobody THEN "open"
  ELSE "none"

UsersOf(s) == {c \in Callers : at[c] = s /\ pc[c] \in InHand}

Lifecycle == INSTANCE ServerLifecycle WITH
  state <- [s \in Servers |-> StateOf(s)],
  users <- [s \in Servers |-> UsersOf(s)]

\* No server is closed under a caller that has it, none is closed twice or
\* handed out after it closed, and none that nobody has stays open for ever.
ImplementsLifecycleFairly == Lifecycle!FairSpec
=============================================================================
