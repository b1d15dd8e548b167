------------------------- MODULE EngineServersProofs ------------------------
(***************************************************************************)
(* Proofs about EngineServers, for any callers, servers, keys and bounds.  *)
(***************************************************************************)
EXTENDS EngineServers, FiniteSetTheorems, TLAPS

\* release, retireAll and the removal of an entry keep the types of what they
\* change, whichever goroutine runs them.
LEMMA ReleaseTyped ==
  ASSUME TypeOK, NEW g \in Takers, NEW s, Release(g, s)
  PROVE  /\ refs' \in [Servers -> Int]
         /\ retired' \in [Servers -> BOOLEAN]
         /\ taker' \in [Servers -> Takers]
         /\ idleGen' \in [Servers -> Nat]
         /\ timers' \in [Servers -> SUBSET Nat]
<1>1. refs' \in [Servers -> Int] /\ retired' \in [Servers -> BOOLEAN]
  <2>1. refs' = [refs EXCEPT ![s] = refs[s] - 1] /\ retired' = retired
    BY DEF Release
  <2>2. \A t \in Servers : refs[t] - 1 \in Int
    BY DEF TypeOK
  <2> QED
    BY <2>1, <2>2 DEF TypeOK
<1>2. taker' \in [Servers -> Takers]
  BY DEF TypeOK, Release
<1>3. idleGen' \in [Servers -> Nat] /\ timers' \in [Servers -> SUBSET Nat]
  <2>1. \A t \in Servers : idleGen[t] + 1 \in Nat
    BY DEF TypeOK
  <2>2. \A t \in Servers : timers[t] \cup {idleGen[t] + 1} \in SUBSET Nat
    BY <2>1 DEF TypeOK
  <2> QED
    BY <2>1, <2>2 DEF TypeOK, Release
<1> QED
  BY <1>1, <1>2, <1>3

LEMMA RetireAllTyped ==
  ASSUME TypeOK, NEW g \in Takers, RetireAll(g)
  PROVE  /\ cache' \in [Keys -> Servers \cup {NoServer}]
         /\ refs' \in [Servers -> Int]
         /\ retired' \in [Servers -> BOOLEAN]
         /\ taker' \in [Servers -> Takers]
         /\ idleGen' \in [Servers -> Nat]
         /\ timers' \in [Servers -> SUBSET Nat]
BY DEF TypeOK, RetireAll

LEMMA UncacheTyped ==
  ASSUME TypeOK, NEW s, Uncache(s)
  PROVE  cache' \in [Keys -> Servers \cup {NoServer}]
BY DEF TypeOK, Uncache

LEMMA LeaveTyped ==
  ASSUME TypeOK, NEW c \in Callers, Leave(c)
  PROVE  TypeOK'
<1>1. c \in Takers
  BY DEF Takers
<1>2. Release(c, at[c])
  BY DEF Leave
<1> QED
  BY <1>1, <1>2, ReleaseTyped
     DEF TypeOK, Leave, PCs, buildVars, engineVars, cfgVars

\* The steps of a caller keep the types.
LEMMA OpeningTyped ==
  ASSUME TypeOK, NEW c \in Callers, Opening(c)
  PROVE  TypeOK'
<1> USE DEF TypeOK, PCs, Phases, callerVars, buildVars, refVars, engineVars,
        cfgVars
<1>1. ASSUME NEW k \in Keys, Acquire(c, k)
      PROVE  TypeOK'
  BY <1>1 DEF Acquire, TakeRef
<1>2. ASSUME NEW k \in Keys, NEW s \in Servers, AcquireNew(c, k, s)
      PROVE  TypeOK'
  BY <1>2 DEF AcquireNew, TakeRef
<1>3. CASE StartBuild(c)
  <2>1. \A s \in Servers : refs[s] + 1 \in Int
    OBVIOUS
  <2>2. refs' = [refs EXCEPT ![at[c]] = refs[at[c]] + 1]
    BY <1>3 DEF StartBuild
  <2>3. refs' \in [Servers -> Int]
    BY <2>1, <2>2
  <2> QED
    BY <1>3, <2>3 DEF StartBuild
<1>4. CASE Cancelled(c) \/ WaitFails(c) \/ ReleaseFailed(c)
  BY <1>4, LeaveTyped DEF Cancelled, WaitFails, ReleaseFailed
<1>5. CASE Ready(c)
  BY <1>5 DEF Ready
<1>6. CASE Register(c)
  BY <1>6 DEF Register
<1>7. CASE OpenFails(c)
  BY <1>7 DEF OpenFails
<1> QED
  BY <1>1, <1>2, <1>3, <1>4, <1>5, <1>6, <1>7 DEF Opening

LEMMA UsingTyped ==
  ASSUME TypeOK, NEW c \in Callers, Using(c)
  PROVE  TypeOK'
<1> USE DEF TypeOK, PCs, callerVars, buildVars, refVars, engineVars, cfgVars
<1>1. CASE CallBegins(c) \/ CallEnds(c)
  BY <1>1 DEF CallBegins, CallEnds
<1>2. CASE CloseSession(c)
  BY <1>2 DEF CloseSession
<1>3. CASE FinishSession(c)
  BY <1>3 DEF FinishSession
<1>4. CASE ReleaseSession(c)
  BY <1>4, LeaveTyped DEF ReleaseSession
<1> QED
  BY <1>1, <1>2, <1>3, <1>4 DEF Using

LEMMA ServingTyped ==
  ASSUME TypeOK, NEW s \in Servers, Serving(s)
  PROVE  TypeOK'
<1> USE DEF TypeOK, Phases, callerVars, buildVars, refVars, engineVars, cfgVars
<1>1. CASE BuildRead(s) \/ BuildOk(s) \/ CloseServer(s)
  BY <1>1 DEF BuildRead, BuildOk, CloseServer
<1>2. CASE BuildFails(s)
  BY <1>2, UncacheTyped DEF BuildFails
<1>3. CASE BuildLate(s)
  BY <1>3, UncacheTyped DEF BuildLate, Takers
<1>4. CASE EndBuild(s)
  BY <1>4, ReleaseTyped DEF EndBuild, Takers
<1>5. ASSUME NEW g \in timers[s], IdleFires(s, g)
      PROVE  TypeOK'
  BY <1>5, UncacheTyped DEF IdleFires, Takers
<1> QED
  BY <1>1, <1>2, <1>3, <1>4, <1>5 DEF Serving

LEMMA ClosingTyped ==
  ASSUME TypeOK, Closing
  PROVE  TypeOK'
<1> USE DEF TypeOK, callerVars, buildVars, refVars, engineVars, cfgVars
<1>1. CASE CloseBegins
  BY <1>1 DEF CloseBegins
<1>2. CASE CloseRetires
  BY <1>2, RetireAllTyped DEF CloseRetires, Takers
<1>3. CASE CloseDrained \/ CloseEnds
  BY <1>3 DEF CloseDrained, CloseEnds
<1>4. ASSUME NEW c \in Callers, CloseMarks(c)
      PROVE  TypeOK'
  BY <1>4 DEF CloseMarks
<1> QED
  BY <1>1, <1>2, <1>3, <1>4 DEF Closing

LEMMA StepTyped == TypeOK /\ [Next]_vars => TypeOK'
<1> SUFFICES ASSUME TypeOK, [Next]_vars
             PROVE  TypeOK'
  OBVIOUS
<1>1. CASE EditConfig
  BY <1>1 DEF EditConfig, TypeOK, callerVars, buildVars, refVars, engineVars
<1>2. CASE Invalidate
  BY <1>2, RetireAllTyped
     DEF Invalidate, TypeOK, callerVars, buildVars, engineVars, Takers
<1>3. CASE UNCHANGED vars
  BY <1>3 DEF vars, TypeOK, callerVars, buildVars, refVars, engineVars, cfgVars
<1>4. ASSUME NEW c \in Callers, Opening(c) \/ Using(c)
      PROVE  TypeOK'
  BY <1>4, OpeningTyped, UsingTyped
<1>5. ASSUME NEW s \in Servers, Serving(s)
      PROVE  TypeOK'
  BY <1>5, ServingTyped
<1> QED
  BY <1>1, <1>2, <1>3, <1>4, <1>5, ClosingTyped DEF Next

LEMMA InitTyped == Init => TypeOK
<1> SUFFICES ASSUME Init
             PROVE  TypeOK
  OBVIOUS
<1>1. /\ pc \in [Callers -> PCs]
      /\ phase \in [Servers -> Phases]
      /\ taker \in [Servers -> Takers]
  BY DEF Init, PCs, Phases, Takers
<1>2. timers \in [Servers -> SUBSET Nat]
  BY DEF Init
<1>3. /\ at \in [Callers -> Servers \cup {NoServer}]
      /\ cache \in [Keys -> Servers \cup {NoServer}]
  BY DEF Init
<1>4. /\ openInv \in [Callers -> Nat]
      /\ builtCfg \in [Servers -> Nat]
      /\ refs \in [Servers -> Int]
      /\ idleGen \in [Servers -> Nat]
      /\ cfgVer \in Nat /\ invVer \in Nat /\ opens \in Nat
  BY DEF Init
<1>5. /\ sclosed \in [Callers -> BOOLEAN]
      /\ inCall \in [Callers -> BOOLEAN]
      /\ buildRef \in [Servers -> BOOLEAN]
      /\ retired \in [Servers -> BOOLEAN]
      /\ shut \in [Servers -> BOOLEAN]
      /\ closed \in BOOLEAN
  BY Zenon DEF Init
<1>6. /\ sessions \in SUBSET Callers
      /\ snap \in SUBSET Callers
      /\ closer \in {"no", "begin", "drain", "wait", "done"}
  BY DEF Init
<1> QED
  BY <1>1, <1>2, <1>3, <1>4, <1>5, <1>6, Zenon DEF TypeOK

\* Every variable keeps its type, whatever steps the engine takes
\* (desktop/services/engine.go): TypeOK is inductive as it stands.
THEOREM TypeCorrect == Spec => []TypeOK
BY InitTyped, StepTyped, PTL DEF Spec

-----------------------------------------------------------------------------
(* The inductive invariant behind reference counting.                      *)

\* A caller has a reference exactly while it is not idle.
AtWhenBusy == \A c \in Callers : at[c] = NoServer <=> pc[c] = "idle"

\* A server value nobody has asked for yet.
FreshIsUntouched ==
  \A s \in Servers :
    phase[s] = "fresh" =>
      Users(s) = {} /\ s \notin Cached /\ ~buildRef[s] /\ ~retired[s]

\* One caller starts each build, and the build holds a reference until it
\* publishes its result.
BuildHasItsRef ==
  /\ \A c \in Callers : pc[c] = "starting" => phase[at[c]] = "queued"
  /\ \A c, d \in Callers :
       pc[c] = "starting" /\ pc[d] = "starting" /\ at[c] = at[d] => c = d
  /\ \A s \in Servers :
       /\ phase[s] \in {"fresh", "queued"} => ~buildRef[s]
       /\ phase[s] \in {"reading", "login"} => buildRef[s]

\* A server in hand is built.
InHandIsBuilt == \A c \in Callers : pc[c] \in InHand => phase[at[c]] = "built"

\* The cache holds no retired server.
CachedIsLive == \A k \in Keys : cache[k] # NoServer => ~retired[cache[k]]

\* Only a finished server is taken to be closed, a built one only once it is
\* retired and nobody refers to it; and only a taken one is closed.
TakenIsUnused ==
  \A s \in Servers :
    /\ taker[s] # Nobody => phase[s] \in {"built", "failed"}
    /\ taker[s] # Nobody /\ phase[s] = "built" => retired[s] /\ refs[s] = 0
    /\ shut[s] => taker[s] # Nobody

IInv ==
  /\ TypeOK
  /\ RefsAreHolders
  /\ AtWhenBusy
  /\ FreshIsUntouched
  /\ BuildHasItsRef
  /\ InHandIsBuilt
  /\ CachedIsLive
  /\ TakenIsUnused

LEMMA UsersFinite ==
  ASSUME NEW s
  PROVE  IsFiniteSet(Users(s)) /\ Cardinality(Users(s)) \in Nat
<1>1. Users(s) \subseteq Callers
  BY DEF Users
<1>2. IsFiniteSet(Users(s))
  BY <1>1, FiniteCallers, FS_Subset
<1> QED
  BY <1>2, FS_CardinalityType

\* A caller that takes a reference adds itself to one server's users.
LEMMA UsersJoin ==
  ASSUME TypeOK, NEW c \in Callers, NEW s \in Servers,
         at[c] = NoServer, at' = [at EXCEPT ![c] = s]
  PROVE  /\ Users(s)' = Users(s) \cup {c}
         /\ Cardinality(Users(s)') = Cardinality(Users(s)) + 1
         /\ \A t \in Servers : t # s => Users(t)' = Users(t)
<1>1. Users(s)' = Users(s) \cup {c}
  BY DEF TypeOK, Users
<1>2. c \notin Users(s)
  BY NoServerIsNone DEF Users
<1>3. Cardinality(Users(s)') = Cardinality(Users(s)) + 1
  BY <1>1, <1>2, UsersFinite, FS_AddElement
<1>4. \A t \in Servers : t # s => Users(t)' = Users(t)
  BY NoServerIsNone DEF TypeOK, Users
<1> QED
  BY <1>1, <1>3, <1>4

\* A caller that leaves removes itself from one server's users.
LEMMA UsersPart ==
  ASSUME TypeOK, NEW c \in Callers, NEW s \in Servers,
         at[c] = s, at' = [at EXCEPT ![c] = NoServer]
  PROVE  /\ Users(s)' = Users(s) \ {c}
         /\ Cardinality(Users(s)') = Cardinality(Users(s)) - 1
         /\ \A t \in Servers : t # s => Users(t)' = Users(t)
<1>1. Users(s)' = Users(s) \ {c}
  BY NoServerIsNone DEF TypeOK, Users
<1>2. c \in Users(s)
  BY DEF Users
<1>3. Cardinality(Users(s)') = Cardinality(Users(s)) - 1
  BY <1>1, <1>2, UsersFinite, FS_RemoveElement
<1>4. \A t \in Servers : t # s => Users(t)' = Users(t)
  BY NoServerIsNone DEF TypeOK, Users
<1> QED
  BY <1>1, <1>3, <1>4

\* What a server with users, and so with references, cannot be.
LEMMA HeldIsUntaken ==
  ASSUME IInv, NEW c \in Callers, NEW s \in Servers, at[c] = s
  PROVE  /\ refs[s] > 0
         /\ phase[s] # "fresh"
         /\ phase[s] = "built" => taker[s] = Nobody /\ ~shut[s]
<1>1. c \in Users(s)
  BY DEF Users
<1>2. Cardinality(Users(s)) # 0
  BY <1>1, UsersFinite, FS_EmptySet
<1>3. refs[s] > 0
  BY <1>2, UsersFinite DEF IInv, RefsAreHolders
<1>4. phase[s] # "fresh"
  BY <1>1 DEF IInv, FreshIsUntouched
<1>5. phase[s] = "built" => taker[s] = Nobody /\ ~shut[s]
  BY <1>3 DEF IInv, TakenIsUnused
<1> QED
  BY <1>3, <1>4, <1>5

\* A busy caller holds a server.
LEMMA BusyHolds ==
  ASSUME IInv, NEW c \in Callers, pc[c] # "idle"
  PROVE  at[c] \in Servers
BY DEF IInv, TypeOK, AtWhenBusy

\* The engine never closes a server in use, from the inductive invariant.
LEMMA IInvNeverClosedInUse == IInv => NeverClosedInUse
<1> SUFFICES ASSUME IInv, NEW c \in Callers, pc[c] \in InHand
             PROVE  taker[at[c]] = Nobody /\ ~shut[at[c]]
  BY DEF NeverClosedInUse
<1>1. at[c] \in Servers
  BY BusyHolds DEF InHand
<1>2. phase[at[c]] = "built"
  BY DEF IInv, InHandIsBuilt
<1> QED
  BY <1>1, <1>2, HeldIsUntaken

\* acquire's first critical section keeps the invariant, on a cached entry
\* or on a new one.
LEMMA AcquireKeeps ==
  ASSUME IInv, TypeOK', NEW c \in Callers, NEW k \in Keys, Acquire(c, k)
  PROVE  IInv'
<1> DEFINE s == cache[k]
<1> USE DEF Acquire, TakeRef, engineVars, cfgVars
<1>0. /\ TypeOK /\ s \in Servers /\ pc[c] = "idle" /\ at[c] = NoServer
      /\ s \in Cached
  BY DEF IInv, TypeOK, Free, AtWhenBusy, Cached
<1>1. /\ at' = [at EXCEPT ![c] = s]
      /\ refs' = [refs EXCEPT ![s] = @ + 1]
      /\ UNCHANGED <<cache, phase, buildRef, retired, taker, shut>>
      /\ pc' = [pc EXCEPT ![c] = "waiting"]
  OBVIOUS
<1>2. /\ Cardinality(Users(s)') = Cardinality(Users(s)) + 1
      /\ \A t \in Servers : t # s => Users(t)' = Users(t)
  BY <1>0, <1>1, UsersJoin
<1>3. phase[s] # "fresh" /\ (phase[s] = "built" => taker[s] = Nobody)
  BY <1>0 DEF IInv, FreshIsUntouched, CachedIsLive, TakenIsUnused
<1>4. RefsAreHolders'
  BY <1>0, <1>1, <1>2, UsersFinite DEF IInv, RefsAreHolders, TypeOK
<1>5. AtWhenBusy'
  BY <1>0, <1>1, NoServerIsNone DEF IInv, AtWhenBusy, TypeOK
<1>6. FreshIsUntouched'
  BY <1>0, <1>1, <1>2, <1>3 DEF IInv, FreshIsUntouched, Cached, TypeOK
<1>7. BuildHasItsRef'
  BY <1>0, <1>1 DEF IInv, BuildHasItsRef, TypeOK
<1>8. InHandIsBuilt'
  BY <1>0, <1>1 DEF IInv, InHandIsBuilt, InHand, TypeOK
<1>9. CachedIsLive' /\ TakenIsUnused'
  BY <1>0, <1>1, <1>3 DEF IInv, CachedIsLive, TakenIsUnused, TypeOK
<1> QED
  BY <1>4, <1>5, <1>6, <1>7, <1>8, <1>9 DEF IInv

LEMMA AcquireNewKeeps ==
  ASSUME IInv, TypeOK', NEW c \in Callers, NEW k \in Keys, NEW s \in Servers,
         AcquireNew(c, k, s)
  PROVE  IInv'
<1> USE DEF AcquireNew, TakeRef, engineVars, cfgVars
<1>0. /\ TypeOK /\ pc[c] = "idle" /\ at[c] = NoServer
      /\ phase[s] = "fresh" /\ ~retired[s] /\ ~buildRef[s] /\ s \notin Cached
      /\ \A d \in Callers : at[d] # s
  BY DEF IInv, TypeOK, Free, AtWhenBusy, FreshIsUntouched, Users
<1>1. /\ at' = [at EXCEPT ![c] = s]
      /\ refs' = [refs EXCEPT ![s] = @ + 1]
      /\ cache' = [cache EXCEPT ![k] = s]
      /\ phase' = [phase EXCEPT ![s] = "queued"]
      /\ pc' = [pc EXCEPT ![c] = "starting"]
      /\ UNCHANGED <<buildRef, retired, taker, shut>>
  OBVIOUS
<1>2. /\ Cardinality(Users(s)') = Cardinality(Users(s)) + 1
      /\ \A t \in Servers : t # s => Users(t)' = Users(t)
  BY <1>0, <1>1, UsersJoin
<1>3. \A t \in Cached' : t = s \/ t \in Cached
  BY <1>0, <1>1 DEF Cached, TypeOK
<1>4. RefsAreHolders'
  BY <1>0, <1>1, <1>2, UsersFinite DEF IInv, RefsAreHolders, TypeOK
<1>5. AtWhenBusy'
  BY <1>0, <1>1, NoServerIsNone DEF IInv, AtWhenBusy, TypeOK
<1>6. FreshIsUntouched'
  BY <1>0, <1>1, <1>2, <1>3 DEF IInv, FreshIsUntouched, TypeOK
<1>7. BuildHasItsRef'
  <2>1. \A d \in Callers : pc'[d] = "starting" => phase'[at'[d]] = "queued"
    BY <1>0, <1>1 DEF IInv, BuildHasItsRef, TypeOK
  <2>2. \A d, e \in Callers :
          pc'[d] = "starting" /\ pc'[e] = "starting" /\ at'[d] = at'[e] => d = e
    BY <1>0, <1>1 DEF IInv, BuildHasItsRef, TypeOK
  <2> QED
    BY <1>0, <1>1, <2>1, <2>2 DEF IInv, BuildHasItsRef, TypeOK
<1>8. InHandIsBuilt'
  BY <1>0, <1>1 DEF IInv, InHandIsBuilt, InHand, TypeOK
<1>9. CachedIsLive' /\ TakenIsUnused'
  BY <1>0, <1>1 DEF IInv, CachedIsLive, TakenIsUnused, TypeOK
<1> QED
  BY <1>4, <1>5, <1>6, <1>7, <1>8, <1>9 DEF IInv

\* acquire's second critical section: the build has a reference of its own.
LEMMA StartBuildKeeps ==
  ASSUME IInv, TypeOK', NEW c \in Callers, StartBuild(c)
  PROVE  IInv'
<1> DEFINE s == at[c]
<1> USE DEF StartBuild, engineVars, cfgVars
<1>0. /\ TypeOK /\ pc[c] = "starting" /\ s \in Servers
      /\ phase[s] = "queued" /\ ~buildRef[s] /\ taker[s] = Nobody
  BY BusyHolds DEF IInv, BuildHasItsRef, TakenIsUnused
<1>1. /\ refs' = [refs EXCEPT ![s] = @ + 1]
      /\ buildRef' = [buildRef EXCEPT ![s] = TRUE]
      /\ phase' = [phase EXCEPT ![s] = "reading"]
      /\ pc' = [pc EXCEPT ![c] = "waiting"]
      /\ UNCHANGED <<at, cache, retired, taker, shut>>
  OBVIOUS
<1>2. \A t : Users(t)' = Users(t)
  BY <1>1 DEF Users
<1>3. RefsAreHolders'
  BY <1>0, <1>1, <1>2, UsersFinite DEF IInv, RefsAreHolders, TypeOK
<1>4. AtWhenBusy' /\ FreshIsUntouched'
  BY <1>0, <1>1, <1>2
     DEF IInv, AtWhenBusy, FreshIsUntouched, Cached, TypeOK
<1>5. BuildHasItsRef'
  BY <1>0, <1>1 DEF IInv, BuildHasItsRef, TypeOK
<1>6. InHandIsBuilt'
  BY <1>0, <1>1 DEF IInv, InHandIsBuilt, InHand, TypeOK
<1>7. CachedIsLive' /\ TakenIsUnused'
  BY <1>0, <1>1 DEF IInv, CachedIsLive, TakenIsUnused, TypeOK
<1> QED
  BY <1>3, <1>4, <1>5, <1>6, <1>7 DEF IInv

\* release by a caller: of a cancelled or failed Open, or of a session.
LEMMA LeaveKeeps ==
  ASSUME IInv, TypeOK', NEW c \in Callers,
         pc[c] \in {"waiting", "failing", "leaving"}, Leave(c)
  PROVE  IInv'
<1> DEFINE s == at[c]
<1> USE DEF Leave, Release, buildVars, engineVars, cfgVars
<1>0. TypeOK /\ s \in Servers /\ c # Nobody
  BY BusyHolds, GoroutinesDiffer DEF IInv
<1>1. /\ at' = [at EXCEPT ![c] = NoServer]
      /\ refs' = [refs EXCEPT ![s] = refs[s] - 1]
      /\ taker' = [taker EXCEPT ![s] = IF retired[s] /\ MustClose(s, refs[s] - 1) THEN c ELSE @]
      /\ pc' = [pc EXCEPT ![c] = "idle"]
      /\ UNCHANGED <<cache, phase, buildRef, retired, shut>>
  OBVIOUS
<1>2. ASSUME NEW t \in Servers
      PROVE  /\ t = s => Cardinality(Users(t)') = Cardinality(Users(t)) - 1
             /\ Users(t)' \subseteq Users(t)
             /\ t # s => Users(t)' = Users(t)
  BY <1>0, <1>1, UsersPart
<1>3. refs[s] > 0 /\ phase[s] # "fresh" /\ (phase[s] = "built" => taker[s] = Nobody)
  BY <1>0, HeldIsUntaken
<1>4. RefsAreHolders'
  BY <1>0, <1>1, <1>2, UsersFinite DEF IInv, RefsAreHolders, TypeOK
<1>5. AtWhenBusy'
  BY <1>0, <1>1, NoServerIsNone DEF IInv, AtWhenBusy, TypeOK
<1>6. FreshIsUntouched'
  BY <1>0, <1>1, <1>2, <1>3 DEF IInv, FreshIsUntouched, Cached, TypeOK
<1>7. BuildHasItsRef'
  BY <1>0, <1>1 DEF IInv, BuildHasItsRef, TypeOK
<1>8. InHandIsBuilt' /\ CachedIsLive'
  BY <1>0, <1>1 DEF IInv, InHandIsBuilt, InHand, CachedIsLive, TypeOK
<1>9. TakenIsUnused'
  <2>1. \A t \in Servers : t # s => taker'[t] = taker[t] /\ refs'[t] = refs[t]
    BY <1>0, <1>1 DEF TypeOK
  <2>2. taker'[s] # taker[s] =>
          phase[s] = "built" /\ retired[s] /\ refs'[s] = 0
    BY <1>0, <1>1, <1>3 DEF MustClose, TypeOK
  <2>3. taker[s] # Nobody => taker'[s] = taker[s] /\ phase[s] = "failed"
    BY <1>0, <1>1, <1>3 DEF IInv, TakenIsUnused, MustClose, TypeOK
  <2> QED
    BY <1>0, <1>1, <2>1, <2>2, <2>3 DEF IInv, TakenIsUnused, TypeOK
<1> QED
  BY <1>4, <1>5, <1>6, <1>7, <1>8, <1>9 DEF IInv

\* The steps of a session move its caller between places that have the server.
LEMMA SessionKeeps ==
  ASSUME IInv, TypeOK', NEW c \in Callers,
         \/ Ready(c) \/ Register(c) \/ OpenFails(c) \/ CallBegins(c)
         \/ CallEnds(c) \/ CloseSession(c) \/ FinishSession(c)
  PROVE  IInv'
<1> USE DEF Ready, Register, OpenFails, CallBegins, CallEnds, CloseSession,
        FinishSession, buildVars, refVars
<1>1. UNCHANGED <<at, cache, refs, phase, buildRef, retired, taker, shut>>
  OBVIOUS
<1>2. \/ pc' = pc
      \/ /\ pc[c] # "idle" /\ pc[c] # "starting" /\ phase[at[c]] = "built"
         /\ \E p \in InHand : pc' = [pc EXCEPT ![c] = p]
  BY DEF IInv, InHandIsBuilt, InHand
<1>3. \A t : Users(t)' = Users(t)
  BY <1>1 DEF Users
<1>4. RefsAreHolders' /\ FreshIsUntouched' /\ CachedIsLive' /\ TakenIsUnused'
  BY <1>1, <1>3
     DEF IInv, RefsAreHolders, FreshIsUntouched, CachedIsLive, TakenIsUnused,
         Cached
<1>5. AtWhenBusy' /\ BuildHasItsRef' /\ InHandIsBuilt'
  <2>1. CASE pc' = pc
    BY <1>1, <2>1 DEF IInv, AtWhenBusy, BuildHasItsRef, InHandIsBuilt
  <2>2. ASSUME NEW p \in InHand, pc' = [pc EXCEPT ![c] = p],
               pc[c] # "idle", phase[at[c]] = "built"
        PROVE  AtWhenBusy' /\ BuildHasItsRef' /\ InHandIsBuilt'
    BY <1>1, <2>2
       DEF IInv, AtWhenBusy, BuildHasItsRef, InHandIsBuilt, InHand, TypeOK
  <2> QED
    BY <1>2, <2>1, <2>2
<1> QED
  BY <1>4, <1>5 DEF IInv

\* A build reads, publishes its server, fails, or comes too late.
LEMMA BuildKeeps ==
  ASSUME IInv, TypeOK', NEW s \in Servers,
         BuildRead(s) \/ BuildOk(s) \/ BuildFails(s) \/ BuildLate(s)
  PROVE  IInv'
<1> USE DEF BuildRead, BuildOk, BuildFails, BuildLate, callerVars, refVars
<1>0. TypeOK /\ phase[s] \in {"reading", "login"} /\ buildRef[s] /\ taker[s] = Nobody
  BY DEF IInv, BuildHasItsRef, TakenIsUnused
<1>1. /\ UNCHANGED <<pc, at, refs, buildRef, retired, shut>>
      /\ \E p \in {"login", "built", "failed"} :
           /\ phase' = [phase EXCEPT ![s] = p]
           /\ \/ taker' = taker
              \/ p = "failed" /\ taker' = [taker EXCEPT ![s] = Other]
      /\ \A k \in Keys : cache'[k] = cache[k] \/ cache'[k] = NoServer
  BY DEF Uncache, IInv, TypeOK
<1>2. \A t : Users(t)' = Users(t)
  BY <1>1 DEF Users
<1>3. RefsAreHolders' /\ AtWhenBusy'
  BY <1>1, <1>2 DEF IInv, RefsAreHolders, AtWhenBusy
<1>4. Cached' \subseteq Cached
  BY <1>1 DEF Cached
<1>5. FreshIsUntouched'
  BY <1>0, <1>1, <1>2, <1>4 DEF IInv, FreshIsUntouched, TypeOK
<1>6. BuildHasItsRef' /\ InHandIsBuilt'
  BY <1>0, <1>1 DEF IInv, BuildHasItsRef, InHandIsBuilt, TypeOK
<1>7. CachedIsLive'
  BY <1>1 DEF IInv, CachedIsLive
<1>8. TakenIsUnused'
  BY <1>0, <1>1, GoroutinesDiffer DEF IInv, TakenIsUnused, TypeOK
<1> QED
  BY <1>3, <1>5, <1>6, <1>7, <1>8 DEF IInv

\* The build releases its own reference.
LEMMA EndBuildKeeps ==
  ASSUME IInv, TypeOK', NEW s \in Servers, EndBuild(s)
  PROVE  IInv'
<1> USE DEF EndBuild, Release, callerVars
<1>0. TypeOK /\ buildRef[s] /\ phase[s] \in {"built", "failed"} /\ Other # Nobody
  BY GoroutinesDiffer DEF IInv
<1>1. /\ buildRef' = [buildRef EXCEPT ![s] = FALSE]
      /\ refs' = [refs EXCEPT ![s] = refs[s] - 1]
      /\ taker' = [taker EXCEPT ![s] = IF retired[s] /\ MustClose(s, refs[s] - 1) THEN Other ELSE @]
      /\ UNCHANGED <<pc, at, cache, phase, retired, shut>>
  OBVIOUS
<1>2. \A t : Users(t)' = Users(t)
  BY <1>1 DEF Users
<1>3. RefsAreHolders' /\ AtWhenBusy'
  BY <1>0, <1>1, <1>2, UsersFinite DEF IInv, RefsAreHolders, AtWhenBusy, TypeOK
<1>4. refs[s] > 0
  BY <1>0, UsersFinite DEF IInv, RefsAreHolders
<1>5. FreshIsUntouched' /\ CachedIsLive'
  BY <1>0, <1>1, <1>2 DEF IInv, FreshIsUntouched, CachedIsLive, Cached, TypeOK
<1>6. BuildHasItsRef' /\ InHandIsBuilt'
  BY <1>0, <1>1 DEF IInv, BuildHasItsRef, InHandIsBuilt, TypeOK
<1>7. TakenIsUnused'
  <2>1. \A t \in Servers : t # s => taker'[t] = taker[t] /\ refs'[t] = refs[t]
    BY <1>0, <1>1 DEF TypeOK
  <2>2. taker'[s] # taker[s] =>
          phase[s] = "built" /\ retired[s] /\ refs'[s] = 0
    BY <1>0, <1>1, <1>4 DEF MustClose, TypeOK
  <2>3. taker[s] # Nobody => taker'[s] = taker[s] /\ phase[s] = "failed"
    BY <1>0, <1>1, <1>4 DEF IInv, TakenIsUnused, MustClose, TypeOK
  <2> QED
    BY <1>0, <1>1, <2>1, <2>2, <2>3 DEF IInv, TakenIsUnused, TypeOK
<1> QED
  BY <1>3, <1>5, <1>6, <1>7 DEF IInv

\* Retiring the cache takes only servers nobody refers to.
LEMMA RetireAllKeeps ==
  ASSUME IInv, TypeOK', NEW g \in {Closer, Other}, RetireAll(g),
         UNCHANGED <<callerVars, buildVars, shut>>
  PROVE  IInv'
<1> USE DEF callerVars, buildVars
<1>0. TypeOK /\ g # Nobody
  BY GoroutinesDiffer DEF IInv
<1>1. /\ UNCHANGED <<pc, at, phase, buildRef, refs, shut>>
      /\ cache' = [k \in Keys |-> NoServer]
      /\ retired' = [s \in Servers |-> retired[s] \/ s \in Cached]
  BY DEF RetireAll
<1>2. ASSUME NEW s \in Servers
      PROVE  \/ taker'[s] = taker[s]
             \/ /\ phase[s] = "built" /\ retired'[s] /\ refs[s] <= 0
                /\ taker'[s] = g
  BY <1>0, <1>1 DEF RetireAll, MustClose, TypeOK
<1>3. \A t : Users(t)' = Users(t)
  BY <1>1 DEF Users
<1>4. \A s \in Servers : refs[s] >= 0
  BY <1>0, UsersFinite DEF IInv, RefsAreHolders, TypeOK
<1>5. RefsAreHolders' /\ AtWhenBusy' /\ BuildHasItsRef' /\ InHandIsBuilt'
  BY <1>1, <1>3
     DEF IInv, RefsAreHolders, AtWhenBusy, BuildHasItsRef, InHandIsBuilt
<1>6. FreshIsUntouched' /\ CachedIsLive'
  BY <1>0, <1>1, <1>3 DEF IInv, FreshIsUntouched, CachedIsLive, Cached, TypeOK
<1>7. TakenIsUnused'
  BY <1>0, <1>1, <1>2, <1>4 DEF IInv, TakenIsUnused, TypeOK
<1> QED
  BY <1>5, <1>6, <1>7 DEF IInv

\* An idle timer retires a cached server nobody refers to, or does nothing.
LEMMA IdleKeeps ==
  ASSUME IInv, TypeOK', NEW s \in Servers, NEW g \in timers[s], IdleFires(s, g)
  PROVE  IInv'
<1> USE DEF IdleFires, callerVars, buildVars
<1>0. TypeOK /\ Other # Nobody
  BY GoroutinesDiffer DEF IInv
<1>1. /\ UNCHANGED <<pc, at, phase, buildRef, refs, shut>>
      /\ \A k \in Keys : cache'[k] = cache[k] \/ cache'[k] = NoServer
  BY <1>0 DEF Uncache, TypeOK
<1>2. \A t : Users(t)' = Users(t)
  BY <1>1 DEF Users
<1>3. RefsAreHolders' /\ AtWhenBusy' /\ BuildHasItsRef' /\ InHandIsBuilt'
  BY <1>1, <1>2
     DEF IInv, RefsAreHolders, AtWhenBusy, BuildHasItsRef, InHandIsBuilt
<1>4. Cached' \subseteq Cached
  BY <1>1 DEF Cached
<1>5. refs[s] >= 0
  BY <1>0, UsersFinite DEF IInv, RefsAreHolders, TypeOK
<1>6. CASE StillIdle(s, g)
  <2>1. /\ retired' = [retired EXCEPT ![s] = TRUE]
        /\ \/ taker' = taker
           \/ /\ taker' = [taker EXCEPT ![s] = Other]
              /\ phase[s] = "built" /\ refs[s] <= 0
        /\ \A k \in Keys : cache'[k] # s
        /\ s \in Cached
    BY <1>0, <1>6, NoServerIsNone
       DEF StillIdle, MustClose, Uncache, TypeOK
  <2>2. FreshIsUntouched'
    BY <1>0, <1>1, <1>2, <1>4, <2>1 DEF IInv, FreshIsUntouched, TypeOK
  <2>3. CachedIsLive'
    BY <1>0, <1>1, <2>1 DEF IInv, CachedIsLive, TypeOK
  <2>4. TakenIsUnused'
    BY <1>0, <1>1, <1>5, <2>1 DEF IInv, TakenIsUnused, TypeOK
  <2> QED
    BY <1>3, <2>2, <2>3, <2>4 DEF IInv
<1>7. CASE ~StillIdle(s, g)
  BY <1>1, <1>2, <1>3, <1>7
     DEF IInv, FreshIsUntouched, CachedIsLive, TakenIsUnused, Cached
<1> QED
  BY <1>6, <1>7

LEMMA StepKeeps == IInv /\ [Next]_vars => IInv'
<1> SUFFICES ASSUME IInv, [Next]_vars
             PROVE  IInv'
  OBVIOUS
<1>0. TypeOK'
  BY StepTyped DEF IInv
<1>1. ASSUME NEW c \in Callers, Opening(c)
      PROVE  IInv'
  <2>1. ASSUME NEW k \in Keys, Acquire(c, k)
        PROVE  IInv'
    BY <1>0, <2>1, AcquireKeeps
  <2>2. ASSUME NEW k \in Keys, NEW s \in Servers, AcquireNew(c, k, s)
        PROVE  IInv'
    BY <1>0, <2>2, AcquireNewKeeps
  <2>3. CASE StartBuild(c)
    BY <1>0, <2>3, StartBuildKeeps
  <2>4. CASE Cancelled(c) \/ WaitFails(c) \/ ReleaseFailed(c)
    BY <1>0, <2>4, LeaveKeeps DEF Cancelled, WaitFails, ReleaseFailed
  <2>5. CASE Ready(c) \/ Register(c) \/ OpenFails(c)
    BY <1>0, <2>5, SessionKeeps
  <2> QED
    BY <1>1, <2>1, <2>2, <2>3, <2>4, <2>5 DEF Opening
<1>2. ASSUME NEW c \in Callers, Using(c)
      PROVE  IInv'
  <2>1. CASE ReleaseSession(c)
    BY <1>0, <2>1, LeaveKeeps DEF ReleaseSession
  <2> QED
    BY <1>0, <1>2, <2>1, SessionKeeps DEF Using
<1>3. ASSUME NEW s \in Servers, Serving(s)
      PROVE  IInv'
  <2>1. CASE CloseServer(s)
    <3>1. /\ UNCHANGED <<pc, at, cache, refs, phase, buildRef, retired, taker>>
          /\ shut' = [shut EXCEPT ![s] = TRUE] /\ taker[s] # Nobody
      BY <2>1 DEF CloseServer, callerVars, buildVars, refVars
    <3>2. \A t : Users(t)' = Users(t)
      BY <3>1 DEF Users
    <3>3. /\ RefsAreHolders' /\ AtWhenBusy' /\ FreshIsUntouched'
          /\ BuildHasItsRef' /\ InHandIsBuilt' /\ CachedIsLive'
      BY <3>1, <3>2
         DEF IInv, RefsAreHolders, AtWhenBusy, FreshIsUntouched, Cached,
             BuildHasItsRef, InHandIsBuilt, CachedIsLive
    <3>4. TakenIsUnused'
      BY <3>1 DEF IInv, TakenIsUnused, TypeOK
    <3> QED
      BY <1>0, <3>3, <3>4 DEF IInv
  <2>2. CASE EndBuild(s)
    BY <1>0, <2>2, EndBuildKeeps
  <2>3. ASSUME NEW g \in timers[s], IdleFires(s, g)
        PROVE  IInv'
    BY <1>0, <2>3, IdleKeeps
  <2> QED
    BY <1>0, <1>3, <2>1, <2>2, <2>3, BuildKeeps DEF Serving
<1>4. CASE Invalidate \/ CloseRetires
  BY <1>0, <1>4, RetireAllKeeps DEF Invalidate, CloseRetires
<1>5. CASE \/ UNCHANGED vars \/ EditConfig \/ CloseBegins \/ CloseDrained
           \/ CloseEnds \/ \E c \in Callers : CloseMarks(c)
  <2>1. UNCHANGED <<pc, at, cache, refs, phase, buildRef, retired, taker, shut>>
    BY <1>5 DEF EditConfig, CloseBegins, CloseDrained, CloseEnds, CloseMarks,
                vars, callerVars, buildVars, refVars
  <2>2. \A t : Users(t)' = Users(t)
    BY <2>1 DEF Users
  <2> QED
    BY <1>0, <2>1, <2>2
       DEF IInv, RefsAreHolders, AtWhenBusy, FreshIsUntouched, Cached,
           BuildHasItsRef, InHandIsBuilt, CachedIsLive, TakenIsUnused
<1> QED
  BY <1>1, <1>2, <1>3, <1>4, <1>5 DEF Next, Closing

LEMMA InitIInv == Init => IInv
<1> SUFFICES ASSUME Init
             PROVE  IInv
  OBVIOUS
<1>1. TypeOK
  BY InitTyped
<1>2. \A s \in Servers : Users(s) = {}
  BY NoServerIsNone DEF Init, Users
<1>3. Cached = {}
  BY DEF Init, Cached
<1>4. RefsAreHolders
  BY <1>2, FS_EmptySet DEF Init, RefsAreHolders
<1>5. AtWhenBusy /\ FreshIsUntouched /\ CachedIsLive
  BY <1>2, <1>3 DEF Init, AtWhenBusy, FreshIsUntouched, CachedIsLive
<1>6. BuildHasItsRef /\ InHandIsBuilt /\ TakenIsUnused
  BY DEF Init, BuildHasItsRef, InHandIsBuilt, InHand, TakenIsUnused
<1> QED
  BY <1>1, <1>4, <1>5, <1>6 DEF IInv

\* Reference counting is exact: in every state a server's refs are the callers
\* that hold it and its own build (acquire, build, release in engine.go).
THEOREM RefsCorrect == Spec => []RefsAreHolders
<1>1. IInv => RefsAreHolders
  BY DEF IInv
<1> QED
  BY <1>1, InitIInv, StepKeeps, PTL DEF Spec

\* No server is closed, or taken to be closed, while a session opens on it,
\* is open on it or has calls in flight on it (takeClose in engine.go).
THEOREM ClosedUnused == Spec => []NeverClosedInUse
BY InitIInv, StepKeeps, IInvNeverClosedInUse, PTL DEF Spec
-----------------------------------------------------------------------------
(* Sessions end with what they were opened on.                             *)

\* Open remembers a version of the config file that had been invalidated.
ConfigOK == invVer <= cfgVer /\ \A c \in Callers : openInv[c] <= invVer

\* The server a caller has, once it has read the config file, read one that
\* is new enough for the caller, and a cached one for any caller to come.
ReadsNew ==
  /\ \A c \in Callers :
       pc[c] # "idle" /\ phase[at[c]] \in {"login", "built"} =>
         builtCfg[at[c]] >= openInv[c]
  /\ \A s \in Cached : phase[s] \in {"login", "built"} => builtCfg[s] >= invVer

\* The registered sessions are the open ones, and no more than Close listed.
SessionsOK ==
  /\ sessions = {c \in Callers : pc[c] \in {"open", "closing"}}
  /\ closed <=> closer # "no"
  /\ closed => sessions \subseteq snap
  /\ closer = "done" => sessions = {}

SessionInv == ConfigOK /\ ReadsNew /\ SessionsOK

LEMMA InitSession == Init => SessionInv
<1> SUFFICES ASSUME Init
             PROVE  SessionInv
  OBVIOUS
<1>1. Cached = {}
  BY DEF Init, Cached
<1> QED
  BY <1>1 DEF Init, SessionInv, ConfigOK, ReadsNew, SessionsOK

\* What the config file's versions mean to the callers and the cache is kept
\* by a step that changes neither them nor a server's phase.
LEMMA ReadsKept ==
  ASSUME IInv, ConfigOK, ReadsNew, UNCHANGED <<openInv, phase, builtCfg, invVer>>,
         cfgVer' >= cfgVer, cfgVer' \in Nat, Cached' \subseteq Cached,
         \A c \in Callers : pc'[c] # "idle" => pc[c] # "idle" /\ at'[c] = at[c]
  PROVE  ConfigOK' /\ ReadsNew'
<1>1. ConfigOK'
  BY DEF ConfigOK, IInv, TypeOK
<1>2. ReadsNew'
  BY DEF ReadsNew
<1> QED
  BY <1>1, <1>2

LEMMA LeaveReads ==
  ASSUME IInv, ConfigOK, ReadsNew, NEW c \in Callers, Leave(c)
  PROVE  ConfigOK' /\ ReadsNew'
<1>0. TypeOK
  BY DEF IInv
<1>1. /\ pc' = [pc EXCEPT ![c] = "idle"] /\ openInv' = [openInv EXCEPT ![c] = 0]
      /\ at' = [at EXCEPT ![c] = NoServer]
      /\ UNCHANGED <<cache, phase, builtCfg, cfgVer, invVer>>
  BY DEF Leave, buildVars, cfgVars
<1>2. ConfigOK'
  BY <1>0, <1>1 DEF ConfigOK, TypeOK
<1>3. ReadsNew'
  BY <1>0, <1>1 DEF ReadsNew, Cached, TypeOK
<1> QED
  BY <1>2, <1>3

LEMMA OpeningReads ==
  ASSUME IInv, ConfigOK, ReadsNew, NEW c \in Callers, Opening(c)
  PROVE  ConfigOK' /\ ReadsNew'
<1>0. TypeOK
  BY DEF IInv
<1>1. ASSUME NEW k \in Keys, Acquire(c, k)
      PROVE  ConfigOK' /\ ReadsNew'
  <2>1. /\ cache[k] \in Cached /\ cache[k] \in Servers
        /\ at' = [at EXCEPT ![c] = cache[k]] /\ openInv' = [openInv EXCEPT ![c] = invVer]
        /\ pc' = [pc EXCEPT ![c] = "waiting"]
        /\ UNCHANGED <<cache, phase, builtCfg, cfgVer, invVer>>
    BY <1>0, <1>1 DEF Acquire, TakeRef, Cached, cfgVars, TypeOK
  <2>2. ConfigOK'
    BY <1>0, <2>1 DEF ConfigOK, TypeOK
  <2>3. ReadsNew'
    BY <1>0, <2>1 DEF ReadsNew, Cached, TypeOK
  <2> QED
    BY <2>2, <2>3
<1>2. ASSUME NEW k \in Keys, NEW s \in Servers, AcquireNew(c, k, s)
      PROVE  ConfigOK' /\ ReadsNew'
  <2>1. /\ phase' = [phase EXCEPT ![s] = "queued"] /\ phase[s] = "fresh"
        /\ at' = [at EXCEPT ![c] = s] /\ openInv' = [openInv EXCEPT ![c] = invVer]
        /\ pc' = [pc EXCEPT ![c] = "starting"]
        /\ cache' = [cache EXCEPT ![k] = s]
        /\ UNCHANGED <<builtCfg, cfgVer, invVer>>
    BY <1>2 DEF AcquireNew, TakeRef, cfgVars
  <2>2. ConfigOK'
    BY <1>0, <2>1 DEF ConfigOK, TypeOK
  <2>3. \A t \in Cached' : t = s \/ t \in Cached
    BY <1>0, <2>1 DEF Cached, TypeOK
  <2>4. \A d \in Callers \ {c} : at[d] # s
    BY <2>1 DEF IInv, FreshIsUntouched, Users
  <2>5. ReadsNew'
    BY <1>0, <2>1, <2>3, <2>4 DEF ReadsNew, TypeOK
  <2> QED
    BY <2>2, <2>5
<1>3. CASE StartBuild(c)
  <2>1. /\ phase' = [phase EXCEPT ![at[c]] = "reading"]
        /\ pc' = [pc EXCEPT ![c] = "waiting"] /\ pc[c] = "starting"
        /\ UNCHANGED <<at, openInv, cache, builtCfg, cfgVer, invVer>>
    BY <1>3 DEF StartBuild, cfgVars
  <2>2. ConfigOK'
    BY <2>1 DEF ConfigOK
  <2>3. ReadsNew'
    BY <1>0, <2>1 DEF ReadsNew, Cached, TypeOK
  <2> QED
    BY <2>2, <2>3
<1>4. CASE Cancelled(c) \/ WaitFails(c) \/ ReleaseFailed(c)
  BY <1>4, LeaveReads DEF Cancelled, WaitFails, ReleaseFailed
<1>5. CASE Ready(c) \/ Register(c) \/ OpenFails(c)
  <2>1. /\ UNCHANGED <<openInv, phase, builtCfg, invVer, cfgVer, cache, at>>
        /\ \A d \in Callers : pc'[d] # "idle" => pc[d] # "idle"
    BY <1>0, <1>5 DEF Ready, Register, OpenFails, buildVars, cfgVars, TypeOK
  <2> QED
    BY <1>0, <2>1, ReadsKept DEF TypeOK, Cached
<1> QED
  BY <1>1, <1>2, <1>3, <1>4, <1>5 DEF Opening

LEMMA ServingReads ==
  ASSUME IInv, ConfigOK, ReadsNew, NEW s \in Servers, Serving(s)
  PROVE  ConfigOK' /\ ReadsNew'
<1>0. TypeOK
  BY DEF IInv
<1>1. CASE BuildRead(s)
  <2>1. /\ phase' = [phase EXCEPT ![s] = "login"]
        /\ builtCfg' = [builtCfg EXCEPT ![s] = cfgVer]
        /\ UNCHANGED <<pc, at, openInv, cache, cfgVer, invVer>>
    BY <1>1 DEF BuildRead, callerVars, cfgVars
  <2>2. ConfigOK'
    BY <2>1 DEF ConfigOK
  <2>3. \A c \in Callers : cfgVer >= openInv[c]
    BY <1>0 DEF ConfigOK, TypeOK
  <2>4. ReadsNew'
    BY <1>0, <2>1, <2>3 DEF ConfigOK, ReadsNew, Cached, TypeOK
  <2> QED
    BY <2>2, <2>4
<1>2. CASE BuildOk(s)
  <2>1. /\ phase' = [phase EXCEPT ![s] = "built"] /\ phase[s] = "login"
        /\ UNCHANGED <<pc, at, openInv, cache, builtCfg, cfgVer, invVer>>
    BY <1>2 DEF BuildOk, callerVars, cfgVars
  <2> QED
    BY <1>0, <2>1 DEF ConfigOK, ReadsNew, Cached, TypeOK
<1>3. CASE BuildFails(s) \/ BuildLate(s)
  <2>1. /\ phase' = [phase EXCEPT ![s] = "failed"] /\ Uncache(s)
        /\ UNCHANGED <<pc, at, openInv, builtCfg, cfgVer, invVer>>
    BY <1>3 DEF BuildFails, BuildLate, callerVars, cfgVars
  <2>2. Cached' \subseteq Cached
    BY <1>0, <2>1 DEF Cached, Uncache, TypeOK
  <2> QED
    BY <1>0, <2>1, <2>2 DEF ConfigOK, ReadsNew, TypeOK
<1>4. CASE EndBuild(s) \/ CloseServer(s) \/ \E g \in timers[s] : IdleFires(s, g)
  <2>1. UNCHANGED <<pc, at, openInv, phase, builtCfg, cfgVer, invVer>>
    BY <1>4 DEF EndBuild, CloseServer, IdleFires, callerVars, buildVars, cfgVars
  <2>2. Cached' \subseteq Cached
    BY <1>0, <1>4 DEF EndBuild, CloseServer, IdleFires, Uncache, Cached, TypeOK
  <2> QED
    BY <1>0, <2>1, <2>2, ReadsKept DEF TypeOK
<1> QED
  BY <1>1, <1>2, <1>3, <1>4 DEF Serving

LEMMA StepReads ==
  ASSUME IInv, ConfigOK, ReadsNew, [Next]_vars
  PROVE  ConfigOK' /\ ReadsNew'
<1>0. TypeOK
  BY DEF IInv
<1>1. ASSUME NEW c \in Callers, Using(c)
      PROVE  ConfigOK' /\ ReadsNew'
  <2>1. CASE ReleaseSession(c)
    BY <2>1, LeaveReads DEF ReleaseSession
  <2>2. CASE ~ReleaseSession(c)
    <3>1. /\ UNCHANGED <<openInv, phase, builtCfg, invVer, cfgVer, cache, at>>
          /\ \A d \in Callers : pc'[d] # "idle" => pc[d] # "idle"
      BY <1>0, <1>1, <2>2
         DEF Using, CallBegins, CallEnds, CloseSession, FinishSession, buildVars, cfgVars, TypeOK
    <3> QED
      BY <1>0, <3>1, ReadsKept DEF TypeOK, Cached
  <2> QED
    BY <2>1, <2>2
<1>2. CASE Invalidate
  <2>1. /\ UNCHANGED <<pc, at, openInv, phase, builtCfg, cfgVer>> /\ invVer' = cfgVer
        /\ cache' = [k \in Keys |-> NoServer]
    BY <1>2 DEF Invalidate, RetireAll, callerVars, buildVars
  <2>2. Cached' = {}
    BY <2>1 DEF Cached
  <2> QED
    BY <1>0, <2>1, <2>2 DEF ConfigOK, ReadsNew, TypeOK
<1>3. CASE CloseRetires
  <2>1. /\ UNCHANGED <<pc, at, openInv, phase, builtCfg, cfgVer, invVer>>
        /\ cache' = [k \in Keys |-> NoServer]
    BY <1>3 DEF CloseRetires, RetireAll, callerVars, buildVars, cfgVars
  <2>2. Cached' = {}
    BY <2>1 DEF Cached
  <2> QED
    BY <1>0, <2>1, <2>2, ReadsKept DEF TypeOK
<1>4. CASE EditConfig
  <2>1. /\ UNCHANGED <<pc, at, openInv, cache, phase, builtCfg, invVer>>
        /\ cfgVer' = cfgVer + 1
    BY <1>4 DEF EditConfig, callerVars, buildVars
  <2> QED
    BY <1>0, <2>1, ReadsKept DEF TypeOK, Cached
<1>5. CASE \/ UNCHANGED vars \/ CloseBegins \/ CloseDrained
           \/ CloseEnds \/ \E c \in Callers : CloseMarks(c)
  <2>1. UNCHANGED <<pc, at, openInv, cache, phase, builtCfg, cfgVer, invVer>>
    BY <1>5 DEF CloseBegins, CloseDrained, CloseEnds, CloseMarks,
                vars, callerVars, buildVars, cfgVars
  <2> QED
    BY <1>0, <2>1, ReadsKept DEF TypeOK, Cached
<1> QED
  BY <1>1, <1>2, <1>3, <1>4, <1>5, OpeningReads, ServingReads DEF Next, Closing

\* A step in which no session is registered, ended or listed.
LEMMA SessionsKept ==
  ASSUME TypeOK, SessionsOK, UNCHANGED <<closed, closer, sessions, snap>>,
         \A c \in Callers : pc'[c] \in {"open", "closing"} <=> pc[c] \in {"open", "closing"}
  PROVE  SessionsOK'
BY DEF SessionsOK

LEMMA StepSessions ==
  ASSUME IInv, SessionsOK, [Next]_vars
  PROVE  SessionsOK'
<1>0. TypeOK
  BY DEF IInv
<1>1. ASSUME NEW c \in Callers, Register(c)
      PROVE  SessionsOK'
  <2>1. /\ sessions' = sessions \cup {c} /\ pc' = [pc EXCEPT ![c] = "open"] /\ ~closed
        /\ UNCHANGED <<closed, closer, snap>>
    BY <1>1 DEF Register
  <2> QED
    BY <1>0, <2>1 DEF SessionsOK, TypeOK
<1>2. ASSUME NEW c \in Callers, FinishSession(c)
      PROVE  SessionsOK'
  <2>1. /\ sessions' = sessions \ {c} /\ pc' = [pc EXCEPT ![c] = "leaving"]
        /\ UNCHANGED <<closed, closer, snap>>
    BY <1>2 DEF FinishSession
  <2> QED
    BY <1>0, <2>1 DEF SessionsOK, TypeOK
<1>3. ASSUME NEW c \in Callers, Leave(c), pc[c] \in {"waiting", "failing", "leaving"}
      PROVE  SessionsOK'
  <2>1. pc' = [pc EXCEPT ![c] = "idle"] /\ UNCHANGED <<closed, closer, sessions, snap>>
    BY <1>3 DEF Leave, engineVars
  <2> QED
    BY <1>0, <1>3, <2>1, SessionsKept DEF TypeOK
<1>4. ASSUME NEW c \in Callers, Opening(c)
      PROVE  SessionsOK'
  <2>1. CASE Register(c)
    BY <1>1, <2>1
  <2>2. CASE Cancelled(c) \/ WaitFails(c) \/ ReleaseFailed(c)
    BY <1>3, <2>2 DEF Cancelled, WaitFails, ReleaseFailed
  <2>3. CASE Ready(c) \/ OpenFails(c) \/ StartBuild(c)
    <3>1. UNCHANGED <<closed, closer, sessions, snap>>
      BY <2>3 DEF Ready, OpenFails, StartBuild, engineVars
    <3>2. /\ pc[c] \in {"waiting", "opening", "starting"}
          /\ \E p \in {"opening", "failing", "waiting"} : pc' = [pc EXCEPT ![c] = p]
      BY <2>3 DEF Ready, OpenFails, StartBuild
    <3> QED
      BY <1>0, <3>1, <3>2, SessionsKept DEF TypeOK
  <2>4. ASSUME NEW k \in Keys, Acquire(c, k) \/ \E s \in Servers : AcquireNew(c, k, s)
        PROVE  SessionsOK'
    <3>1. UNCHANGED <<closed, closer, sessions, snap>> /\ pc[c] = "idle"
      BY <2>4 DEF Acquire, AcquireNew, TakeRef, Free, engineVars
    <3>2. \E p \in {"starting", "waiting"} : pc' = [pc EXCEPT ![c] = p]
      BY <2>4 DEF Acquire, AcquireNew
    <3> QED
      BY <1>0, <3>1, <3>2, SessionsKept DEF TypeOK
  <2> QED
    BY <1>4, <2>1, <2>2, <2>3, <2>4 DEF Opening
<1>5. ASSUME NEW c \in Callers, Using(c)
      PROVE  SessionsOK'
  <2>1. CASE FinishSession(c)
    BY <1>2, <2>1
  <2>2. CASE ReleaseSession(c)
    BY <1>3, <2>2 DEF ReleaseSession
  <2>3. CASE CallBegins(c) \/ CallEnds(c)
    <3>1. UNCHANGED <<pc, closed, closer, sessions, snap>>
      BY <2>3 DEF CallBegins, CallEnds, engineVars
    <3> QED
      BY <1>0, <3>1, SessionsKept
  <2>4. CASE CloseSession(c)
    <3>1. /\ pc[c] = "open" /\ pc' = [pc EXCEPT ![c] = "closing"]
          /\ UNCHANGED <<closed, closer, sessions, snap>>
      BY <2>4 DEF CloseSession, engineVars
    <3> QED
      BY <1>0, <3>1, SessionsKept DEF TypeOK
  <2> QED
    BY <1>5, <2>1, <2>2, <2>3, <2>4 DEF Using
<1>6. ASSUME NEW s \in Servers, Serving(s)
      PROVE  SessionsOK'
  <2>1. UNCHANGED <<pc, closed, closer, sessions, snap>>
    BY <1>6 DEF Serving, BuildRead, BuildOk, BuildFails, BuildLate, EndBuild, CloseServer,
                IdleFires, callerVars, engineVars
  <2> QED
    BY <1>0, <2>1, SessionsKept
<1>7. CASE UNCHANGED vars \/ EditConfig \/ Invalidate \/ \E c \in Callers : CloseMarks(c)
  <2>1. UNCHANGED <<pc, closed, closer, sessions, snap>>
    BY <1>7 DEF EditConfig, Invalidate, CloseMarks, vars, callerVars, engineVars
  <2> QED
    BY <1>0, <2>1, SessionsKept
<1>8. CASE CloseBegins \/ CloseRetires \/ CloseDrained
  BY <1>8 DEF CloseBegins, CloseRetires, CloseDrained, SessionsOK, callerVars
<1>9. CASE CloseEnds
  <2>1. /\ closer = "wait" /\ closer' = "done" /\ \A c \in snap : pc[c] = "idle"
        /\ UNCHANGED <<pc, closed, sessions, snap>>
    BY <1>9 DEF CloseEnds, Free, callerVars
  <2> QED
    BY <2>1 DEF SessionsOK
<1> QED
  BY <1>4, <1>5, <1>6, <1>7, <1>8, <1>9 DEF Next, Closing

\* A session opened after an Invalidate runs on a server that read the config
\* file no earlier, and none is left once Close has returned (acquire, build,
\* newSession and Close in engine.go).
THEOREM SessionsEnd == Spec => []NoSessionOutlives
<1>1. IInv /\ SessionInv => NoSessionOutlives
  <2> SUFFICES ASSUME IInv, SessionInv
               PROVE  NoSessionOutlives
    OBVIOUS
  <2>1. \A c \in Callers : pc[c] \in InHand => pc[c] # "idle" /\ phase[at[c]] = "built"
    BY DEF IInv, InHandIsBuilt, InHand
  <2> QED
    BY <2>1 DEF SessionInv, ReadsNew, SessionsOK, NoSessionOutlives
<1>2. Init => IInv /\ SessionInv
  BY InitIInv, InitSession
<1>3. IInv /\ SessionInv /\ [Next]_vars => (IInv /\ SessionInv)'
  BY StepKeeps, StepReads, StepSessions DEF SessionInv
<1> QED
  BY <1>1, <1>2, <1>3, PTL DEF Spec
-----------------------------------------------------------------------------
(* The engine implements ServerLifecycle, step by step.                    *)

LEMMA StateKept ==
  ASSUME NEW s \in Servers, shut'[s] = shut[s],
         phase'[s] = "built" <=> phase[s] = "built",
         phase[s] # "built" => (taker'[s] = Nobody <=> taker[s] = Nobody)
  PROVE  StateOf(s)' = StateOf(s)
BY DEF StateOf

LEMMA UsersKept ==
  ASSUME \A c \in Callers : pc'[c] \in InHand <=> pc[c] \in InHand,
         \A c \in Callers : pc[c] \in InHand => at'[c] = at[c]
  PROVE  \A s \in Servers : UsersOf(s)' = UsersOf(s)
BY DEF UsersOf

\* A step that neither part sees.
LEMMA AllKept ==
  ASSUME \A s \in Servers : StateOf(s)' = StateOf(s),
         \A s \in Servers : UsersOf(s)' = UsersOf(s)
  PROVE  UNCHANGED Lifecycle!vars
BY DEF Lifecycle!vars

\* release changes who must close a server only when it is built.
LEMMA ReleaseIsHidden ==
  ASSUME TypeOK, NEW g, NEW t \in Servers, Release(g, t), UNCHANGED <<phase, shut>>
  PROVE  \A s \in Servers : StateOf(s)' = StateOf(s)
<1>1. \A s \in Servers : phase[s] # "built" => taker'[s] = taker[s]
  BY DEF TypeOK, Release, MustClose
<1> QED
  BY <1>1, StateKept

LEMMA RetireAllIsHidden ==
  ASSUME TypeOK, NEW g, RetireAll(g), UNCHANGED <<phase, shut>>
  PROVE  \A s \in Servers : StateOf(s)' = StateOf(s)
<1>1. \A s \in Servers : phase[s] # "built" => taker'[s] = taker[s]
  BY DEF TypeOK, RetireAll, MustClose
<1> QED
  BY <1>1, StateKept

\* A caller leaves its server, if it was given it.
LEMMA LeaveImplements ==
  ASSUME IInv, NEW c \in Callers, pc[c] \in {"waiting", "failing", "leaving"}, Leave(c)
  PROVE  [Lifecycle!Next]_(Lifecycle!vars)
<1> DEFINE s == at[c]
<1>0. TypeOK /\ s \in Servers
  BY BusyHolds DEF IInv
<1>1. /\ pc' = [pc EXCEPT ![c] = "idle"] /\ at' = [at EXCEPT ![c] = NoServer]
      /\ Release(c, s) /\ UNCHANGED <<phase, shut>>
  BY DEF Leave, buildVars
<1>2. \A t \in Servers : StateOf(t)' = StateOf(t)
  BY <1>0, <1>1, ReleaseIsHidden
<1>3. CASE pc[c] = "waiting"
  <2>1. \A t \in Servers : UsersOf(t)' = UsersOf(t)
    BY <1>0, <1>1, <1>3, UsersKept DEF InHand, TypeOK
  <2> QED
    BY <1>2, <2>1, AllKept
<1>4. CASE pc[c] # "waiting"
  <2>1. c \in UsersOf(s)
    BY <1>4 DEF UsersOf, InHand
  <2>2. \A t \in Servers : UsersOf(t)' = IF t = s THEN UsersOf(t) \ {c} ELSE UsersOf(t)
    BY <1>0, <1>1, NoServerIsNone DEF UsersOf, InHand, TypeOK
  <2>3. Lifecycle!Part(c, s)
    BY <1>0, <1>2, <2>1, <2>2 DEF Lifecycle!Part
  <2> QED
    BY <1>0, <2>3 DEF Lifecycle!Next
<1> QED
  BY <1>3, <1>4

\* A caller is given a server that is built, and so open.
LEMMA ReadyImplements ==
  ASSUME IInv, NEW c \in Callers, Ready(c)
  PROVE  [Lifecycle!Next]_(Lifecycle!vars)
<1> DEFINE s == at[c]
<1>1. /\ TypeOK /\ s \in Servers /\ pc[c] = "waiting" /\ phase[s] = "built"
      /\ pc' = [pc EXCEPT ![c] = "opening"] /\ UNCHANGED <<at, phase, taker, shut>>
  BY BusyHolds DEF IInv, Ready, buildVars, refVars
<1>2. StateOf(s) = "open"
  BY <1>1, HeldIsUntaken DEF StateOf
<1>3. \A t \in Servers : StateOf(t)' = StateOf(t)
  BY <1>1, StateKept
<1>4. \A t \in Servers : c \notin UsersOf(t)
  BY <1>1 DEF UsersOf, InHand
<1>5. \A t \in Servers : UsersOf(t)' = IF t = s THEN UsersOf(t) \cup {c} ELSE UsersOf(t)
  BY <1>1 DEF UsersOf, InHand, TypeOK
<1>6. Lifecycle!Join(c, s)
  BY <1>1, <1>2, <1>3, <1>4, <1>5 DEF Lifecycle!Join
<1> QED
  BY <1>1, <1>6 DEF Lifecycle!Next

LEMMA OpeningImplements ==
  ASSUME IInv, NEW c \in Callers, Opening(c)
  PROVE  [Lifecycle!Next]_(Lifecycle!vars)
<1>0. TypeOK
  BY DEF IInv
<1>1. CASE \/ \E k \in Keys : Acquire(c, k) \/ \E s \in Servers : AcquireNew(c, k, s)
           \/ StartBuild(c) \/ Register(c) \/ OpenFails(c)
  <2>1. UNCHANGED <<taker, shut>>
    BY <1>1 DEF Acquire, AcquireNew, TakeRef, StartBuild, Register, OpenFails, refVars
  <2>2. \/ phase' = phase
        \/ \E s \in Servers : phase[s] = "fresh" /\ phase' = [phase EXCEPT ![s] = "queued"]
        \/ StartBuild(c) /\ phase[at[c]] = "queued" /\ phase' = [phase EXCEPT ![at[c]] = "reading"]
    BY <1>1 DEF Acquire, AcquireNew, StartBuild, Register, OpenFails, buildVars, IInv, BuildHasItsRef
  <2>3. \A s \in Servers : StateOf(s)' = StateOf(s)
    BY <1>0, <2>1, <2>2, StateKept DEF TypeOK
  <2>4. /\ pc[c] \in InHand <=> pc'[c] \in InHand
        /\ \A d \in Callers : d # c => pc'[d] = pc[d] /\ at'[d] = at[d]
        /\ pc[c] \in InHand => at'[c] = at[c]
    BY <1>0, <1>1 DEF Acquire, AcquireNew, TakeRef, Free, StartBuild, Register, OpenFails, InHand, TypeOK
  <2>5. \A s \in Servers : UsersOf(s)' = UsersOf(s)
    BY <2>4, UsersKept
  <2> QED
    BY <2>3, <2>5, AllKept
<1>2. CASE Cancelled(c) \/ WaitFails(c) \/ ReleaseFailed(c)
  BY <1>2, LeaveImplements DEF Cancelled, WaitFails, ReleaseFailed
<1> QED
  BY <1>1, <1>2, ReadyImplements DEF Opening

LEMMA UsingImplements ==
  ASSUME IInv, NEW c \in Callers, Using(c)
  PROVE  [Lifecycle!Next]_(Lifecycle!vars)
<1>0. TypeOK
  BY DEF IInv
<1>1. CASE CallBegins(c) \/ CallEnds(c) \/ CloseSession(c) \/ FinishSession(c)
  <2>1. /\ UNCHANGED <<at, phase, taker, shut>>
        /\ \/ pc' = pc
           \/ pc[c] \in InHand /\ \E p \in InHand : pc' = [pc EXCEPT ![c] = p]
    BY <1>1 DEF CallBegins, CallEnds, CloseSession, FinishSession, InHand, buildVars, refVars
  <2>2. \A s \in Servers : StateOf(s)' = StateOf(s)
    BY <2>1, StateKept
  <2>3. \A s \in Servers : UsersOf(s)' = UsersOf(s)
    BY <1>0, <2>1, UsersKept DEF TypeOK
  <2> QED
    BY <2>2, <2>3, AllKept
<1>2. CASE ReleaseSession(c)
  BY <1>2, LeaveImplements DEF ReleaseSession
<1> QED
  BY <1>1, <1>2 DEF Using

LEMMA ServingImplements ==
  ASSUME IInv, NEW s \in Servers, Serving(s)
  PROVE  [Lifecycle!Next]_(Lifecycle!vars)
<1>0. TypeOK
  BY DEF IInv
<1>1. \A t \in Servers : UsersOf(t)' = UsersOf(t)
  <2>1. UNCHANGED <<pc, at>>
    BY DEF Serving, BuildRead, BuildOk, BuildFails, BuildLate, EndBuild, CloseServer, IdleFires,
           callerVars
  <2> QED
    BY <2>1, UsersKept
<1>2. CASE BuildRead(s) \/ BuildFails(s)
  <2>1. /\ UNCHANGED <<taker, shut>> /\ phase[s] # "built"
        /\ \E p \in {"login", "failed"} : phase' = [phase EXCEPT ![s] = p]
    BY <1>2 DEF BuildRead, BuildFails, refVars
  <2>2. \A t \in Servers : StateOf(t)' = StateOf(t)
    BY <1>0, <2>1, StateKept DEF TypeOK
  <2> QED
    BY <1>1, <2>2, AllKept
\* The build succeeds: the server is open, to be closed at once when it is late.
<1>3. CASE BuildOk(s) \/ BuildLate(s)
  <2>1. /\ phase[s] = "login" /\ UNCHANGED shut
        /\ \/ phase' = [phase EXCEPT ![s] = "built"] /\ UNCHANGED taker
           \/ phase' = [phase EXCEPT ![s] = "failed"] /\ taker' = [taker EXCEPT ![s] = Other]
    BY <1>3 DEF BuildOk, BuildLate, refVars
  <2>2. taker[s] = Nobody /\ ~shut[s]
    BY <2>1 DEF IInv, TakenIsUnused
  <2>3. StateOf(s) = "none" /\ StateOf(s)' = "open"
    BY <1>0, <2>1, <2>2, GoroutinesDiffer DEF StateOf, TypeOK
  <2>4. \A t \in Servers \ {s} : StateOf(t)' = StateOf(t)
    BY <1>0, <2>1, StateKept DEF TypeOK
  <2>5. Lifecycle!Open(s)
    BY <1>1, <2>3, <2>4 DEF Lifecycle!Open
  <2> QED
    BY <2>5 DEF Lifecycle!Next
<1>4. CASE EndBuild(s)
  <2>1. Release(Other, s) /\ UNCHANGED <<phase, shut>>
    BY <1>4 DEF EndBuild
  <2>2. \A t \in Servers : StateOf(t)' = StateOf(t)
    BY <1>0, <2>1, ReleaseIsHidden
  <2> QED
    BY <1>1, <2>2, AllKept
<1>5. CASE CloseServer(s)
  <2>1. /\ taker[s] # Nobody /\ ~shut[s] /\ shut' = [shut EXCEPT ![s] = TRUE]
        /\ UNCHANGED <<phase, taker>>
    BY <1>5 DEF CloseServer, buildVars, refVars
  <2>2. UsersOf(s) = {}
    BY <2>1, IInvNeverClosedInUse DEF NeverClosedInUse, UsersOf
  <2>3. StateOf(s) = "open" /\ StateOf(s)' = "closed"
    BY <1>0, <2>1 DEF StateOf, TypeOK
  <2>4. \A t \in Servers \ {s} : StateOf(t)' = StateOf(t)
    BY <1>0, <2>1, StateKept DEF TypeOK
  <2>5. Lifecycle!Close(s)
    BY <1>1, <2>2, <2>3, <2>4 DEF Lifecycle!Close
  <2> QED
    BY <2>5 DEF Lifecycle!Next
<1>6. ASSUME NEW g \in timers[s], IdleFires(s, g)
      PROVE  [Lifecycle!Next]_(Lifecycle!vars)
  <2>1. UNCHANGED <<phase, shut>>
    BY <1>6 DEF IdleFires, buildVars
  <2>2. \A t \in Servers : phase[t] # "built" => taker'[t] = taker[t]
    BY <1>0, <1>6 DEF IdleFires, MustClose, TypeOK
  <2>3. \A t \in Servers : StateOf(t)' = StateOf(t)
    BY <2>1, <2>2, StateKept
  <2> QED
    BY <1>1, <2>3, AllKept
<1> QED
  BY <1>2, <1>3, <1>4, <1>5, <1>6 DEF Serving

\* The engine promises what ServerLifecycle says of each server: it is opened
\* once and closed once, a caller gets it only while it is open, and it is not
\* closed while a caller has it.  (That it is closed in the end is checked by
\* TLC: ImplementsLifecycleFairly.)
THEOREM ImplementsLifecycle == Spec => Lifecycle!Spec
<1>1. Init => Lifecycle!Init
  <2> SUFFICES ASSUME Init
               PROVE  Lifecycle!Init
    OBVIOUS
  <2>1. \A s \in Servers : StateOf(s) = "none" /\ UsersOf(s) = {}
    BY DEF Init, StateOf, UsersOf, InHand
  <2> QED
    BY <2>1 DEF Lifecycle!Init
<1>2. IInv /\ [Next]_vars => [Lifecycle!Next]_(Lifecycle!vars)
  <2> SUFFICES ASSUME IInv, [Next]_vars
               PROVE  [Lifecycle!Next]_(Lifecycle!vars)
    OBVIOUS
  <2>0. TypeOK
    BY DEF IInv
  <2>1. CASE Invalidate \/ CloseRetires
    <3>1. UNCHANGED <<pc, at, phase, shut>> /\ \E g \in {Closer, Other} : RetireAll(g)
      BY <2>1 DEF Invalidate, CloseRetires, callerVars, buildVars
    <3>2. \A s \in Servers : StateOf(s)' = StateOf(s)
      BY <2>0, <3>1, RetireAllIsHidden
    <3> QED
      BY <3>1, <3>2, UsersKept, AllKept
  <2>2. CASE \/ UNCHANGED vars \/ EditConfig \/ CloseBegins \/ CloseDrained
             \/ CloseEnds \/ \E c \in Callers : CloseMarks(c)
    <3>1. UNCHANGED <<pc, at, phase, taker, shut>>
      BY <2>2 DEF EditConfig, CloseBegins, CloseDrained, CloseEnds, CloseMarks,
                  vars, callerVars, buildVars, refVars
    <3>2. \A s \in Servers : StateOf(s)' = StateOf(s)
      BY <3>1, StateKept
    <3> QED
      BY <3>1, <3>2, UsersKept, AllKept
  <2> QED
    BY <2>1, <2>2, OpeningImplements, UsingImplements, ServingImplements DEF Next, Closing
<1> QED
  BY <1>1, <1>2, InitIInv, StepKeeps, PTL DEF Spec, Lifecycle!Spec
=============================================================================
