--------------------------- MODULE SelectionProofs ---------------------------
(***************************************************************************)
(* What the proofs need of the numbers of a finite set in their order, and *)
(* of the part of a sequence that a loop keeps (Selection).  A set of      *)
(* numbers has a least one: that takes the place of an induction.          *)
(***************************************************************************)
EXTENDS Selection, SequencesExt, SequenceTheorems, FiniteSetTheorems, WellFoundedInduction, TLAPS

-----------------------------------------------------------------------------
(***************************************************************************)
(* The numbers of a finite set in their order.                             *)
(***************************************************************************)
LEMMA LeastIsThere ==
  ASSUME NEW S \in SUBSET Nat, S # {}
  PROVE  \E x \in S : \A y \in S : x <= y
<1> DEFINE Less == {ss \in Nat \X Nat : ss[1] < ss[2]}
<1>1. IsWellFoundedOn(Less, Nat)
  BY NatLessThanWellFounded DEF OpToRel
<1>2. PICK x \in S : \A y \in S : ~(<<y, x>> \in Less)
  <2> HIDE DEF Less
  <2> QED
    BY <1>1, WFMin
<1>3. ASSUME NEW y \in S PROVE x <= y
  <2>1. ~(<<y, x>> \in Less) /\ <<y, x>> \in Nat \X Nat /\ x \in Nat /\ y \in Nat
    BY <1>2
  <2>2. ~(<<y, x>>[1] < <<y, x>>[2])
    BY <2>1
  <2> QED
    BY <2>1, <2>2
<1> QED
  BY <1>3

UpTo(S, n) == {m \in S : m <= n}

LEMMA RankedUp ==
  ASSUME NEW S \in SUBSET Nat, IsFiniteSet(S), NEW k \in 1..Cardinality(S)
  PROVE  \E n \in S : Cardinality(UpTo(S, n)) = k
<1> DEFINE Missing == {j \in 1..Cardinality(S) : \A n \in S : Cardinality(UpTo(S, n)) # j}
<1>1. Cardinality(S) \in Nat /\ \A n : IsFiniteSet(UpTo(S, n)) /\ Cardinality(UpTo(S, n)) \in Nat
  BY FS_CardinalityType, FS_Subset DEF UpTo
<1>2. SUFFICES ASSUME Missing # {} PROVE FALSE
  OBVIOUS
<1>3. PICK j \in Missing : \A i \in Missing : j <= i
  <2>1. Missing \in SUBSET Nat
    BY <1>1
  <2> HIDE DEF Missing
  <2> QED
    BY <1>2, <2>1, LeastIsThere
<1>4. j \in 1..Cardinality(S) /\ \A n \in S : Cardinality(UpTo(S, n)) # j
  OBVIOUS
<1>0. \A m \in S : m \in Nat
  OBVIOUS
<1> HIDE DEF Missing
<1>5. CASE j = 1
  <2>1. S # {}
    BY <1>1, <1>4, FS_EmptySet
  <2>2. PICK n \in S : \A m \in S : n <= m
    BY <2>1, LeastIsThere, Zenon
  <2>3. ASSUME NEW m \in S PROVE m <= n <=> m = n
    <3>1. n <= m /\ m \in Nat /\ n \in Nat
      BY <1>0, <2>2
    <3> QED
      BY <3>1
  <2>4. UpTo(S, n) = {n}
    BY <2>3 DEF UpTo
  <2> QED
    BY <1>4, <1>5, <2>4, FS_Singleton
<1>6. CASE j # 1
  <2>1. j - 1 \in 1..Cardinality(S) /\ j - 1 \notin Missing
    BY <1>0, <1>1, <1>3, <1>4, <1>6 DEF Missing
  <2>2. PICK n \in S : Cardinality(UpTo(S, n)) = j - 1
    BY <2>1 DEF Missing
  <2> DEFINE Above == {m \in S : m > n}
  <2>3. Above # {}
    <3>1. SUFFICES ASSUME Above = {} PROVE FALSE
      OBVIOUS
    <3>2. \A m \in S : m <= n
      BY <1>0, <3>1
    <3>3. UpTo(S, n) = S
      BY <3>2, Zenon DEF UpTo
    <3> QED
      BY <1>1, <1>4, <2>2, <3>3
  <2>4. PICK p \in Above : \A m \in Above : p <= m
    <3>1. Above \in SUBSET Nat
      OBVIOUS
    <3> HIDE DEF Above
    <3> QED
      BY <2>3, <3>1, LeastIsThere
  <2>5. p \in S /\ \A m \in S : m <= p <=> m <= n \/ m = p
    BY <1>0, <2>4
  <2>6. ~(p <= n)
    BY <1>0
  <2>7. UpTo(S, p) = UpTo(S, n) \cup {p} /\ p \notin UpTo(S, n) /\ p \in S
    BY <2>5, <2>6 DEF UpTo
  <2>8. Cardinality(UpTo(S, p)) = j
    BY <1>1, <1>4, <2>2, <2>7, FS_AddElement
  <2> QED
    BY <1>4, <2>7, <2>8
<1> QED
  BY <1>5, <1>6

LEMMA AscendingIsOf ==
  ASSUME NEW S \in SUBSET Nat, IsFiniteSet(S)
  PROVE  /\ Cardinality(S) \in Nat
         /\ Ascending(S) \in [1..Cardinality(S) -> S]
<1>1. ASSUME NEW k \in 1..Cardinality(S) PROVE Ascending(S)[k] \in S
  <2>1. \E n \in S : Cardinality({m \in S : m <= n}) = k
    BY RankedUp DEF UpTo
  <2> QED
    BY <2>1 DEF Ascending
<1> QED
  BY <1>1, FS_CardinalityType DEF Ascending

LEMMA FunctionIsSeq ==
  ASSUME NEW T, NEW n \in Nat, NEW f \in [1..n -> T]
  PROVE  f \in Seq(T) /\ Len(f) = n /\ DOMAIN f = 1..n
OBVIOUS

LEMMA ChosenIsOf ==
  ASSUME NEW T, NEW s \in Seq(T), NEW S \in SUBSET DOMAIN s
  PROVE  Chosen(s, S) \in Seq({s[i] : i \in S})
<1>1. IsFiniteSet(S) /\ S \in SUBSET Nat
  <2>1. IsFiniteSet(DOMAIN s)
    BY FS_Interval
  <2>2. S \subseteq Nat
    OBVIOUS
  <2> QED
    BY <2>1, <2>2, FS_Subset
<1>2. Cardinality(S) \in Nat /\ Ascending(S) \in [1..Cardinality(S) -> S]
  BY <1>1, AscendingIsOf
<1>3. \A k \in 1..Cardinality(S) : s[Ascending(S)[k]] \in {s[i] : i \in S}
  BY <1>2
<1>4. Chosen(s, S) \in [1..Cardinality(S) -> {s[i] : i \in S}]
  BY <1>3 DEF Chosen
<1> QED
  BY <1>2, <1>4, FunctionIsSeq

LEMMA ChosenIsSeq ==
  ASSUME NEW T, NEW s \in Seq(T), NEW S \in SUBSET DOMAIN s
  PROVE  Chosen(s, S) \in Seq(T)
<1> DEFINE U == {s[i] : i \in S}
           c == Chosen(s, S)
<1>1. c \in Seq(U) /\ U \subseteq T
  BY ChosenIsOf
<1> HIDE DEF U, c
<1>2. Len(c) \in Nat /\ c \in [1..Len(c) -> T]
  BY <1>1
<1> QED
  BY <1>2, FunctionIsSeq DEF c

\* What a loop keeps of a sequence: some of its elements, no more.
LEMMA ChosenIs ==
  ASSUME NEW T, NEW s \in Seq(T), NEW S \in SUBSET DOMAIN s
  PROVE  /\ Chosen(s, S) \in Seq(T) /\ Len(Chosen(s, S)) \in Nat
         /\ \A k \in DOMAIN Chosen(s, S) : \E i \in S : Chosen(s, S)[k] = s[i]
<1> DEFINE U == {s[i] : i \in S}
           c == Chosen(s, S)
<1>1. c \in Seq(U) /\ U \subseteq T
  BY ChosenIsOf
<1> HIDE DEF c
<1>2. c \in Seq(T) /\ Len(c) \in Nat /\ \A k \in DOMAIN c : c[k] \in U
  BY <1>1
<1> QED
  BY <1>2 DEF c

LEMMA LeastOfTwo ==
  ASSUME NEW a \in Nat, NEW b \in Nat
  PROVE  Min({a, b}) = IF a <= b THEN a ELSE b
BY DEF Min

-----------------------------------------------------------------------------
(***************************************************************************)
(* Ascending(S) rises through all of S.                                    *)
(***************************************************************************)
LEMMA AscendingRanks ==
  ASSUME NEW S \in SUBSET Nat, IsFiniteSet(S), NEW k \in 1..Cardinality(S)
  PROVE  Ascending(S)[k] \in S /\ Cardinality(UpTo(S, Ascending(S)[k])) = k
<1>1. \E n \in S : Cardinality({m \in S : m <= n}) = k
  BY RankedUp DEF UpTo
<1> QED
  BY <1>1 DEF Ascending, UpTo

LEMMA RanksGrow ==
  ASSUME NEW S \in SUBSET Nat, IsFiniteSet(S), NEW n \in S, NEW m \in S, n < m
  PROVE  Cardinality(UpTo(S, n)) < Cardinality(UpTo(S, m))
<1>1. IsFiniteSet(UpTo(S, m)) /\ UpTo(S, n) \in SUBSET UpTo(S, m)
  <2>1. UpTo(S, m) \in SUBSET S
    BY DEF UpTo
  <2>2. \A x \in UpTo(S, n) : x \in UpTo(S, m)
    BY DEF UpTo
  <2> QED
    BY <2>1, <2>2, FS_Subset
<1>2. m \in UpTo(S, m) /\ m \notin UpTo(S, n)
  BY DEF UpTo
<1>3. Cardinality(UpTo(S, n)) <= Cardinality(UpTo(S, m)) /\ Cardinality(UpTo(S, n)) # Cardinality(UpTo(S, m))
  BY <1>1, <1>2, FS_Subset
<1>4. Cardinality(UpTo(S, n)) \in Nat /\ Cardinality(UpTo(S, m)) \in Nat
  BY <1>1, FS_Subset, FS_CardinalityType
<1> QED
  BY <1>3, <1>4

LEMMA AscendingRises ==
  ASSUME NEW S \in SUBSET Nat, IsFiniteSet(S),
         NEW i \in 1..Cardinality(S), NEW j \in 1..Cardinality(S), i < j
  PROVE  Ascending(S)[i] < Ascending(S)[j]
<1> DEFINE n == Ascending(S)[i]
           m == Ascending(S)[j]
<1>1. n \in S /\ m \in S /\ Cardinality(UpTo(S, n)) = i /\ Cardinality(UpTo(S, m)) = j
  BY AscendingRanks
<1>2. Cardinality(S) \in Nat
  BY FS_CardinalityType
<1> HIDE DEF n, m
<1>3. n \in Nat /\ m \in Nat
  BY <1>1
<1>4. n # m
  BY <1>1, <1>2
<1>5. ~(m < n)
  <2>1. ASSUME m < n PROVE FALSE
    <3>1. j < i
      BY <1>1, <2>1, RanksGrow
    <3> QED
      BY <1>2, <3>1
  <2> QED
    BY <2>1
<1>6. n < m
  BY <1>3, <1>4, <1>5
<1> QED
  BY <1>6 DEF n, m

LEMMA AscendingAll ==
  ASSUME NEW S \in SUBSET Nat, IsFiniteSet(S), NEW n \in S
  PROVE  \E k \in 1..Cardinality(S) : Ascending(S)[k] = n
<1> DEFINE k == Cardinality(UpTo(S, n))
<1>1. Cardinality(S) \in Nat /\ IsFiniteSet(UpTo(S, n)) /\ UpTo(S, n) \in SUBSET S /\ n \in UpTo(S, n)
  BY FS_Subset, FS_CardinalityType DEF UpTo
<1>2. k \in Nat /\ k # 0 /\ k <= Cardinality(S)
  BY <1>1, FS_Subset, FS_CardinalityType, FS_EmptySet
<1>3. k \in 1..Cardinality(S)
  BY <1>1, <1>2
<1> DEFINE m == Ascending(S)[k]
<1> HIDE DEF k
<1>4. m \in S /\ Cardinality(UpTo(S, m)) = k
  BY <1>3, AscendingRanks
<1> HIDE DEF m
<1>5. m = n
  <2>1. m \in Nat /\ n \in Nat /\ k \in Nat
    BY <1>2, <1>4
  <2>2. ~(m < n)
    BY <1>4, <2>1, RanksGrow DEF k
  <2>3. ~(n < m)
    BY <1>4, <2>1, RanksGrow DEF k
  <2> QED
    BY <2>1, <2>2, <2>3
<1> QED
  BY <1>3, <1>5 DEF m

\* A sequence that rises is its numbers in their order.
LEMMA RisingIsAscending ==
  ASSUME NEW n \in Nat, NEW s \in [1..n -> Nat],
         \A i, j \in 1..n : i < j => s[i] < s[j]
  PROVE  LET S == {s[i] : i \in 1..n}
         IN  S \in SUBSET Nat /\ IsFiniteSet(S) /\ Cardinality(S) = n /\ Ascending(S) = s
<1> DEFINE S == {s[i] : i \in 1..n}
<1>1. ASSUME NEW i \in 1..n, NEW j \in 1..n PROVE s[i] <= s[j] <=> i <= j
  <2>1. i < j \/ i = j \/ j < i
    OBVIOUS
  <2>2. s[i] \in Nat /\ s[j] \in Nat
    OBVIOUS
  <2> QED
    BY <2>1, <2>2
<1>2. ASSUME NEW k \in 0..n
      PROVE  IsFiniteSet({s[i] : i \in 1..k}) /\ Cardinality({s[i] : i \in 1..k}) = k
  <2> DEFINE T == {s[i] : i \in 1..k}
             f == [i \in 1..k |-> s[i]]
  <2>1. IsFiniteSet(1..k) /\ Cardinality(1..k) = k
    BY FS_Interval
  <2>2. ASSUME NEW i \in 1..k, NEW j \in 1..k, f[i] = f[j] PROVE i = j
    <3>1. i \in 1..n /\ j \in 1..n /\ s[i] = s[j] /\ s[i] \in Nat
      BY <2>2
    <3>2. s[i] <= s[j] /\ s[j] <= s[i]
      BY <3>1
    <3> QED
      BY <1>1, <3>1, <3>2
  <2>3. f \in [1..k -> T] /\ \A t \in T : \E i \in 1..k : f[i] = t
    OBVIOUS
  <2>4. f \in Bijection(1..k, T)
    BY <2>2, <2>3 DEF Bijection, Injection, Surjection, IsInjective
  <2>5. ExistsBijection(1..k, T)
    BY <2>4 DEF ExistsBijection
  <2> HIDE DEF T
  <2>6. IsFiniteSet(T) /\ Cardinality(T) = k
    BY <2>1, <2>5, FS_Bijection
  <2> QED
    BY <2>6 DEF T
<1>3. S \in SUBSET Nat /\ IsFiniteSet(S) /\ Cardinality(S) = n
  <2>1. n \in 0..n
    OBVIOUS
  <2>2. IsFiniteSet(S) /\ Cardinality(S) = n
    BY <1>2, <2>1
  <2> QED
    BY <2>2
<1>4. ASSUME NEW i \in 1..n PROVE Cardinality({m \in S : m <= s[i]}) = i
  <2>1. {m \in S : m <= s[i]} = {s[j] : j \in 1..i}
    <3>1. ASSUME NEW m \in S, m <= s[i] PROVE m \in {s[j] : j \in 1..i}
      <4>1. PICK j \in 1..n : m = s[j]
        OBVIOUS
      <4>2. j <= i
        BY <1>1, <3>1, <4>1
      <4> QED
        BY <4>1, <4>2
    <3>2. ASSUME NEW j \in 1..i PROVE s[j] \in S /\ s[j] <= s[i]
      <4>1. j \in 1..n /\ j <= i
        OBVIOUS
      <4> QED
        BY <1>1, <4>1
    <3> QED
      BY <3>1, <3>2
  <2>2. i \in 0..n
    OBVIOUS
  <2>3. Cardinality({s[j] : j \in 1..i}) = i
    BY <1>2, <2>2
  <2> HIDE DEF S
  <2> QED
    BY <2>1, <2>3
<1>5. ASSUME NEW k \in 1..n
      PROVE  (CHOOSE m \in S : Cardinality({x \in S : x <= m}) = k) = s[k]
  <2>1. s[k] \in S /\ Cardinality({x \in S : x <= s[k]}) = k
    BY <1>4
  <2>2. \A m \in S : Cardinality({x \in S : x <= m}) = k => m = s[k]
    <3>1. SUFFICES ASSUME NEW m \in S, Cardinality({x \in S : x <= m}) = k PROVE m = s[k]
      OBVIOUS
    <3>2. PICK i \in 1..n : m = s[i]
      OBVIOUS
    <3> QED
      BY <1>4, <3>1, <3>2
  <2> HIDE DEF S
  <2> QED
    BY <2>1, <2>2
<1>6. Ascending(S) = [k \in 1..n |-> s[k]]
  BY <1>3, <1>5 DEF Ascending
<1> QED
  BY <1>3, <1>6
-----------------------------------------------------------------------------
(***************************************************************************)
(* FlattenSeq of sequences of which all but one are empty is that one.     *)
(***************************************************************************)
LEMMA FlattenOne ==
  ASSUME NEW T, NEW ss \in Seq(Seq(T)), NEW n \in 1..Len(ss),
         \A i \in DOMAIN ss : i # n => ss[i] = <<>>
  PROVE  FlattenSeq(ss) = ss[n]
<1> DEFINE Step(f, i) == IF i = 1 THEN ss[i] ELSE f[i - 1] \o ss[i]
           f == CHOOSE f : f = [i \in 1..Len(ss) |-> Step(f, i)]
           g == [i \in 1..Len(ss) |-> IF i < n THEN <<>> ELSE ss[n]]
<1>1. Len(ss) \in Nat /\ DOMAIN ss = 1..Len(ss) /\ \A i \in 1..Len(ss) : ss[i] \in Seq(T)
  OBVIOUS
<1>2. Len(ss) # 0 /\ Len(ss) \in 1..Len(ss)
  BY <1>1
<1>3. FlattenSeq(ss) = f[Len(ss)]
  BY <1>2 DEF FlattenSeq
<1>4. \A i \in 1..Len(ss) : g[i] = Step(g, i)
  <2> SUFFICES ASSUME NEW i \in 1..Len(ss) PROVE g[i] = Step(g, i)
    OBVIOUS
  <2>1. \A s \in Seq(T) : <<>> \o s = s /\ s \o <<>> = s
    OBVIOUS
  <2>2. i # n => ss[i] = <<>>
    BY <1>1
  <2>3. CASE i = 1
    BY <2>2, <2>3
  <2>4. CASE i # 1
    <3>1. i - 1 \in 1..Len(ss) /\ i \in Int /\ n \in Int
      BY <1>1, <2>4
    <3>2. g[i - 1] = IF i - 1 < n THEN <<>> ELSE ss[n]
      BY <3>1
    <3>3. ss[n] \in Seq(T) /\ <<>> \in Seq(T)
      BY <1>1
    <3>4. g[i - 1] \o ss[i] = g[i]
      <4>1. g[i] = IF i < n THEN <<>> ELSE ss[n]
        OBVIOUS
      <4> HIDE DEF g
      <4>2. CASE i < n
        <5>1. g[i - 1] = <<>> /\ ss[i] = <<>> /\ g[i] = <<>>
          BY <2>2, <3>1, <3>2, <4>1, <4>2
        <5>2. <<>> \o <<>> = <<>>
          BY <2>1, <3>3
        <5> QED
          BY <5>1, <5>2, Zenon
      <4>3. CASE i = n
        <5>1. g[i - 1] = <<>> /\ g[i] = ss[n] /\ ss[i] = ss[n]
          BY <3>1, <3>2, <4>1, <4>3
        <5>2. <<>> \o ss[n] = ss[n]
          BY <2>1, <3>3
        <5> QED
          BY <5>1, <5>2, Zenon
      <4>4. CASE i > n
        <5>1. g[i - 1] = ss[n] /\ ss[i] = <<>> /\ g[i] = ss[n]
          BY <2>2, <3>1, <3>2, <4>1, <4>4
        <5>2. ss[n] \o <<>> = ss[n]
          BY <2>1, <3>3
        <5> QED
          BY <5>1, <5>2, Zenon
      <4>5. i < n \/ i = n \/ i > n
        BY <3>1
      <4> QED
        BY <4>2, <4>3, <4>4, <4>5, Zenon
    <3>5. Step(g, i) = g[i - 1] \o ss[i]
      <4> HIDE DEF g
      <4> QED
        BY <2>4
    <3> QED
      BY <3>4, <3>5
  <2> QED
    BY <2>3, <2>4
<1>5. g = [i \in 1..Len(ss) |-> Step(g, i)]
  <2> DEFINE sg == [i \in 1..Len(ss) |-> Step(g, i)]
  <2>1. \A i \in 1..Len(ss) : g[i] = sg[i]
    BY <1>4
  <2>2. DOMAIN g = 1..Len(ss) /\ DOMAIN sg = 1..Len(ss)
    OBVIOUS
  <2>3. g = [i \in 1..Len(ss) |-> g[i]] /\ sg = [i \in 1..Len(ss) |-> sg[i]]
    OBVIOUS
  <2> HIDE DEF g, sg
  <2>4. g = sg
    BY <2>1, <2>3
  <2> QED
    BY <2>4 DEF sg
<1> HIDE DEF g
<1>6. f = [i \in 1..Len(ss) |-> Step(f, i)]
  BY <1>5
<1> HIDE DEF f
<1>7. \A i \in 1..Len(ss) : f[i] = g[i]
  <2> DEFINE Bad == {i \in 1..Len(ss) : f[i] # g[i]}
  <2>1. SUFFICES ASSUME Bad # {} PROVE FALSE
    OBVIOUS
  <2>2. PICK b \in Bad : \A c \in Bad : b <= c
    <3>1. Bad \in SUBSET Nat
      BY <1>1
    <3> HIDE DEF Bad
    <3> QED
      BY <2>1, <3>1, LeastIsThere
  <2>3. b \in 1..Len(ss) /\ f[b] # g[b]
    OBVIOUS
  <2>4. f[b] = Step(f, b) /\ g[b] = Step(g, b)
    BY <1>4, <1>6, <2>3
  <2>5. b # 1
    BY <2>3, <2>4
  <2>6. b - 1 \in 1..Len(ss) /\ b - 1 \notin Bad
    BY <1>1, <2>2, <2>3, <2>5
  <2>7. f[b - 1] = g[b - 1]
    BY <2>6
  <2> QED
    BY <2>3, <2>4, <2>5, <2>7
<1>8. g[Len(ss)] = ss[n]
  BY <1>1, <1>2 DEF g
<1> QED
  BY <1>2, <1>3, <1>7, <1>8

-----------------------------------------------------------------------------
(***************************************************************************)
(* Where the elements of Chosen(s, S) were in s: places that rise through  *)
(* all of S, so that neighbours in s stay neighbours.                      *)
(***************************************************************************)
TurnPlaces(a, c, s, S) ==
  /\ a \in [DOMAIN c -> S]
  /\ \A k \in DOMAIN c : c[k] = s[a[k]]
  /\ \A n \in S : \E k \in DOMAIN c : a[k] = n
  /\ \A j, k \in DOMAIN c : j < k => a[j] < a[k]
  /\ 1 \in S => 1 \in DOMAIN c /\ a[1] = 1
  /\ \A k \in DOMAIN c :
       /\ a[k] + 1 \in S => k + 1 \in DOMAIN c /\ a[k + 1] = a[k] + 1
       /\ a[k] - 1 \in S => k - 1 \in DOMAIN c /\ a[k - 1] = a[k] - 1

LEMMA ChosenPlaces ==
  ASSUME NEW T, NEW s \in Seq(T), NEW S \in SUBSET DOMAIN s
  PROVE  /\ Chosen(s, S) \in Seq(T) /\ Len(Chosen(s, S)) \in Nat
         /\ DOMAIN Chosen(s, S) = 1..Len(Chosen(s, S))
         /\ \E a : TurnPlaces(a, Chosen(s, S), s, S)
<1> DEFINE c == Chosen(s, S)
           a == Ascending(S)
           n == Cardinality(S)
<1>1. IsFiniteSet(S) /\ S \in SUBSET Nat
  <2>1. Len(s) \in Nat /\ DOMAIN s = 1..Len(s)
    OBVIOUS
  <2>2. IsFiniteSet(1..Len(s))
    BY <2>1, FS_Interval
  <2> QED
    BY <2>1, <2>2, FS_Subset
<1>2. n \in Nat /\ a \in [1..n -> S]
  BY <1>1, AscendingIsOf
<1>3. c \in Seq(T)
  BY ChosenIsSeq
<1>4. DOMAIN c = 1..n /\ \A k \in 1..n : c[k] = s[a[k]]
  BY DEF Chosen
<1>5. Len(c) = n
  <2> HIDE DEF c
  <2> QED
    BY <1>2, <1>3, <1>4
<1>6. \A j, k \in 1..n : j < k => a[j] < a[k]
  BY <1>1, AscendingRises
<1>7. \A m \in S : \E k \in 1..n : a[k] = m
  BY <1>1, AscendingAll
<1> HIDE DEF a, n, c
<1>8. \A j \in 1..n : a[j] \in S /\ a[j] \in Nat /\ j \in Int
  BY <1>1, <1>2
<1>9. \A j, k \in 1..n : a[j] < a[k] => j < k
  <2> SUFFICES ASSUME NEW j \in 1..n, NEW k \in 1..n, a[j] < a[k], ~(j < k) PROVE FALSE
    OBVIOUS
  <2>1. j = k \/ k < j
    BY <1>8
  <2>2. ~(a[k] < a[j]) /\ a[j] # a[k]
    BY <1>8
  <2> QED
    BY <1>6, <2>1, <2>2
<1>10. 1 \in S => 1 \in 1..n /\ a[1] = 1
  <2> SUFFICES ASSUME 1 \in S PROVE 1 \in 1..n /\ a[1] = 1
    OBVIOUS
  <2>1. PICK k \in 1..n : a[k] = 1
    BY <1>7
  <2>2. 1 \in 1..n
    BY <1>2, <2>1
  <2>3. a[1] \in DOMAIN s /\ a[1] >= 1
    BY <1>8, <2>2
  <2>4. ~(a[1] < a[k])
    BY <2>1, <2>3, <1>8, <2>2
  <2>5. k = 1 \/ 1 < k
    BY <1>2, <2>1
  <2> QED
    BY <1>6, <2>1, <2>2, <2>4, <2>5
<1>11. ASSUME NEW k \in 1..n, a[k] + 1 \in S PROVE k + 1 \in 1..n /\ a[k + 1] = a[k] + 1
  <2>1. PICK j \in 1..n : a[j] = a[k] + 1
    BY <1>7, <1>11
  <2>2. k < j
    BY <1>8, <1>9, <2>1
  <2>3. k + 1 \in 1..n /\ (j = k + 1 \/ k + 1 < j) /\ k < k + 1
    BY <1>2, <2>2
  <2>4. a[k] < a[k + 1]
    BY <1>6, <2>3
  <2>5. ~(a[k + 1] < a[j])
    BY <1>8, <2>1, <2>3, <2>4
  <2> QED
    BY <1>6, <2>1, <2>3, <2>5
<1>12. ASSUME NEW k \in 1..n, a[k] - 1 \in S PROVE k - 1 \in 1..n /\ a[k - 1] = a[k] - 1
  <2>1. PICK j \in 1..n : a[j] = a[k] - 1
    BY <1>7, <1>12
  <2>2. j < k
    BY <1>8, <1>9, <2>1
  <2>3. k - 1 \in 1..n /\ (j = k - 1 \/ j < k - 1) /\ k - 1 < k
    BY <1>2, <2>2
  <2>4. a[k - 1] < a[k]
    BY <1>6, <2>3
  <2>5. ~(a[j] < a[k - 1])
    BY <1>8, <2>1, <2>3, <2>4
  <2> QED
    BY <1>6, <2>1, <2>3, <2>5
<1>13. a \in [DOMAIN c -> S]
  BY <1>2, <1>4
<1>14. /\ c \in Seq(T) /\ Len(c) \in Nat /\ DOMAIN c = 1..Len(c)
       /\ \A k \in DOMAIN c : c[k] = s[a[k]]
       /\ \A m \in S : \E k \in DOMAIN c : a[k] = m
       /\ \A j, k \in DOMAIN c : j < k => a[j] < a[k]
       /\ 1 \in S => 1 \in DOMAIN c /\ a[1] = 1
       /\ \A k \in DOMAIN c :
            /\ a[k] + 1 \in S => k + 1 \in DOMAIN c /\ a[k + 1] = a[k] + 1
            /\ a[k] - 1 \in S => k - 1 \in DOMAIN c /\ a[k - 1] = a[k] - 1
  BY <1>2, <1>3, <1>4, <1>5, <1>6, <1>7, <1>10, <1>11, <1>12
<1>15. TurnPlaces(a, c, s, S)
  BY <1>13, <1>14 DEF TurnPlaces
<1> QED
  BY <1>14, <1>15 DEF c

\* The next place is the next number of S.
RisesByNext(a, c, S) ==
  \A k \in DOMAIN c : \A n \in S :
    a[k] < n /\ (\A m \in S : m <= a[k] \/ n <= m) => k + 1 \in DOMAIN c /\ a[k + 1] = n

LEMMA NextPlace ==
  ASSUME NEW c, NEW s, NEW S \in SUBSET Nat, NEW a, TurnPlaces(a, c, s, S),
         Len(c) \in Nat, DOMAIN c = 1..Len(c)
  PROVE  RisesByNext(a, c, S)
<1> SUFFICES ASSUME NEW k \in DOMAIN c, NEW n \in S, a[k] < n,
                    \A m \in S : m <= a[k] \/ n <= m
             PROVE  k + 1 \in DOMAIN c /\ a[k + 1] = n
  BY DEF RisesByNext
<1> DEFINE l == Len(c)
<1> HIDE DEF l
<1>l. l \in Nat /\ DOMAIN c = 1..l
  BY DEF l
<1>1. /\ \A i \in DOMAIN c : a[i] \in S
      /\ \A i, j \in DOMAIN c : i < j => a[i] < a[j]
      /\ \E j \in DOMAIN c : a[j] = n
  BY DEF TurnPlaces
<1>2. PICK j \in DOMAIN c : a[j] = n
  BY <1>1
<1>0. ASSUME NEW i \in DOMAIN c PROVE a[i] \in S /\ a[i] \in Nat /\ i \in Int
  <2>1. a[i] \in S
    BY <1>1
  <2>2. S \subseteq Nat /\ i \in 1..l /\ l \in Nat
    BY <1>l
  <2>3. i \in Int
    BY <2>2
  <2>4. a[i] \in Nat
    BY <2>1, <2>2, Zenon
  <2> QED
    BY <2>1, <2>3, <2>4
<1>3. k < j
  <2>1. SUFFICES ASSUME ~(k < j) PROVE FALSE
    OBVIOUS
  <2>2. j = k \/ j < k
    BY <1>0, <2>1
  <2>3. j < k => a[j] < a[k]
    BY <1>1
  <2> QED
    BY <1>0, <1>2, <2>2, <2>3
<1>4. k + 1 \in DOMAIN c /\ (j = k + 1 \/ k + 1 < j) /\ k < k + 1
  BY <1>3, <1>l
<1>5. a[k] < a[k + 1] /\ a[k + 1] \in S
  BY <1>1, <1>4
<1>6. n <= a[k + 1]
  BY <1>0, <1>4, <1>5
<1>7. ~(k + 1 < j)
  <2>1. k + 1 < j => a[k + 1] < a[j]
    BY <1>1, <1>4
  <2> QED
    BY <1>0, <1>2, <1>4, <1>6, <2>1
<1> QED
  BY <1>2, <1>4, <1>7

\* Two sequences in turn.
OneByOne(x, s, t) ==
  /\ Len(x) = 2 * Len(s) /\ DOMAIN x = 1..(2 * Len(s))
  /\ \A i \in 1..Len(s) : /\ 2 * i - 1 \in DOMAIN x /\ 2 * i \in DOMAIN x
                          /\ x[2 * i - 1] = s[i] /\ x[2 * i] = t[i]
  /\ \A k \in DOMAIN x : \E i \in 1..Len(s) : k = 2 * i - 1 \/ k = 2 * i

LEMMA InTurnIs ==
  ASSUME NEW T, NEW s \in Seq(T), NEW t \in Seq(T), Len(s) = Len(t)
  PROVE  InTurn(s, t) \in Seq(T) /\ OneByOne(InTurn(s, t), s, t)
<1>1. Len(s) \in Nat /\ 2 * Len(s) \in Nat
  OBVIOUS
<1>2. ASSUME NEW k \in 1..(2 * Len(s))
      PROVE  \/ k % 2 = 1 /\ (k + 1) \div 2 \in 1..Len(s) /\ k = 2 * ((k + 1) \div 2) - 1
             \/ k % 2 = 0 /\ k \div 2 \in 1..Len(s) /\ k = 2 * (k \div 2)
  BY <1>1
<1>3. ASSUME NEW k \in 1..(2 * Len(s))
      PROVE  (IF k % 2 = 1 THEN s[(k + 1) \div 2] ELSE t[k \div 2]) \in T
  BY <1>2, ElementOfSeq
<1>4. InTurn(s, t) \in [1..(2 * Len(s)) -> T]
  BY <1>3 DEF InTurn
<1>5. ASSUME NEW i \in 1..Len(s)
      PROVE  /\ 2 * i - 1 \in 1..(2 * Len(s)) /\ 2 * i \in 1..(2 * Len(s))
             /\ (2 * i - 1) % 2 = 1 /\ ((2 * i - 1) + 1) \div 2 = i
             /\ (2 * i) % 2 = 0 /\ (2 * i) \div 2 = i
  BY <1>1
<1>6. \A i \in 1..Len(s) : InTurn(s, t)[2 * i - 1] = s[i] /\ InTurn(s, t)[2 * i] = t[i]
  BY <1>5 DEF InTurn
<1>7. \A k \in 1..(2 * Len(s)) : \E i \in 1..Len(s) : k = 2 * i - 1 \/ k = 2 * i
  BY <1>2
<1> DEFINE c == InTurn(s, t)
<1> HIDE DEF c
<1>8. c \in Seq(T) /\ Len(c) = 2 * Len(s) /\ DOMAIN c = 1..(2 * Len(s))
  BY <1>1, <1>4, FunctionIsSeq DEF c
<1> QED
  BY <1>5, <1>6, <1>7, <1>8 DEF c, OneByOne
=============================================================================
