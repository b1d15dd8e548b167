----------------------------- MODULE Selection ------------------------------
(***************************************************************************)
(* The part of a sequence that a loop over it keeps, in its order; two     *)
(* sequences in turn.                                                      *)
(***************************************************************************)
EXTENDS Integers, Sequences, FiniteSets

\* The numbers of a set in their order, and what a sequence has at them.
Ascending(S) == [k \in 1..Cardinality(S) |-> CHOOSE n \in S : Cardinality({m \in S : m <= n}) = k]
Chosen(s, S) == [k \in 1..Cardinality(S) |-> s[Ascending(S)[k]]]

\* Each element of s followed by that of t at its place.
InTurn(s, t) ==
  [k \in 1..(2 * Len(s)) |-> IF k % 2 = 1 THEN s[(k + 1) \div 2] ELSE t[k \div 2]]
=============================================================================
