---------------------------- MODULE ConfigLockMC ----------------------------
(***************************************************************************)
(* ConfigLock for TLC: the processes behave alike, unless some are denied. *)
(***************************************************************************)
EXTENDS ConfigLock, TLC

Symmetry == Permutations(Procs)
=============================================================================
