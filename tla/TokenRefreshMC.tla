--------------------------- MODULE TokenRefreshMC ---------------------------
(* Model values for TokenRefresh: two processes that start, and the first   *)
(* makes a read and a write at once.                                        *)
EXTENDS TokenRefresh, TLC

CONSTANTS p1, p2, s1, s2, r1, w1

OwnerOf == s1 :> p1 @@ s2 :> p2 @@ r1 :> p1 @@ w1 :> p1
=============================================================================
