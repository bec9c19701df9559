----------------------------- MODULE MCHeadState -----------------------------
(* HeadState on small instances.                                           *)
EXTENDS HeadState, TLC

CONSTANTS p1, p2, a, b, c, t1

HeadSymmetry == Permutations(Procs) \union Permutations(Ids)
==============================================================================
