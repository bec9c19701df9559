--------------------------- MODULE MCSnapshotStore ---------------------------
(* SnapshotStore on small instances.                                       *)
EXTENDS SnapshotStore, TLC

CONSTANTS p1, p2, p3, a, b, t1, t2

StoreSymmetry ==
  Permutations(Procs) \union Permutations(Ids) \union Permutations(TempNames)
==============================================================================
