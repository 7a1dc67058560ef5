---------------------------- MODULE MCNcnnCache ----------------------------
(* Instances of NcnnCache for TLC. *)
EXTENDS NcnnCache, TLC

CONSTANTS p1, p2
TwoLoaders == {p1, p2}
LoaderSymmetry == Permutations(TwoLoaders)
=============================================================================
