--------------------------- MODULE MCClusterNodes ---------------------------
(***************************************************************************)
(* ClusterNodes on a small instance.                                       *)
(***************************************************************************)
EXTENDS ClusterNodes, TLC

Symmetry == Permutations(Nodes) \cup Permutations(Callers)
=============================================================================
