--------------------------- MODULE MCClusterCmds ---------------------------
EXTENDS ClusterCmds, TLC

CONSTANTS a1, a2, s1, s2

\* Addresses are interchangeable; slots differ by being covered or not.
Symmetry == Permutations(Addrs)
=============================================================================
