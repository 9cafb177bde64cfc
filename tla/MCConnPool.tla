----------------------------- MODULE MCConnPool -----------------------------
(***************************************************************************)
(* ConnPool on a small instance.                                           *)
(***************************************************************************)
EXTENDS ConnPool, TLC

Symmetry == Permutations(Users) \cup Permutations(Conns)
=============================================================================
