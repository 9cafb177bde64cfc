---------------------------- MODULE MCClientCmds ----------------------------
(***************************************************************************)
(* ClientCmds on a small instance.                                         *)
(***************************************************************************)
EXTENDS ClientCmds, TLC

Symmetry == Permutations(Users) \cup Permutations(Conns)
=============================================================================
