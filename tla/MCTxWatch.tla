----------------------------- MODULE MCTxWatch -----------------------------
(***************************************************************************)
(* TxWatch on a small instance.                                            *)
(***************************************************************************)
EXTENDS TxWatch, TLC

Symmetry == Permutations(Txs) \cup Permutations(Conns)
=============================================================================
