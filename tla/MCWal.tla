------------------------------- MODULE MCWal -------------------------------
(***************************************************************************)
(* Wal on a small instance.                                                *)
(***************************************************************************)
EXTENDS Wal

Symmetry == {[c \in Conns |-> IF c = a THEN b ELSE IF c = b THEN a ELSE c] : a \in Conns, b \in Conns}

\* Behaviours are not followed past the two windows the violations are about.
NoFlaw == flaw = "none"
NoStale == flaw # "stale"
=============================================================================
