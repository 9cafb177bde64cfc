------------------------------ MODULE MCPager ------------------------------
(***************************************************************************)
(* Pager on a small instance.                                              *)
(***************************************************************************)
EXTENDS Pager

Apart == [c \in Conns |-> c]                \* every connection in a process of its own
Together == [c \in Conns |-> "process"]     \* threads of one process
AllSame == {[c \in Conns |-> m] : m \in {"delete", "truncate", "persist"}}
Symmetry == {[c \in Conns |-> IF c = a THEN b ELSE IF c = b THEN a ELSE c] : a \in Conns, b \in Conns}
=============================================================================
