----------------------------- MODULE ConnLease -----------------------------
(***************************************************************************)
(* What a pool promises the commands that use it: a connection is lent to  *)
(* one goroutine at a time, and no more than PoolSize of them are lent.    *)
(***************************************************************************)
EXTENDS Naturals, FiniteSets

CONSTANTS Users, Conns, NoConn, PoolSize

VARIABLE lent   \* goroutine -> the connection Get has returned to it

Borrowers == {u \in Users : lent[u] # NoConn}

Init == lent = [u \in Users |-> NoConn]

\* Get returns c.
Get(u, c) ==
    /\ lent[u] = NoConn
    /\ \A v \in Users : lent[v] # c
    /\ Cardinality(Borrowers) < PoolSize
    /\ lent' = [lent EXCEPT ![u] = c]

\* Put or Remove is called.
GiveBack(u) ==
    /\ lent[u] # NoConn
    /\ lent' = [lent EXCEPT ![u] = NoConn]

Next == \E u \in Users : GiveBack(u) \/ \E c \in Conns : Get(u, c)

Spec == Init /\ [][Next]_lent
=============================================================================
