-------------------------------- MODULE Conns --------------------------------
(***************************************************************************)
(* The network connections that a Tx and a PubSub work with.               *)
(***************************************************************************)
CONSTANTS
    Conns,
    NoConn          \* no connection: a nil *pool.Conn

ASSUME ConnsAssumption == NoConn \notin Conns
=============================================================================
