----------------------------- MODULE MCUnixLock -----------------------------
(***************************************************************************)
(* UnixLock on a small instance: two threads of one process, one of        *)
(* another.                                                                *)
(***************************************************************************)
EXTENDS UnixLock

CONSTANTS f1, f2, f3
Threads == [f \in Files |-> IF f = f3 THEN "q" ELSE "p"]
=============================================================================
