------------------------------- MODULE DbLock -------------------------------
(***************************************************************************)
(* The five states of the lock a connection holds on a database file, and  *)
(* which of them two connections may hold together.  This is what the      *)
(* pager expects of the file locks: UnixLock, the locks of os_unix.c, is   *)
(* shown to implement it, and Pager is built on its actions.               *)
(***************************************************************************)
EXTENDS Naturals, FiniteSets

CONSTANTS
    Conns,      \* connections
    Proc        \* connection -> its process

ASSUME DbLockAssumption == DOMAIN Proc = Conns

VARIABLES
    lock,       \* connection -> the lock it holds
    resv        \* the connections that got theirs by way of RESERVED

lockVars == <<lock, resv>>

NoLock == 0
Shared == 1
Reserved == 2
Pending == 3
Exclusive == 4

Others(c) == Conns \ {c}
\* The other connections of c's own process.
Siblings(c) == {d \in Others(c) : Proc[d] = Proc[c]}

LockInit ==
    /\ lock = [c \in Conns |-> NoLock]
    /\ resv = {}

\* New readers are let in until a writer waits for the old ones to leave, and
\* after that where a reader of the same process is still in.
CanShare(c) ==
    /\ lock[c] = NoLock
    /\ \A d \in Siblings(c) : lock[d] < Pending
    /\ \/ \A d \in Others(c) : lock[d] < Pending
       \/ \E d \in Siblings(c) : lock[d] # NoLock
LockShared(c) ==
    /\ CanShare(c)
    /\ lock' = [lock EXCEPT ![c] = Shared]
    /\ UNCHANGED resv

\* One connection at a time prepares to write.
CanReserve(c) ==
    /\ lock[c] = Shared
    /\ resv = {}
    /\ \A d \in Siblings(c) : lock[d] <= Shared
LockReserved(c) ==
    /\ CanReserve(c)
    /\ lock' = [lock EXCEPT ![c] = Reserved]
    /\ resv' = {c}

\* The way to EXCLUSIVE leads through PENDING, with or without RESERVED, and
\* an attempt that meets readers stops there.
CanPend(c) ==
    \/ lock[c] = Pending
    \/ /\ lock[c] \in {Shared, Reserved}
       /\ \A d \in Others(c) : lock[d] < Pending
       /\ \A d \in Siblings(c) : lock[d] <= Shared
\* Mutant: PENDING is taken for EXCLUSIVE while others still read.
CanExcludeEarly(c) == CanPend(c)
CanExclude(c) == CanPend(c) /\ \A d \in Others(c) : lock[d] = NoLock
LockPending(c) ==
    /\ CanPend(c)
    /\ lock' = [lock EXCEPT ![c] = Pending]
    /\ UNCHANGED resv
LockExclusive(c) ==
    /\ CanExclude(c)
    /\ lock' = [lock EXCEPT ![c] = Exclusive]
    /\ UNCHANGED resv

Downgrade(c) ==
    /\ lock[c] > Shared
    /\ lock' = [lock EXCEPT ![c] = Shared]
    /\ resv' = resv \ {c}
Unlock(c) ==
    /\ lock' = [lock EXCEPT ![c] = NoLock]
    /\ resv' = resv \ {c}
\* A process ends.
UnlockAll(S) ==
    /\ lock' = [c \in Conns |-> IF c \in S THEN NoLock ELSE lock[c]]
    /\ resv' = resv \ S

LockNext ==
    \/ \E c \in Conns :
          \/ LockShared(c) \/ LockReserved(c) \/ LockPending(c)
          \/ LockExclusive(c) \/ Downgrade(c) \/ (lock[c] # NoLock /\ Unlock(c))
    \/ \E S \in SUBSET Conns : UnlockAll(S)

LockSpec == LockInit /\ [][LockNext]_lockVars

\* Two connections never write at a time, and nobody reads while one writes to the
\* file: EXCLUSIVE excludes every other lock, one connection at a time is on its way
\* there, and one at a time has RESERVED.
Exclusion ==
    \A c, d \in Conns : c # d =>
        /\ lock[c] = Exclusive => lock[d] = NoLock
        /\ lock[c] >= Pending => lock[d] < Pending
        /\ c \in resv => d \notin resv

\* unixCheckReservedLock: the test of another process sees the RESERVED byte,
\* the test within the process sees any lock above SHARED.
ReservedSeen(c) ==
    \/ resv \ Siblings(c) # {}
    \/ \E d \in Siblings(c) : lock[d] > Shared
=============================================================================
