------------------------------ MODULE UnixLock ------------------------------
(***************************************************************************)
(* The locks of a database file on Unix (os_unix.c).  The system knows     *)
(* POSIX locks, which belong to processes: two threads of one process do   *)
(* not exclude each other, and a process loses all its locks on a file     *)
(* when it closes any descriptor of it.  SQLite keeps a unixInodeInfo per  *)
(* process to count who holds what, builds its five lock states from read  *)
(* and write locks on three ranges of bytes, and puts descriptors aside    *)
(* that it must not close yet.                                             *)
(*                                                                         *)
(* A step is one fcntl call, with the assignments that go with it; a call  *)
(* of unixLock or posixUnlock holds its process's mutex from its first     *)
(* step to its last.                                                       *)
(***************************************************************************)
EXTENDS Naturals, FiniteSets

CONSTANTS
    Files,      \* unixFile objects: the connections' handles of the database file
    Proc,       \* unixFile -> its process
    MaxErr      \* bound on the number of fcntl calls that fail to unlock

ASSUME UnixLockAssumption == IsFiniteSet(Files) /\ DOMAIN Proc = Files /\ MaxErr \in Nat

VARIABLES
    pc,         \* unixFile -> "closed", "opening", "idle", a step that holds the mutex, or
                \* "leaked": closed, while the process still counts its lock
    lvl,        \* unixFile -> eFileLock
    ino,        \* process -> its unixInodeInfo; a zeroed one stands for none
    os,         \* range -> process -> the POSIX lock it has
    errs

vars == <<pc, lvl, ino, os, errs>>

NoLock == 0
Shared == 1
Reserved == 2
Pending == 3
Exclusive == 4

Procs == {Proc[f] : f \in Files}
Bytes == {"pending", "reserved", "shared"}

NoInode == [lvl |-> NoLock, nShared |-> 0, nLock |-> 0, nRef |-> 0, unused |-> 0]

Init ==
    /\ pc = [f \in Files |-> "closed"]
    /\ lvl = [f \in Files |-> NoLock]
    /\ ino = [p \in Procs |-> NoInode]
    /\ os = [b \in Bytes |-> [p \in Procs |-> "none"]]
    /\ errs = 0

-----------------------------------------------------------------------------
(* The operating system.                                                   *)

CanRead(b, p) == \A q \in Procs \ {p} : os[b][q] # "write"
CanWrite(b, p) == \A q \in Procs \ {p} : os[b][q] = "none"
\* close() of any descriptor of the file.
DropAll(p) == [b \in Bytes |-> [os[b] EXCEPT ![p] = "none"]]

-----------------------------------------------------------------------------
MutexFree(p) == \A g \in Files : Proc[g] = p => pc[g] \in {"closed", "opening", "idle", "leaked"}
Idle(f) == pc[f] = "idle" /\ MutexFree(Proc[f])
Goto(f, l) == pc' = [pc EXCEPT ![f] = l]
Level(f, l) == lvl' = [lvl EXCEPT ![f] = l]
Fails == errs < MaxErr /\ errs' = errs + 1

\* unixOpen: findReusableFd takes a descriptor that was put aside; all are opened
\* with the same flags.
Open(f) ==
    LET p == Proc[f]
    IN  /\ pc[f] = "closed" /\ MutexFree(p)
        /\ Goto(f, "opening")
        /\ ino' = [ino EXCEPT ![p].unused = IF @ > 0 THEN @ - 1 ELSE 0]
        /\ UNCHANGED <<lvl, os, errs>>
\* fillInUnixFile and findInodeInfo.
OpenInode(f) ==
    LET p == Proc[f]
    IN  /\ pc[f] = "opening" /\ MutexFree(p)
        /\ Goto(f, "idle")
        /\ ino' = [ino EXCEPT ![p].nRef = @ + 1]
        /\ UNCHANGED <<lvl, os, errs>>
\* There is no memory for a unixInodeInfo: the descriptor is closed.
OpenFails(f) ==
    LET p == Proc[f]
    IN  /\ pc[f] = "opening" /\ MutexFree(p) /\ ino[p].nRef = 0
        /\ Goto(f, "closed")
        /\ os' = DropAll(p)
        /\ UNCHANGED <<lvl, ino, errs>>

-----------------------------------------------------------------------------
(* unixLock.                                                               *)

\* Another thread of the process has a lock that is in the way.
Precluded(f, want) ==
    /\ lvl[f] # ino[Proc[f]].lvl
    /\ ino[Proc[f]].lvl >= Pending \/ want > Shared

\* The process has a SHARED lock already: one more user of it.
LockSharedAgain(f) ==
    LET p == Proc[f]
    IN  /\ Idle(f) /\ lvl[f] = NoLock /\ ~Precluded(f, Shared)
        /\ ino[p].lvl \in {Shared, Reserved}
        /\ Level(f, Shared)
        /\ ino' = [ino EXCEPT ![p].nShared = @ + 1, ![p].nLock = @ + 1]
        /\ UNCHANGED <<pc, os, errs>>

\* Mutant: the PENDING byte is not looked at.
LockSharedNoPending(f) ==
    /\ Idle(f) /\ lvl[f] = NoLock /\ ino[Proc[f]].lvl = NoLock
    /\ CanRead("shared", Proc[f])
    /\ Goto(f, "shared")
    /\ UNCHANGED <<lvl, ino, os, errs>>
\* PENDING is read-locked, then the shared range, then PENDING is released.
LockShared(f) ==
    LET p == Proc[f]
    IN  /\ Idle(f) /\ lvl[f] = NoLock /\ ~Precluded(f, Shared)
        /\ ino[p].lvl = NoLock
        /\ CanRead("pending", p)
        /\ os' = [os EXCEPT !["pending"][p] = "read"]
        /\ Goto(f, "shared")
        /\ UNCHANGED <<lvl, ino, errs>>
SharedRange(f) ==
    LET p == Proc[f]
    IN  /\ pc[f] = "shared"
        /\ IF CanRead("shared", p)
           THEN os' = [os EXCEPT !["shared"][p] = "read"] /\ Goto(f, "got")
           ELSE Goto(f, "missed") /\ UNCHANGED os
        /\ UNCHANGED <<lvl, ino, errs>>
DropPending(f) ==
    LET p == Proc[f]
    IN  /\ pc[f] \in {"got", "missed"}
        /\ Goto(f, "idle")
        /\ \/ /\ os' = [os EXCEPT !["pending"][p] = "none"]
              /\ IF pc[f] = "got"
                 THEN /\ Level(f, Shared)
                      /\ ino' = [ino EXCEPT ![p].lvl = Shared, ![p].nShared = 1, ![p].nLock = @ + 1]
                 ELSE UNCHANGED <<lvl, ino>>
              /\ UNCHANGED errs
           \/ Fails /\ UNCHANGED <<lvl, ino, os>>

LockReserved(f) ==
    LET p == Proc[f]
    IN  /\ Idle(f) /\ lvl[f] = Shared /\ ~Precluded(f, Reserved)
        /\ CanWrite("reserved", p)
        /\ os' = [os EXCEPT !["reserved"][p] = "write"]
        /\ Level(f, Reserved)
        /\ ino' = [ino EXCEPT ![p].lvl = Reserved]
        /\ UNCHANGED <<pc, errs>>

\* EXCLUSIVE: the PENDING byte first, unless an earlier attempt has got it.
LockPending(f) ==
    LET p == Proc[f]
    IN  /\ Idle(f) /\ lvl[f] \in {Shared, Reserved} /\ ~Precluded(f, Exclusive)
        /\ CanWrite("pending", p)
        /\ os' = [os EXCEPT !["pending"][p] = "write"]
        /\ Goto(f, "exclusive")
        /\ UNCHANGED <<lvl, ino, errs>>

\* Mutant: the other threads of the process are forgotten.
AloneForgotten(p) == CanWrite("shared", p)
\* Neither another thread nor another process reads.
Alone(p) == ino[p].nShared <= 1 /\ CanWrite("shared", p)
Asks(f) == pc[f] = "exclusive" \/ (Idle(f) /\ lvl[f] = Pending)
LockExclusive(f) ==
    LET p == Proc[f]
    IN  /\ Asks(f) /\ Alone(p)
        /\ os' = [os EXCEPT !["shared"][p] = "write"]
        /\ Goto(f, "idle") /\ Level(f, Exclusive)
        /\ ino' = [ino EXCEPT ![p].lvl = Exclusive]
        /\ UNCHANGED errs
StayPending(f) ==
    /\ Asks(f) /\ ~Alone(Proc[f])
    /\ Goto(f, "idle") /\ Level(f, Pending)
    /\ ino' = [ino EXCEPT ![Proc[f]].lvl = Pending]
    /\ UNCHANGED <<os, errs>>

-----------------------------------------------------------------------------
(* posixUnlock.                                                            *)

\* To SHARED: the range becomes read-locked before the two bytes are released.
Downgrade(f) ==
    LET p == Proc[f]
    IN  /\ Idle(f) /\ lvl[f] > Shared
        /\ IF CanRead("shared", p)
           THEN os' = [os EXCEPT !["shared"][p] = "read"] /\ Goto(f, "bytes")
           ELSE UNCHANGED <<pc, os>>
        /\ UNCHANGED <<lvl, ino, errs>>

\* The two bytes are released, on the way to the level and the step that follow.
Release(f, l, step) ==
    LET p == Proc[f]
    IN  \/ /\ os' = [os EXCEPT !["pending"][p] = "none", !["reserved"][p] = "none"]
           /\ ino' = [ino EXCEPT ![p].lvl = Shared]
           /\ Goto(f, step) /\ Level(f, l)
           /\ UNCHANGED errs
        \/ Fails /\ Goto(f, "idle") /\ UNCHANGED <<lvl, ino, os>>
DowngradeBytes(f) == pc[f] = "bytes" /\ Release(f, Shared, "idle")

Unlock(f) == Idle(f) /\ lvl[f] > Shared /\ Release(f, lvl[f], "range")

\* The last user of the process releases everything, and closes what was put
\* aside when there is no lock left to lose.
UnlockRange(f) ==
    LET p == Proc[f]
        last == ino[p].nShared = 1
        close == ino[p].nLock = 1
    IN  /\ pc[f] = "range" \/ (Idle(f) /\ lvl[f] = Shared)
        /\ Goto(f, "idle") /\ Level(f, NoLock)
        /\ ino' = [ino EXCEPT ![p].nShared = @ - 1, ![p].nLock = @ - 1,
                              ![p].lvl = IF last THEN NoLock ELSE @,
                              ![p].unused = IF close THEN 0 ELSE @]
        /\ \/ /\ os' = IF last THEN DropAll(p) ELSE os
              /\ UNCHANGED errs
           \/ /\ last /\ Fails
              /\ os' = IF close /\ ino[p].unused > 0 THEN DropAll(p) ELSE os

-----------------------------------------------------------------------------
(* unixClose.                                                              *)

\* Mutant: the descriptor is closed at once.
MustWaitNot(p) == FALSE
\* There are locks of this process that closing the descriptor would drop.
MustWait(p) == ino[p].nLock > 0

CloseFile(f) ==
    LET p == Proc[f]
        aside == ino[p].unused + IF MustWait(p) THEN 1 ELSE 0
        rest == [ino[p] EXCEPT !.nRef = @ - 1, !.unused = aside]
    IN  /\ ino' = [ino EXCEPT ![p] = IF ino[p].nRef = 1 THEN NoInode ELSE rest]
        /\ os' = IF ~MustWait(p) \/ (ino[p].nRef = 1 /\ aside > 0) THEN DropAll(p) ELSE os
\* With the last unixFile the unixInodeInfo goes, and with it the locks it counted.
Gone(f, S) ==
    LET T == IF ino[Proc[f]].nRef > 1 THEN S
             ELSE {f} \cup {g \in Files : Proc[g] = Proc[f] /\ pc[g] = "leaked"}
    IN  /\ pc' = [g \in Files |-> IF g \in T THEN "closed" ELSE IF g = f THEN "leaked" ELSE pc[g]]
        /\ lvl' = [g \in Files |-> IF g \in T THEN NoLock ELSE lvl[g]]

Close(f) == Idle(f) /\ lvl[f] = NoLock /\ CloseFile(f) /\ Gone(f, {f}) /\ UNCHANGED errs
\* The unlocking that unixClose begins with fails, which it ignores: the process
\* keeps the lock and has no unixFile to unlock it with.
CloseLocked(f) == Idle(f) /\ lvl[f] > Shared /\ CloseFile(f) /\ Gone(f, {}) /\ Fails

Kill(p) ==
    /\ \E f \in Files : Proc[f] = p /\ pc[f] # "closed"
    /\ pc' = [f \in Files |-> IF Proc[f] = p THEN "closed" ELSE pc[f]]
    /\ lvl' = [f \in Files |-> IF Proc[f] = p THEN NoLock ELSE lvl[f]]
    /\ ino' = [ino EXCEPT ![p] = NoInode]
    /\ os' = DropAll(p)
    /\ UNCHANGED errs

Next ==
    \/ \E f \in Files :
          \/ Open(f) \/ OpenInode(f) \/ OpenFails(f)
          \/ LockSharedAgain(f) \/ LockShared(f) \/ SharedRange(f) \/ DropPending(f)
          \/ LockReserved(f) \/ LockPending(f) \/ LockExclusive(f) \/ StayPending(f)
          \/ Downgrade(f) \/ DowngradeBytes(f) \/ Unlock(f) \/ UnlockRange(f)
          \/ Close(f) \/ CloseLocked(f)
    \/ \E p \in Procs : Kill(p)

Spec == Init /\ [][Next]_vars

\* A call that holds the mutex ends.  Who has a lock, other than PENDING, gives it
\* up: statements and transactions end.  Who has PENDING calls the busy handler and
\* tries again, and may but need not give up.
\* A thread that keeps asking for the mutex gets it.
Fairness ==
    \A f \in Files :
        /\ WF_vars(SharedRange(f) \/ DropPending(f) \/ StayPending(f) \/ DowngradeBytes(f))
        /\ SF_vars(UnlockRange(f)) /\ SF_vars(lvl[f] # Pending /\ Unlock(f))
        /\ WF_vars(LockExclusive(f))
FairSpec == Spec /\ Fairness

-----------------------------------------------------------------------------
\* The lock a connection has as others see it: posixUnlock lowers it on its way.
Held(f) == IF pc[f] = "range" THEN Shared ELSE lvl[f]
D == INSTANCE DbLock WITH
        Conns <- Files,
        lock <- [f \in Files |-> Held(f)],
        resv <- {f \in Files : Held(f) > Shared /\ os["reserved"][Proc[f]] = "write"}

\* os_unix.c gives the pager the locks it counts on, whatever threads share a
\* process, whichever descriptors are closed, and wherever fcntl calls interleave,
\* fail or are cut short by a kill.
ImplementsDbLock == D!LockSpec

\* Mutant: the system is asked, which does not tell a process of its own locks.
CheckReservedSystem(f) == ~CanWrite("reserved", Proc[f])
\* unixCheckReservedLock: the process's own level, then the RESERVED byte of others.
CheckReservedLock(f) ==
    \/ ino[Proc[f]].lvl > Shared
    \/ ~CanWrite("reserved", Proc[f])

\* unixCheckReservedLock tells a connection that has a SHARED lock what the pager
\* takes it for.
ReservedAgrees ==
    \A f \in Files : Idle(f) /\ lvl[f] = Shared =>
        (CheckReservedLock(f) <=> D!ReservedSeen(f))

\* A writer that has got as far as PENDING gets EXCLUSIVE, unless it gives up; only
\* the threads of a process that already reads, which do not look at the PENDING byte,
\* can keep it waiting for ever by turns.
OnlyThreadsStarve ==
    \A f \in Files : <>[](lvl[f] = Pending) =>
        \/ []<><<\E g \in Files : LockSharedAgain(g)>>_vars
        \/ <>(errs > 0)
=============================================================================
