-------------------------- MODULE UnixLockProofs --------------------------
(***************************************************************************)
(* The locks of os_unix.c implement DbLock, for any number of connections  *)
(* in any processes and whatever fcntl calls fail.                         *)
(*                                                                         *)
(* The argument keeps the processes apart.  Of one process the invariant   *)
(* says what its unixInodeInfo counts, what its level is the level of,     *)
(* what a call that holds the mutex knows, and which POSIX locks stand     *)
(* behind the level; a step changes one process only.  Between processes   *)
(* there is nothing but the exclusion of POSIX locks.                      *)
(***************************************************************************)
EXTENDS UnixLock, FiniteSetTheorems, TLAPS

Resting == {"closed", "opening", "idle", "leaked"}
Steps == Resting \cup {"shared", "got", "missed", "exclusive", "bytes", "range"}
Inode == [lvl : NoLock..Exclusive, nShared : Nat, nLock : Nat, nRef : Nat, unused : Nat]

FilesOf(p) == {f \in Files : Proc[f] = p}
\* The unixFiles that the process counts a lock of, and those that are open.
Holders(p) == {f \in FilesOf(p) : lvl[f] # NoLock}
Refs(p) == {f \in FilesOf(p) : pc[f] \notin {"closed", "opening", "leaked"}}

TypeOK ==
    /\ pc \in [Files -> Steps]
    /\ lvl \in [Files -> NoLock..Exclusive]
    /\ ino \in [Procs -> Inode]
    /\ os \in [Bytes -> [Procs -> {"none", "read", "write"}]]
    /\ errs \in Nat

\* One call at a time holds the mutex of a process.
OneCall(p) == \A f, g \in FilesOf(p) : pc[f] \notin Resting /\ pc[g] \notin Resting => f = g

\* What a unixInodeInfo counts.  The lock of a unixFile that could not be unlocked
\* when it was closed is counted as long as another one is open.
Counted(p) ==
    /\ ino[p].nShared = Cardinality(Holders(p))
    /\ ino[p].nLock = Cardinality(Holders(p))
    /\ ino[p].nRef = Cardinality(Refs(p))
    /\ \A f \in FilesOf(p) : pc[f] \in {"closed", "opening"} => lvl[f] = NoLock
    /\ \A f \in FilesOf(p) : pc[f] = "leaked" => Refs(p) # {}

\* The level of a process is the highest of its connections', and at most one of
\* them is above SHARED.
Highest(p) ==
    /\ \A f \in FilesOf(p) : Held(f) <= ino[p].lvl
    /\ ino[p].lvl # NoLock => \E f \in FilesOf(p) : Held(f) = ino[p].lvl
    /\ \A f, g \in FilesOf(p) : f # g /\ Held(f) > Shared => Held(g) <= Shared

\* What a call that holds the mutex has done so far.
Midway(p) ==
    \A f \in FilesOf(p) :
        /\ pc[f] \in {"shared", "got", "missed"} =>
              lvl[f] = NoLock /\ ino[p].lvl = NoLock /\ os["pending"][p] = "read"
        /\ pc[f] = "got" => os["shared"][p] # "none"
        /\ pc[f] = "exclusive" =>
              /\ lvl[f] \in {Shared, Reserved} /\ ino[p].lvl = lvl[f]
              /\ os["pending"][p] = "write"
        /\ pc[f] \in {"bytes", "range"} => lvl[f] > Shared

\* The POSIX locks that the level of a process stands for.
Backed(p) ==
    /\ ino[p].lvl >= Shared => os["shared"][p] # "none"
    /\ ino[p].lvl >= Pending => os["pending"][p] = "write"
    /\ os["reserved"][p] # "none" => os["reserved"][p] = "write" /\ ino[p].lvl > Shared

ProcInv(p) == OneCall(p) /\ Counted(p) /\ Highest(p) /\ Midway(p) /\ Backed(p)

\* What the system guarantees.
PosixLocks ==
    \A b \in Bytes, p, q \in Procs : p # q /\ os[b][p] = "write" => os[b][q] = "none"

UnixLockInv == TypeOK /\ PosixLocks /\ \A p \in Procs : ProcInv(p)

-----------------------------------------------------------------------------
\* A step of process p leaves everything of the others alone.
LocalTo(p) ==
    /\ \A q \in Procs \ {p} : ino'[q] = ino[q] /\ \A b \in Bytes : os'[b][q] = os[b][q]
    /\ \A f \in Files : Proc[f] # p => pc'[f] = pc[f] /\ lvl'[f] = lvl[f]

LEMMA FilesOfFinite == ASSUME NEW p PROVE IsFiniteSet(FilesOf(p))
  BY UnixLockAssumption, FS_Subset DEF FilesOf

LEMMA HoldersFinite == ASSUME NEW p PROVE IsFiniteSet(Holders(p)) /\ IsFiniteSet(Refs(p))
  <1>1. Holders(p) \in SUBSET FilesOf(p) /\ Refs(p) \in SUBSET FilesOf(p)
    BY DEF Holders, Refs
  <1> QED BY <1>1, FilesOfFinite, FS_Subset

LEMMA ProcOf == \A f \in Files : Proc[f] \in Procs /\ f \in FilesOf(Proc[f])
  BY DEF Procs, FilesOf

\* What is known of a process stays true when nothing of it changes.
LEMMA Frame ==
    ASSUME NEW q \in Procs, ProcInv(q), ino'[q] = ino[q],
           \A b \in Bytes : os'[b][q] = os[b][q],
           \A f \in FilesOf(q) : pc'[f] = pc[f] /\ lvl'[f] = lvl[f]
    PROVE  ProcInv(q)'
  <1>1. Holders(q)' = Holders(q) /\ Refs(q)' = Refs(q) /\ FilesOf(q)' = FilesOf(q)
    BY DEF Holders, Refs, FilesOf
  <1>2. \A f \in FilesOf(q) : Held(f)' = Held(f)
    BY DEF Held
  <1>3. OneCall(q)'  BY <1>1 DEF ProcInv, OneCall
  <1>4. Counted(q)'  BY <1>1 DEF ProcInv, Counted
  <1>5. Highest(q)'  BY <1>1, <1>2 DEF ProcInv, Highest
  <1>6. Midway(q)'  BY <1>1 DEF ProcInv, Midway, Bytes
  <1>7. Backed(q)'  BY DEF ProcInv, Backed, Bytes
  <1> QED BY <1>3, <1>4, <1>5, <1>6, <1>7 DEF ProcInv

LEMMA LocalStep ==
    ASSUME NEW p \in Procs, UnixLockInv, TypeOK', PosixLocks', LocalTo(p), ProcInv(p)'
    PROVE  UnixLockInv'
  <1>1. ASSUME NEW q \in Procs, q # p PROVE ProcInv(q)'
    <2>1. ProcInv(q)  BY DEF UnixLockInv
    <2>2. \A f \in FilesOf(q) : pc'[f] = pc[f] /\ lvl'[f] = lvl[f]
      BY <1>1 DEF LocalTo, FilesOf
    <2> QED BY <1>1, <2>1, <2>2, Frame DEF LocalTo
  <1>2. Procs' = Procs  BY DEF Procs
  <1> QED BY <1>1, <1>2 DEF UnixLockInv

LEMMA StutterInv == ASSUME UnixLockInv, UNCHANGED vars PROVE UnixLockInv'
  <1>1. ASSUME NEW q \in Procs PROVE ProcInv(q)'
    BY <1>1, Frame DEF UnixLockInv, vars
  <1>2. TypeOK' /\ PosixLocks' /\ Procs' = Procs
    BY DEF UnixLockInv, TypeOK, PosixLocks, Procs, vars
  <1> QED BY <1>1, <1>2 DEF UnixLockInv

-----------------------------------------------------------------------------
(* The system's calls keep its promise.                                    *)

LEMMA DropAllPosix ==
    ASSUME NEW p \in Procs, TypeOK, PosixLocks, os' = DropAll(p)
    PROVE  /\ os' \in [Bytes -> [Procs -> {"none", "read", "write"}]]
           /\ PosixLocks'
           /\ \A b \in Bytes : os'[b][p] = "none"
           /\ \A b \in Bytes, q \in Procs : q # p => os'[b][q] = os[b][q]
  BY DEF TypeOK, PosixLocks, DropAll, Bytes, Procs

LEMMA ReadPosix ==
    ASSUME NEW p \in Procs, NEW b \in Bytes, TypeOK, PosixLocks, CanRead(b, p),
           os' = [os EXCEPT ![b][p] = "read"]
    PROVE  /\ os' \in [Bytes -> [Procs -> {"none", "read", "write"}]]
           /\ PosixLocks'
           /\ os'[b][p] = "read"
           /\ \A d \in Bytes : d # b => os'[d] = os[d]
           /\ \A d \in Bytes, q \in Procs : q # p => os'[d][q] = os[d][q]
  BY DEF TypeOK, PosixLocks, CanRead, Procs

LEMMA WritePosix ==
    ASSUME NEW p \in Procs, NEW b \in Bytes, TypeOK, PosixLocks, CanWrite(b, p),
           os' = [os EXCEPT ![b][p] = "write"]
    PROVE  /\ os' \in [Bytes -> [Procs -> {"none", "read", "write"}]]
           /\ PosixLocks'
           /\ os'[b][p] = "write"
           /\ \A d \in Bytes : d # b => os'[d] = os[d]
           /\ \A d \in Bytes, q \in Procs : q # p => os'[d][q] = os[d][q]
  <1>1. /\ os' \in [Bytes -> [Procs -> {"none", "read", "write"}]]
        /\ os'[b][p] = "write"
        /\ \A d \in Bytes : d # b => os'[d] = os[d]
        /\ \A d \in Bytes, q \in Procs : q # p => os'[d][q] = os[d][q]
    BY DEF TypeOK
  <1>2. \A q \in Procs : q # p => os'[b][q] = "none"
    BY <1>1 DEF CanWrite
  <1>3. PosixLocks'
    BY <1>1, <1>2 DEF PosixLocks, Procs
  <1> QED BY <1>1, <1>3

LEMMA ReleasePosix ==
    ASSUME NEW p \in Procs, TypeOK, PosixLocks,
           os' = [os EXCEPT !["pending"][p] = "none", !["reserved"][p] = "none"]
    PROVE  /\ os' \in [Bytes -> [Procs -> {"none", "read", "write"}]]
           /\ PosixLocks'
           /\ os'["pending"][p] = "none" /\ os'["reserved"][p] = "none"
           /\ os'["shared"] = os["shared"]
           /\ \A d \in Bytes, q \in Procs : q # p => os'[d][q] = os[d][q]
  <1>1. /\ os' \in [Bytes -> [Procs -> {"none", "read", "write"}]]
        /\ os'["pending"][p] = "none" /\ os'["reserved"][p] = "none"
        /\ os'["shared"] = os["shared"]
        /\ \A d \in Bytes, q \in Procs : q # p => os'[d][q] = os[d][q]
    BY DEF TypeOK, Bytes
  <1>2. \A d \in Bytes : os'[d][p] \in {os[d][p], "none"}
    BY <1>1 DEF Bytes
  <1>3. PosixLocks'
    BY <1>1, <1>2 DEF PosixLocks, Procs
  <1> QED BY <1>1, <1>3

-----------------------------------------------------------------------------
(* What the steps have in common.                                          *)

Opened == Steps \ {"closed", "opening", "leaked"}

\* Who goes on holds the mutex, or takes it while it is free.
LEMMA OneCallStep ==
    ASSUME NEW f \in Files, NEW l, TypeOK, OneCall(Proc[f]), Goto(f, l),
           MutexFree(Proc[f]) \/ pc[f] \notin Resting \/ l \in Resting
    PROVE  OneCall(Proc[f])'
  <1>1. \A g \in Files : pc'[g] = IF g = f THEN l ELSE pc[g]
    BY DEF TypeOK, Goto
  <1>2. CASE l \in Resting
    BY <1>1, <1>2 DEF OneCall, FilesOf
  <1>3. CASE pc[f] \notin Resting
    BY <1>1, <1>3 DEF OneCall, FilesOf
  <1>4. CASE MutexFree(Proc[f])
    BY <1>1, <1>4 DEF OneCall, FilesOf, MutexFree, Resting
  <1> QED BY <1>2, <1>3, <1>4

\* A step that moves one unixFile on, and neither opens, closes, locks nor unlocks.
LEMMA SameCounts ==
    ASSUME NEW f \in Files, NEW l \in Opened, TypeOK, Counted(Proc[f]), Goto(f, l),
           pc[f] \in Opened, \A g \in Files : lvl'[g] = NoLock <=> lvl[g] = NoLock,
           ino'[Proc[f]].nShared = ino[Proc[f]].nShared,
           ino'[Proc[f]].nLock = ino[Proc[f]].nLock,
           ino'[Proc[f]].nRef = ino[Proc[f]].nRef
    PROVE  Counted(Proc[f])'
  <1>1. \A g \in Files : pc'[g] = IF g = f THEN l ELSE pc[g]
    BY DEF TypeOK, Goto
  <1>2. Holders(Proc[f])' = Holders(Proc[f])
    BY DEF Holders, FilesOf
  <1>3. Refs(Proc[f])' = Refs(Proc[f])
    BY <1>1 DEF Refs, FilesOf, Opened
  <1> QED BY <1>1, <1>2, <1>3 DEF Counted, FilesOf, Opened

LEMMA SameLevels ==
    ASSUME NEW p \in Procs, Highest(p), ino'[p].lvl = ino[p].lvl,
           \A g \in FilesOf(p) : Held(g)' = Held(g)
    PROVE  Highest(p)'
  <1>1. FilesOf(p)' = FilesOf(p)
    BY DEF FilesOf
  <1> QED BY <1>1 DEF Highest

-----------------------------------------------------------------------------
(* unixOpen.                                                               *)

LEMMA OpenInv == ASSUME UnixLockInv, NEW f \in Files, Open(f) PROVE UnixLockInv'
  <1> DEFINE p == Proc[f]
  <1>1. p \in Procs /\ f \in FilesOf(p) /\ ProcInv(p) /\ TypeOK /\ PosixLocks
    BY ProcOf DEF UnixLockInv
  <1>2. /\ \A g \in Files : pc'[g] = IF g = f THEN "opening" ELSE pc[g]
        /\ \A q \in Procs \ {p} : ino'[q] = ino[q]
        /\ \A x \in {"lvl", "nShared", "nLock", "nRef"} : ino'[p][x] = ino[p][x]
        /\ UNCHANGED <<lvl, os, errs>> /\ pc[f] = "closed"
    BY <1>1 DEF Open, Goto, TypeOK, Inode
  <1>3. TypeOK'
    BY <1>1 DEF Open, Goto, TypeOK, Inode, Steps, Resting
  <1>4. PosixLocks' /\ LocalTo(p)
    BY <1>1, <1>2 DEF PosixLocks, LocalTo
  <1>5. OneCall(p)'
    BY <1>1, OneCallStep DEF Open, ProcInv, Resting
  <1>6. Counted(p)'
    <2>1. Holders(p)' = Holders(p) /\ Refs(p)' = Refs(p)
      BY <1>2 DEF Holders, Refs, FilesOf
    <2> QED BY <1>1, <1>2, <2>1 DEF ProcInv, Counted, FilesOf
  <1>7. Highest(p)'
    BY <1>1, <1>2, SameLevels DEF ProcInv, Held, FilesOf
  <1>8. Midway(p)' /\ Backed(p)'
    BY <1>1, <1>2 DEF ProcInv, Midway, Backed, FilesOf
  <1> QED BY <1>1, <1>3, <1>4, <1>5, <1>6, <1>7, <1>8, LocalStep DEF ProcInv

LEMMA OpenInodeInv == ASSUME UnixLockInv, NEW f \in Files, OpenInode(f) PROVE UnixLockInv'
  <1> DEFINE p == Proc[f]
  <1>1. p \in Procs /\ f \in FilesOf(p) /\ ProcInv(p) /\ TypeOK /\ PosixLocks
    BY ProcOf DEF UnixLockInv
  <1>2. /\ \A g \in Files : pc'[g] = IF g = f THEN "idle" ELSE pc[g]
        /\ \A q \in Procs \ {p} : ino'[q] = ino[q]
        /\ \A x \in {"lvl", "nShared", "nLock"} : ino'[p][x] = ino[p][x]
        /\ ino'[p].nRef = ino[p].nRef + 1
        /\ UNCHANGED <<lvl, os, errs>> /\ pc[f] = "opening"
    BY <1>1 DEF OpenInode, Goto, TypeOK, Inode
  <1>3. TypeOK'
    <2>1. ino[p] \in Inode  BY <1>1 DEF TypeOK
    <2>2. [ino[p] EXCEPT !.nRef = @ + 1] \in Inode  BY <2>1 DEF Inode
    <2>3. ino' \in [Procs -> Inode]  BY <1>1, <2>2 DEF OpenInode, TypeOK
    <2> QED BY <1>1, <2>3 DEF OpenInode, Goto, TypeOK, Steps, Resting
  <1>4. PosixLocks' /\ LocalTo(p)
    BY <1>1, <1>2 DEF PosixLocks, LocalTo
  <1>5. OneCall(p)'
    BY <1>1, OneCallStep DEF OpenInode, ProcInv, Resting
  <1>6. Counted(p)'
    <2>1. Holders(p)' = Holders(p) /\ Refs(p)' = Refs(p) \cup {f} /\ f \notin Refs(p)
      BY <1>1, <1>2 DEF Holders, Refs, FilesOf
    <2>2. Cardinality(Refs(p)') = Cardinality(Refs(p)) + 1
      BY <2>1, HoldersFinite, FS_AddElement
    <2> QED BY <1>1, <1>2, <2>1, <2>2 DEF ProcInv, Counted, FilesOf
  <1>7. Highest(p)'
    BY <1>1, <1>2, SameLevels DEF ProcInv, Held, FilesOf
  <1>8. Midway(p)' /\ Backed(p)'
    BY <1>1, <1>2 DEF ProcInv, Midway, Backed, FilesOf
  <1> QED BY <1>1, <1>3, <1>4, <1>5, <1>6, <1>7, <1>8, LocalStep DEF ProcInv

\* Without a unixFile the process counts no lock, so that it loses none.
LEMMA NoRefsNoLocks == ASSUME NEW p \in Procs, TypeOK, ProcInv(p), ino[p].nRef = 0
    PROVE  /\ \A g \in FilesOf(p) : pc[g] \in {"closed", "opening"} /\ lvl[g] = NoLock
           /\ ino[p].lvl = NoLock
  <1>1. Refs(p) = {}
    BY HoldersFinite, FS_EmptySet DEF ProcInv, Counted
  <1>2. \A g \in FilesOf(p) : pc[g] \in {"closed", "opening"} /\ lvl[g] = NoLock
    BY <1>1 DEF ProcInv, Counted, Refs
  <1>3. ino[p].lvl = NoLock
    BY <1>2 DEF ProcInv, Highest, Held
  <1> QED BY <1>2, <1>3

LEMMA OpenFailsInv == ASSUME UnixLockInv, NEW f \in Files, OpenFails(f) PROVE UnixLockInv'
  <1> DEFINE p == Proc[f]
  <1>1. p \in Procs /\ f \in FilesOf(p) /\ ProcInv(p) /\ TypeOK /\ PosixLocks
    BY ProcOf DEF UnixLockInv
  <1>2. /\ \A g \in Files : pc'[g] = IF g = f THEN "closed" ELSE pc[g]
        /\ UNCHANGED <<lvl, ino, errs>> /\ pc[f] = "opening" /\ os' = DropAll(p)
    BY <1>1 DEF OpenFails, Goto, TypeOK
  <1>3. /\ \A g \in FilesOf(p) : pc[g] \in {"closed", "opening"} /\ lvl[g] = NoLock
        /\ ino[p].lvl = NoLock
    BY <1>1, NoRefsNoLocks DEF OpenFails
  <1>4. PosixLocks' /\ LocalTo(p) /\ \A b \in Bytes : os'[b][p] = "none"
    BY <1>1, <1>2, DropAllPosix DEF LocalTo
  <1>5. TypeOK'
    BY <1>1, <1>2, DropAllPosix DEF OpenFails, Goto, TypeOK, Steps, Resting
  <1>6. OneCall(p)'
    BY <1>1, OneCallStep DEF OpenFails, ProcInv, Resting
  <1>7. Counted(p)'
    <2>1. Holders(p)' = Holders(p) /\ Refs(p)' = Refs(p)
      BY <1>2 DEF Holders, Refs, FilesOf
    <2> QED BY <1>1, <1>2, <1>3, <2>1 DEF ProcInv, Counted, FilesOf
  <1>8. Highest(p)'
    BY <1>1, <1>2, SameLevels DEF ProcInv, Held, FilesOf
  <1>9. Midway(p)' /\ Backed(p)'
    BY <1>1, <1>2, <1>3, <1>4 DEF ProcInv, Midway, Backed, FilesOf, Bytes, NoLock, Shared, Pending
  <1> QED BY <1>1, <1>4, <1>5, <1>6, <1>7, <1>8, <1>9, LocalStep DEF ProcInv

-----------------------------------------------------------------------------
(* unixLock.                                                               *)

LEMMA InodeField ==
    ASSUME NEW r \in Inode, NEW l \in NoLock..Exclusive, NEW n \in Nat
    PROVE  /\ [r EXCEPT !.lvl = l] \in Inode /\ [r EXCEPT !.nShared = n] \in Inode
           /\ [r EXCEPT !.nLock = n] \in Inode /\ [r EXCEPT !.unused = n] \in Inode
           /\ [r EXCEPT !.nRef = n] \in Inode
  BY DEF Inode

LEMMA InodeSet ==
    ASSUME NEW r \in Inode
    PROVE  /\ [r EXCEPT !.nShared = @ + 1, !.nLock = @ + 1] \in Inode
           /\ [r EXCEPT !.lvl = Shared, !.nShared = 1, !.nLock = @ + 1] \in Inode
  <1>1. r.nShared + 1 \in Nat /\ r.nLock + 1 \in Nat /\ 1 \in Nat /\ Shared \in NoLock..Exclusive
    BY DEF Inode, NoLock, Shared, Exclusive
  <1>2. [r EXCEPT !.nShared = @ + 1, !.nLock = @ + 1] \in Inode
    BY <1>1, InodeField
  <1>3. [r EXCEPT !.lvl = Shared, !.nShared = 1] \in Inode
    BY <1>1, InodeField
  <1>4. [r EXCEPT !.lvl = Shared, !.nShared = 1, !.nLock = @ + 1] \in Inode
    BY <1>1, <1>3, InodeField
  <1> QED BY <1>2, <1>4

LEMMA LockSharedAgainInv ==
    ASSUME UnixLockInv, NEW f \in Files, LockSharedAgain(f) PROVE UnixLockInv'
  <1> DEFINE p == Proc[f]
  <1>1. p \in Procs /\ f \in FilesOf(p) /\ ProcInv(p) /\ TypeOK /\ PosixLocks
    BY ProcOf DEF UnixLockInv
  <1>2. /\ \A g \in Files : lvl'[g] = IF g = f THEN Shared ELSE lvl[g]
        /\ \A q \in Procs \ {p} : ino'[q] = ino[q]
        /\ ino'[p].lvl = ino[p].lvl /\ ino'[p].nRef = ino[p].nRef
        /\ ino'[p].nShared = ino[p].nShared + 1 /\ ino'[p].nLock = ino[p].nLock + 1
        /\ UNCHANGED <<pc, os, errs>> /\ pc[f] = "idle" /\ lvl[f] = NoLock
        /\ ino[p].lvl \in {Shared, Reserved}
    BY <1>1 DEF LockSharedAgain, Level, Idle, TypeOK, Inode
  <1>3. TypeOK'
    <2>1. ino' \in [Procs -> Inode]
      BY <1>1, InodeSet DEF LockSharedAgain, TypeOK
    <2> QED BY <1>1, <1>2, <2>1, SMTT(60) DEF LockSharedAgain, Level, TypeOK, NoLock, Shared, Exclusive
  <1>4. PosixLocks' /\ LocalTo(p)
    BY <1>1, <1>2 DEF PosixLocks, LocalTo
  <1>5. OneCall(p)'
    BY <1>1, <1>2 DEF ProcInv, OneCall, FilesOf
  <1>6. Counted(p)'
    <2>1. Refs(p)' = Refs(p) /\ Holders(p)' = Holders(p) \cup {f} /\ f \notin Holders(p)
      BY <1>1, <1>2 DEF Holders, Refs, FilesOf, NoLock, Shared
    <2>2. Cardinality(Holders(p)') = Cardinality(Holders(p)) + 1
      BY <2>1, HoldersFinite, FS_AddElement
    <2> QED BY <1>1, <1>2, <2>1, <2>2 DEF ProcInv, Counted, FilesOf
  <1>7. Highest(p)'
    <2>1. \A g \in FilesOf(p) : Held(g)' = IF g = f THEN Shared ELSE Held(g)
      BY <1>2 DEF Held, FilesOf
    <2>2. Held(f) = NoLock
      BY <1>2 DEF Held
    <2> QED BY <1>1, <1>2, <2>1, <2>2 DEF ProcInv, Highest, FilesOf, NoLock, Shared, Reserved
  <1>8. Midway(p)' /\ Backed(p)'
    BY <1>1, <1>2 DEF ProcInv, Midway, Backed, FilesOf
  <1> QED BY <1>1, <1>3, <1>4, <1>5, <1>6, <1>7, <1>8, LocalStep DEF ProcInv

LEMMA LockSharedInv == ASSUME UnixLockInv, NEW f \in Files, LockShared(f) PROVE UnixLockInv'
  <1> DEFINE p == Proc[f]
  <1>1. p \in Procs /\ f \in FilesOf(p) /\ ProcInv(p) /\ TypeOK /\ PosixLocks
    BY ProcOf DEF UnixLockInv
  <1>2. /\ \A g \in Files : pc'[g] = IF g = f THEN "shared" ELSE pc[g]
        /\ UNCHANGED <<lvl, ino, errs>> /\ pc[f] = "idle" /\ lvl[f] = NoLock
        /\ ino[p].lvl = NoLock /\ MutexFree(p)
    BY <1>1 DEF LockShared, Goto, Idle, TypeOK
  <1>3. /\ os' \in [Bytes -> [Procs -> {"none", "read", "write"}]]
        /\ PosixLocks' /\ LocalTo(p)
        /\ os'["pending"][p] = "read" /\ os'["shared"] = os["shared"] /\ os'["reserved"] = os["reserved"]
    <2>1. "pending" \in Bytes /\ "shared" \in Bytes /\ "reserved" \in Bytes  BY DEF Bytes
    <2>2. /\ os' \in [Bytes -> [Procs -> {"none", "read", "write"}]]
          /\ PosixLocks' /\ os'["pending"][p] = "read"
          /\ \A d \in Bytes : d # "pending" => os'[d] = os[d]
          /\ \A d \in Bytes, q \in Procs : q # p => os'[d][q] = os[d][q]
      BY <1>1, <2>1, ReadPosix DEF LockShared
    <2> QED BY <1>1, <1>2, <2>1, <2>2 DEF LocalTo
  <1>4. TypeOK'
    BY <1>1, <1>3 DEF LockShared, Goto, TypeOK, Steps
  <1>5. OneCall(p)'
    BY <1>1, <1>2, OneCallStep DEF LockShared, ProcInv
  <1>6. Counted(p)'
    BY <1>1, <1>2, SameCounts DEF LockShared, ProcInv, Opened, Steps, Resting
  <1>7. Highest(p)'
    BY <1>1, <1>2, SameLevels DEF ProcInv, Held, FilesOf
  <1>8. Midway(p)'
    <2>1. \A g \in FilesOf(p) : g # f => pc'[g] \in Resting
      BY <1>2 DEF FilesOf, MutexFree, Resting
    <2> QED BY <1>2, <1>3, <2>1 DEF Midway, Resting, FilesOf
  <1>9. Backed(p)'
    BY <1>1, <1>2, <1>3 DEF ProcInv, Backed, NoLock, Shared, Pending
  <1> QED BY <1>1, <1>3, <1>4, <1>5, <1>6, <1>7, <1>8, <1>9, LocalStep DEF ProcInv

\* The one call that holds the mutex of a process.
LEMMA OthersRest == ASSUME NEW f \in Files, OneCall(Proc[f]), pc[f] \notin Resting
    PROVE  \A g \in FilesOf(Proc[f]) : g # f => pc[g] \in Resting
  BY ProcOf DEF OneCall

LEMMA SharedRangeInv == ASSUME UnixLockInv, NEW f \in Files, SharedRange(f) PROVE UnixLockInv'
  <1> DEFINE p == Proc[f]
  <1>1. p \in Procs /\ f \in FilesOf(p) /\ ProcInv(p) /\ TypeOK /\ PosixLocks
    BY ProcOf DEF UnixLockInv
  <1>2. /\ UNCHANGED <<lvl, ino, errs>> /\ pc[f] = "shared"
        /\ \A g \in FilesOf(p) : g # f => pc[g] \in Resting
    BY <1>1, OthersRest DEF SharedRange, ProcInv, Resting
  <1>3. PICK l \in {"got", "missed"} : Goto(f, l) /\ (l = "got" => os'["shared"][p] # "none")
    BY <1>1, ReadPosix DEF SharedRange, Bytes
  <1>4. \A g \in Files : pc'[g] = IF g = f THEN l ELSE pc[g]
    BY <1>1, <1>3 DEF Goto, TypeOK
  <1>5. /\ os' \in [Bytes -> [Procs -> {"none", "read", "write"}]]
        /\ PosixLocks' /\ LocalTo(p)
        /\ os'["pending"] = os["pending"] /\ os'["reserved"] = os["reserved"]
    <2>1. CASE UNCHANGED os
      BY <1>1, <1>2, <1>4, <2>1 DEF LocalTo, TypeOK, PosixLocks
    <2>2. CASE CanRead("shared", p) /\ os' = [os EXCEPT !["shared"][p] = "read"]
      <3>1. "pending" \in Bytes /\ "shared" \in Bytes /\ "reserved" \in Bytes  BY DEF Bytes
      <3>2. /\ os' \in [Bytes -> [Procs -> {"none", "read", "write"}]]
            /\ PosixLocks'
            /\ \A d \in Bytes : d # "shared" => os'[d] = os[d]
            /\ \A d \in Bytes, q \in Procs : q # p => os'[d][q] = os[d][q]
        BY <1>1, <2>2, <3>1, ReadPosix
      <3> QED BY <1>1, <1>2, <1>4, <3>1, <3>2 DEF LocalTo, FilesOf
    <2> QED BY <2>1, <2>2 DEF SharedRange
  <1>6. TypeOK'
    BY <1>1, <1>2, <1>3, <1>5 DEF Goto, TypeOK, Steps
  <1>7. OneCall(p)'
    BY <1>1, <1>2, <1>3, OneCallStep DEF ProcInv, Resting
  <1>8. Counted(p)'
    BY <1>1, <1>2, <1>3, SameCounts DEF ProcInv, Opened, Steps, Resting
  <1>9. Highest(p)'
    BY <1>1, <1>2, <1>3, <1>4, SameLevels DEF ProcInv, Held, FilesOf
  <1>10. Midway(p)'
    BY <1>1, <1>2, <1>3, <1>4, <1>5 DEF ProcInv, Midway, Resting, FilesOf
  <1>11. Backed(p)'
    BY <1>1, <1>2, <1>5 DEF ProcInv, Midway, Backed, NoLock, Shared, Pending, FilesOf
  <1> QED BY <1>1, <1>5, <1>6, <1>7, <1>8, <1>9, <1>10, <1>11, LocalStep DEF ProcInv

\* A connection's new level is that of its process when the others have at most SHARED.
LEMMA NewLevel ==
    ASSUME NEW f \in Files, NEW l \in Shared..Exclusive, TypeOK,
           Held(f)' = l, ino'[Proc[f]].lvl = l,
           \A g \in FilesOf(Proc[f]) : g # f => Held(g)' = Held(g) /\ Held(g) <= Shared
    PROVE  Highest(Proc[f])'
  <1>1. FilesOf(Proc[f])' = FilesOf(Proc[f])
    BY DEF FilesOf
  <1>2. \A g \in Files : Held(g) \in NoLock..Exclusive
    BY DEF TypeOK, Held, NoLock, Shared, Exclusive
  <1> QED BY <1>1, <1>2, ProcOf DEF Highest, FilesOf, NoLock, Shared, Exclusive

\* Who has the level of its process, or is above SHARED, has no equal above SHARED.
LEMMA OthersShared ==
    ASSUME NEW f \in Files, TypeOK, Highest(Proc[f]),
           Held(f) > Shared \/ ino[Proc[f]].lvl <= Shared
    PROVE  \A g \in FilesOf(Proc[f]) : g # f => Held(g) <= Shared
  <1>1. \A g \in Files : Held(g) \in NoLock..Exclusive
    BY DEF TypeOK, Held, NoLock, Shared, Exclusive
  <1>2. ino[Proc[f]].lvl \in NoLock..Exclusive
    BY ProcOf DEF TypeOK, Inode
  <1> QED BY <1>1, <1>2, ProcOf DEF Highest, FilesOf, NoLock, Shared, Exclusive

LEMMA TopLevel ==
    ASSUME NEW f \in Files, TypeOK, Highest(Proc[f]), Held(f) > Shared
    PROVE  ino[Proc[f]].lvl = Held(f)
  <1>1. \A g \in Files : Held(g) \in NoLock..Exclusive
    BY DEF TypeOK, Held, NoLock, Shared, Exclusive
  <1>2. ino[Proc[f]].lvl \in NoLock..Exclusive
    BY ProcOf DEF TypeOK, Inode
  <1>3. Held(f) <= ino[Proc[f]].lvl
    BY ProcOf DEF Highest
  <1>4. PICK g \in FilesOf(Proc[f]) : Held(g) = ino[Proc[f]].lvl
    BY <1>1, <1>2, <1>3 DEF Highest, NoLock, Shared
  <1> QED BY <1>1, <1>2, <1>3, <1>4, ProcOf DEF Highest, FilesOf, NoLock, Shared, Exclusive

LEMMA DropPendingInv == ASSUME UnixLockInv, NEW f \in Files, DropPending(f) PROVE UnixLockInv'
  <1> DEFINE p == Proc[f]
  <1>1. p \in Procs /\ f \in FilesOf(p) /\ ProcInv(p) /\ TypeOK /\ PosixLocks
    BY ProcOf DEF UnixLockInv
  <1>2. /\ pc[f] \in {"got", "missed"} /\ \A g \in FilesOf(p) : g # f => pc[g] \in Resting
        /\ lvl[f] = NoLock /\ ino[p].lvl = NoLock
        /\ pc[f] = "got" => os["shared"][p] # "none"
    BY <1>1, OthersRest DEF DropPending, ProcInv, Midway, Resting
  <1>3. \A g \in Files : pc'[g] = IF g = f THEN "idle" ELSE pc[g]
    BY <1>1 DEF DropPending, Goto, TypeOK
  <1>4. \A g \in FilesOf(p) : pc'[g] \in Resting
    BY <1>2, <1>3 DEF FilesOf, Resting
  <1>5. OneCall(p)' /\ Midway(p)'
    BY <1>4 DEF OneCall, Midway, FilesOf, Resting
  <1>6. \A g \in FilesOf(p) : lvl[g] = NoLock
    <2>1. \A g \in FilesOf(p) : Held(g) \in NoLock..Exclusive /\ Held(g) <= NoLock
      BY <1>1, <1>2 DEF ProcInv, Highest, Held, TypeOK, FilesOf, NoLock, Shared, Exclusive
    <2> QED BY <1>2, <2>1 DEF Held, FilesOf, NoLock, Shared, Exclusive, Resting
  <1>7. CASE Fails /\ UNCHANGED <<lvl, ino, os>>
    <2>1. TypeOK'
      BY <1>1, <1>7 DEF DropPending, Goto, TypeOK, Steps, Resting, Fails
    <2>2. PosixLocks' /\ LocalTo(p)
      BY <1>1, <1>3, <1>7 DEF PosixLocks, LocalTo
    <2>3. Counted(p)'
      BY <1>1, <1>2, <1>7, SameCounts DEF DropPending, ProcInv, Opened, Steps, Resting
    <2>4. Highest(p)'
      BY <1>1, <1>2, <1>3, <1>7, SameLevels DEF ProcInv, Held, FilesOf
    <2>5. Backed(p)'
      BY <1>1, <1>7 DEF ProcInv, Backed
    <2> QED BY <1>1, <1>5, <2>1, <2>2, <2>3, <2>4, <2>5, LocalStep DEF ProcInv
  <1>8. ASSUME os' = [os EXCEPT !["pending"][p] = "none"]
        PROVE  /\ os' \in [Bytes -> [Procs -> {"none", "read", "write"}]] /\ PosixLocks'
               /\ os'["pending"][p] = "none"
               /\ os'["shared"] = os["shared"] /\ os'["reserved"] = os["reserved"]
               /\ \A d \in Bytes, q \in Procs : q # p => os'[d][q] = os[d][q]
    <2>1. /\ os' \in [Bytes -> [Procs -> {"none", "read", "write"}]]
          /\ os'["pending"][p] = "none"
          /\ os'["shared"] = os["shared"] /\ os'["reserved"] = os["reserved"]
          /\ \A d \in Bytes, q \in Procs : q # p => os'[d][q] = os[d][q]
      BY <1>1, <1>8 DEF TypeOK, Bytes
    <2>2. \A d \in Bytes : os'[d][p] \in {os[d][p], "none"}
      BY <2>1 DEF Bytes
    <2>3. PosixLocks'
      BY <1>1, <2>1, <2>2 DEF PosixLocks, Procs
    <2> QED BY <2>1, <2>3
  <1>9. CASE /\ os' = [os EXCEPT !["pending"][p] = "none"] /\ UNCHANGED errs
             /\ UNCHANGED <<lvl, ino>>
    <2>1. TypeOK'
      BY <1>1, <1>8, <1>9 DEF DropPending, Goto, TypeOK, Steps, Resting
    <2>2. PosixLocks' /\ LocalTo(p)
      BY <1>1, <1>3, <1>8, <1>9 DEF LocalTo
    <2>3. Counted(p)'
      BY <1>1, <1>2, <1>9, SameCounts DEF DropPending, ProcInv, Opened, Steps, Resting
    <2>4. Highest(p)'
      BY <1>1, <1>2, <1>3, <1>9, SameLevels DEF ProcInv, Held, FilesOf
    <2>5. Backed(p)'
      BY <1>1, <1>2, <1>8, <1>9 DEF ProcInv, Backed, NoLock, Shared, Pending
    <2> QED BY <1>1, <1>5, <2>1, <2>2, <2>3, <2>4, <2>5, LocalStep DEF ProcInv
  <1>10. CASE /\ os' = [os EXCEPT !["pending"][p] = "none"] /\ UNCHANGED errs
              /\ pc[f] = "got" /\ Level(f, Shared)
              /\ ino' = [ino EXCEPT ![p].lvl = Shared, ![p].nShared = 1, ![p].nLock = @ + 1]
    <2>1. /\ \A g \in Files : lvl'[g] = IF g = f THEN Shared ELSE lvl[g]
          /\ \A q \in Procs \ {p} : ino'[q] = ino[q]
          /\ ino'[p].lvl = Shared /\ ino'[p].nRef = ino[p].nRef
          /\ ino'[p].nShared = 1 /\ ino'[p].nLock = ino[p].nLock + 1
      BY <1>1, <1>10 DEF Level, TypeOK, Inode
    <2>2. TypeOK'
      <3>1. ino' \in [Procs -> Inode]
        BY <1>1, <1>10, InodeSet DEF TypeOK
      <3> QED BY <1>1, <1>8, <1>10, <3>1
            DEF DropPending, Goto, Level, TypeOK, Steps, Resting, NoLock, Shared, Exclusive
    <2>3. PosixLocks' /\ LocalTo(p)
      BY <1>1, <1>3, <1>8, <1>10, <2>1, ZenonT(60) DEF LocalTo
    <2>4. Counted(p)'
      <3>1. Refs(p)' = Refs(p)
        BY <1>2, <1>3 DEF Refs, FilesOf
      <3>2. Holders(p) = {} /\ Holders(p)' = {f}
        BY <1>1, <1>6, <2>1 DEF Holders, FilesOf, NoLock, Shared
      <3>3. Cardinality(Holders(p)) = 0 /\ Cardinality(Holders(p)') = 1
        BY <3>2, FS_EmptySet, FS_Singleton
      <3> QED BY <1>1, <1>3, <2>1, <3>1, <3>3 DEF ProcInv, Counted, FilesOf
    <2>5. Highest(p)'
      <3>1. Held(f)' = Shared
        BY <1>3, <2>1 DEF Held
      <3>2. \A g \in FilesOf(p) : g # f => Held(g)' = Held(g) /\ Held(g) <= Shared
        BY <1>2, <1>3, <1>6, <2>1 DEF Held, FilesOf, NoLock, Shared, Resting
      <3> QED BY <1>1, <2>1, <3>1, <3>2, NewLevel DEF Shared, Exclusive
    <2>6. Backed(p)'
      BY <1>1, <1>2, <1>8, <1>10, <2>1, SMTT(60) DEF ProcInv, Backed, NoLock, Shared, Pending
    <2> QED BY <1>1, <1>5, <2>2, <2>3, <2>4, <2>5, <2>6, LocalStep DEF ProcInv
  <1> QED BY <1>7, <1>9, <1>10 DEF DropPending

\* What a step does to the POSIX locks of one process.
PosixStep(p) ==
    /\ os' \in [Bytes -> [Procs -> {"none", "read", "write"}]]
    /\ PosixLocks'
    /\ \A d \in Bytes, q \in Procs : q # p => os'[d][q] = os[d][q]

\* Taking byte b for writing, and giving its write lock back for a read lock, are such steps.
LEMMA WriteStep ==
    ASSUME NEW p \in Procs, NEW b \in Bytes, TypeOK, PosixLocks, CanWrite(b, p),
           os' = [os EXCEPT ![b][p] = "write"]
    PROVE  PosixStep(p) /\ os'[b][p] = "write" /\ \A d \in Bytes : d # b => os'[d] = os[d]
  BY WritePosix, Zenon DEF PosixStep

LEMMA ReadStep ==
    ASSUME NEW p \in Procs, NEW b \in Bytes, TypeOK, PosixLocks, CanRead(b, p),
           os' = [os EXCEPT ![b][p] = "read"]
    PROVE  PosixStep(p) /\ os'[b][p] = "read" /\ \A d \in Bytes : d # b => os'[d] = os[d]
  BY ReadPosix, Zenon DEF PosixStep

\* A call goes on, or begins or ends, without a change to what is counted.
LEMMA MoveStep ==
    ASSUME UnixLockInv, NEW f \in Files, NEW l \in Opened \ {"range"},
           pc[f] \in Opened \ {"range"}, Goto(f, l), UNCHANGED <<lvl, ino>>, errs' \in Nat,
           MutexFree(Proc[f]) \/ pc[f] \notin Resting,
           PosixStep(Proc[f]), Midway(Proc[f])', Backed(Proc[f])'
    PROVE  UnixLockInv'
  <1> DEFINE p == Proc[f]
  <1>1. p \in Procs /\ f \in FilesOf(p) /\ ProcInv(p) /\ TypeOK
    BY ProcOf DEF UnixLockInv
  <1>2. \A g \in Files : pc'[g] = IF g = f THEN l ELSE pc[g]
    BY <1>1 DEF Goto, TypeOK
  <1>3. TypeOK'
    BY <1>1 DEF TypeOK, Goto, PosixStep, Opened
  <1>4. PosixLocks' /\ LocalTo(p)
    BY <1>1, <1>2 DEF LocalTo, PosixStep
  <1>5. OneCall(p)'
    BY <1>1, OneCallStep DEF ProcInv
  <1>6. Counted(p)'
    BY <1>1, SameCounts DEF ProcInv
  <1>7. Highest(p)'
    BY <1>1, <1>2, SameLevels DEF ProcInv, Held, FilesOf
  <1> QED BY <1>1, <1>3, <1>4, <1>5, <1>6, <1>7, LocalStep DEF ProcInv

\* A connection that has a lock gets another, and with it its process.
LEMMA LevelStep ==
    ASSUME UnixLockInv, NEW f \in Files, NEW k \in {"idle", "range"},
           NEW l \in Shared..Exclusive, NEW m \in Shared..Exclusive,
           pc[f] \in Opened, Goto(f, k), MutexFree(Proc[f]) \/ pc[f] \notin Resting,
           lvl[f] # NoLock, Level(f, m), k = "range" => m > Shared,
           ino' = [ino EXCEPT ![Proc[f]].lvl = l], Held(f)' = l, errs' \in Nat,
           \A g \in FilesOf(Proc[f]) : g # f => Held(g) <= Shared,
           PosixStep(Proc[f]), Backed(Proc[f])'
    PROVE  UnixLockInv'
  <1> DEFINE p == Proc[f]
  <1>1. p \in Procs /\ f \in FilesOf(p) /\ ProcInv(p) /\ TypeOK /\ PosixLocks
    BY ProcOf DEF UnixLockInv
  <1>2. /\ \A g \in Files : pc'[g] = IF g = f THEN k ELSE pc[g]
        /\ \A g \in Files : lvl'[g] = IF g = f THEN m ELSE lvl[g]
    BY <1>1 DEF Goto, Level, TypeOK
  <1>3. /\ \A q \in Procs \ {p} : ino'[q] = ino[q]
        /\ ino'[p].lvl = l /\ \A x \in {"nShared", "nLock", "nRef"} : ino'[p][x] = ino[p][x]
    BY <1>1 DEF TypeOK, Inode
  <1>4. l \in NoLock..Exclusive /\ m \in NoLock..Exclusive /\ m # NoLock
    BY DEF NoLock, Shared, Exclusive
  <1>5. TypeOK'
    <2>1. ino' \in [Procs -> Inode]
      BY <1>1, <1>4, InodeField DEF TypeOK
    <2> QED BY <1>1, <1>4, <2>1 DEF TypeOK, Goto, Level, PosixStep, Steps, Resting
  <1>6. PosixLocks' /\ LocalTo(p)
    BY <1>1, <1>2, <1>3 DEF LocalTo, PosixStep
  <1>7. OneCall(p)'
    BY <1>1, OneCallStep DEF ProcInv
  <1>8. Counted(p)'
    BY <1>1, <1>2, <1>3, <1>4, SameCounts DEF ProcInv, Opened, Steps, Resting
  <1>9. Highest(p)'
    <2>1. \A g \in FilesOf(p) : g # f => Held(g)' = Held(g) /\ Held(g) <= Shared
      BY <1>2 DEF Held, FilesOf
    <2> QED BY <1>1, <1>3, <2>1, NewLevel
  <1>10. Midway(p)'
    <2>1. \A g \in FilesOf(p) : g # f => pc[g] \in Resting
      BY <1>1, OthersRest DEF ProcInv, MutexFree, FilesOf, Resting
    <2> QED BY <1>2, <2>1 DEF Midway, Resting, FilesOf
  <1> QED BY <1>1, <1>5, <1>6, <1>7, <1>8, <1>9, <1>10, LocalStep DEF ProcInv

LEMMA LockReservedInv == ASSUME UnixLockInv, NEW f \in Files, LockReserved(f) PROVE UnixLockInv'
  <1> DEFINE p == Proc[f]
  <1>1. p \in Procs /\ f \in FilesOf(p) /\ ProcInv(p) /\ TypeOK /\ PosixLocks
    BY ProcOf DEF UnixLockInv
  <1>2. /\ pc[f] = "idle" /\ MutexFree(p) /\ lvl[f] = Shared /\ ino[p].lvl = Shared
        /\ UNCHANGED <<pc, errs>>
    BY <1>1 DEF LockReserved, Idle, Precluded, Shared, Reserved, Pending
  <1>3. PosixStep(p) /\ os'["reserved"][p] = "write" /\ os'["shared"] = os["shared"]
    <2>1. "reserved" \in Bytes /\ "shared" \in Bytes  BY DEF Bytes
    <2>2. CanWrite("reserved", p) /\ os' = [os EXCEPT !["reserved"][p] = "write"]
      BY DEF LockReserved
    <2>3. PosixStep(p) /\ os'["reserved"][p] = "write" /\ \A d \in Bytes : d # "reserved" => os'[d] = os[d]
      BY <1>1, <2>1, <2>2, WriteStep, Zenon
    <2> QED BY <2>1, <2>3
  <1>4. Goto(f, "idle")
    BY <1>1, <1>2 DEF Goto, TypeOK
  <1>5. \A g \in FilesOf(p) : g # f => Held(g) <= Shared
    BY <1>1, <1>2, OthersShared DEF ProcInv, Shared
  <1>6. Held(f)' = Reserved
    BY <1>1, <1>2 DEF LockReserved, Level, Held, TypeOK
  <1>7. Backed(p)'
    <2>1. ino'[p].lvl = Reserved
      BY <1>1 DEF LockReserved, TypeOK, Inode
    <2> QED BY <1>1, <1>2, <1>3, <2>1 DEF ProcInv, Backed, Shared, Reserved, Pending
  <1>8. Reserved \in Shared..Exclusive /\ lvl[f] # NoLock /\ pc[f] \in Opened /\ errs' \in Nat
    BY <1>1, <1>2 DEF NoLock, Shared, Reserved, Exclusive, Opened, Steps, Resting, TypeOK
  <1> QED BY <1>2, <1>3, <1>4, <1>5, <1>6, <1>7, <1>8, LevelStep DEF LockReserved

LEMMA LockPendingInv == ASSUME UnixLockInv, NEW f \in Files, LockPending(f) PROVE UnixLockInv'
  <1> DEFINE p == Proc[f]
  <1>1. p \in Procs /\ f \in FilesOf(p) /\ ProcInv(p) /\ TypeOK /\ PosixLocks
    BY ProcOf DEF UnixLockInv
  <1>2. /\ pc[f] = "idle" /\ MutexFree(p) /\ lvl[f] \in {Shared, Reserved} /\ ino[p].lvl = lvl[f]
        /\ Goto(f, "exclusive") /\ UNCHANGED <<lvl, ino, errs>>
    BY <1>1 DEF LockPending, Idle, Precluded, Shared, Exclusive
  <1>3. /\ PosixStep(p) /\ os'["pending"][p] = "write"
        /\ os'["shared"] = os["shared"] /\ os'["reserved"] = os["reserved"]
    <2>1. "pending" \in Bytes /\ "reserved" \in Bytes /\ "shared" \in Bytes  BY DEF Bytes
    <2>2. CanWrite("pending", p) /\ os' = [os EXCEPT !["pending"][p] = "write"]
      BY DEF LockPending
    <2>3. PosixStep(p) /\ os'["pending"][p] = "write" /\ \A d \in Bytes : d # "pending" => os'[d] = os[d]
      BY <1>1, <2>1, <2>2, WriteStep, Zenon
    <2> QED BY <2>1, <2>3
  <1>4. Midway(p)'
    <2>1. \A g \in Files : pc'[g] = IF g = f THEN "exclusive" ELSE pc[g]
      BY <1>1, <1>2 DEF Goto, TypeOK
    <2>2. \A g \in FilesOf(p) : g # f => pc'[g] \in Resting
      BY <1>2, <2>1 DEF FilesOf, MutexFree, Resting
    <2> QED BY <1>2, <1>3, <2>1, <2>2 DEF Midway, Resting, FilesOf
  <1>5. Backed(p)'
    BY <1>1, <1>2, <1>3 DEF ProcInv, Backed
  <1>6. pc[f] \in Opened \ {"range"} /\ "exclusive" \in Opened \ {"range"} /\ errs' \in Nat
    BY <1>1, <1>2 DEF Opened, Steps, Resting, TypeOK
  <1> QED BY <1>2, <1>3, <1>4, <1>5, <1>6, MoveStep

\* Who asks for the shared range has the PENDING byte and nobody above SHARED beside it.
LEMMA AsksKnows == ASSUME UnixLockInv, NEW f \in Files, Asks(f)
    PROVE  /\ lvl[f] \in {Shared, Reserved, Pending} /\ ino[Proc[f]].lvl = lvl[f]
           /\ Held(f) = lvl[f] /\ os["pending"][Proc[f]] = "write"
           /\ \A g \in FilesOf(Proc[f]) : g # f => Held(g) <= Shared
           /\ pc[f] \in Opened /\ (MutexFree(Proc[f]) \/ pc[f] \notin Resting)
  <1> DEFINE p == Proc[f]
  <1>1. p \in Procs /\ f \in FilesOf(p) /\ ProcInv(p) /\ TypeOK
    BY ProcOf DEF UnixLockInv
  <1>2. CASE pc[f] = "exclusive"
    <2>1. /\ lvl[f] \in {Shared, Reserved} /\ ino[p].lvl = lvl[f] /\ os["pending"][p] = "write"
      BY <1>1, <1>2 DEF ProcInv, Midway
    <2>2. Held(f) = lvl[f] /\ pc[f] \in Opened /\ pc[f] \notin Resting
      BY <1>2 DEF Held, Opened, Steps, Resting
    <2>3. \A g \in FilesOf(p) : g # f => Held(g) <= Shared
      BY <1>1, <2>1, <2>2, OthersShared DEF ProcInv, Shared, Reserved
    <2> QED BY <2>1, <2>2, <2>3
  <1>3. CASE Idle(f) /\ lvl[f] = Pending
    <2>1. Held(f) = Pending /\ pc[f] \in Opened /\ MutexFree(p)
      BY <1>3 DEF Idle, Held, Opened, Steps, Resting
    <2>2. ino[p].lvl = Pending
      BY <1>1, <2>1, TopLevel DEF ProcInv, Shared, Pending
    <2>3. \A g \in FilesOf(p) : g # f => Held(g) <= Shared
      BY <1>1, <2>1, OthersShared DEF ProcInv, Shared, Pending
    <2>4. os["pending"][p] = "write"
      BY <1>1, <2>2 DEF ProcInv, Backed, Pending
    <2> QED BY <1>3, <2>1, <2>2, <2>3, <2>4
  <1> QED BY <1>2, <1>3 DEF Asks

LEMMA LockExclusiveInv == ASSUME UnixLockInv, NEW f \in Files, LockExclusive(f) PROVE UnixLockInv'
  <1> DEFINE p == Proc[f]
  <1>1. p \in Procs /\ f \in FilesOf(p) /\ ProcInv(p) /\ TypeOK /\ PosixLocks
    BY ProcOf DEF UnixLockInv
  <1>2. /\ lvl[f] # NoLock /\ os["pending"][p] = "write" /\ pc[f] \in Opened
        /\ \A g \in FilesOf(p) : g # f => Held(g) <= Shared
        /\ MutexFree(p) \/ pc[f] \notin Resting
    BY AsksKnows DEF LockExclusive, NoLock, Shared, Reserved, Pending
  <1>3. /\ PosixStep(p) /\ os'["shared"][p] = "write"
        /\ os'["pending"] = os["pending"] /\ os'["reserved"] = os["reserved"]
    <2>1. "pending" \in Bytes /\ "reserved" \in Bytes /\ "shared" \in Bytes  BY DEF Bytes
    <2>2. CanWrite("shared", p) /\ os' = [os EXCEPT !["shared"][p] = "write"]
      BY DEF LockExclusive, Alone
    <2>3. PosixStep(p) /\ os'["shared"][p] = "write" /\ \A d \in Bytes : d # "shared" => os'[d] = os[d]
      BY <1>1, <2>1, <2>2, WriteStep, Zenon
    <2> QED BY <2>1, <2>3
  <1>4. Held(f)' = Exclusive
    BY <1>1 DEF LockExclusive, Goto, Level, Held, TypeOK
  <1>5. Backed(p)'
    <2>1. ino'[p].lvl = Exclusive
      BY <1>1 DEF LockExclusive, TypeOK, Inode
    <2> QED BY <1>1, <1>2, <1>3, <2>1 DEF ProcInv, Backed, Shared, Exclusive, Pending
  <1>6. Exclusive \in Shared..Exclusive /\ errs' \in Nat
    BY <1>1 DEF LockExclusive, Shared, Exclusive, TypeOK
  <1> QED BY <1>2, <1>3, <1>4, <1>5, <1>6, LevelStep DEF LockExclusive

LEMMA StayPendingInv == ASSUME UnixLockInv, NEW f \in Files, StayPending(f) PROVE UnixLockInv'
  <1> DEFINE p == Proc[f]
  <1>1. p \in Procs /\ f \in FilesOf(p) /\ ProcInv(p) /\ TypeOK /\ PosixLocks
    BY ProcOf DEF UnixLockInv
  <1>2. /\ lvl[f] # NoLock /\ os["pending"][p] = "write" /\ pc[f] \in Opened
        /\ \A g \in FilesOf(p) : g # f => Held(g) <= Shared
        /\ MutexFree(p) \/ pc[f] \notin Resting
        /\ ino[p].lvl >= Shared
    BY AsksKnows DEF StayPending, NoLock, Shared, Reserved, Pending
  <1>3. PosixStep(p) /\ UNCHANGED os
    BY <1>1 DEF StayPending, PosixStep, TypeOK, PosixLocks
  <1>4. Held(f)' = Pending
    BY <1>1 DEF StayPending, Goto, Level, Held, TypeOK
  <1>5. Backed(p)'
    <2>1. ino'[p].lvl = Pending
      BY <1>1 DEF StayPending, TypeOK, Inode
    <2> QED BY <1>1, <1>2, <1>3, <2>1 DEF ProcInv, Backed, Shared, Pending
  <1>6. Pending \in Shared..Exclusive /\ errs' \in Nat
    BY <1>1 DEF StayPending, Shared, Exclusive, Pending, TypeOK
  <1> QED BY <1>2, <1>3, <1>4, <1>5, <1>6, LevelStep DEF StayPending

-----------------------------------------------------------------------------
(* posixUnlock.                                                            *)

LEMMA DowngradeInv == ASSUME UnixLockInv, NEW f \in Files, Downgrade(f) PROVE UnixLockInv'
  <1> DEFINE p == Proc[f]
  <1>1. p \in Procs /\ f \in FilesOf(p) /\ ProcInv(p) /\ TypeOK /\ PosixLocks
    BY ProcOf DEF UnixLockInv
  <1>2. pc[f] = "idle" /\ MutexFree(p) /\ lvl[f] > Shared /\ UNCHANGED <<lvl, ino, errs>>
    BY DEF Downgrade, Idle
  <1>3. CASE UNCHANGED <<pc, os>>
    BY <1>2, <1>3, StutterInv DEF vars
  <1>4. CASE CanRead("shared", p) /\ os' = [os EXCEPT !["shared"][p] = "read"] /\ Goto(f, "bytes")
    <2>1. /\ PosixStep(p) /\ os'["shared"][p] = "read"
          /\ os'["pending"] = os["pending"] /\ os'["reserved"] = os["reserved"]
      <3>1. "pending" \in Bytes /\ "reserved" \in Bytes /\ "shared" \in Bytes  BY DEF Bytes
      <3>2. PosixStep(p) /\ os'["shared"][p] = "read" /\ \A d \in Bytes : d # "shared" => os'[d] = os[d]
        BY <1>1, <1>4, <3>1, ReadStep, Zenon
      <3> QED BY <3>1, <3>2
    <2>2. Midway(p)'
      <3>1. \A g \in Files : pc'[g] = IF g = f THEN "bytes" ELSE pc[g]
        BY <1>1, <1>4 DEF Goto, TypeOK
      <3>2. \A g \in FilesOf(p) : g # f => pc'[g] \in Resting
        BY <1>2, <3>1 DEF FilesOf, MutexFree, Resting
      <3> QED BY <1>2, <3>1, <3>2 DEF Midway, Resting, FilesOf
    <2>3. Backed(p)'
      BY <1>1, <1>2, <2>1 DEF ProcInv, Backed
    <2>4. pc[f] \in Opened \ {"range"} /\ "bytes" \in Opened \ {"range"} /\ errs' \in Nat
      BY <1>1, <1>2 DEF Opened, Steps, Resting, TypeOK
    <2> QED BY <1>2, <1>4, <2>1, <2>2, <2>3, <2>4, MoveStep
  <1> QED BY <1>3, <1>4 DEF Downgrade

\* Release, on the way down to SHARED or to no lock at all.
LEMMA ReleaseInv ==
    ASSUME UnixLockInv, NEW f \in Files, NEW m, NEW k, Release(f, m, k), lvl[f] > Shared,
           pc[f] = "bytes" \/ Idle(f), <<m, k>> \in {<<Shared, "idle">>, <<lvl[f], "range">>}
    PROVE  UnixLockInv'
  <1> DEFINE p == Proc[f]
  <1>1. p \in Procs /\ f \in FilesOf(p) /\ ProcInv(p) /\ TypeOK /\ PosixLocks
    BY ProcOf DEF UnixLockInv
  <1>3. MutexFree(p) \/ pc[f] \notin Resting
    BY DEF Idle, Resting
  <1>4. pc[f] \in Opened \ {"range"} /\ Held(f) = lvl[f]
    BY DEF Idle, Opened, Steps, Resting, Held
  <1>5. ino[p].lvl = lvl[f] /\ \A g \in FilesOf(p) : g # f => Held(g) <= Shared
    BY <1>1, <1>4, TopLevel, OthersShared DEF ProcInv
  <1>6. \A g \in FilesOf(p) : g # f => pc[g] \in Resting
    BY <1>1, <1>3, OthersRest DEF ProcInv, MutexFree, FilesOf, Resting
  <1>7. CASE Fails /\ Goto(f, "idle") /\ UNCHANGED <<lvl, ino, os>>
    <2>1. PosixStep(p)
      BY <1>1, <1>7 DEF PosixStep, TypeOK, PosixLocks
    <2>2. Midway(p)'
      <3>1. \A g \in Files : pc'[g] = IF g = f THEN "idle" ELSE pc[g]
        BY <1>1, <1>7 DEF Goto, TypeOK
      <3> QED BY <1>6, <3>1 DEF Midway, Resting, FilesOf
    <2>3. Backed(p)'
      BY <1>1, <1>7 DEF ProcInv, Backed
    <2>4. "idle" \in Opened \ {"range"} /\ errs' \in Nat
      BY <1>1, <1>7 DEF Opened, Steps, Resting, TypeOK, Fails
    <2> QED BY <1>3, <1>4, <1>7, <2>1, <2>2, <2>3, <2>4, MoveStep
  <1>8. CASE /\ os' = [os EXCEPT !["pending"][p] = "none", !["reserved"][p] = "none"]
             /\ ino' = [ino EXCEPT ![p].lvl = Shared]
             /\ Goto(f, k) /\ Level(f, m) /\ UNCHANGED errs
    <2>1. /\ PosixStep(p) /\ os'["reserved"][p] = "none" /\ os'["shared"] = os["shared"]
      BY <1>1, <1>8, ReleasePosix DEF PosixStep
    <2>2. Held(f)' = Shared
      BY <1>1, <1>8 DEF Goto, Level, Held, TypeOK
    <2>3. ino'[p].lvl = Shared
      BY <1>1, <1>8 DEF TypeOK, Inode
    <2>4. Backed(p)'
      <3>1. lvl[f] \in NoLock..Exclusive  BY <1>1 DEF TypeOK
      <3>2. os["shared"][p] # "none"
        BY <1>1, <1>5, <3>1 DEF ProcInv, Backed, NoLock, Shared, Exclusive
      <3> QED BY <2>1, <2>3, <3>2 DEF Backed, Shared, Pending
    <2>5. /\ m \in Shared..Exclusive /\ k \in {"idle", "range"} /\ (k = "range" => m > Shared)
          /\ Shared \in Shared..Exclusive /\ errs' \in Nat /\ lvl[f] # NoLock
      BY <1>1, <1>8 DEF TypeOK, NoLock, Shared, Exclusive
    <2> QED BY <1>3, <1>4, <1>5, <1>8, <2>1, <2>2, <2>4, <2>5, LevelStep
  <1> QED BY <1>7, <1>8 DEF Release

LEMMA DowngradeBytesInv ==
    ASSUME UnixLockInv, NEW f \in Files, DowngradeBytes(f) PROVE UnixLockInv'
  <1>1. lvl[f] > Shared
    BY ProcOf DEF DowngradeBytes, UnixLockInv, ProcInv, Midway
  <1> QED BY <1>1, ReleaseInv DEF DowngradeBytes

LEMMA UnlockInv == ASSUME UnixLockInv, NEW f \in Files, Unlock(f) PROVE UnixLockInv'
  BY ReleaseInv DEF Unlock

LEMMA InodeUnlock ==
    ASSUME NEW r \in Inode, NEW n \in Nat, NEW m \in Nat, NEW u \in Nat, NEW l \in NoLock..Exclusive
    PROVE  [r EXCEPT !.nShared = n, !.nLock = m, !.lvl = l, !.unused = u] \in Inode
  <1>1. [r EXCEPT !.nShared = n] \in Inode
    BY InodeField
  <1>2. [r EXCEPT !.nShared = n, !.nLock = m] \in Inode
    BY <1>1, InodeField
  <1>3. [r EXCEPT !.nShared = n, !.nLock = m, !.lvl = l] \in Inode
    BY <1>2, InodeField
  <1> QED BY <1>3, InodeField

LEMMA UnlockRangeInv == ASSUME UnixLockInv, NEW f \in Files, UnlockRange(f) PROVE UnixLockInv'
  <1> DEFINE p == Proc[f]
             last == ino[p].nShared = 1
             close == ino[p].nLock = 1
             newLvl == IF last THEN NoLock ELSE ino[p].lvl
  <1>1. p \in Procs /\ f \in FilesOf(p) /\ ProcInv(p) /\ TypeOK /\ PosixLocks
    BY ProcOf DEF UnixLockInv
  <1>2. /\ pc[f] = "range" \/ (Idle(f) /\ lvl[f] = Shared)
        /\ Goto(f, "idle") /\ Level(f, NoLock) /\ pc[f] \in Opened
        /\ MutexFree(p) \/ pc[f] \notin Resting
    BY DEF UnlockRange, Idle, Opened, Steps, Resting
  <1>3. Held(f) = Shared /\ lvl[f] # NoLock
    BY <1>1, <1>2 DEF Held, Idle, ProcInv, Midway, NoLock, Shared
  <1>4. /\ \A g \in Files : pc'[g] = IF g = f THEN "idle" ELSE pc[g]
        /\ \A g \in Files : lvl'[g] = IF g = f THEN NoLock ELSE lvl[g]
    BY <1>1, <1>2 DEF Goto, Level, TypeOK
  <1>5. /\ f \in Holders(p) /\ Holders(p)' = Holders(p) \ {f} /\ Refs(p)' = Refs(p)
    BY <1>1, <1>2, <1>3, <1>4 DEF Holders, Refs, FilesOf, Opened
  <1>6. /\ Cardinality(Holders(p)') = Cardinality(Holders(p)) - 1
        /\ Cardinality(Holders(p)) \in Nat \ {0}
    <2>1. Cardinality(Holders(p)') = Cardinality(Holders(p)) - 1
      BY <1>5, HoldersFinite, FS_RemoveElement
    <2>2. Cardinality(Holders(p)) \in Nat /\ Cardinality(Holders(p)) # 0
      BY <1>5, HoldersFinite, FS_CardinalityType, FS_EmptySet
    <2> QED BY <2>1, <2>2
  <1>7. last => Holders(p) = {f}
    <2>1. SUFFICES ASSUME last PROVE Holders(p) = {f}
      OBVIOUS
    <2>2. Cardinality(Holders(p)) = 1 /\ IsFiniteSet(Holders(p))
      BY <1>1, <2>1, HoldersFinite DEF ProcInv, Counted
    <2>3. \E x : Holders(p) = {x}
      BY <2>2, FS_Singleton
    <2> QED BY <1>5, <2>3
  <1>8. ino[p] \in Inode /\ newLvl \in NoLock..Exclusive
    BY <1>1 DEF TypeOK, Inode, NoLock, Exclusive
  <1>9. /\ \A q \in Procs \ {p} : ino'[q] = ino[q]
        /\ ino'[p].nShared = ino[p].nShared - 1 /\ ino'[p].nLock = ino[p].nLock - 1
        /\ ino'[p].nRef = ino[p].nRef /\ ino'[p].lvl = newLvl
    BY <1>1, <1>8 DEF UnlockRange, TypeOK, Inode
  <1>10. /\ PosixStep(p) /\ errs' \in Nat
         /\ \/ \A b \in Bytes : os'[b][p] = "none"
            \/ UNCHANGED os
         /\ ~last => UNCHANGED os
    <2>1. errs' \in Nat
      BY <1>1 DEF UnlockRange, Fails, TypeOK
    <2>2. \/ os' = DropAll(p) /\ last
          \/ UNCHANGED os
      BY DEF UnlockRange
    <2>3. CASE os' = DropAll(p) /\ last
      BY <1>1, <2>1, <2>3, DropAllPosix DEF PosixStep
    <2>4. CASE UNCHANGED os
      BY <1>1, <2>1, <2>4 DEF PosixStep, TypeOK, PosixLocks
    <2> QED BY <2>2, <2>3, <2>4
  <1>11. TypeOK'
    <2>1. ino[p].nShared - 1 \in Nat /\ ino[p].nLock - 1 \in Nat
      BY <1>1, <1>6 DEF ProcInv, Counted
    <2>2. (IF close THEN 0 ELSE ino[p].unused) \in Nat
      BY <1>8 DEF Inode
    <2>3. ino' \in [Procs -> Inode]
      BY <1>1, <1>8, <2>1, <2>2, InodeUnlock, ZenonT(60) DEF UnlockRange, TypeOK
    <2> QED BY <1>1, <1>2, <1>10, <2>3
          DEF TypeOK, Goto, Level, PosixStep, Steps, Resting, NoLock, Exclusive
  <1>12. PosixLocks' /\ LocalTo(p)
    BY <1>1, <1>4, <1>9, <1>10 DEF LocalTo, PosixStep
  <1>13. OneCall(p)'
    BY <1>1, <1>2, OneCallStep DEF ProcInv
  <1>14. Counted(p)'
    <2>1. \A g \in FilesOf(p) : pc'[g] \in {"closed", "opening"} => lvl'[g] = NoLock
      BY <1>1, <1>4 DEF ProcInv, Counted, FilesOf
    <2>2. \A g \in FilesOf(p) : pc'[g] = "leaked" => Refs(p)' # {}
      BY <1>1, <1>4, <1>5 DEF ProcInv, Counted, FilesOf
    <2>3. FilesOf(p)' = FilesOf(p)  BY DEF FilesOf
    <2>4. /\ ino'[p].nShared = Cardinality(Holders(p)') /\ ino'[p].nLock = Cardinality(Holders(p)')
          /\ ino'[p].nRef = Cardinality(Refs(p)')
      BY <1>1, <1>5, <1>6, <1>9 DEF ProcInv, Counted
    <2> QED BY <2>1, <2>2, <2>3, <2>4 DEF Counted
  <1>15. \A g \in FilesOf(p) : g # f => Held(g)' = Held(g) /\ Held(g) \in NoLock..Exclusive
    BY <1>1, <1>4 DEF Held, FilesOf, TypeOK, NoLock, Shared, Exclusive
  <1>16. Held(f)' = NoLock
    BY <1>4 DEF Held
  <1>17. \A g \in FilesOf(p) : Held(g) # NoLock => g \in Holders(p)
    <2>1. \A g \in FilesOf(p) : pc[g] = "range" => lvl[g] > Shared
      BY <1>1 DEF ProcInv, Midway
    <2> QED BY <2>1 DEF Holders, Held, NoLock, Shared
  <1>18. Highest(p)' /\ (last => ino[p].lvl <= Shared)
    <2>1. FilesOf(p)' = FilesOf(p)  BY DEF FilesOf
    <2>2. ino[p].lvl \in NoLock..Exclusive  BY <1>8 DEF Inode
    <2>3. CASE last
      <3>1. \A g \in FilesOf(p) : g # f => Held(g) = NoLock
        BY <1>7, <1>17, <2>3
      <3>2. Highest(p)'
        BY <1>9, <1>15, <1>16, <2>1, <2>3, <3>1 DEF Highest, NoLock, Shared
      <3>3. ino[p].lvl <= Shared
        BY <1>1, <1>3, <2>2, <3>1 DEF ProcInv, Highest, NoLock, Shared, Exclusive
      <3> QED BY <3>2, <3>3
    <2>4. CASE ~last
      <3>1. PICK g \in Holders(p) : g # f
        <4>1. Holders(p) # {f}
          BY <1>1, <2>4, FS_Singleton DEF ProcInv, Counted
        <4> QED BY <1>5, <4>1
      <3>2. g \in FilesOf(p) /\ Held(g) # NoLock
        BY <3>1 DEF Holders, Held, NoLock, Shared
      <3>3. Held(g) \in NoLock..Exclusive /\ Held(g) <= ino[p].lvl
        BY <1>1, <1>15, <3>1, <3>2 DEF ProcInv, Highest
      <3>4. \E h \in FilesOf(p) : h # f /\ Held(h) = ino[p].lvl
        <4>1. CASE ino[p].lvl = Shared
          BY <2>2, <3>1, <3>2, <3>3, <4>1 DEF NoLock, Shared, Exclusive
        <4>2. CASE ino[p].lvl # Shared
          BY <1>1, <1>3, <2>2, <3>2, <3>3, <4>2 DEF ProcInv, Highest, NoLock, Shared, Exclusive
        <4> QED BY <4>1, <4>2
      <3>5. \A h \in FilesOf(p) : Held(h)' <= ino[p].lvl
        BY <1>1, <1>15, <1>16, <2>2 DEF ProcInv, Highest, NoLock, Exclusive
      <3>6. \A g1, g2 \in FilesOf(p) : g1 # g2 /\ Held(g1)' > Shared => Held(g2)' <= Shared
        BY <1>1, <1>15, <1>16 DEF ProcInv, Highest, NoLock, Shared
      <3> QED BY <1>9, <1>15, <2>1, <2>4, <3>4, <3>5, <3>6 DEF Highest
    <2> QED BY <2>3, <2>4
  <1>19. Midway(p)'
    <2>1. \A g \in FilesOf(p) : g # f => pc[g] \in Resting
      BY <1>1, <1>2, OthersRest DEF ProcInv, MutexFree, FilesOf, Resting
    <2> QED BY <1>4, <2>1 DEF Midway, Resting, FilesOf
  <1>20. Backed(p)'
    <2>1. CASE ~last
      BY <1>1, <1>9, <1>10, <2>1 DEF ProcInv, Backed
    <2>2. CASE last
      <3>1. os'["reserved"][p] = "none"
        <4>1. os["reserved"][p] = "none"
          BY <1>1, <1>8, <1>18, <2>2 DEF ProcInv, Backed, Inode, NoLock, Shared, Exclusive
        <4> QED BY <1>10, <4>1 DEF Bytes
      <3> QED BY <1>9, <2>2, <3>1 DEF Backed, NoLock, Shared, Pending
    <2> QED BY <2>1, <2>2
  <1> QED BY <1>1, <1>11, <1>12, <1>13, <1>14, <1>18, <1>19, <1>20, LocalStep DEF ProcInv

-----------------------------------------------------------------------------
(* unixClose, and the end of a process.                                    *)

\* A process that has no unixFile left starts afresh.
LEMMA AfreshInv ==
    ASSUME UnixLockInv, NEW p \in Procs, TypeOK', LocalTo(p), PosixLocks',
           ino'[p] = NoInode, \A b \in Bytes : os'[b][p] = "none",
           \A g \in FilesOf(p) : pc'[g] \in {"closed", "opening"} /\ lvl'[g] = NoLock
    PROVE  UnixLockInv'
  <1>1. FilesOf(p)' = FilesOf(p)
    BY DEF FilesOf
  <1>2. Holders(p)' = {} /\ Refs(p)' = {}
    BY <1>1 DEF Holders, Refs
  <1>3. Counted(p)'
    BY <1>1, <1>2, FS_EmptySet DEF Counted, NoInode
  <1>4. OneCall(p)' /\ Midway(p)'
    BY <1>1 DEF OneCall, Midway, Resting
  <1>5. Highest(p)'
    <2>1. \A g \in FilesOf(p) : Held(g)' = NoLock
      BY DEF Held
    <2> QED BY <1>1, <2>1 DEF Highest, NoInode, NoLock, Shared
  <1>6. Backed(p)'
    BY DEF Backed, NoInode, Bytes, NoLock, Shared, Pending
  <1> QED BY <1>3, <1>4, <1>5, <1>6, LocalStep DEF ProcInv

LEMMA KillInv == ASSUME UnixLockInv, NEW p \in Procs, Kill(p) PROVE UnixLockInv'
  <1>1. TypeOK /\ PosixLocks
    BY DEF UnixLockInv
  <1>2. /\ os' \in [Bytes -> [Procs -> {"none", "read", "write"}]] /\ PosixLocks'
        /\ \A b \in Bytes : os'[b][p] = "none"
        /\ \A b \in Bytes, q \in Procs : q # p => os'[b][q] = os[b][q]
    BY <1>1, DropAllPosix DEF Kill
  <1>3. NoInode \in Inode
    BY DEF NoInode, Inode, NoLock, Exclusive
  <1>4. TypeOK'
    BY <1>1, <1>2, <1>3 DEF Kill, TypeOK, Steps, Resting, NoLock, Exclusive
  <1>5. LocalTo(p) /\ ino'[p] = NoInode
    BY <1>1, <1>2 DEF Kill, LocalTo, TypeOK
  <1>6. \A g \in FilesOf(p) : pc'[g] \in {"closed", "opening"} /\ lvl'[g] = NoLock
    BY DEF Kill, FilesOf
  <1> QED BY <1>2, <1>4, <1>5, <1>6, AfreshInv

\* A unixFile is closed that is the last of its process.
LEMMA CloseLastInv ==
    ASSUME UnixLockInv, NEW f \in Files, NEW S, Idle(f), CloseFile(f), Gone(f, S), errs' \in Nat,
           ino[Proc[f]].nRef = 1
    PROVE  UnixLockInv'
  <1> DEFINE p == Proc[f]
             T == {f} \cup {g \in Files : Proc[g] = p /\ pc[g] = "leaked"}
  <1>1. p \in Procs /\ f \in FilesOf(p) /\ ProcInv(p) /\ TypeOK /\ PosixLocks /\ ino[p] \in Inode
    BY ProcOf DEF UnixLockInv, TypeOK
  <1>2. /\ \A g \in Files : pc'[g] = IF g \in T THEN "closed" ELSE pc[g]
        /\ \A g \in Files : lvl'[g] = IF g \in T THEN NoLock ELSE lvl[g]
        /\ pc' \in [Files -> Steps] /\ lvl' \in [Files -> NoLock..Exclusive]
    BY <1>1 DEF Gone, TypeOK, Steps, Resting, NoLock, Exclusive
  <1>3. Refs(p) = {f}
    <2>1. f \in Refs(p)
      BY <1>1 DEF Idle, Refs
    <2>2. \E x : Refs(p) = {x}
      BY <1>1, HoldersFinite, FS_Singleton DEF ProcInv, Counted
    <2> QED BY <2>1, <2>2
  <1>4. \A g \in FilesOf(p) : pc'[g] \in {"closed", "opening"} /\ lvl'[g] = NoLock
    <2>1. \A g \in FilesOf(p) : g # f => pc[g] \in {"closed", "opening", "leaked"}
      BY <1>3 DEF Refs
    <2> QED BY <1>1, <1>2, <2>1 DEF FilesOf, ProcInv, Counted
  <1>5. os' = DropAll(p)
    BY <1>1 DEF CloseFile, Inode, MustWait
  <1>6. /\ os' \in [Bytes -> [Procs -> {"none", "read", "write"}]] /\ PosixLocks'
        /\ \A b \in Bytes : os'[b][p] = "none"
        /\ \A b \in Bytes, q \in Procs : q # p => os'[b][q] = os[b][q]
    BY <1>1, <1>5, DropAllPosix
  <1>7. /\ ino'[p] = NoInode /\ NoInode \in Inode /\ \A q \in Procs \ {p} : ino'[q] = ino[q]
        /\ ino' = [ino EXCEPT ![p] = NoInode]
    BY <1>1 DEF CloseFile, TypeOK, NoInode, Inode, NoLock, Exclusive
  <1>8. TypeOK'
    BY <1>1, <1>2, <1>6, <1>7 DEF TypeOK
  <1>9. LocalTo(p)
    BY <1>2, <1>6, <1>7 DEF LocalTo
  <1> QED BY <1>1, <1>4, <1>6, <1>7, <1>8, <1>9, AfreshInv

\* A unixFile is closed and others of its process stay: its descriptor is put aside
\* while they have locks.
LEMMA CloseOneInv ==
    ASSUME UnixLockInv, NEW f \in Files, NEW k \in {"closed", "leaked"}, Idle(f), CloseFile(f),
           pc' = [pc EXCEPT ![f] = k], UNCHANGED lvl, errs' \in Nat,
           k = "closed" => lvl[f] = NoLock, ino[Proc[f]].nRef # 1
    PROVE  UnixLockInv'
  <1> DEFINE p == Proc[f]
             aside == ino[p].unused + IF MustWait(p) THEN 1 ELSE 0
  <1>1. p \in Procs /\ f \in FilesOf(p) /\ ProcInv(p) /\ TypeOK /\ PosixLocks /\ ino[p] \in Inode
    BY ProcOf DEF UnixLockInv, TypeOK
  <1>2. /\ \A g \in Files : pc'[g] = IF g = f THEN k ELSE pc[g]
        /\ pc' \in [Files -> Steps] /\ pc[f] = "idle" /\ MutexFree(p)
    BY <1>1 DEF TypeOK, Steps, Resting, Idle
  <1>3. Refs(p)' = Refs(p) \ {f} /\ f \in Refs(p) /\ Holders(p)' = Holders(p)
    BY <1>1, <1>2 DEF Refs, Holders, FilesOf
  <1>4. /\ Cardinality(Refs(p)') = Cardinality(Refs(p)) - 1
        /\ Cardinality(Refs(p)) \in Nat \ {0} /\ Refs(p)' # {}
    <2>1. Cardinality(Refs(p)') = Cardinality(Refs(p)) - 1
      BY <1>3, HoldersFinite, FS_RemoveElement
    <2>2. Cardinality(Refs(p)) \in Nat /\ Cardinality(Refs(p)) # 0
      BY <1>3, HoldersFinite, FS_CardinalityType, FS_EmptySet
    <2>3. Cardinality(Refs(p)) # 1
      BY <1>1 DEF ProcInv, Counted
    <2>4. Cardinality({}) = 0
      BY FS_EmptySet
    <2>5. Refs(p)' # {}
      BY <2>1, <2>2, <2>3, <2>4
    <2> QED BY <2>1, <2>2, <2>5
  <1>5. aside \in Nat /\ ino[p].nRef - 1 \in Nat
    BY <1>1, <1>4 DEF Inode, ProcInv, Counted
  <1>6. ino'[p] = [ino[p] EXCEPT !.nRef = @ - 1, !.unused = aside]
    BY <1>1 DEF CloseFile, TypeOK
  <1>7. [ino[p] EXCEPT !.nRef = @ - 1, !.unused = aside] \in Inode
    <2>1. NoLock \in NoLock..Exclusive
      BY DEF NoLock, Exclusive
    <2>2. [ino[p] EXCEPT !.nRef = ino[p].nRef - 1] \in Inode
      BY <1>1, <1>5, <2>1, InodeField
    <2>3. [[ino[p] EXCEPT !.nRef = ino[p].nRef - 1] EXCEPT !.unused = aside] \in Inode
      BY <1>5, <2>1, <2>2, InodeField
    <2> QED BY <2>3
  <1>8. /\ \A q \in Procs \ {p} : ino'[q] = ino[q]
        /\ \A x \in {"lvl", "nShared", "nLock"} : ino'[p][x] = ino[p][x]
        /\ ino'[p].nRef = ino[p].nRef - 1
    BY <1>1, <1>6 DEF CloseFile, TypeOK, Inode
  <1>9. ino' \in [Procs -> Inode]
    <2>1. \A q \in Procs : ino'[q] \in Inode
      BY <1>1, <1>6, <1>7, <1>8 DEF TypeOK
    <2> QED BY <1>1, <2>1 DEF CloseFile, TypeOK
  <1>10. PosixStep(p) /\ (UNCHANGED os \/ (ino[p].nLock = 0 /\ \A b \in Bytes : os'[b][p] = "none"))
    <2>1. CASE MustWait(p)
      BY <1>1, <2>1 DEF CloseFile, PosixStep, TypeOK, PosixLocks
    <2>2. CASE ~MustWait(p)
      <3>1. os' = DropAll(p) /\ ino[p].nLock = 0
        BY <1>1, <2>2 DEF CloseFile, MustWait, Inode
      <3> QED BY <1>1, <3>1, DropAllPosix DEF PosixStep
    <2> QED BY <2>1, <2>2
  <1>11. TypeOK' /\ PosixLocks' /\ LocalTo(p)
    BY <1>1, <1>2, <1>8, <1>9, <1>10 DEF TypeOK, PosixStep, LocalTo
  <1>12. \A g \in FilesOf(p) : pc'[g] \in Resting
    BY <1>2 DEF MutexFree, FilesOf, Resting
  <1>13. OneCall(p)' /\ Midway(p)'
    BY <1>12 DEF OneCall, Midway, Resting, FilesOf
  <1>14. Counted(p)'
    <2>1. FilesOf(p)' = FilesOf(p)  BY DEF FilesOf
    <2>2. \A g \in FilesOf(p) : pc'[g] \in {"closed", "opening"} => lvl'[g] = NoLock
      BY <1>1, <1>2 DEF ProcInv, Counted, FilesOf
    <2> QED BY <1>1, <1>3, <1>4, <1>8, <2>1, <2>2 DEF ProcInv, Counted
  <1>15. Highest(p)'
    BY <1>1, <1>2, <1>8, SameLevels DEF ProcInv, Held, FilesOf
  <1>16. Backed(p)'
    <2>1. CASE UNCHANGED os
      BY <1>1, <1>8, <2>1 DEF ProcInv, Backed
    <2>2. CASE ino[p].nLock = 0 /\ \A b \in Bytes : os'[b][p] = "none"
      <3>1. Holders(p) = {}
        BY <1>1, <2>2, HoldersFinite, FS_EmptySet DEF ProcInv, Counted
      <3>2. \A g \in FilesOf(p) : Held(g) = NoLock
        BY <1>2, <3>1 DEF Holders, Held, MutexFree, FilesOf
      <3>3. ino[p].lvl = NoLock
        BY <1>1, <3>2 DEF ProcInv, Highest
      <3> QED BY <1>8, <2>2, <3>3 DEF Backed, Bytes, NoLock, Shared, Pending
    <2> QED BY <1>10, <2>1, <2>2
  <1> QED BY <1>1, <1>11, <1>13, <1>14, <1>15, <1>16, LocalStep DEF ProcInv

LEMMA RefsPositive == ASSUME UnixLockInv, NEW f \in Files, Idle(f)
    PROVE ino[Proc[f]].nRef \in Nat \ {0}
  <1>1. f \in Refs(Proc[f])
    BY ProcOf DEF Refs, Idle
  <1> QED BY <1>1, ProcOf, HoldersFinite, FS_CardinalityType, FS_EmptySet
        DEF UnixLockInv, ProcInv, Counted

LEMMA CloseInv == ASSUME UnixLockInv, NEW f \in Files, Close(f) PROVE UnixLockInv'
  <1>1. errs' \in Nat /\ TypeOK
    BY DEF Close, UnixLockInv, TypeOK
  <1>2. CASE ino[Proc[f]].nRef = 1
    BY <1>1, <1>2, CloseLastInv DEF Close
  <1>3. CASE ino[Proc[f]].nRef # 1
    <2>1. ino[Proc[f]].nRef > 1
      BY <1>3, RefsPositive DEF Close
    <2>2. pc' = [pc EXCEPT ![f] = "closed"] /\ UNCHANGED lvl
      BY <1>1, <2>1 DEF Close, Gone, TypeOK
    <2> QED BY <1>1, <1>3, <2>2, CloseOneInv DEF Close
  <1> QED BY <1>2, <1>3

LEMMA CloseLockedInv == ASSUME UnixLockInv, NEW f \in Files, CloseLocked(f) PROVE UnixLockInv'
  <1>1. errs' \in Nat /\ TypeOK
    BY DEF CloseLocked, Fails, UnixLockInv, TypeOK
  <1>2. CASE ino[Proc[f]].nRef = 1
    BY <1>1, <1>2, CloseLastInv DEF CloseLocked
  <1>3. CASE ino[Proc[f]].nRef # 1
    <2>1. ino[Proc[f]].nRef > 1
      BY <1>3, RefsPositive DEF CloseLocked
    <2>2. pc' = [pc EXCEPT ![f] = "leaked"] /\ UNCHANGED lvl
      BY <1>1, <2>1 DEF CloseLocked, Gone, TypeOK
    <2> QED BY <1>1, <1>3, <2>2, CloseOneInv DEF CloseLocked
  <1> QED BY <1>2, <1>3

LEMMA InitInv == Init => UnixLockInv
  <1> SUFFICES ASSUME Init PROVE UnixLockInv
    OBVIOUS
  <1>1. NoInode \in Inode
    BY DEF NoInode, Inode, NoLock, Exclusive
  <1>2. TypeOK /\ PosixLocks
    BY <1>1 DEF Init, TypeOK, PosixLocks, Steps, Resting, NoLock, Exclusive, Bytes
  <1>3. ASSUME NEW p \in Procs PROVE ProcInv(p)
    <2>1. Holders(p) = {} /\ Refs(p) = {}
      BY DEF Init, Holders, Refs, FilesOf
    <2>2. /\ ino[p] = NoInode /\ \A b \in Bytes : os[b][p] = "none"
          /\ \A g \in FilesOf(p) : pc[g] = "closed" /\ lvl[g] = NoLock
      BY <1>3 DEF Init, FilesOf
    <2>3. OneCall(p) /\ Midway(p)
      BY <2>2 DEF OneCall, Midway, Resting
    <2>4. Counted(p)
      BY <2>1, <2>2, FS_EmptySet DEF Counted, NoInode
    <2>5. Highest(p)
      BY <2>2 DEF Highest, Held, NoInode, NoLock, Shared
    <2>6. Backed(p)
      BY <2>2 DEF Backed, NoInode, Bytes, NoLock, Shared, Pending
    <2> QED BY <2>3, <2>4, <2>5, <2>6 DEF ProcInv
  <1> QED BY <1>2, <1>3 DEF UnixLockInv

LEMMA NextInv == UnixLockInv /\ [Next]_vars => UnixLockInv'
  <1> SUFFICES ASSUME UnixLockInv, [Next]_vars PROVE UnixLockInv'
    OBVIOUS
  <1>1. ASSUME NEW f \in Files, Open(f) \/ OpenInode(f) \/ OpenFails(f) PROVE UnixLockInv'
    BY <1>1, OpenInv, OpenInodeInv, OpenFailsInv
  <1>2. ASSUME NEW f \in Files,
               LockSharedAgain(f) \/ LockShared(f) \/ SharedRange(f) \/ DropPending(f)
        PROVE  UnixLockInv'
    BY <1>2, LockSharedAgainInv, LockSharedInv, SharedRangeInv, DropPendingInv
  <1>3. ASSUME NEW f \in Files,
               LockReserved(f) \/ LockPending(f) \/ LockExclusive(f) \/ StayPending(f)
        PROVE  UnixLockInv'
    BY <1>3, LockReservedInv, LockPendingInv, LockExclusiveInv, StayPendingInv
  <1>4. ASSUME NEW f \in Files,
               Downgrade(f) \/ DowngradeBytes(f) \/ Unlock(f) \/ UnlockRange(f)
        PROVE  UnixLockInv'
    BY <1>4, DowngradeInv, DowngradeBytesInv, UnlockInv, UnlockRangeInv
  <1>5. ASSUME NEW f \in Files, Close(f) \/ CloseLocked(f) PROVE UnixLockInv'
    BY <1>5, CloseInv, CloseLockedInv
  <1>6. ASSUME NEW p \in Procs, Kill(p) PROVE UnixLockInv'
    BY <1>6, KillInv
  <1> QED BY <1>1, <1>2, <1>3, <1>4, <1>5, <1>6, StutterInv DEF Next

\* What the unixInodeInfo of every process counts, and which POSIX locks stand behind
\* its level, at every step of unixLock, posixUnlock and unixClose.
THEOREM SpecInv == Spec => []UnixLockInv
  BY InitInv, NextInv, PTL DEF Spec

-----------------------------------------------------------------------------
(* What the locks of a process tell the others.                            *)

LEMMA Levels == ASSUME UnixLockInv PROVE \A g \in Files :
    /\ Held(g) \in NoLock..Exclusive /\ ino[Proc[g]].lvl \in NoLock..Exclusive
    /\ Held(g) <= ino[Proc[g]].lvl
  <1>1. ASSUME NEW g \in Files
        PROVE  Held(g) \in NoLock..Exclusive /\ ino[Proc[g]].lvl \in NoLock..Exclusive
    BY ProcOf DEF UnixLockInv, TypeOK, Inode, Held, NoLock, Shared, Exclusive
  <1>2. ASSUME NEW g \in Files PROVE Held(g) <= ino[Proc[g]].lvl
    BY ProcOf DEF UnixLockInv, ProcInv, Highest
  <1> QED BY <1>1, <1>2

\* A process with a lock on the PENDING byte knows that no other has PENDING.
LEMMA NoOtherPending ==
    ASSUME UnixLockInv, NEW p \in Procs, os["pending"][p] # "none"
    PROVE  \A g \in Files : Proc[g] # p => Held(g) < Pending
  <1> SUFFICES ASSUME NEW g \in Files, Proc[g] # p PROVE Held(g) < Pending
    OBVIOUS
  <1>1. os["pending"][Proc[g]] # "write"
    BY ProcOf DEF UnixLockInv, PosixLocks, Bytes
  <1>2. ~(ino[Proc[g]].lvl >= Pending)
    BY <1>1, ProcOf DEF UnixLockInv, ProcInv, Backed
  <1> QED BY <1>2, Levels DEF NoLock, Pending, Exclusive

\* A process that can write-lock the shared range knows that no other has a lock.
LEMMA NoOtherShared ==
    ASSUME UnixLockInv, NEW p \in Procs, CanWrite("shared", p)
    PROVE  \A g \in Files : Proc[g] # p => Held(g) = NoLock
  <1> SUFFICES ASSUME NEW g \in Files, Proc[g] # p PROVE Held(g) = NoLock
    OBVIOUS
  <1>1. ~(ino[Proc[g]].lvl >= Shared)
    BY ProcOf DEF UnixLockInv, ProcInv, Backed, CanWrite
  <1> QED BY <1>1, Levels DEF NoLock, Shared, Exclusive

\* Who has the RESERVED byte has a connection above SHARED, and only one.
LEMMA ReservedOwner ==
    ASSUME UnixLockInv, NEW p \in Procs, os["reserved"][p] # "none"
    PROVE  os["reserved"][p] = "write" /\ \E g \in FilesOf(p) : Held(g) > Shared
  <1>1. os["reserved"][p] = "write" /\ ino[p].lvl > Shared /\ ino[p].lvl \in NoLock..Exclusive
    BY DEF UnixLockInv, ProcInv, Backed, TypeOK, Inode
  <1>2. \E g \in FilesOf(p) : Held(g) = ino[p].lvl
    BY <1>1 DEF UnixLockInv, ProcInv, Highest, NoLock, Shared, Exclusive
  <1> QED BY <1>1, <1>2

-----------------------------------------------------------------------------
(* The refinement.                                                         *)

Locks == [g \in Files |-> Held(g)]
Resv == {g \in Files : Held(g) > Shared /\ os["reserved"][Proc[g]] = "write"}
DbStep == D!LockNext \/ UNCHANGED <<Locks, Resv>>

\* unixCheckReservedLock tells a connection with a SHARED lock what the pager takes
\* it for, whichever processes and threads the other connections are of.
LEMMA InvReservedAgrees == UnixLockInv => ReservedAgrees
  <1> SUFFICES ASSUME UnixLockInv, NEW f \in Files, Idle(f), lvl[f] = Shared
               PROVE  CheckReservedLock(f) <=> D!ReservedSeen(f)
    BY DEF ReservedAgrees
  <1> DEFINE p == Proc[f]
  <1>1. p \in Procs /\ Held(f) = Shared /\ ProcInv(p) /\ TypeOK
    BY ProcOf DEF Idle, Held, UnixLockInv
  <1>2. D!ReservedSeen(f) <=> \/ Resv \ D!Siblings(f) # {}
                              \/ \E d \in D!Siblings(f) : Held(d) > Shared
    BY DEF D!ReservedSeen, D!Siblings, D!Others, Resv, D!Shared, Shared
  <1>3. \A d : d \in D!Siblings(f) <=> d \in FilesOf(p) /\ d # f
    BY DEF D!Siblings, D!Others, FilesOf
  <1>4. ino[p].lvl > Shared <=> \E d \in D!Siblings(f) : Held(d) > Shared
    <2>1. ASSUME ino[p].lvl > Shared PROVE \E d \in D!Siblings(f) : Held(d) > Shared
      <3>1. \E d \in FilesOf(p) : Held(d) = ino[p].lvl
        BY <1>1, <2>1, Levels DEF ProcInv, Highest, NoLock, Shared, Exclusive
      <3> QED BY <1>1, <1>3, <2>1, <3>1 DEF Shared
    <2>2. ASSUME NEW d \in D!Siblings(f), Held(d) > Shared PROVE ino[p].lvl > Shared
      <3>1. d \in Files /\ Proc[d] = p
        BY <1>3 DEF FilesOf
      <3> QED BY <2>2, <3>1, Levels DEF NoLock, Shared, Exclusive
    <2> QED BY <2>1, <2>2
  <1>5. ~CanWrite("reserved", p) <=> \E d \in Resv : Proc[d] # p
    <2>1. ASSUME ~CanWrite("reserved", p) PROVE \E d \in Resv : Proc[d] # p
      <3>1. PICK q \in Procs \ {p} : os["reserved"][q] # "none"
        BY <2>1 DEF CanWrite
      <3>2. os["reserved"][q] = "write" /\ \E g \in FilesOf(q) : Held(g) > Shared
        BY <3>1, ReservedOwner
      <3> QED BY <3>1, <3>2 DEF Resv, FilesOf
    <2>2. ASSUME NEW d \in Resv, Proc[d] # p PROVE ~CanWrite("reserved", p)
      BY <2>2, ProcOf DEF Resv, CanWrite
    <2> QED BY <2>1, <2>2
  <1>6. f \notin Resv
    BY <1>1 DEF Resv, Shared
  <1>7. Resv \ D!Siblings(f) # {} <=> \E d \in Resv : Proc[d] # p
    BY <1>3, <1>6 DEF Resv, FilesOf
  <1> QED BY <1>2, <1>4, <1>5, <1>7 DEF CheckReservedLock

\* unixCheckReservedLock answers as the pager expects, in every reachable state.
THEOREM SpecReservedAgrees == Spec => []ReservedAgrees
  BY SpecInv, InvReservedAgrees, PTL

\* A step that no lock of a connection changes with.
LEMMA Quiet ==
    ASSUME \A g \in Files : Held(g)' = Held(g),
           \A g \in Files : Held(g) > Shared =>
                os'["reserved"][Proc[g]] = os["reserved"][Proc[g]]
    PROVE  DbStep
  BY DEF DbStep, Locks, Resv

LEMMA OneMoves ==
    ASSUME NEW f \in Files, NEW l, \A g \in Files : Held(g)' = IF g = f THEN l ELSE Held(g)
    PROVE  Locks' = [Locks EXCEPT ![f] = l]
  BY DEF Locks

LEMMA InitRefines == Init => D!LockInit
  <1> SUFFICES ASSUME Init PROVE D!LockInit
    OBVIOUS
  <1>1. \A g \in Files : Held(g) = 0
    BY DEF Init, Held, NoLock
  <1> QED BY <1>1 DEF D!LockInit, D!NoLock, Shared

LEMMA OpenRefines ==
    ASSUME UnixLockInv, NEW f \in Files, Open(f) \/ OpenInode(f) \/ OpenFails(f)
    PROVE  DbStep
  <1> DEFINE p == Proc[f]
  <1>1. p \in Procs /\ ProcInv(p) /\ TypeOK
    BY ProcOf DEF UnixLockInv
  <1>2. \A g \in Files : Held(g)' = Held(g)
    BY <1>1 DEF Open, OpenInode, OpenFails, Goto, Held, TypeOK
  <1>3. CASE Open(f) \/ OpenInode(f)
    BY <1>2, <1>3, Quiet DEF Open, OpenInode
  <1>4. CASE OpenFails(f)
    <2>1. \A g \in FilesOf(p) : Held(g) = NoLock
      BY <1>1, <1>4, NoRefsNoLocks DEF OpenFails, Held
    <2>2. \A b \in Bytes, q \in Procs : q # p => os'[b][q] = os[b][q]
      BY <1>1, <1>4, DropAllPosix DEF OpenFails, UnixLockInv
    <2> QED BY <1>2, <2>1, <2>2, Quiet, ProcOf DEF FilesOf, Bytes, NoLock, Shared
  <1> QED BY <1>3, <1>4

\* What the lock states of the pager are in terms of this module.
LEMMA Mapped ==
    /\ D!NoLock = NoLock /\ D!Shared = Shared /\ D!Reserved = Reserved
    /\ D!Pending = Pending /\ D!Exclusive = Exclusive
    /\ \A f, d \in Files : d \in D!Siblings(f) <=> d \in FilesOf(Proc[f]) /\ d # f
    /\ \A f : D!Others(f) = Files \ {f} /\ D!Siblings(f) \subseteq Files
  BY DEF D!NoLock, D!Shared, D!Reserved, D!Pending, D!Exclusive, D!Siblings, D!Others, FilesOf,
         NoLock, Shared, Reserved, Pending, Exclusive

\* A step of unixLock that takes no lock yet, or gives up.
LEMMA WaitRefines ==
    ASSUME UnixLockInv, NEW f \in Files, NEW l, pc[f] # "range", l # "range", Goto(f, l),
           UNCHANGED lvl, os'["reserved"] = os["reserved"]
    PROVE  DbStep
  <1>1. \A g \in Files : Held(g)' = Held(g)
    BY DEF Goto, Held, UnixLockInv, TypeOK
  <1> QED BY <1>1, Quiet

\* A connection that gets SHARED: no sibling has PENDING, and either no other
\* connection has, or a sibling has a lock.
LEMMA SharedRefines ==
    ASSUME UnixLockInv, NEW f \in Files, Held(f) = NoLock,
           \A g \in Files : Held(g)' = IF g = f THEN Shared ELSE Held(g),
           os'["reserved"] = os["reserved"],
           \A g \in FilesOf(Proc[f]) : Held(g) < Pending,
           \/ \A g \in Files : Held(g) < Pending
           \/ \E g \in FilesOf(Proc[f]) : Held(g) # NoLock
    PROVE  DbStep
  <1>1. Locks' = [Locks EXCEPT ![f] = Shared]
    BY OneMoves
  <1>2. Resv' = Resv
    BY DEF Resv, NoLock, Shared
  <1>3. D!CanShare(f)
    BY Mapped DEF D!CanShare, FilesOf
  <1>4. D!LockShared(f)
    BY <1>1, <1>2, <1>3, Mapped DEF D!LockShared, Locks, Resv
  <1> QED BY <1>4 DEF DbStep, D!LockNext

LEMMA LockSharedAgainRefines ==
    ASSUME UnixLockInv, NEW f \in Files, LockSharedAgain(f) PROVE DbStep
  <1> DEFINE p == Proc[f]
  <1>1. p \in Procs /\ f \in FilesOf(p) /\ ProcInv(p) /\ TypeOK /\ Held(f) = NoLock
    BY ProcOf DEF UnixLockInv, LockSharedAgain, Idle, Held
  <1>2. \A g \in Files : Held(g)' = IF g = f THEN Shared ELSE Held(g)
    BY <1>1 DEF LockSharedAgain, Idle, Level, Held, TypeOK
  <1>3. ino[p].lvl \in {Shared, Reserved}
    BY DEF LockSharedAgain
  <1>4. \A g \in FilesOf(p) : Held(g) < Pending
    BY <1>3, Levels DEF FilesOf, NoLock, Shared, Reserved, Pending, Exclusive
  <1>5. \E g \in FilesOf(p) : Held(g) # NoLock
    BY <1>1, <1>3 DEF ProcInv, Highest, NoLock, Shared, Reserved
  <1> QED BY <1>1, <1>2, <1>4, <1>5, SharedRefines DEF LockSharedAgain

LEMMA DropPendingRefines ==
    ASSUME UnixLockInv, NEW f \in Files, DropPending(f) PROVE DbStep
  <1> DEFINE p == Proc[f]
  <1>1. /\ p \in Procs /\ f \in FilesOf(p) /\ ProcInv(p) /\ TypeOK
        /\ lvl[f] = NoLock /\ ino[p].lvl = NoLock /\ os["pending"][p] = "read"
        /\ pc[f] # "range" /\ Held(f) = NoLock /\ Goto(f, "idle")
    BY ProcOf DEF UnixLockInv, DropPending, ProcInv, Midway, Held
  <1>2. os'["reserved"] = os["reserved"]
    BY <1>1 DEF DropPending, TypeOK, Bytes
  <1>3. CASE UNCHANGED lvl
    BY <1>1, <1>2, <1>3, WaitRefines
  <1>4. CASE Level(f, Shared)
    <2>1. \A g \in Files : Held(g)' = IF g = f THEN Shared ELSE Held(g)
      BY <1>1, <1>4 DEF Goto, Level, Held, TypeOK
    <2>2. \A g \in Files : Held(g) < Pending
      <3>1. \A g \in Files : Proc[g] # p => Held(g) < Pending
        BY <1>1, NoOtherPending
      <3>2. \A g \in Files : Proc[g] = p => Held(g) < Pending
        BY <1>1, Levels DEF NoLock, Pending, Exclusive
      <3> QED BY <3>1, <3>2
    <2> QED BY <1>1, <1>2, <2>1, <2>2, SharedRefines DEF FilesOf
  <1> QED BY <1>3, <1>4 DEF DropPending

LEMMA LockSharedRefines ==
    ASSUME UnixLockInv, NEW f \in Files,
           LockShared(f) \/ SharedRange(f) \/ LockPending(f) \/ Downgrade(f)
    PROVE  DbStep
  <1>1. /\ TypeOK /\ "pending" \in Bytes /\ "shared" \in Bytes /\ "reserved" \in Bytes
        /\ pc[f] # "range"
    BY DEF UnixLockInv, Bytes, LockShared, SharedRange, LockPending, Downgrade, Idle
  <1>2. os'["reserved"] = os["reserved"] /\ UNCHANGED lvl
    BY <1>1 DEF LockShared, SharedRange, LockPending, Downgrade, TypeOK
  <1>3. (\E l \in {"shared", "got", "missed", "exclusive", "bytes"} : Goto(f, l)) \/ UNCHANGED pc
    BY DEF LockShared, SharedRange, LockPending, Downgrade
  <1>4. CASE UNCHANGED pc
    BY <1>2, <1>4, Quiet DEF Held
  <1> QED BY <1>1, <1>2, <1>3, <1>4, WaitRefines

LEMMA LockReservedRefines ==
    ASSUME UnixLockInv, NEW f \in Files, LockReserved(f) PROVE DbStep
  <1> DEFINE p == Proc[f]
  <1>1. /\ p \in Procs /\ f \in FilesOf(p) /\ ProcInv(p) /\ TypeOK /\ Held(f) = Shared
        /\ pc[f] = "idle" /\ "reserved" \in Bytes
    BY ProcOf DEF UnixLockInv, LockReserved, Idle, Held, Bytes
  <1>2. ino[p].lvl = Shared
    BY <1>1, Levels DEF LockReserved, Precluded, NoLock, Shared, Reserved, Exclusive
  <1>3. \A g \in FilesOf(p) : Held(g) <= Shared
    BY <1>2, Levels DEF FilesOf
  <1>4. \A g \in Files : Held(g)' = IF g = f THEN Reserved ELSE Held(g)
    BY <1>1 DEF LockReserved, Level, Held, TypeOK
  <1>5. /\ os'["reserved"][p] = "write"
        /\ \A q \in Procs \ {p} : os'["reserved"][q] = "none" /\ os["reserved"][q] = "none"
    BY <1>1 DEF LockReserved, CanWrite, TypeOK
  <1>6. Resv = {}
    BY <1>3, <1>5, ProcOf, Levels DEF Resv, FilesOf, NoLock, Shared, Exclusive
  <1>7. Resv' = {f}
    <2>1. f \in Resv'
      BY <1>1, <1>4, <1>5 DEF Resv, Shared, Reserved
    <2>2. ASSUME NEW g \in Files, g # f PROVE g \notin Resv'
      <3>1. CASE Proc[g] = p
        BY <1>3, <1>4, <2>2, <3>1, Levels DEF Resv, FilesOf, NoLock, Shared, Exclusive
      <3>2. CASE Proc[g] # p
        BY <1>5, <3>2, ProcOf DEF Resv
      <3> QED BY <3>1, <3>2
    <2> QED BY <2>1, <2>2 DEF Resv
  <1>8. D!CanReserve(f)
    BY <1>1, <1>3, <1>6, Mapped DEF D!CanReserve, Resv
  <1>9. D!LockReserved(f)
    BY <1>4, <1>7, <1>8, OneMoves, Mapped DEF D!LockReserved, Locks, Resv
  <1> QED BY <1>9 DEF DbStep, D!LockNext

\* A connection that asks for EXCLUSIVE may have PENDING, and rises to level l with
\* the RESERVED locks as they are.
LEMMA RiseRefines ==
    ASSUME UnixLockInv, NEW f \in Files, Asks(f), NEW l \in {Pending, Exclusive},
           Goto(f, "idle"), Level(f, l), os'["reserved"] = os["reserved"]
    PROVE  D!CanPend(f) /\ Locks' = [Locks EXCEPT ![f] = l] /\ Resv' = Resv
  <1> DEFINE p == Proc[f]
  <1>1. /\ p \in Procs /\ f \in FilesOf(p) /\ ProcInv(p) /\ TypeOK
        /\ lvl[f] \in {Shared, Reserved, Pending} /\ ino[p].lvl = lvl[f]
        /\ Held(f) = lvl[f] /\ os["pending"][p] = "write"
        /\ \A g \in FilesOf(p) : g # f => Held(g) <= Shared
    BY ProcOf, AsksKnows DEF UnixLockInv
  <1>2. \A g \in Files : Held(g)' = IF g = f THEN l ELSE Held(g)
    BY <1>1 DEF Goto, Level, Held, TypeOK
  <1>3. \A g \in Files : g # f => Held(g) < Pending
    <2>1. \A g \in Files : Proc[g] # p => Held(g) < Pending
      BY <1>1, NoOtherPending
    <2>2. \A g \in Files : Proc[g] = p /\ g # f => Held(g) < Pending
      BY <1>1, Levels DEF FilesOf, NoLock, Shared, Pending, Exclusive
    <2> QED BY <2>1, <2>2
  <1>4. D!CanPend(f)
    BY <1>1, <1>3, Mapped DEF D!CanPend
  <1>5. os["reserved"][p] # "none" => lvl[f] > Shared
    BY <1>1 DEF ProcInv, Backed
  <1>6. Resv' = Resv
    BY <1>1, <1>2, <1>5 DEF Resv, Shared, Pending, Exclusive
  <1> QED BY <1>2, <1>4, <1>6, OneMoves

LEMMA StayPendingRefines ==
    ASSUME UnixLockInv, NEW f \in Files, StayPending(f) PROVE DbStep
  <1>1. D!CanPend(f) /\ Locks' = [Locks EXCEPT ![f] = Pending] /\ Resv' = Resv
    BY RiseRefines DEF StayPending
  <1>2. D!LockPending(f)
    BY <1>1, Mapped DEF D!LockPending, Locks, Resv
  <1> QED BY <1>2 DEF DbStep, D!LockNext

LEMMA LockExclusiveRefines ==
    ASSUME UnixLockInv, NEW f \in Files, LockExclusive(f) PROVE DbStep
  <1> DEFINE p == Proc[f]
  <1>1. /\ p \in Procs /\ f \in FilesOf(p) /\ ProcInv(p) /\ TypeOK
        /\ "shared" \in Bytes /\ "reserved" \in Bytes /\ lvl[f] # NoLock
    BY ProcOf, AsksKnows DEF UnixLockInv, Bytes, LockExclusive, NoLock, Shared, Reserved, Pending
  <1>2. os'["reserved"] = os["reserved"]
    BY <1>1 DEF LockExclusive, TypeOK
  <1>3. D!CanPend(f) /\ Locks' = [Locks EXCEPT ![f] = Exclusive] /\ Resv' = Resv
    BY <1>2, RiseRefines DEF LockExclusive
  <1>4. \A g \in FilesOf(p) : g # f => Held(g) = NoLock
    <2>1. Cardinality(Holders(p)) <= 1 /\ f \in Holders(p)
      BY <1>1 DEF LockExclusive, Alone, ProcInv, Counted, Holders
    <2>2. Cardinality(Holders(p)) = 1
      BY <2>1, HoldersFinite, FS_CardinalityType, FS_EmptySet
    <2>3. Holders(p) = {f}
      BY <2>1, <2>2, HoldersFinite, FS_Singleton
    <2>4. \A g \in FilesOf(p) : g # f => pc[g] # "range"
      BY <1>1 DEF ProcInv, Midway, Asks, Idle, MutexFree, OneCall, Resting, FilesOf, LockExclusive
    <2> QED BY <2>3, <2>4 DEF Holders, Held
  <1>5. \A g \in Files : g # f => Held(g) = NoLock
    BY <1>1, <1>4, NoOtherShared DEF LockExclusive, Alone, FilesOf
  <1>6. D!LockExclusive(f)
    BY <1>3, <1>5, Mapped DEF D!LockExclusive, D!CanExclude, Locks, Resv
  <1> QED BY <1>6 DEF DbStep, D!LockNext

\* The PENDING and RESERVED bytes are released: the connection is at SHARED.
LEMMA ReleaseRefines ==
    ASSUME UnixLockInv, NEW f \in Files,
           DowngradeBytes(f) \/ Unlock(f)
    PROVE  DbStep
  <1> DEFINE p == Proc[f]
  <1>1. /\ p \in Procs /\ f \in FilesOf(p) /\ ProcInv(p) /\ TypeOK
        /\ Held(f) > Shared /\ pc[f] # "range"
    BY ProcOf DEF UnixLockInv, DowngradeBytes, Unlock, Idle, Held, ProcInv, Midway
  <1>2. CASE Goto(f, "idle") /\ UNCHANGED <<lvl, os>>
    BY <1>1, <1>2, WaitRefines
  <1>3. CASE /\ os' = [os EXCEPT !["pending"][p] = "none", !["reserved"][p] = "none"]
             /\ \/ Goto(f, "idle") /\ Level(f, Shared)
                \/ Goto(f, "range") /\ Level(f, lvl[f])
    <2>1. \A g \in Files : Held(g)' = IF g = f THEN Shared ELSE Held(g)
      BY <1>1, <1>3 DEF Goto, Level, Held, TypeOK
    <2>2. /\ os'["reserved"][p] = "none"
          /\ \A q \in Procs \ {p} : os'["reserved"][q] = os["reserved"][q]
      BY <1>1, <1>3 DEF TypeOK, Bytes
    <2>3. \A g \in FilesOf(p) : g # f => Held(g) <= Shared
      BY <1>1, OthersShared DEF ProcInv
    <2>4. Resv' = Resv \ {f}
      <3>1. ASSUME NEW g \in Files PROVE g \in Resv' <=> g \in Resv \ {f}
        <4>1. CASE Proc[g] = p
          BY <2>1, <2>2, <2>3, <4>1, Levels DEF Resv, FilesOf, NoLock, Shared, Exclusive
        <4>2. CASE Proc[g] # p
          BY <2>1, <2>2, <4>2, ProcOf DEF Resv
        <4> QED BY <4>1, <4>2
      <3> QED BY <3>1 DEF Resv
    <2>5. D!Downgrade(f)
      BY <1>1, <2>1, <2>4, OneMoves, Mapped DEF D!Downgrade, Locks, Resv
    <2> QED BY <2>5 DEF DbStep, D!LockNext
  <1> QED BY <1>2, <1>3 DEF DowngradeBytes, Unlock, Release

LEMMA UnlockRangeRefines ==
    ASSUME UnixLockInv, NEW f \in Files, UnlockRange(f) PROVE DbStep
  <1> DEFINE p == Proc[f]
             last == ino[p].nShared = 1
  <1>1. /\ p \in Procs /\ f \in FilesOf(p) /\ ProcInv(p) /\ TypeOK /\ PosixLocks
        /\ Held(f) = Shared /\ lvl[f] # NoLock /\ (pc[f] = "range" \/ Idle(f))
    BY ProcOf, SMTT(60) DEF UnixLockInv, UnlockRange, Idle, Held, ProcInv, Midway, NoLock, Shared
  <1>2. \A g \in Files : Held(g)' = IF g = f THEN NoLock ELSE Held(g)
    BY <1>1 DEF UnlockRange, Goto, Level, Held, TypeOK
  <1>3. last => \A g \in FilesOf(p) : g # f => Held(g) = NoLock
    <2>1. SUFFICES ASSUME last PROVE \A g \in FilesOf(p) : g # f => Held(g) = NoLock
      OBVIOUS
    <2>2. Cardinality(Holders(p)) = 1 /\ f \in Holders(p)
      BY <1>1, <2>1 DEF ProcInv, Counted, Holders
    <2>3. Holders(p) = {f}
      BY <2>2, HoldersFinite, FS_Singleton
    <2>4. \A g \in FilesOf(p) : g # f => pc[g] # "range"
      BY <1>1 DEF ProcInv, OneCall, Idle, MutexFree, Resting, FilesOf
    <2> QED BY <2>3, <2>4 DEF Holders, Held
  <1>4. Resv' = Resv /\ f \notin Resv
    <2>1. UNCHANGED os \/ (last /\ os' = DropAll(p))
      BY DEF UnlockRange
    <2>2. CASE UNCHANGED os
      BY <1>1, <1>2, <2>2 DEF Resv, NoLock, Shared
    <2>3. CASE last /\ os' = DropAll(p)
      <3>1. \A q \in Procs : q # p => os'["reserved"][q] = os["reserved"][q]
        BY <1>1, <2>3, DropAllPosix DEF Bytes
      <3>2. ASSUME NEW g \in Files PROVE (g \in Resv' <=> g \in Resv) /\ f \notin Resv
        <4>1. CASE Proc[g] = p
          BY <1>1, <1>2, <1>3, <2>3, <4>1 DEF Resv, FilesOf, NoLock, Shared
        <4>2. CASE Proc[g] # p
          BY <1>1, <1>2, <3>1, <4>2, ProcOf DEF Resv, NoLock, Shared
        <4> QED BY <4>1, <4>2
      <3> QED BY <3>2 DEF Resv
    <2> QED BY <2>1, <2>2, <2>3
  <1>5. D!Unlock(f)
    BY <1>2, <1>4, OneMoves, Mapped DEF D!Unlock, Locks, Resv
  <1>6. Locks[f] # D!NoLock
    BY <1>1, Mapped DEF Locks, NoLock, Shared
  <1> QED BY <1>5, <1>6 DEF DbStep, D!LockNext, Locks

\* The last unixFile of a process is closed, or the process ends.
LEMMA DropRefines ==
    ASSUME UnixLockInv, NEW p \in Procs, os' = DropAll(p),
           \A g \in Files : Held(g)' = IF Proc[g] = p THEN NoLock ELSE Held(g)
    PROVE  DbStep
  <1>1. \A q \in Procs : q # p => os'["reserved"][q] = os["reserved"][q]
    BY DropAllPosix DEF UnixLockInv, Bytes
  <1>2. Resv' = Resv \ FilesOf(p)
    <2>1. ASSUME NEW g \in Files PROVE g \in Resv' <=> g \in Resv \ FilesOf(p)
      <3>1. CASE Proc[g] = p
        BY <3>1 DEF Resv, FilesOf, NoLock, Shared
      <3>2. CASE Proc[g] # p
        BY <1>1, <3>2, ProcOf DEF Resv, FilesOf
      <3> QED BY <3>1, <3>2
    <2> QED BY <2>1 DEF Resv
  <1>3. Locks' = [g \in Files |-> IF g \in FilesOf(p) THEN NoLock ELSE Locks[g]]
    BY DEF Locks, FilesOf
  <1>4. D!UnlockAll(FilesOf(p))
    BY <1>2, <1>3, Mapped DEF D!UnlockAll, Locks, Resv
  <1>5. FilesOf(p) \in SUBSET Files
    BY DEF FilesOf
  <1> QED BY <1>4, <1>5 DEF DbStep, D!LockNext

LEMMA KillRefines == ASSUME UnixLockInv, NEW p \in Procs, Kill(p) PROVE DbStep
  <1>1. \A g \in Files : Held(g)' = IF Proc[g] = p THEN NoLock ELSE Held(g)
    BY DEF Kill, Held
  <1> QED BY <1>1, DropRefines DEF Kill

LEMMA CloseRefines ==
    ASSUME UnixLockInv, NEW f \in Files, Close(f) \/ CloseLocked(f) PROVE DbStep
  <1> DEFINE p == Proc[f]
  <1>1. /\ p \in Procs /\ f \in FilesOf(p) /\ ProcInv(p) /\ TypeOK /\ PosixLocks
        /\ ino[p] \in Inode /\ Idle(f) /\ CloseFile(f) /\ ino[p].nRef \in Nat \ {0}
        /\ \E S : Gone(f, S)
    BY ProcOf, RefsPositive DEF UnixLockInv, TypeOK, Close, CloseLocked
  <1>2. CASE ino[p].nRef = 1
    <2>1. os' = DropAll(p)
      BY <1>1, <1>2 DEF CloseFile, Inode, MustWait
    <2>2. Refs(p) = {f}
      <3>1. f \in Refs(p)
        BY <1>1 DEF Idle, Refs
      <3>2. \E x : Refs(p) = {x}
        BY <1>1, <1>2, HoldersFinite, FS_Singleton DEF ProcInv, Counted
      <3> QED BY <3>1, <3>2
    <2>3. \A g \in Files : Held(g)' = IF Proc[g] = p THEN NoLock ELSE Held(g)
      <3>1. \A g \in FilesOf(p) : g # f => pc[g] \in {"closed", "opening", "leaked"}
        BY <2>2 DEF Refs
      <3>2. \A g \in FilesOf(p) : g # f /\ pc[g] # "leaked" => lvl[g] = NoLock
        BY <1>1, <3>1 DEF ProcInv, Counted
      <3>3. /\ \A g \in FilesOf(p) : lvl'[g] = NoLock /\ pc'[g] # "range"
            /\ \A g \in Files : Proc[g] # p => lvl'[g] = lvl[g] /\ pc'[g] = pc[g]
        BY <1>1, <1>2, <3>1, <3>2 DEF Gone, FilesOf
      <3> QED BY <3>3 DEF Held, FilesOf
    <2> QED BY <1>1, <2>1, <2>3, DropRefines
  <1>3. CASE ino[p].nRef # 1
    <2>1. /\ \A g \in Files : lvl'[g] = lvl[g]
          /\ \A g \in Files : g # f => pc'[g] = pc[g]
          /\ pc'[f] # "range" /\ pc[f] # "range"
      <3>1. ino[p].nRef > 1
        BY <1>1, <1>3
      <3>2. CASE Close(f)
        BY <3>1, <3>2 DEF Close, Gone, Idle
      <3>3. CASE CloseLocked(f)
        BY <3>1, <3>3 DEF CloseLocked, Gone, Idle
      <3> QED BY <3>2, <3>3
    <2>2. \A g \in Files : Held(g)' = Held(g)
      BY <2>1 DEF Held
    <2>3. CASE MustWait(p)
      BY <1>1, <1>3, <2>2, <2>3, Quiet DEF CloseFile
    <2>4. CASE ~MustWait(p)
      <3>1. os' = DropAll(p) /\ ino[p].nLock = 0
        BY <1>1, <2>4 DEF CloseFile, MustWait, Inode
      <3>2. Holders(p) = {}
        BY <1>1, <3>1, HoldersFinite, FS_EmptySet DEF ProcInv, Counted
      <3>3. \A g \in FilesOf(p) : Held(g) = NoLock
        BY <1>1, <3>2 DEF Holders, Held, Idle, MutexFree, FilesOf
      <3>4. \A q \in Procs : q # p => os'["reserved"][q] = os["reserved"][q]
        BY <1>1, <3>1, DropAllPosix DEF Bytes
      <3> QED BY <2>2, <3>3, <3>4, Quiet, ProcOf DEF FilesOf, NoLock, Shared
    <2> QED BY <2>3, <2>4
  <1> QED BY <1>2, <1>3

LEMMA NextRefines == UnixLockInv /\ [Next]_vars => [D!LockNext]_(D!lockVars)
  <1> SUFFICES ASSUME UnixLockInv, [Next]_vars PROVE DbStep
    BY DEF DbStep, D!lockVars, Locks, Resv
  <1>1. ASSUME NEW f \in Files,
               Open(f) \/ OpenInode(f) \/ OpenFails(f) \/ Close(f) \/ CloseLocked(f)
        PROVE  DbStep
    BY <1>1, OpenRefines, CloseRefines
  <1>2. ASSUME NEW f \in Files,
               LockSharedAgain(f) \/ LockShared(f) \/ SharedRange(f) \/ DropPending(f)
        PROVE  DbStep
    BY <1>2, LockSharedAgainRefines, LockSharedRefines, DropPendingRefines
  <1>3. ASSUME NEW f \in Files,
               LockReserved(f) \/ LockPending(f) \/ LockExclusive(f) \/ StayPending(f)
        PROVE  DbStep
    BY <1>3, LockReservedRefines, LockSharedRefines, LockExclusiveRefines, StayPendingRefines
  <1>4. ASSUME NEW f \in Files,
               Downgrade(f) \/ DowngradeBytes(f) \/ Unlock(f) \/ UnlockRange(f)
        PROVE  DbStep
    BY <1>4, LockSharedRefines, ReleaseRefines, UnlockRangeRefines
  <1>5. ASSUME NEW p \in Procs, Kill(p) PROVE DbStep
    BY <1>5, KillRefines
  <1>6. CASE UNCHANGED vars
    BY <1>6, Quiet DEF vars, Held
  <1> QED BY <1>1, <1>2, <1>3, <1>4, <1>5, <1>6 DEF Next

\* os_unix.c implements the locks that the pager counts on: for any connections in
\* any processes, and wherever fcntl calls interleave, fail or are cut short, every
\* step is a step of DbLock or changes no lock.
THEOREM SpecImplementsDbLock == Spec => ImplementsDbLock
  <1> QED BY SpecInv, InitRefines, NextRefines, PTL DEF Spec, ImplementsDbLock, D!LockSpec

\* What DbLock keeps true of its two variables, Locks and Resv here: the locks of two
\* connections exclude each other, and who has RESERVED stands above SHARED.
DbInv ==
    /\ Locks \in [Files -> D!NoLock..D!Exclusive]
    /\ Resv \subseteq Files
    /\ \A f, g \in Files : f # g =>
          /\ Locks[f] = D!Exclusive => Locks[g] = D!NoLock
          /\ Locks[f] >= D!Pending => Locks[g] < D!Pending
          /\ f \in Resv => g \notin Resv
    /\ \A f \in Resv : Locks[f] > D!Shared

\* The operations that take a lock keep it.
LEMMA TakeKeepsDbInv ==
    ASSUME DbInv, NEW f \in Files,
           D!LockShared(f) \/ D!LockReserved(f) \/ D!LockPending(f) \/ D!LockExclusive(f)
    PROVE  DbInv'
  <1> USE DEF DbInv, D!NoLock, D!Shared, D!Reserved, D!Pending, D!Exclusive, D!Others, D!Siblings
  <1>1. CASE D!LockShared(f)
    <2>1. Locks' = [Locks EXCEPT ![f] = 1] /\ Resv' = Resv /\ Locks[f] = 0
      BY <1>1 DEF D!LockShared, D!CanShare, Locks, Resv
    <2>2. \A g \in Files : Locks[g] # 4
      BY <1>1 DEF D!LockShared, D!CanShare, Locks, Resv
    <2> QED BY <2>1, <2>2
  <1>2. CASE D!LockReserved(f)
    <2>1. Locks' = [Locks EXCEPT ![f] = 2] /\ Resv' = {f} /\ Locks[f] = 1
      BY <1>2 DEF D!LockReserved, D!CanReserve, Locks, Resv
    <2> QED BY <2>1
  <1>3. CASE D!LockPending(f)
    <2>1. Locks' = [Locks EXCEPT ![f] = 3] /\ Resv' = Resv /\ Locks[f] \in 1..3
      BY <1>3 DEF D!LockPending, D!CanPend, Locks, Resv
    <2>2. \A g \in Files : g # f => Locks[g] < 3
      BY <1>3 DEF D!LockPending, D!CanPend, Locks, Resv
    <2> QED BY <2>1, <2>2
  <1>4. CASE D!LockExclusive(f)
    <2>1. Locks' = [Locks EXCEPT ![f] = 4] /\ Resv' = Resv
      BY <1>4 DEF D!LockExclusive, Locks, Resv
    <2>2. \A g \in Files : g # f => Locks[g] = 0
      BY <1>4 DEF D!LockExclusive, D!CanExclude, Locks, Resv
    <2> QED BY <2>1, <2>2
  <1> QED BY <1>1, <1>2, <1>3, <1>4

\* So do those that give locks up.
LEMMA GiveKeepsDbInv ==
    ASSUME DbInv,
           \/ \E f \in Files : D!Downgrade(f) \/ D!Unlock(f)
           \/ \E S \in SUBSET Files : D!UnlockAll(S)
    PROVE  DbInv'
  <1> USE DEF DbInv, D!NoLock, D!Shared, D!Reserved, D!Pending, D!Exclusive
  <1>1. ASSUME NEW f \in Files, D!Downgrade(f) PROVE DbInv'
    <2>1. Locks' = [Locks EXCEPT ![f] = 1] /\ Resv' = Resv \ {f} /\ Locks[f] > 1
      BY <1>1 DEF D!Downgrade, Locks, Resv
    <2> QED BY <2>1
  <1>2. ASSUME NEW f \in Files, D!Unlock(f) PROVE DbInv'
    <2>1. Locks' = [Locks EXCEPT ![f] = 0] /\ Resv' = Resv \ {f}
      BY <1>2 DEF D!Unlock, Locks, Resv
    <2> QED BY <2>1
  <1>3. ASSUME NEW S \in SUBSET Files, D!UnlockAll(S) PROVE DbInv'
    <2>1. Locks' = [g \in Files |-> IF g \in S THEN 0 ELSE Locks[g]] /\ Resv' = Resv \ S
      BY <1>3 DEF D!UnlockAll, Locks, Resv
    <2> QED BY <2>1
  <1> QED BY <1>1, <1>2, <1>3

LEMMA DbNextInv == DbInv /\ [D!LockNext]_(D!lockVars) => DbInv'
  <1> SUFFICES ASSUME DbInv, [D!LockNext]_(D!lockVars) PROVE DbInv'
    OBVIOUS
  <1>1. CASE UNCHANGED D!lockVars
    <2>1. Locks' = Locks /\ Resv' = Resv
      BY <1>1 DEF D!lockVars, Locks, Resv
    <2> QED BY <2>1 DEF DbInv, D!NoLock, D!Shared, D!Pending, D!Exclusive
  <1>2. CASE D!LockNext
    BY <1>2, TakeKeepsDbInv, GiveKeepsDbInv DEF D!LockNext
  <1> QED BY <1>1, <1>2

\* Two connections never have EXCLUSIVE and another lock together, nor PENDING, nor
\* RESERVED, whichever processes they are of: what DbLock promises holds of os_unix.c.
THEOREM SpecExclusion == Spec => []D!Exclusion
  <1>1. D!LockInit => DbInv
    BY DEF D!LockInit, DbInv, Locks, Resv, D!NoLock, D!Shared, D!Pending, D!Exclusive
  <1>2. DbInv => D!Exclusion
    BY DEF DbInv, D!Exclusion, Locks, Resv
  <1> QED BY <1>1, <1>2, DbNextInv, SpecImplementsDbLock, PTL DEF ImplementsDbLock, D!LockSpec
=============================================================================
