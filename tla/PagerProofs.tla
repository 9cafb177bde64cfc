---------------------------- MODULE PagerProofs ----------------------------
(***************************************************************************)
(* The lock states of DbLock exclude what they are there to exclude, for   *)
(* any number of connections spread over any processes.  Exclusion needs   *)
(* to know besides that who has RESERVED stands above SHARED.              *)
(*                                                                         *)
(* The pager uses these locks as they are meant to be used: each of its    *)
(* steps does to them what one of DbLock's operations does, or nothing.    *)
(* What DbLock promises therefore holds in every pager, of any number of   *)
(* connections and pages and with any faults.                              *)
(*                                                                         *)
(* From where each pager is, and from the lock its writing rests on, it    *)
(* then follows that the database changes under EXCLUSIVE only.            *)
(***************************************************************************)
EXTENDS Pager, TLAPS

LockType == lock \in [Conns -> NoLock..Exclusive] /\ resv \subseteq Conns
LockInv ==
    /\ LockType
    /\ Exclusion
    /\ \A c \in resv : lock[c] > Shared

LEMMA LockInitInv == LockInit => LockInv
  BY DEF LockInit, LockInv, LockType, Exclusion, NoLock, Shared, Exclusive, Pending

\* Each of the operations keeps the invariant.
LEMMA LockSharedInv == ASSUME LockInv, NEW c \in Conns, LockShared(c) PROVE LockInv'
  <1> USE DEF LockInv, LockType, LockShared, NoLock, Shared, Reserved, Pending, Exclusive
  <1>1. \A d \in Conns : lock[d] # Exclusive
    BY DEF CanShare, Others, Siblings, Exclusion
  <1>2. LockType'  OBVIOUS
  <1>3. Exclusion'  BY <1>1 DEF Exclusion
  <1>4. \A d \in resv' : lock'[d] > Shared  BY DEF CanShare
  <1> QED BY <1>2, <1>3, <1>4

LEMMA LockReservedInv == ASSUME LockInv, NEW c \in Conns, LockReserved(c) PROVE LockInv'
  <1> USE DEF LockInv, LockType, LockReserved, CanReserve, NoLock, Shared, Reserved, Pending, Exclusive
  <1>1. LockType'  OBVIOUS
  <1>2. Exclusion'  BY DEF Exclusion
  <1> QED BY <1>1, <1>2

LEMMA LockPendingInv == ASSUME LockInv, NEW c \in Conns, LockPending(c) PROVE LockInv'
  <1> USE DEF LockInv, LockType, LockPending, CanPend, Others, NoLock, Shared, Reserved, Pending, Exclusive
  <1>1. LockType'  OBVIOUS
  <1>2. ASSUME NEW d \in Conns, d # c PROVE lock[d] < Pending
    BY <1>2 DEF Exclusion
  <1>3. Exclusion'  BY <1>2 DEF Exclusion
  <1>4. \A d \in resv' : lock'[d] > Shared  OBVIOUS
  <1> QED BY <1>1, <1>3, <1>4

LEMMA LockExclusiveInv == ASSUME LockInv, NEW c \in Conns, LockExclusive(c) PROVE LockInv'
  <1> USE DEF LockInv, LockType, LockExclusive, CanExclude, Others, NoLock, Shared, Reserved, Pending, Exclusive
  <1>1. LockType'  OBVIOUS
  <1>2. Exclusion'  BY DEF Exclusion
  <1>3. \A d \in resv' : lock'[d] > Shared  OBVIOUS
  <1> QED BY <1>1, <1>2, <1>3

LEMMA DowngradeInv == ASSUME LockInv, NEW c \in Conns, Downgrade(c) PROVE LockInv'
  <1> USE DEF LockInv, LockType, Downgrade, NoLock, Shared, Reserved, Pending, Exclusive
  <1>1. LockType'  OBVIOUS
  <1>2. Exclusion'  BY DEF Exclusion
  <1>3. \A d \in resv' : lock'[d] > Shared  OBVIOUS
  <1> QED BY <1>1, <1>2, <1>3

LEMMA UnlockAllInv == ASSUME LockInv, NEW S, UnlockAll(S) PROVE LockInv'
  <1> USE DEF LockInv, LockType, UnlockAll, NoLock, Shared, Reserved, Pending, Exclusive
  <1>1. LockType'  OBVIOUS
  <1>2. Exclusion'  BY DEF Exclusion
  <1>3. \A d \in resv' : lock'[d] > Shared  OBVIOUS
  <1> QED BY <1>1, <1>2, <1>3

LEMMA UnlockInv == ASSUME LockInv, NEW c \in Conns, Unlock(c) PROVE LockInv'
  <1>1. UnlockAll({c})  BY DEF LockInv, LockType, Unlock, UnlockAll
  <1> QED BY <1>1, UnlockAllInv

LEMMA LockNextInv == LockInv /\ [LockNext]_lockVars => LockInv'
  <1> SUFFICES ASSUME LockInv, [LockNext]_lockVars PROVE LockInv'
    OBVIOUS
  <1>1. CASE \E c \in Conns : \/ LockShared(c) \/ LockReserved(c) \/ LockPending(c)
                              \/ LockExclusive(c) \/ Downgrade(c) \/ Unlock(c)
    BY <1>1, LockSharedInv, LockReservedInv, LockPendingInv, LockExclusiveInv,
       DowngradeInv, UnlockInv
  <1>2. CASE \E S \in SUBSET Conns : UnlockAll(S)
    BY <1>2, UnlockAllInv
  <1>3. CASE UNCHANGED lockVars
    BY <1>3 DEF lockVars, LockInv, LockType, Exclusion
  <1> QED BY <1>1, <1>2, <1>3 DEF LockNext

\* The invariant that Exclusion rests on.
LEMMA LockSpecInv == LockSpec => []LockInv
  <1> QED BY LockInitInv, LockNextInv, PTL DEF LockSpec

\* What sqlite3OsLock and sqlite3OsUnlock promise the pager: with any number of
\* connections EXCLUSIVE excludes every other lock, and at most one connection has
\* PENDING or more, and at most one RESERVED.
THEOREM LockSpecExclusion == LockSpec => []Exclusion
  <1>1. LockInv => Exclusion  BY DEF LockInv
  <1> QED BY LockSpecInv, <1>1, PTL

-----------------------------------------------------------------------------
\* The steps that take a lock.
LEMMA TakeStep ==
    ASSUME NEW c \in Conns,
           SharedLock(c) \/ HotExclusive(c) \/ Begin(c) \/ ExclusiveLock(c) \/ WaitExclusive(c)
    PROVE  [LockNext]_lockVars
  <1>1. CASE SharedLock(c)  BY <1>1 DEF SharedLock, LockNext
  <1>2. CASE HotExclusive(c)  BY <1>2 DEF HotExclusive, LockNext
  <1>3. CASE Begin(c)  BY <1>3 DEF Begin, LockNext
  <1>4. CASE ExclusiveLock(c)  BY <1>4 DEF ExclusiveLock, LockNext
  <1>5. CASE WaitExclusive(c)  BY <1>5 DEF WaitExclusive, LockNext
  <1> QED BY <1>1, <1>2, <1>3, <1>4, <1>5

\* Unlock is a step of DbLock also where there is nothing to unlock.
LEMMA UnlockStep == ASSUME NEW c \in Conns, LockType, Unlock(c) PROVE [LockNext]_lockVars
  <1>1. UnlockAll({c})  BY DEF LockType, Unlock, UnlockAll
  <1> QED BY <1>1 DEF LockNext

\* The steps that give one up.
LEMMA GiveStep ==
    ASSUME NEW c \in Conns, LockType,
           HotFail(c) \/ HotOpen(c) \/ EndRead(c) \/ EndTransaction(c) \/ FinalError(c) \/ Kill(c)
    PROVE  [LockNext]_lockVars
  <1>1. CASE HotFail(c)  BY <1>1, UnlockStep DEF HotFail
  <1>2. CASE HotOpen(c)  BY <1>2 DEF HotOpen, LockNext
  <1>3. CASE EndRead(c)  BY <1>3, UnlockStep DEF EndRead
  <1>4. CASE EndTransaction(c)  BY <1>4 DEF EndTransaction, LockNext
  <1>5. CASE FinalError(c)  BY <1>5 DEF FinalError, Failed, LockNext
  <1>6. CASE Kill(c)  BY <1>6 DEF Kill, LockNext
  <1> QED BY <1>1, <1>2, <1>3, <1>4, <1>5, <1>6

\* The other steps leave the locks alone.
LEMMA ReadStep ==
    ASSUME NEW c \in Conns, NEW p \in Pages,
           \/ JournalExists(c) \/ CheckReserved(c) \/ FirstByte(c) \/ Vers(c)
           \/ Read(c, p) \/ Evict(c, p) \/ Write(c, p) \/ Spill(c, p)
    PROVE  UNCHANGED lockVars
  BY DEF JournalExists, CheckReserved, FirstByte, Vers, Read, Evict, Write, Spill

LEMMA CommitStep ==
    ASSUME NEW c \in Conns,
           \/ CommitEmpty(c) \/ Commit(c) \/ Busy(c)
           \/ JournalSync(c) \/ WriteNRec(c) \/ JournalSync2(c)
           \/ WritePage(c) \/ PagesWritten(c) \/ DatabaseSync(c)
    PROVE  UNCHANGED lockVars
  BY DEF CommitEmpty, Commit, Busy, JournalSync, WriteNRec, JournalSync2,
         WritePage, PagesWritten, DatabaseSync

LEMMA EndStep ==
    ASSUME NEW c \in Conns,
           \/ Rollback(c) \/ PlayPage(c) \/ PlayEnd(c)
           \/ FinalNothing(c) \/ FinalDelete(c) \/ FinalTruncate(c)
           \/ FinalZero(c) \/ FinalSync(c) \/ WriteError(c) \/ PlayError(c)
    PROVE  UNCHANGED lockVars
  BY DEF Rollback, PlayPage, PlayEnd, FinalNothing, FinalDelete, FinalTruncate,
         FinalZero, FinalSync, WriteError, PlayError

LEMMA PowerLossStep == PowerLoss => [LockNext]_lockVars
  BY DEF PowerLoss, LockNext

LEMMA NextLockNext == LockType /\ [Next]_vars => [LockNext]_lockVars
  <1> SUFFICES ASSUME LockType, [Next]_vars PROVE [LockNext]_lockVars
    OBVIOUS
  <1>1. CASE UNCHANGED vars
    BY <1>1 DEF vars
  <1>2. CASE PowerLoss
    BY <1>2, PowerLossStep
  <1>3. ASSUME NEW c \in Conns,
               \/ SharedLock(c) \/ HotExclusive(c) \/ Begin(c) \/ ExclusiveLock(c)
               \/ WaitExclusive(c) \/ HotFail(c) \/ HotOpen(c) \/ EndRead(c)
               \/ EndTransaction(c) \/ FinalError(c) \/ Kill(c)
        PROVE  [LockNext]_lockVars
    BY <1>3, TakeStep, GiveStep
  <1>4. ASSUME NEW c \in Conns,
               \/ CommitEmpty(c) \/ Commit(c) \/ Busy(c)
               \/ JournalSync(c) \/ WriteNRec(c) \/ JournalSync2(c)
               \/ WritePage(c) \/ PagesWritten(c) \/ DatabaseSync(c)
        PROVE  UNCHANGED lockVars
    BY <1>4, CommitStep
  <1>5. ASSUME NEW c \in Conns,
               \/ Rollback(c) \/ PlayPage(c) \/ PlayEnd(c)
               \/ FinalNothing(c) \/ FinalDelete(c) \/ FinalTruncate(c)
               \/ FinalZero(c) \/ FinalSync(c) \/ WriteError(c) \/ PlayError(c)
        PROVE  UNCHANGED lockVars
    BY <1>5, EndStep
  <1>6. ASSUME NEW c \in Conns,
               \/ JournalExists(c) \/ CheckReserved(c) \/ FirstByte(c) \/ Vers(c)
               \/ \E p \in Pages : Read(c, p) \/ Evict(c, p) \/ Write(c, p) \/ Spill(c, p)
        PROVE  UNCHANGED lockVars
    BY <1>6, ReadStep DEF JournalExists, CheckReserved, FirstByte, Vers
  <1> QED BY <1>1, <1>2, <1>3, <1>4, <1>5, <1>6 DEF Next

LEMMA PagerLockInv == Spec => []LockInv
  <1>1. Init => LockInv  BY LockInitInv DEF Init
  <1>2. LockInv /\ [Next]_vars => LockInv'
    BY NextLockNext, LockNextInv DEF LockInv
  <1> QED BY <1>1, <1>2, PTL DEF Spec

\* The pager implements the lock specification: it takes and gives up locks in the
\* order the file locks allow, also when it fails, is killed or loses its power.
THEOREM PagerImplementsDbLock == Spec => LockSpec
  <1>1. Init => LockInit  BY DEF Init
  <1>2. LockInv /\ [Next]_vars => [LockNext]_lockVars
    BY NextLockNext DEF LockInv
  <1> QED BY <1>1, <1>2, PagerLockInv, PTL DEF Spec, LockSpec

\* While a connection has the EXCLUSIVE lock under which it writes to the database
\* file or plays a journal back, no other connection has any.
THEOREM PagerExclusion == Spec => []Exclusion
  BY PagerImplementsDbLock, LockSpecExclusion, PTL

-----------------------------------------------------------------------------
(* Who changes the database.                                               *)

\* Where a pager starts, where it ends.
Looking == {"access", "resv", "first", "excl", "hopen", "vers"}
Ending == {"fsync", "unlock"}
\* The pager is about to write to the database file, or has written to it in a
\* transaction that is not over.
Writing(r) ==
    \/ r.pc \in {"hopen", "jsync", "nrec", "jsync2", "flush", "dbsync"}
    \/ r.st \in {"dbmod", "finished"}
    \/ r.pc = "play" /\ r.st = "open"

\* No journal is open, or one that has been finalized and may be used again.
NoJournal(m, r) == r.jfd = 0 \/ (m # "delete" /\ r.joff = 0)

\* What is true of a pager r with lock l in journal mode m.  All that matters is in the
\* second line; the others say which states of a pager a step can meet.
PagerInv(l, m, r) ==
    /\ DOMAIN r = DOMAIN Fresh
    /\ Writing(r) => l = Exclusive
    /\ r.pc \in Looking => r.st = "open"
    /\ r.op = "hot" => r.pc \in {"play", "final"} \cup Ending
    /\ r.pc = "play" => r.op # "commit"
    /\ r.pc = "final" /\ r.op = "commit" => r.st \in {"finished", "locked"}
    /\ r.pc \in Ending => r.jfd = 0 \/ m # "delete"
    /\ r.st \in {"open", "reader", "locked"} /\ r.op # "hot" => NoJournal(m, r)

WriterInv ==
    /\ LockInv
    /\ DOMAIN pg = Conns
    /\ \A c \in Conns : PagerInv(lock[c], jmode[c], pg[c])

\* The fields of a Pager, for the proofs that go through its records.
LEMMA Fields ==
    DOMAIN Fresh = {"st", "pc", "op", "cache", "dirty", "sync", "vers", "inj", "jfd", "dsync",
                    "jhdr", "joff", "hdrless", "nrec", "cc", "txn", "todo", "spill"}
  BY DEF Fresh

LEMMA FreshInv == \A l, m : PagerInv(l, m, Fresh)
  BY DEF Fresh, PagerInv, Looking, Ending, Writing, NoJournal

\* pager_unlock leaves a pager that needs no lock.
LEMMA AtRestInv == ASSUME NEW r, DOMAIN r = DOMAIN Fresh PROVE \A l, m : PagerInv(l, m, AtRest(r))
  <1>1. CASE r.st = "error"
    BY <1>1, FreshInv DEF AtRest
  <1>2. CASE r.st # "error"
    BY <1>2 DEF AtRest, Fresh, PagerInv, Looking, Ending, Writing, NoJournal
  <1> QED BY <1>1, <1>2

\* A step of one connection leaves the others as they were.
LEMMA OneSteps ==
    ASSUME WriterInv, LockInv', NEW c \in Conns, jmode' = jmode,
           NEW r, Set(c, r), PagerInv(lock'[c], jmode[c], r),
           \A d \in Conns : d # c => lock'[d] = lock[d]
    PROVE  WriterInv'
  <1>1. DOMAIN pg' = Conns /\ pg'[c] = r /\ \A d \in Conns : d # c => pg'[d] = pg[d]
    BY DEF WriterInv, Set
  <1>2. ASSUME NEW d \in Conns PROVE PagerInv(lock'[d], jmode'[d], pg'[d])
    BY <1>1 DEF WriterInv
  <1> QED BY <1>1, <1>2 DEF WriterInv

\* The lock of a connection is its own business.
LEMMA OneLock ==
    ASSUME LockInv, NEW c \in Conns,
           \/ UNCHANGED lockVars
           \/ LockShared(c) \/ LockReserved(c) \/ LockPending(c) \/ LockExclusive(c)
           \/ Downgrade(c) \/ Unlock(c)
    PROVE  \A d \in Conns : d # c => lock'[d] = lock[d]
  BY DEF lockVars, LockShared, LockReserved, LockPending, LockExclusive, Downgrade, Unlock,
         LockInv, LockType

\* The steps of sqlite3PagerSharedLock.
LEMMA LookWriter ==
    ASSUME WriterInv, LockInv', NEW c \in Conns,
           SharedLock(c) \/ JournalExists(c) \/ CheckReserved(c) \/ FirstByte(c)
    PROVE  WriterInv'
  <1> DEFINE s == pg[c]
  <1>1. PICK pc \in {"access", "resv", "vers", "first", "excl"} : Goto(c, pc)
    BY DEF SharedLock, JournalExists, CheckReserved, FirstByte
  <1> DEFINE r == [s EXCEPT !.pc = pc]
  <1>2. Set(c, r) /\ PagerInv(lock[c], jmode[c], s)
    BY <1>1 DEF Goto, Set, WriterInv
  <1>3. jmode' = jmode /\ \A d \in Conns : d # c => lock'[d] = lock[d]
    BY OneLock DEF WriterInv, SharedLock, JournalExists, CheckReserved, FirstByte
  <1>4. s.st = "open" /\ s.op # "hot"
    BY <1>2 DEF SharedLock, JournalExists, CheckReserved, FirstByte, At, Idle, Looking, PagerInv, Ending
  <1>5. PagerInv(lock'[c], jmode[c], r)
    BY <1>2, <1>4, Fields DEF PagerInv, Looking, Ending, Writing, NoJournal
  <1> QED BY <1>2, <1>3, <1>5, OneSteps

LEMMA HotExclusiveWriter ==
    ASSUME WriterInv, LockInv', NEW c \in Conns, HotExclusive(c) PROVE WriterInv'
  <1> DEFINE s == pg[c]
  <1>1. PICK pc \in {"hopen", "fail"} : Goto(c, pc) /\ (pc = "hopen" => LockExclusive(c))
    BY DEF HotExclusive
  <1> DEFINE r == [s EXCEPT !.pc = pc]
  <1>2. Set(c, r) /\ PagerInv(lock[c], jmode[c], s) /\ s.pc = "excl"
    BY <1>1 DEF Goto, Set, WriterInv, HotExclusive, At
  <1>3. jmode' = jmode /\ \A d \in Conns : d # c => lock'[d] = lock[d]
    BY OneLock DEF WriterInv, HotExclusive
  <1>4. pc = "hopen" => lock'[c] = Exclusive
    BY <1>1 DEF LockExclusive, WriterInv, LockInv, LockType
  <1>5. PagerInv(lock'[c], jmode[c], r)
    BY <1>1, <1>2, <1>4, Fields DEF PagerInv, Looking, Ending, Writing, NoJournal
  <1> QED BY <1>2, <1>3, <1>5, OneSteps

LEMMA GiveUpWriter ==
    ASSUME WriterInv, LockInv', NEW c \in Conns, HotFail(c) \/ EndRead(c) PROVE WriterInv'
  <1>1. Set(c, AtRest(pg[c])) /\ jmode' = jmode /\ \A d \in Conns : d # c => lock'[d] = lock[d]
    BY OneLock DEF WriterInv, HotFail, EndRead
  <1>2. DOMAIN pg[c] = DOMAIN Fresh
    BY DEF WriterInv, PagerInv
  <1>3. PagerInv(lock'[c], jmode[c], AtRest(pg[c]))
    BY <1>2, AtRestInv
  <1> QED BY <1>1, <1>3, OneSteps

LEMMA HotOpenWriter ==
    ASSUME WriterInv, LockInv', NEW c \in Conns, HotOpen(c) PROVE WriterInv'
  <1> DEFINE s == pg[c]
  <1>1. PagerInv(lock[c], jmode[c], s) /\ s.pc = "hopen"
    BY DEF WriterInv, HotOpen, At
  <1>2. jmode' = jmode /\ \A d \in Conns : d # c => lock'[d] = lock[d]
    BY OneLock DEF WriterInv, HotOpen
  <1>3. PICK r : /\ Set(c, r) /\ DOMAIN r = DOMAIN s /\ r.st = s.st
                 /\ \/ r.pc = "vers" /\ r.op = s.op /\ r.jfd = s.jfd /\ r.joff = s.joff
                    \/ r.pc = "play" /\ r.op = "hot" /\ lock' = lock
    <2>1. CASE dir = 0
      <3>1. Set(c, [s EXCEPT !.pc = "vers"])
        BY <2>1 DEF HotOpen, Goto, Set
      <3> QED BY <1>1, <3>1, Fields DEF PagerInv
    <2>2. CASE dir # 0
      <3> DEFINE img == file[dir].now
                 list == PlayList(img, TRUE, Fresh)
                 r == [s EXCEPT !.pc = "play", !.op = "hot", !.jfd = dir,
                             !.jhdr = Size(img) + 1, !.joff = IF Hot(img) THEN 2 ELSE 0,
                             !.todo = list,
                             !.cache = IF list = <<>> THEN @ ELSE Fresh.cache]
      <3>1. Set(c, r) /\ lock' = lock
        BY <2>2 DEF HotOpen, lockVars
      <3> HIDE DEF img, list
      <3>2. DOMAIN r = DOMAIN s /\ r.st = s.st /\ r.pc = "play" /\ r.op = "hot"
        BY <1>1, Fields DEF PagerInv
      <3> QED BY <3>1, <3>2
    <2> QED BY <2>1, <2>2
  <1>4. PagerInv(lock'[c], jmode[c], r)
    BY <1>1, <1>3 DEF PagerInv, Looking, Ending, Writing, NoJournal
  <1> QED BY <1>2, <1>3, <1>4, OneSteps

LEMMA VersWriter ==
    ASSUME WriterInv, LockInv', NEW c \in Conns, Vers(c) PROVE WriterInv'
  <1> DEFINE s == pg[c]
  <1>1. PagerInv(lock[c], jmode[c], s) /\ s.pc = "vers" /\ UNCHANGED <<lockVars, jmode>>
    BY DEF WriterInv, Vers, At
  <1>2. PICK k, v : Set(c, [s EXCEPT !.pc = "idle", !.op = "none", !.st = "reader",
                              !.cache = k, !.vers = v])
    BY DEF Vers
  <1> DEFINE r == [s EXCEPT !.pc = "idle", !.op = "none", !.st = "reader", !.cache = k, !.vers = v]
  <1>3. PagerInv(lock'[c], jmode[c], r)
    BY <1>1, Fields DEF PagerInv, Looking, Ending, Writing, NoJournal
  <1> QED BY <1>1, <1>2, <1>3, OneSteps DEF lockVars

\* What pager_write changes of the Pager, as far as the invariant goes.
LEMMA PageWrittenIs ==
    ASSUME NEW r, DOMAIN r = DOMAIN Fresh, NEW p, NEW v
    PROVE  LET w == PageWritten(r, p, v)
           IN  /\ DOMAIN w = DOMAIN r /\ w.pc = r.pc /\ w.op = r.op /\ w.jfd = r.jfd
               /\ w.st = IF r.st = "locked" THEN "cachemod" ELSE r.st
  BY Fields DEF PageWritten, OpenedJournal

LEMMA PageWriter ==
    ASSUME WriterInv, LockInv', NEW c \in Conns, NEW p, Read(c, p) \/ Evict(c, p) \/ Write(c, p) \/ Spill(c, p)
    PROVE  WriterInv'
  <1> DEFINE s == pg[c]
  <1>1. PagerInv(lock[c], jmode[c], s) /\ UNCHANGED <<lockVars, jmode>>
    BY DEF WriterInv, Read, Evict, Write, Spill
  <1>2. CASE Read(c, p) \/ Evict(c, p)
    <2>1. PICK k : Set(c, [s EXCEPT !.cache = k])
      BY <1>2 DEF Read, Evict
    <2> DEFINE r == [s EXCEPT !.cache = k]
    <2>2. PagerInv(lock'[c], jmode[c], r)
      BY <1>1, Fields DEF PagerInv, Looking, Ending, Writing, NoJournal, lockVars
    <2> QED BY <1>1, <2>1, <2>2, OneSteps DEF lockVars
  <1>3. CASE Write(c, p)
    <2> DEFINE i == OpenInode(c)
               new == [t |-> s.txn, cc |-> View(c, p).cc]
               w == PageWritten(s, p, new)
               r == [w EXCEPT !.jfd = i, !.dsync = @ \/ s.jfd = 0]
    <2>1. Set(c, r) /\ s.pc = "idle" /\ s.st \in {"locked", "cachemod", "dbmod"}
      BY <1>3 DEF Write, Idle
    <2> HIDE DEF i, new
    <2>2. /\ DOMAIN w = DOMAIN s /\ w.pc = s.pc /\ w.op = s.op
          /\ w.st = IF s.st = "locked" THEN "cachemod" ELSE s.st
      BY <1>1, PageWrittenIs DEF PagerInv
    <2> HIDE DEF w
    <2>3. PagerInv(lock'[c], jmode[c], r)
      BY <1>1, <2>1, <2>2, Fields DEF PagerInv, Looking, Ending, Writing, NoJournal, lockVars
    <2> QED BY <1>1, <2>1, <2>3, OneSteps DEF lockVars
  <1>4. CASE Spill(c, p)
    <2>1. PICK pc : /\ Set(c, [s EXCEPT !.op = "spill", !.spill = p, !.todo = <<p>>, !.pc = pc])
                    /\ pc = "xlock" \/ (pc = "flush" /\ s.st # "cachemod")
      BY <1>4 DEF Spill
    <2> DEFINE r == [s EXCEPT !.op = "spill", !.spill = p, !.todo = <<p>>, !.pc = pc]
    <2>2. s.st \in {"cachemod", "dbmod"}
      BY <1>4 DEF Spill, Idle
    <2>3. PagerInv(lock'[c], jmode[c], r)
      BY <1>1, <2>1, <2>2, Fields DEF PagerInv, Looking, Ending, Writing, NoJournal, lockVars
    <2> QED BY <1>1, <2>1, <2>3, OneSteps DEF lockVars
  <1> QED BY <1>2, <1>3, <1>4

LEMMA BeginWriter ==
    ASSUME WriterInv, LockInv', NEW c \in Conns, Begin(c) \/ CommitEmpty(c) \/ Busy(c) \/ Rollback(c)
    PROVE  WriterInv'
  <1> DEFINE s == pg[c]
  <1>1. PagerInv(lock[c], jmode[c], s) /\ jmode' = jmode /\ \A d \in Conns : d # c => lock'[d] = lock[d]
    BY OneLock DEF WriterInv, Begin, CommitEmpty, Busy, Rollback
  <1>2. CASE Begin(c)
    <2> DEFINE r == [s EXCEPT !.st = "locked", !.joff = 0, !.txn = txns + 1]
    <2>1. Set(c, r) /\ s.pc = "idle" /\ s.st = "reader"
      BY <1>2 DEF Begin, Idle
    <2>2. PagerInv(lock'[c], jmode[c], r)
      BY <1>1, <2>1, Fields DEF PagerInv, Looking, Ending, Writing, NoJournal
    <2> QED BY <1>1, <2>1, <2>2, OneSteps
  <1>3. CASE CommitEmpty(c)
    <2> DEFINE r == [s EXCEPT !.pc = "final", !.op = "commit"]
    <2>1. Set(c, r) /\ s.pc = "idle" /\ s.st = "locked"
      BY <1>3 DEF CommitEmpty, Idle
    <2>2. PagerInv(lock'[c], jmode[c], r)
      BY <1>1, <2>1, Fields DEF PagerInv, Looking, Ending, Writing, NoJournal
    <2> QED BY <1>1, <2>1, <2>2, OneSteps
  <1>4. CASE Busy(c)
    <2> DEFINE r == [s EXCEPT !.pc = "idle", !.op = "none", !.spill = 0, !.todo = <<>>]
    <2>1. Set(c, r) /\ s.pc = "xlock" /\ lock' = lock
      BY <1>4 DEF Busy, At, lockVars
    <2>2. PagerInv(lock'[c], jmode[c], r)
      BY <1>1, <2>1, Fields DEF PagerInv, Looking, Ending, Writing, NoJournal
    <2> QED BY <1>1, <2>1, <2>2, OneSteps
  <1>5. CASE Rollback(c)
    <2>1. s.pc = "idle" /\ s.st \in {"locked", "cachemod", "dbmod"} /\ lock' = lock
      BY <1>5 DEF Rollback, Idle, lockVars
    <2>2. PICK r : /\ Set(c, r) /\ DOMAIN r = DOMAIN s /\ r.op = "rollback"
                   /\ r.st = s.st /\ r.jfd = s.jfd /\ r.joff = s.joff
                   /\ r.pc \in {"play", "final"}
      <3>1. DOMAIN s = DOMAIN Fresh  BY <1>1 DEF PagerInv
      <3>2. CASE s.st = "locked"
        <4> DEFINE r == [s EXCEPT !.pc = "final", !.op = "rollback"]
        <4>1. Set(c, r)  BY <1>5, <3>2 DEF Rollback
        <4>2. /\ DOMAIN r = DOMAIN s /\ r.op = "rollback" /\ r.pc = "final"
              /\ r.st = s.st /\ r.jfd = s.jfd /\ r.joff = s.joff
          BY <3>1, Fields
        <4> QED BY <4>1, <4>2
      <3>3. CASE s.st # "locked"
        <4>1. PICK l : Set(c, [s EXCEPT !.pc = "play", !.op = "rollback", !.spill = 0, !.todo = l])
          BY <1>5, <3>3 DEF Rollback, Undo
        <4> DEFINE r == [s EXCEPT !.pc = "play", !.op = "rollback", !.spill = 0, !.todo = l]
        <4>2. /\ DOMAIN r = DOMAIN s /\ r.op = "rollback" /\ r.pc = "play"
              /\ r.st = s.st /\ r.jfd = s.jfd /\ r.joff = s.joff
          BY <3>1, Fields
        <4> QED BY <4>1, <4>2
      <3> QED BY <3>2, <3>3
    <2>3. PagerInv(lock'[c], jmode[c], r)
      BY <1>1, <2>1, <2>2 DEF PagerInv, Looking, Ending, Writing, NoJournal
    <2> QED BY <1>1, <2>2, <2>3, OneSteps
  <1> QED BY <1>2, <1>3, <1>4, <1>5

LEMMA CommitWriter ==
    ASSUME WriterInv, LockInv', NEW c \in Conns, Commit(c) PROVE WriterInv'
  <1> DEFINE s == pg[c]
             w == IF s.cc THEN s ELSE PageWritten(s, 1, Counted(s))
  <1>1. /\ PagerInv(lock[c], jmode[c], s) /\ UNCHANGED <<lockVars, jmode>>
        /\ s.st \in {"cachemod", "dbmod"}
    BY DEF WriterInv, Commit, Idle
  <1>2. PICK l : Set(c, [w EXCEPT !.pc = "xlock", !.op = "commit", !.spill = 0, !.cc = TRUE,
                           !.todo = l])
    BY DEF Commit
  <1>3. DOMAIN w = DOMAIN Fresh /\ w.st = s.st
    BY <1>1, PageWrittenIs DEF PagerInv
  <1> HIDE DEF w
  <1> DEFINE r == [w EXCEPT !.pc = "xlock", !.op = "commit", !.spill = 0, !.cc = TRUE, !.todo = l]
  <1>4. PagerInv(lock'[c], jmode[c], r)
    BY <1>1, <1>3, Fields DEF PagerInv, Looking, Ending, Writing, NoJournal, lockVars
  <1> QED BY <1>1, <1>2, <1>4, OneSteps DEF lockVars

LEMMA ExclusiveLockWriter ==
    ASSUME WriterInv, LockInv', NEW c \in Conns, ExclusiveLock(c) PROVE WriterInv'
  <1> DEFINE s == pg[c]
             r == [s EXCEPT !.pc = "jsync"]
  <1>1. PagerInv(lock[c], jmode[c], s) /\ s.pc = "xlock" /\ jmode' = jmode /\ Set(c, r)
    BY DEF WriterInv, ExclusiveLock, Goto, Set, At
  <1>2. lock'[c] = Exclusive /\ \A d \in Conns : d # c => lock'[d] = lock[d]
    BY OneLock DEF WriterInv, ExclusiveLock, LockExclusive, LockInv, LockType, lockVars
  <1>3. PagerInv(lock'[c], jmode[c], r)
    BY <1>1, <1>2, Fields DEF PagerInv, Looking, Ending, Writing, NoJournal
  <1> QED BY <1>1, <1>2, <1>3, OneSteps

LEMMA WaitExclusiveWriter ==
    ASSUME WriterInv, LockInv', NEW c \in Conns, WaitExclusive(c) PROVE WriterInv'
  <1>1. /\ PagerInv(lock[c], jmode[c], pg[c]) /\ jmode' = jmode /\ pg' = pg
        /\ lock[c] < Pending /\ \A d \in Conns : d # c => lock'[d] = lock[d]
    BY OneLock DEF WriterInv, WaitExclusive
  <1>2. PagerInv(lock'[c], jmode[c], pg[c])
    BY <1>1 DEF PagerInv, Pending, Exclusive
  <1> QED BY <1>1, <1>2 DEF WriterInv

\* The steps of a connection that has EXCLUSIVE and writes.
LEMMA SyncWriter ==
    ASSUME WriterInv, LockInv', NEW c \in Conns,
           \/ JournalSync(c) \/ WriteNRec(c) \/ JournalSync2(c)
           \/ WritePage(c) \/ PagesWritten(c) \/ DatabaseSync(c)
    PROVE  WriterInv'
  <1> DEFINE s == pg[c]
  <1>1. PagerInv(lock[c], jmode[c], s) /\ UNCHANGED <<lockVars, jmode>>
    BY DEF WriterInv, JournalSync, WriteNRec, JournalSync2, WritePage, PagesWritten, DatabaseSync
  <1>2. s.pc \in {"jsync", "nrec", "jsync2", "flush", "dbsync"} /\ lock[c] = Exclusive
    BY <1>1 DEF JournalSync, WriteNRec, JournalSync2, WritePage, PagesWritten, DatabaseSync, At,
                PagerInv, Writing
  <1>3. PICK r : /\ Set(c, r) /\ DOMAIN r = DOMAIN s /\ r.jfd = s.jfd
                 /\ \/ r.pc \in {"nrec", "jsync2", "flush", "dbsync"} /\ r.op = s.op
                    \/ r.pc = "idle" /\ r.op = "none"
                    \/ r.pc = "final" /\ r.st = "finished" /\ r.op = s.op
                 /\ \/ r.st = s.st /\ r.joff = s.joff
                    \/ r.st \in {"dbmod", "finished"}
    <2>1. DOMAIN s = DOMAIN Fresh  BY <1>1 DEF PagerInv
    <2>2. CASE JournalSync(c)
      <3> DEFINE r == [s EXCEPT !.pc = "nrec", !.dsync = @ /\ ~FullSync]
      <3>1. Set(c, r)  BY <2>2 DEF JournalSync
      <3>2. /\ DOMAIN r = DOMAIN s /\ r.jfd = s.jfd /\ r.pc = "nrec"
            /\ r.op = s.op /\ r.st = s.st /\ r.joff = s.joff
        BY <2>1, Fields
      <3> QED BY <3>1, <3>2
    <2>3. CASE WriteNRec(c)
      <3>1. Set(c, [s EXCEPT !.pc = "jsync2"])  BY <2>3 DEF WriteNRec, Goto, Set
      <3> QED BY <2>1, <3>1, Fields
    <2>4. CASE JournalSync2(c)
      <3> DEFINE t == [s EXCEPT !.pc = "flush", !.st = "dbmod", !.sync = {}, !.dsync = FALSE,
                               !.jhdr = s.joff, !.hdrless = ~(s.spill # 0)]
      <3>1. Set(c, IF s.spill # 0 THEN [t EXCEPT !.joff = @ + 1, !.nrec = 0] ELSE t)
        BY <2>4 DEF JournalSync2
      <3>2. CASE s.spill # 0
        <4> DEFINE r == [t EXCEPT !.joff = @ + 1, !.nrec = 0]
        <4>1. Set(c, r)  BY <3>1, <3>2
        <4>2. DOMAIN r = DOMAIN s /\ r.jfd = s.jfd /\ r.pc = "flush" /\ r.st = "dbmod" /\ r.op = s.op
          BY <2>1, Fields
        <4> QED BY <4>1, <4>2
      <3>3. CASE s.spill = 0
        <4>1. Set(c, t)  BY <3>1, <3>3
        <4>2. DOMAIN t = DOMAIN s /\ t.jfd = s.jfd /\ t.pc = "flush" /\ t.st = "dbmod" /\ t.op = s.op
          BY <2>1, Fields
        <4> QED BY <4>1, <4>2
      <3> QED BY <3>2, <3>3
    <2>5. CASE WritePage(c)
      <3>1. PICK l, v : Set(c, [s EXCEPT !.todo = l, !.vers = v]) /\ s.pc = "flush"
        BY <2>5 DEF WritePage, At
      <3> DEFINE r == [s EXCEPT !.todo = l, !.vers = v]
      <3>2. /\ DOMAIN r = DOMAIN s /\ r.jfd = s.jfd /\ r.pc = "flush"
            /\ r.op = s.op /\ r.st = s.st /\ r.joff = s.joff
        BY <2>1, <3>1, Fields
      <3> QED BY <3>1, <3>2
    <2>6. CASE PagesWritten(c)
      <3>1. CASE s.op = "spill"
        <4> DEFINE r == [s EXCEPT !.pc = "idle", !.op = "none", !.spill = 0, !.dirty = @ \ {s.spill}]
        <4>1. Set(c, r)  BY <2>6, <3>1 DEF PagesWritten
        <4>2. /\ DOMAIN r = DOMAIN s /\ r.jfd = s.jfd /\ r.pc = "idle"
              /\ r.op = "none" /\ r.st = s.st /\ r.joff = s.joff
          BY <2>1, Fields
        <4> QED BY <4>1, <4>2
      <3>2. CASE s.op # "spill"
        <4> DEFINE r == [s EXCEPT !.pc = "dbsync", !.dirty = {}]
        <4>1. Set(c, r)  BY <2>6, <3>2 DEF PagesWritten
        <4>2. /\ DOMAIN r = DOMAIN s /\ r.jfd = s.jfd /\ r.pc = "dbsync"
              /\ r.op = s.op /\ r.st = s.st /\ r.joff = s.joff
          BY <2>1, Fields
        <4> QED BY <4>1, <4>2
      <3> QED BY <3>1, <3>2
    <2>7. CASE DatabaseSync(c)
      <3> DEFINE r == [s EXCEPT !.pc = "final", !.st = "finished"]
      <3>1. Set(c, r)  BY <2>7 DEF DatabaseSync
      <3>2. /\ DOMAIN r = DOMAIN s /\ r.jfd = s.jfd /\ r.pc = "final"
            /\ r.op = s.op /\ r.st = "finished" /\ r.joff = s.joff
        BY <2>1, Fields
      <3> QED BY <3>1, <3>2
    <2> QED BY <2>2, <2>3, <2>4, <2>5, <2>6, <2>7
  <1>4. PagerInv(lock'[c], jmode[c], r)
    BY <1>1, <1>2, <1>3 DEF PagerInv, Looking, Ending, Writing, NoJournal, lockVars
  <1> QED BY <1>1, <1>3, <1>4, OneSteps DEF lockVars

LEMMA PlayWriter ==
    ASSUME WriterInv, LockInv', NEW c \in Conns, PlayPage(c) \/ PlayEnd(c) PROVE WriterInv'
  <1> DEFINE s == pg[c]
  <1>1. PagerInv(lock[c], jmode[c], s) /\ s.pc = "play" /\ UNCHANGED <<lockVars, jmode>>
    BY DEF WriterInv, PlayPage, PlayEnd, At
  <1>2. CASE PlayPage(c)
    <2>1. PICK l, k, v : Set(c, [s EXCEPT !.todo = l, !.cache = k, !.vers = v])
      BY <1>2 DEF PlayPage
    <2> DEFINE r == [s EXCEPT !.todo = l, !.cache = k, !.vers = v]
    <2>2. PagerInv(lock'[c], jmode[c], r)
      BY <1>1, Fields DEF PagerInv, Looking, Ending, Writing, NoJournal, lockVars
    <2> QED BY <1>1, <2>1, <2>2, OneSteps DEF lockVars
  <1>3. CASE PlayEnd(c)
    <2> DEFINE r == [s EXCEPT !.pc = "final", !.cc = FALSE]
    <2>1. Set(c, r)  BY <1>3 DEF PlayEnd
    <2>2. PagerInv(lock'[c], jmode[c], r)
      BY <1>1, Fields DEF PagerInv, Looking, Ending, Writing, NoJournal, lockVars
    <2> QED BY <1>1, <2>1, <2>2, OneSteps DEF lockVars
  <1> QED BY <1>2, <1>3

LEMMA FinalWriter ==
    ASSUME WriterInv, LockInv', NEW c \in Conns,
           FinalNothing(c) \/ FinalDelete(c) \/ FinalTruncate(c) \/ FinalZero(c) \/ FinalSync(c)
    PROVE  WriterInv'
  <1> DEFINE s == pg[c]
  <1>1. PagerInv(lock[c], jmode[c], s) /\ UNCHANGED <<lockVars, jmode>>
    BY DEF WriterInv, FinalNothing, FinalDelete, FinalTruncate, FinalZero, FinalSync
  <1>2. s.pc \in {"final", "fsync"} /\ (s.pc = "fsync" => s.jfd = 0 \/ jmode[c] # "delete")
    BY <1>1 DEF FinalNothing, FinalDelete, FinalTruncate, FinalZero, FinalSync, At, PagerInv, Ending
  <1>3. CASE FinalNothing(c) \/ FinalSync(c)
    <2> DEFINE t == IF s.pc = "final" THEN Finalized(s) ELSE s
    <2>1. PICK d : Set(c, [t EXCEPT !.pc = "unlock", !.dsync = d])
      <3>1. CASE FinalNothing(c)
        <4>1. Set(c, [t EXCEPT !.pc = "unlock"])
          BY <3>1 DEF FinalNothing, At
        <4>2. [t EXCEPT !.pc = "unlock"] = [t EXCEPT !.pc = "unlock", !.dsync = t.dsync]
          BY <1>1, Fields DEF Finalized, PagerInv
        <4> QED BY <4>1, <4>2
      <3>2. CASE FinalSync(c)
        BY <3>2 DEF FinalSync, At
      <3> QED BY <1>3, <3>1, <3>2
    <2> DEFINE r == [t EXCEPT !.pc = "unlock", !.dsync = d]
    <2>2. s.jfd = 0 \/ jmode[c] # "delete"
      BY <1>2, <1>3 DEF FinalNothing, FinalSync, At
    <2>3. PagerInv(lock'[c], jmode[c], r)
      BY <1>1, <1>2, <2>2, Fields
         DEF Finalized, PagerInv, Looking, Ending, Writing, NoJournal, lockVars
    <2> QED BY <1>1, <2>1, <2>3, OneSteps DEF lockVars
  <1>4. CASE FinalDelete(c)
    <2> DEFINE r == [Finalized(s) EXCEPT !.pc = "fsync", !.jfd = 0]
    <2>1. Set(c, r)  BY <1>4 DEF FinalDelete
    <2>2. PagerInv(lock'[c], jmode[c], r)
      BY <1>1, Fields DEF Finalized, PagerInv, Looking, Ending, Writing, NoJournal, lockVars
    <2> QED BY <1>1, <2>1, <2>2, OneSteps DEF lockVars
  <1>5. CASE FinalTruncate(c) \/ FinalZero(c)
    <2> DEFINE r == [Finalized(s) EXCEPT !.pc = "fsync", !.joff = 0]
    <2>1. Set(c, r) /\ jmode[c] # "delete"  BY <1>5 DEF FinalTruncate, FinalZero
    <2>2. PagerInv(lock'[c], jmode[c], r)
      BY <1>1, <2>1, Fields DEF Finalized, PagerInv, Looking, Ending, Writing, NoJournal, lockVars
    <2> QED BY <1>1, <2>1, <2>2, OneSteps DEF lockVars
  <1> QED BY <1>3, <1>4, <1>5

LEMMA EndTransactionWriter ==
    ASSUME WriterInv, LockInv', NEW c \in Conns, EndTransaction(c) PROVE WriterInv'
  <1> DEFINE s == pg[c]
             e == [Fresh EXCEPT !.cache = s.cache, !.vers = s.vers, !.jfd = s.jfd, !.dsync = s.dsync]
             r == IF s.op = "hot" THEN [e EXCEPT !.pc = "vers"] ELSE [e EXCEPT !.st = "reader"]
  <1>1. PagerInv(lock[c], jmode[c], s) /\ jmode' = jmode /\ Set(c, r) /\ s.pc = "unlock"
    BY DEF WriterInv, EndTransaction, At
  <1>2. \A d \in Conns : d # c => lock'[d] = lock[d]
    BY OneLock DEF WriterInv, EndTransaction
  <1>3. s.jfd = 0 \/ jmode[c] # "delete"
    BY <1>1 DEF PagerInv, Ending
  <1>4. CASE s.op = "hot"
    <2>1. PagerInv(lock'[c], jmode[c], [e EXCEPT !.pc = "vers"])
      BY <1>3, Fields DEF Fresh, PagerInv, Looking, Ending, Writing, NoJournal
    <2> QED BY <1>1, <1>2, <1>4, <2>1, OneSteps
  <1>5. CASE s.op # "hot"
    <2>1. PagerInv(lock'[c], jmode[c], [e EXCEPT !.st = "reader"])
      BY <1>3, Fields DEF Fresh, PagerInv, Looking, Ending, Writing, NoJournal
    <2> QED BY <1>1, <1>2, <1>5, <2>1, OneSteps
  <1> QED BY <1>4, <1>5

LEMMA ErrorWriter ==
    ASSUME WriterInv, LockInv', NEW c \in Conns, WriteError(c) \/ PlayError(c) \/ FinalError(c)
    PROVE  WriterInv'
  <1> DEFINE s == pg[c]
  <1>1. PagerInv(lock[c], jmode[c], s) /\ jmode' = jmode /\ \A d \in Conns : d # c => lock'[d] = lock[d]
    BY OneLock DEF WriterInv, WriteError, PlayError, FinalError, Failed
  <1>2. CASE WriteError(c) /\ s.op = "commit"
    <2>1. PICK l : Set(c, [s EXCEPT !.pc = "play", !.op = "rollback", !.spill = 0, !.todo = l])
      BY <1>2 DEF WriteError, Undo
    <2> DEFINE r == [s EXCEPT !.pc = "play", !.op = "rollback", !.spill = 0, !.todo = l]
    <2>2. lock' = lock /\ lock[c] = Exclusive
      BY <1>1, <1>2 DEF WriteError, lockVars, PagerInv, Writing
    <2>3. PagerInv(lock'[c], jmode[c], r)
      BY <1>1, <1>2, <2>2, Fields DEF PagerInv, Looking, Ending, Writing, NoJournal
    <2> QED BY <1>1, <2>1, <2>3, OneSteps
  <1>3. CASE WriteError(c) /\ s.op # "commit"
    <2> DEFINE r == [s EXCEPT !.pc = "idle", !.op = "none", !.st = "error"]
    <2>1. Set(c, r)
      BY <1>3 DEF WriteError
    <2>2. PagerInv(lock'[c], jmode[c], r)
      BY <1>1, Fields DEF PagerInv, Looking, Ending, Writing, NoJournal
    <2> QED BY <1>1, <2>1, <2>2, OneSteps
  <1>4. CASE PlayError(c) \/ FinalError(c)
    <2>1. PICK pc \in {"fail", "idle"} :
            Set(c, [s EXCEPT !.pc = pc, !.st = "error", !.op = "none", !.todo = <<>>])
      BY <1>4 DEF PlayError, FinalError, Failed
    <2> DEFINE r == [s EXCEPT !.pc = pc, !.st = "error", !.op = "none", !.todo = <<>>]
    <2>2. PagerInv(lock'[c], jmode[c], r)
      BY <1>1, Fields DEF PagerInv, Looking, Ending, Writing, NoJournal
    <2> QED BY <1>1, <2>1, <2>2, OneSteps
  <1> QED BY <1>2, <1>3, <1>4

LEMMA KillWriter ==
    ASSUME WriterInv, LockInv', PowerLoss \/ \E c \in Conns : Kill(c) PROVE WriterInv'
  <1>1. jmode' = jmode
    BY DEF PowerLoss, Kill
  <1>2. PICK S : /\ lock' = [d \in Conns |-> IF d \in S THEN NoLock ELSE lock[d]]
                 /\ pg' = [d \in Conns |-> IF d \in S THEN Fresh ELSE pg[d]]
    <2>1. CASE PowerLoss
      BY <2>1 DEF PowerLoss, UnlockAll
    <2>2. CASE \E c \in Conns : Kill(c)
      BY <2>2 DEF Kill, UnlockAll
    <2> QED BY <2>1, <2>2
  <1>3. ASSUME NEW d \in Conns PROVE PagerInv(lock'[d], jmode'[d], pg'[d])
    BY <1>1, <1>2, FreshInv DEF WriterInv
  <1> QED BY <1>2, <1>3 DEF WriterInv

LEMMA NextWriter == WriterInv /\ [Next]_vars => WriterInv'
  <1> SUFFICES ASSUME WriterInv, [Next]_vars PROVE WriterInv'
    OBVIOUS
  <1> LockInv'
    BY NextLockNext, LockNextInv DEF WriterInv, LockInv
  <1>1. CASE UNCHANGED vars
    BY <1>1 DEF vars, lockVars, WriterInv
  <1>2. CASE PowerLoss
    BY <1>2, KillWriter
  <1>3. ASSUME NEW c \in Conns,
               \/ SharedLock(c) \/ JournalExists(c) \/ CheckReserved(c) \/ FirstByte(c)
               \/ HotExclusive(c) \/ HotFail(c) \/ HotOpen(c) \/ Vers(c) \/ EndRead(c)
               \/ \E p \in Pages : Read(c, p) \/ Evict(c, p) \/ Write(c, p) \/ Spill(c, p)
        PROVE  WriterInv'
    BY <1>3, LookWriter, HotExclusiveWriter, HotOpenWriter, GiveUpWriter, VersWriter, PageWriter
  <1>4. ASSUME NEW c \in Conns,
               \/ Begin(c) \/ CommitEmpty(c) \/ Commit(c)
               \/ ExclusiveLock(c) \/ WaitExclusive(c) \/ Busy(c)
               \/ JournalSync(c) \/ WriteNRec(c) \/ JournalSync2(c)
               \/ WritePage(c) \/ PagesWritten(c) \/ DatabaseSync(c)
        PROVE  WriterInv'
    BY <1>4, BeginWriter, CommitWriter, ExclusiveLockWriter, WaitExclusiveWriter, SyncWriter
  <1>5. ASSUME NEW c \in Conns,
               \/ Rollback(c) \/ PlayPage(c) \/ PlayEnd(c)
               \/ FinalNothing(c) \/ FinalDelete(c) \/ FinalTruncate(c)
               \/ FinalZero(c) \/ FinalSync(c) \/ EndTransaction(c)
               \/ WriteError(c) \/ PlayError(c) \/ FinalError(c) \/ Kill(c)
        PROVE  WriterInv'
    BY <1>5, BeginWriter, PlayWriter, FinalWriter, EndTransactionWriter, ErrorWriter, KillWriter
  <1> QED BY <1>1, <1>2, <1>3, <1>4, <1>5 DEF Next

LEMMA SpecWriter == Spec => []WriterInv
  <1>1. Init => WriterInv
    BY LockInitInv, FreshInv DEF Init, WriterInv
  <1> QED BY <1>1, NextWriter, PTL DEF Spec

\* The database file changes, and a transaction is committed, only in a step of a
\* connection that has EXCLUSIVE while no other connection has any lock; or in a power
\* loss.
ChangesAlone ==
    db' # db \/ cur' # cur =>
        \/ \E c \in Conns :
              /\ lock[c] = Exclusive
              /\ \A d \in Others(c) : lock[d] = NoLock /\ pg'[d] = pg[d]
        \/ PowerLoss

LEMMA WriterChanges ==
    ASSUME WriterInv, NEW c \in Conns,
           \/ WritePage(c) \/ WriteError(c) \/ PlayPage(c)
           \/ FinalDelete(c) \/ FinalTruncate(c) \/ FinalZero(c),
           db' # db \/ cur' # cur
    PROVE  lock[c] = Exclusive
  <1> DEFINE s == pg[c]
  <1>1. PagerInv(lock[c], jmode[c], s)
    BY DEF WriterInv
  <1>2. CASE WritePage(c) \/ WriteError(c)
    BY <1>1, <1>2 DEF WritePage, WriteError, At, PagerInv, Writing
  <1>3. CASE PlayPage(c)
    BY <1>1, <1>3 DEF PlayPage, At, Playable, ghostVars, PagerInv, Writing
  <1>4. CASE FinalDelete(c) \/ FinalTruncate(c) \/ FinalZero(c)
    <2>1. /\ s.pc = "final" /\ s.jfd # 0 /\ s.op = "commit"
          /\ jmode[c] = "delete" \/ s.joff # 0
      BY <1>4 DEF FinalDelete, FinalTruncate, FinalZero, CommitTo, At
    <2>2. s.st = "finished"
      BY <1>1, <2>1 DEF PagerInv, NoJournal
    <2> QED BY <1>1, <2>2 DEF PagerInv, Writing
  <1> QED BY <1>2, <1>3, <1>4

\* Nobody reads a database that is half one version and half the next, and no commit
\* comes between two pages of a reader: whoever writes pages, plays a journal back or
\* commits has EXCLUSIVE, and nobody else then has even a SHARED lock.
THEOREM PagerChangesAlone == Spec => [][ChangesAlone]_vars
  <1>1. ASSUME WriterInv, [Next]_vars PROVE [ChangesAlone]_vars
    <2> SUFFICES ASSUME Next, db' # db \/ cur' # cur, ~PowerLoss
                 PROVE  \E c \in Conns :
                          /\ lock[c] = Exclusive
                          /\ \A d \in Others(c) : lock[d] = NoLock /\ pg'[d] = pg[d]
      BY <1>1 DEF ChangesAlone
    <2>1. PICK c \in Conns : \/ WritePage(c) \/ WriteError(c) \/ PlayPage(c)
                             \/ FinalDelete(c) \/ FinalTruncate(c) \/ FinalZero(c)
      <3>1. ASSUME NEW c \in Conns,
                   \/ SharedLock(c) \/ JournalExists(c) \/ CheckReserved(c) \/ FirstByte(c)
                   \/ HotExclusive(c) \/ HotFail(c) \/ HotOpen(c) \/ Vers(c) \/ EndRead(c)
                   \/ \E p \in Pages : Read(c, p) \/ Evict(c, p) \/ Write(c, p) \/ Spill(c, p)
            PROVE  FALSE
        BY <3>1 DEF SharedLock, JournalExists, CheckReserved, FirstByte, HotExclusive, HotFail,
              HotOpen, Vers, EndRead, Read, Evict, Write, Spill, diskVars, ghostVars
      <3>2. ASSUME NEW c \in Conns,
                   \/ Begin(c) \/ CommitEmpty(c) \/ Commit(c)
                   \/ ExclusiveLock(c) \/ WaitExclusive(c) \/ Busy(c)
                   \/ JournalSync(c) \/ WriteNRec(c) \/ JournalSync2(c)
                   \/ PagesWritten(c) \/ DatabaseSync(c)
            PROVE  FALSE
        BY <3>2 DEF Begin, CommitEmpty, Commit, ExclusiveLock, WaitExclusive, Busy, JournalSync,
              WriteNRec, JournalSync2, PagesWritten, DatabaseSync, diskVars, ghostVars
      <3>3. ASSUME NEW c \in Conns,
                   \/ Rollback(c) \/ PlayEnd(c) \/ FinalNothing(c) \/ FinalSync(c)
                   \/ EndTransaction(c) \/ PlayError(c) \/ FinalError(c) \/ Kill(c)
            PROVE  FALSE
        BY <3>3 DEF Rollback, PlayEnd, FinalNothing, FinalSync, EndTransaction, PlayError,
              FinalError, Kill, diskVars, ghostVars
      <3> QED BY <3>1, <3>2, <3>3 DEF Next
    <2>2. lock[c] = Exclusive
      BY <1>1, <2>1, WriterChanges
    <2>3. \A d \in Others(c) : pg'[d] = pg[d]
      BY <1>1, <2>1 DEF WritePage, WriteError, PlayPage, FinalDelete, FinalTruncate, FinalZero,
            Set, WriterInv, Others
    <2> QED BY <1>1, <2>2, <2>3 DEF WriterInv, LockInv, Exclusion, Others
  <1> QED BY <1>1, SpecWriter, PTL DEF Spec
=============================================================================
