------------------------------- MODULE Pager -------------------------------
(***************************************************************************)
(* SQLite's pager with a rollback journal (pager.c): connections read a    *)
(* database file through their page caches under a SHARED lock; one at a   *)
(* time changes pages in its cache, keeps what they were in the journal,   *)
(* writes them to the database file under an EXCLUSIVE lock and commits by *)
(* getting rid of the journal.  Whoever finds the journal of a connection  *)
(* that died plays it back first.  Processes may be killed, and the power  *)
(* may fail, between any two steps.                                        *)
(*                                                                         *)
(* A page's content is the transaction that wrote it, for page 1 together  *)
(* with the change counter of the database header.  The journal is a row   *)
(* of slots, each a header or a page record; a record's checksum is the    *)
(* transaction and the place of its header, which stand for the random     *)
(* cksumInit.  A file is what its readers see and what its last sync left  *)
(* on the disk.  The size of the database does not change.                 *)
(***************************************************************************)
EXTENDS DbLock, Integers, Sequences, SequencesExt

CONSTANTS
    NPage,          \* pages of the database
    Modes,          \* the assignments of a journal mode to every connection
    FullSync,       \* Pager.fullSync: synchronous=FULL or more
    ExtraSync,      \* Pager.extraSync: synchronous=EXTRA
    Aligned,        \* a journal may end on a sector boundary
    MaxTxn,         \* bound on the number of write transactions
    MaxRare         \* bound on the number of spills, I/O errors, kills and power losses

ASSUME PagerAssumption ==
    /\ NPage \in Nat \ {0}
    /\ Modes \subseteq [Conns -> {"delete", "truncate", "persist"}]
    /\ {FullSync, ExtraSync, Aligned} \subseteq BOOLEAN
    /\ {MaxTxn, MaxRare} \subseteq Nat

VARIABLES
    jmode,          \* connection -> Pager.journalMode
    pg,             \* connection -> its Pager object and where it is
    db, dsk,        \* page -> content, as read and as on the disk
    dir, dirMay,    \* the inode of the journal, 0 when there is none, and those that
                    \* a power loss may leave in the directory
    file,           \* inode -> image, as read, on the disk, and before a truncation
    cur,            \* the database as last committed
    prev,           \* what a power loss may take it back to
    txns, rare      \* transactions so far, and events that MaxRare bounds

diskVars == <<db, dsk, dir, dirMay, file>>
ghostVars == <<cur, prev>>
countVars == <<txns, rare>>
vars == <<lockVars, jmode, pg, diskVars, ghostVars, countVars>>

Pages == 1..NPage
NSlot == 2 * NPage + 1
Slots == 1..NSlot
Inodes == 1..(Cardinality(Conns) + 2)

Content == [t : -2..MaxTxn, cc : 0..MaxTxn]
NoPage == [t |-> -1, cc |-> 0]          \* not in the cache
Torn == [t |-> -2, cc |-> 0]            \* a write was cut off

Hole == [k |-> "none", magic |-> FALSE, n |-> 0, pg |-> 0, val |-> NoPage, ck |-> <<0, 0>>]
Hdr(magic, n, ck) == [Hole EXCEPT !.k = "hdr", !.magic = magic, !.n = n, !.ck = ck]
Rec(p, v, ck) == [Hole EXCEPT !.k = "rec", !.pg = p, !.val = v, !.ck = ck]
Slot == [k : {"none", "hdr", "rec"}, magic : BOOLEAN, n : 0..NPage, pg : 0..NPage,
         val : Content, ck : (0..MaxTxn) \X (0..NSlot)]
NoImage == [i \in Slots |-> Hole]
NoFile == [now |-> NoImage, base |-> NoImage, old |-> {}]

\* A Pager that has just been opened.
Fresh == [st |-> "open", pc |-> "idle", op |-> "none", cache |-> [p \in Pages |-> NoPage],
          dirty |-> {}, sync |-> {}, vers |-> 0, inj |-> {}, jfd |-> 0, dsync |-> FALSE,
          jhdr |-> 0, joff |-> 0, hdrless |-> FALSE, nrec |-> 0, cc |-> FALSE, txn |-> 0,
          todo |-> <<>>, spill |-> 0]
\* pager_unlock: the cache survives the lock, unless there was an error.
AtRest(r) == IF r.st = "error" THEN Fresh
             ELSE [Fresh EXCEPT !.cache = r.cache, !.vers = r.vers]

At(c, pc) == pg[c].pc = pc
Idle(c, S) == pg[c].pc = "idle" /\ pg[c].st \in S
Set(c, r) == pg' = [pg EXCEPT ![c] = r]
Goto(c, pc) == pg' = [pg EXCEPT ![c].pc = pc]
Rarely == rare < MaxRare /\ rare' = rare + 1 /\ UNCHANGED txns

Init ==
    /\ LockInit
    /\ jmode \in Modes
    /\ pg = [c \in Conns |-> Fresh]
    /\ db = [p \in Pages |-> [t |-> 0, cc |-> 0]] /\ dsk = db
    /\ dir = 0 /\ dirMay = {0} /\ file = [i \in Inodes |-> NoFile]
    /\ cur = db /\ prev = {}
    /\ txns = 0 /\ rare = 0

-----------------------------------------------------------------------------
(* The files.                                                              *)

\* Inodes that are named, may be named after a power loss, or are open.
Used == {dir} \cup dirMay \cup {pg[c].jfd : c \in Conns}
Collect(f) == [i \in Inodes |-> IF i \in Used' THEN f[i] ELSE NoFile]
NewInode == CHOOSE i \in Inodes : i \notin Used /\ \A j \in 1..(i - 1) : j \in Used

\* unixSync on a journal, which syncs the directory too the first time.
Synced(f, i) == [f EXCEPT ![i].base = f[i].now, ![i].old = {}]

\* What a power loss may leave of a file: each write since the last sync may be
\* there or not, and that of a record may be there in part; or the file is as it
\* was before it was truncated.
Survivors(now, base) ==
    LET diff == {i \in DOMAIN now : now[i] # base[i]}
    IN  {[i \in DOMAIN now |-> IF i \in new THEN now[i] ELSE base[i]] : new \in SUBSET diff}
Images(f) ==
    LET torn(img, i) == [img EXCEPT ![i] = Hole]
        cut == {i \in Slots : f.now[i] # f.base[i] /\ f.now[i].k = "rec"}
        all == Survivors(f.now, f.base)
    IN  all \cup {torn(img, i) : img \in all, i \in cut} \cup f.old
Databases ==
    LET torn(d, p) == [d EXCEPT ![p] = Torn]
        all == Survivors(db, dsk)
    IN  all \cup {torn(d, p) : d \in all, p \in {q \in Pages : db[q] # dsk[q]}}

-----------------------------------------------------------------------------
(* Reading the journal.                                                    *)

Size(img) == IF img = NoImage THEN 0 ELSE CHOOSE i \in Slots :
                 img[i] # Hole /\ \A j \in Slots : j > i => img[j] = Hole

\* The header a connection is writing has no magic yet; it knows its place.
OwnHdr(r, i) == i = r.jhdr /\ (~r.hdrless \/ Aligned)

\* pager_playback and readJournalHdr: the slots of the records to restore, in
\* order.  A hot journal is read by what its headers say, one's own to its end.
PlayList(img, hot, r) ==
    LET hdrAt(i) == img[i].k = "hdr" /\ (img[i].magic \/ (~hot /\ OwnHdr(r, i)))
        count(i) == IF img[i].n = 0 /\ ~hot /\ OwnHdr(r, i) THEN Size(img) - i ELSE img[i].n
        good(i, j) == j \in Slots /\ img[j].k = "rec" /\ img[j].ck = img[i].ck
        from[i \in 1..(2 * NSlot + 1)] ==
            IF i \notin Slots \/ ~hdrAt(i) THEN <<>>
            ELSE LET n == CHOOSE m \in 0..count(i) :
                             /\ \A j \in (i + 1)..(i + m) : good(i, j)
                             /\ m = count(i) \/ ~good(i, i + m + 1)
                 IN  [j \in 1..n |-> i + j]
                     \o (IF n = count(i) THEN from[i + n + 1] ELSE <<>>)
    IN  from[1]

\* hasHotJournal: the first byte is not zero.
Hot(img) == img[1].magic

\* The database that a connection finds when all the others are gone.
Recover(d, img) ==
    IF ~Hot(img) THEN d
    ELSE LET list == PlayList(img, TRUE, Fresh)
             last(p) == SelectLastInSeq(list, LAMBDA i : img[i].pg = p)
         IN  [p \in Pages |-> IF last(p) = 0 THEN d[p] ELSE img[list[last(p)]].val]
Journal(f, i) == IF i = 0 THEN NoImage ELSE f[i].now

-----------------------------------------------------------------------------
(* sqlite3PagerSharedLock: the lock, the hot journal, the cache.           *)

SharedLock(c) ==
    /\ Idle(c, {"open"})
    /\ LockShared(c)
    /\ Goto(c, "access")
    /\ UNCHANGED <<jmode, diskVars, ghostVars, countVars>>

\* hasHotJournal looks for the file, for a RESERVED lock, at the first byte.
JournalExists(c) ==
    /\ At(c, "access")
    /\ Goto(c, IF dir = 0 THEN "vers" ELSE "resv")
    /\ UNCHANGED <<lockVars, jmode, diskVars, ghostVars, countVars>>

CheckReserved(c) ==
    /\ At(c, "resv")
    /\ Goto(c, IF ReservedSeen(c) THEN "vers" ELSE "first")
    /\ UNCHANGED <<lockVars, jmode, diskVars, ghostVars, countVars>>

\* A journal that is gone by now counts as hot.
FirstByte(c) ==
    /\ At(c, "first")
    /\ Goto(c, IF dir = 0 \/ Hot(file[dir].now) THEN "excl" ELSE "vers")
    /\ UNCHANGED <<lockVars, jmode, diskVars, ghostVars, countVars>>

\* EXCLUSIVE without RESERVED; there is no busy handler here.  A connection that
\* is getting its SHARED lock is in the way for a moment.
HotExclusive(c) ==
    /\ At(c, "excl")
    /\ \/ LockExclusive(c) /\ Goto(c, "hopen")
       \/ ~CanExclude(c) /\ LockPending(c) /\ Goto(c, "fail")
       \/ UNCHANGED lockVars /\ Goto(c, "fail")
    /\ UNCHANGED <<jmode, diskVars, ghostVars, countVars>>

HotFail(c) ==
    /\ At(c, "fail")
    /\ Unlock(c)
    /\ Set(c, AtRest(pg[c]))
    /\ UNCHANGED <<jmode, db, dsk, dir, dirMay, ghostVars, countVars>>
    /\ file' = Collect(file)

\* pagerSyncHotJournal and the start of the playback, which drops the cache when
\* there is something to restore; or somebody else has done it.
HotOpen(c) ==
    /\ At(c, "hopen")
    /\ IF dir = 0
       THEN Downgrade(c) /\ Goto(c, "vers") /\ UNCHANGED file
       ELSE LET img == file[dir].now
                list == PlayList(img, TRUE, Fresh)
            IN  /\ Set(c, [pg[c] EXCEPT !.pc = "play", !.op = "hot", !.jfd = dir,
                             !.jhdr = Size(img) + 1, !.joff = IF Hot(img) THEN 2 ELSE 0,
                             !.todo = list,
                             !.cache = IF list = <<>> THEN @ ELSE Fresh.cache])
                /\ file' = Synced(file, dir)
                /\ UNCHANGED lockVars
    /\ UNCHANGED <<jmode, db, dsk, dir, dirMay, ghostVars, countVars>>

\* Mutant: the cache outlives the lock whatever others have done.
CacheValidAlways(c) == TRUE
\* The cache is kept when the change counter is what it was; lockBtree then
\* fetches page 1.
CacheValid(c) == pg[c].vers = db[1].cc
Vers(c) ==
    /\ At(c, "vers")
    /\ LET r == pg[c]
           kept == IF CacheValid(c) THEN r.cache ELSE Fresh.cache
           one == IF kept[1] = NoPage THEN db[1] ELSE kept[1]
       IN  Set(c, [r EXCEPT !.pc = "idle", !.op = "none", !.st = "reader",
                     !.cache = [kept EXCEPT ![1] = one],
                     !.vers = IF kept[1] = NoPage THEN db[1].cc ELSE @])
    /\ UNCHANGED <<lockVars, jmode, diskVars, ghostVars, countVars>>

\* pager_unlock, when the last page is released.
EndRead(c) ==
    /\ Idle(c, {"reader", "error"})
    /\ Unlock(c)
    /\ Set(c, AtRest(pg[c]))
    /\ UNCHANGED <<jmode, db, dsk, dir, dirMay, ghostVars, countVars>>
    /\ file' = Collect(file)

-----------------------------------------------------------------------------
(* Pages in the cache.                                                     *)

Active == {"reader", "locked", "cachemod", "dbmod"}
View(c, p) == IF pg[c].cache[p] = NoPage THEN db[p] ELSE pg[c].cache[p]

Read(c, p) ==
    /\ Idle(c, Active) /\ pg[c].cache[p] = NoPage
    /\ Set(c, [pg[c] EXCEPT !.cache[p] = db[p]])
    /\ UNCHANGED <<lockVars, jmode, diskVars, ghostVars, countVars>>

\* The cache recycles a clean page.  Page 1 is in use all the time.
Evict(c, p) ==
    /\ Idle(c, Active) /\ p # 1
    /\ pg[c].cache[p] # NoPage /\ p \notin pg[c].dirty
    /\ Set(c, [pg[c] EXCEPT !.cache[p] = NoPage])
    /\ UNCHANGED <<lockVars, jmode, diskVars, ghostVars, countVars>>

\* sqlite3PagerBegin.
Begin(c) ==
    /\ Idle(c, {"reader"}) /\ txns < MaxTxn
    /\ LockReserved(c)
    /\ txns' = txns + 1
    /\ Set(c, [pg[c] EXCEPT !.st = "locked", !.joff = 0, !.txn = txns + 1])
    /\ UNCHANGED <<jmode, diskVars, ghostVars, rare>>

\* writeJournalHdr at slot i of the journal of r.
WriteHdr(img, r, i) == [img EXCEPT ![i] = Hdr(FALSE, 0, <<r.txn, i>>)]

\* pager_write: the journal is opened with its first header, the page as it was
\* goes into the journal unless it is there, and the caller changes it to v.
OpenedJournal(r) ==
    IF r.st # "locked" THEN r
    ELSE [r EXCEPT !.st = "cachemod", !.nrec = 0, !.jhdr = 1, !.joff = 2, !.hdrless = FALSE]
PageWritten(r, p, v) ==
    LET o == OpenedJournal(r)
        j == IF p \in o.inj THEN o
             ELSE [o EXCEPT !.joff = @ + 1, !.nrec = @ + 1, !.inj = @ \cup {p}, !.sync = @ \cup {p}]
    IN  [j EXCEPT !.dirty = @ \cup {p}, !.cache[p] = v]
PageJournalled(img, r, p, v) ==
    LET o == OpenedJournal(r)
        h == IF r.st = "locked" THEN WriteHdr(img, r, 1) ELSE img
    IN  IF p \in o.inj THEN h ELSE [h EXCEPT ![o.joff] = Rec(p, v, <<o.txn, o.jhdr>>)]

\* pager_open_journal opens the file, and creates it, unless it is open.
OpenInode(c) ==
    IF pg[c].jfd # 0 THEN pg[c].jfd ELSE IF dir # 0 THEN dir ELSE NewInode

Write(c, p) ==
    LET r == pg[c]
        i == OpenInode(c)
        new == [t |-> r.txn, cc |-> View(c, p).cc]
    IN  /\ Idle(c, {"locked", "cachemod", "dbmod"})
        /\ p \notin r.dirty
        /\ Set(c, [PageWritten(r, p, new) EXCEPT !.jfd = i, !.dsync = @ \/ r.jfd = 0])
        /\ file' = [file EXCEPT ![i].now = PageJournalled(@, r, p, View(c, p))]
        /\ dir' = IF r.jfd = 0 /\ dir = 0 THEN i ELSE dir
        /\ dirMay' = dirMay \cup {dir'}
        /\ UNCHANGED <<lockVars, jmode, db, dsk, ghostVars, countVars>>

-----------------------------------------------------------------------------
(* syncJournal and pager_write_pagelist, for a spill or for a commit.      *)

\* pagerStress: the cache needs the memory of a dirty page.
Spill(c, p) ==
    LET r == pg[c]
    IN  /\ Idle(c, {"cachemod", "dbmod"}) /\ p \in r.dirty /\ p # 1
        /\ Set(c, [r EXCEPT !.op = "spill", !.spill = p, !.todo = <<p>>,
                     !.pc = IF p \in r.sync \/ r.st = "cachemod" THEN "xlock" ELSE "flush"])
        /\ Rarely
        /\ UNCHANGED <<lockVars, jmode, diskVars, ghostVars>>

\* sqlite3PagerCommitPhaseOne: nothing was changed, or the change counter goes up,
\* once, and all dirty pages are to be written.
CommitEmpty(c) ==
    /\ Idle(c, {"locked"})
    /\ Set(c, [pg[c] EXCEPT !.pc = "final", !.op = "commit"])
    /\ UNCHANGED <<lockVars, jmode, diskVars, ghostVars, countVars>>

Counted(r) == [t |-> r.txn, cc |-> r.vers + 1]
Commit(c) ==
    LET r == pg[c]
        w == IF r.cc THEN r ELSE PageWritten(r, 1, Counted(r))
    IN  /\ Idle(c, {"cachemod", "dbmod"})
        /\ Set(c, [w EXCEPT !.pc = "xlock", !.op = "commit", !.spill = 0, !.cc = TRUE,
                     !.todo = SetToSortSeq(w.dirty, LAMBDA a, b : a < b)])
        /\ file' = IF r.cc THEN file
                   ELSE [file EXCEPT ![r.jfd].now = PageJournalled(@, r, 1, r.cache[1])]
        /\ UNCHANGED <<lockVars, jmode, db, dsk, dir, dirMay, ghostVars, countVars>>

\* pager_wait_on_lock, until the busy handler gives up.
ExclusiveLock(c) ==
    /\ At(c, "xlock")
    /\ \/ lock[c] = Exclusive /\ UNCHANGED lockVars
       \/ LockExclusive(c)
    /\ Goto(c, "jsync")
    /\ UNCHANGED <<jmode, diskVars, ghostVars, countVars>>
WaitExclusive(c) ==
    /\ At(c, "xlock") /\ lock[c] < Pending
    /\ ~CanExclude(c) /\ LockPending(c)
    /\ UNCHANGED <<jmode, pg, diskVars, ghostVars, countVars>>
Busy(c) ==
    /\ At(c, "xlock") /\ lock[c] # Exclusive
    /\ Set(c, [pg[c] EXCEPT !.pc = "idle", !.op = "none", !.spill = 0, !.todo = <<>>])
    /\ UNCHANGED <<lockVars, jmode, diskVars, ghostVars, countVars>>

\* Mutant: it is left alone.
HideStaleHdrNot(img, r) == img
\* A header that an earlier journal left behind this one must not be taken for
\* its continuation.
HideStaleHdr(img, r) == IF r.joff \in Slots /\ img[r.joff].magic
                        THEN [img EXCEPT ![r.joff].magic = FALSE] ELSE img
JournalSync(c) ==
    LET r == pg[c]
        f == [file EXCEPT ![r.jfd].now = HideStaleHdr(@, r)]
    IN  /\ At(c, "jsync")
        /\ Set(c, [r EXCEPT !.pc = "nrec", !.dsync = @ /\ ~FullSync])
        /\ dirMay' = IF FullSync /\ r.dsync THEN {dir} ELSE dirMay
        /\ prev' = IF FullSync THEN {} ELSE prev
        /\ UNCHANGED <<lockVars, jmode, db, dsk, dir, cur, countVars>>
        /\ file' = IF FullSync THEN Collect(Synced(f, r.jfd)) ELSE f

\* From here on the journal is hot.
WriteNRec(c) ==
    LET r == pg[c]
    IN  /\ At(c, "nrec")
        /\ file' = [file EXCEPT ![r.jfd].now[r.jhdr] = Hdr(TRUE, r.nrec, @.ck)]
        /\ Goto(c, "jsync2")
        /\ UNCHANGED <<lockVars, jmode, db, dsk, dir, dirMay, ghostVars, countVars>>

\* The last sync; a journal that will go on gets another header.
JournalSync2(c) ==
    LET r == pg[c]
        more == r.spill # 0
        f == Synced(file, r.jfd)
        s == [r EXCEPT !.pc = "flush", !.st = "dbmod", !.sync = {}, !.dsync = FALSE,
                       !.jhdr = r.joff, !.hdrless = ~more]
    IN  /\ At(c, "jsync2")
        /\ Set(c, IF more THEN [s EXCEPT !.joff = @ + 1, !.nrec = 0] ELSE s)
        /\ dirMay' = IF r.dsync THEN {dir} ELSE dirMay
        /\ prev' = {}
        /\ UNCHANGED <<lockVars, jmode, db, dsk, dir, cur, countVars>>
        /\ file' = Collect(IF more THEN [f EXCEPT ![r.jfd].now = WriteHdr(@, r, r.joff)] ELSE f)

\* pager_write_pagelist, a page at a time.
WritePage(c) ==
    LET r == pg[c]
        p == Head(r.todo)
    IN  /\ At(c, "flush") /\ r.todo # <<>>
        /\ db' = [db EXCEPT ![p] = r.cache[p]]
        /\ Set(c, [r EXCEPT !.todo = Tail(@), !.vers = IF p = 1 THEN r.cache[1].cc ELSE @])
        /\ UNCHANGED <<lockVars, jmode, dsk, dir, dirMay, file, ghostVars, countVars>>
PagesWritten(c) ==
    LET r == pg[c]
    IN  /\ At(c, "flush") /\ r.todo = <<>>
        /\ Set(c, IF r.op = "spill"
                  THEN [r EXCEPT !.pc = "idle", !.op = "none", !.spill = 0, !.dirty = @ \ {r.spill}]
                  ELSE [r EXCEPT !.pc = "dbsync", !.dirty = {}])
        /\ UNCHANGED <<lockVars, jmode, diskVars, ghostVars, countVars>>

\* sqlite3PagerSync, and sqlite3PagerCommitPhaseTwo next.
DatabaseSync(c) ==
    /\ At(c, "dbsync")
    /\ dsk' = db
    /\ Set(c, [pg[c] EXCEPT !.pc = "final", !.st = "finished"])
    /\ UNCHANGED <<lockVars, jmode, db, dir, dirMay, file, ghostVars, countVars>>

-----------------------------------------------------------------------------
(* Rollback: pager_playback, of one's own journal or of a hot one.         *)

\* PagerRollback of a transaction that has a journal.
Undo(r, img) == [r EXCEPT !.pc = "play", !.op = "rollback", !.spill = 0,
                          !.todo = PlayList(img, FALSE, r)]
Rollback(c) ==
    LET r == pg[c]
    IN  /\ Idle(c, {"locked", "cachemod", "dbmod"})
        /\ Set(c, IF r.st = "locked" THEN [r EXCEPT !.pc = "final", !.op = "rollback"]
                  ELSE Undo(r, file[r.jfd].now))
        /\ UNCHANGED <<lockVars, jmode, diskVars, ghostVars, countVars>>

\* pager_playback_one_page: into the file only when the file may have been
\* changed and the record is on the disk, and into the cache if the page is there.
Playable(r, s) == r.st \in {"dbmod", "finished", "open"} /\ s < r.jhdr
PlayPage(c) ==
    LET r == pg[c]
        s == Head(r.todo)
        rec == file[r.jfd].now[s]
        cached == r.cache[rec.pg] # NoPage
    IN  /\ At(c, "play") /\ r.todo # <<>>
        /\ db' = IF Playable(r, s) THEN [db EXCEPT ![rec.pg] = rec.val] ELSE db
        /\ Set(c, [r EXCEPT !.todo = Tail(@),
                     !.cache[rec.pg] = IF cached THEN rec.val ELSE @,
                     !.vers = IF cached /\ rec.pg = 1 THEN rec.val.cc ELSE @])
        /\ UNCHANGED <<lockVars, jmode, dsk, dir, dirMay, file, ghostVars, countVars>>
PlayEnd(c) ==
    LET r == pg[c]
    IN  /\ At(c, "play") /\ r.todo = <<>>
        /\ dsk' = IF r.st = "cachemod" THEN dsk ELSE db
        /\ Set(c, [r EXCEPT !.pc = "final", !.cc = FALSE])
        /\ UNCHANGED <<lockVars, jmode, db, dir, dirMay, file, ghostVars, countVars>>

-----------------------------------------------------------------------------
(* pager_end_transaction.                                                  *)

\* After an error the lock goes down to SHARED and the pager into its error
\* state; SharedLock gives up at once.
Failed(c) ==
    /\ Downgrade(c)
    /\ Set(c, [pg[c] EXCEPT !.pc = IF pg[c].op = "hot" THEN "fail" ELSE "idle", !.st = "error",
                            !.op = "none", !.todo = <<>>])

\* The step that commits: the journal is deleted, truncated or zeroed.
Finalized(r) == [r EXCEPT !.inj = {}, !.nrec = 0, !.dirty = {}, !.sync = {}]
CommitTo(c) ==
    /\ cur' = IF pg[c].op = "commit" THEN db ELSE cur
    /\ prev' = IF pg[c].op = "commit" THEN {cur} ELSE prev
Truncated(f) == [now |-> NoImage, base |-> NoImage, old |-> f.old \cup {f.base, f.now}]

FinalNothing(c) ==
    LET r == pg[c]
    IN  /\ At(c, "final")
        /\ r.jfd = 0 \/ (jmode[c] # "delete" /\ r.joff = 0)
        /\ Set(c, [Finalized(r) EXCEPT !.pc = "unlock"])
        /\ UNCHANGED <<lockVars, jmode, diskVars, ghostVars, countVars>>
FinalDelete(c) ==
    LET r == pg[c]
    IN  /\ At(c, "final") /\ r.jfd # 0 /\ jmode[c] = "delete"
        /\ dir' = 0 /\ dirMay' = dirMay \cup {0}
        /\ Set(c, [Finalized(r) EXCEPT !.pc = "fsync", !.jfd = 0])
        /\ file' = Collect(file)
        /\ CommitTo(c)
        /\ UNCHANGED <<lockVars, jmode, db, dsk, countVars>>
FinalTruncate(c) ==
    LET r == pg[c]
    IN  /\ At(c, "final") /\ r.jfd # 0 /\ jmode[c] = "truncate" /\ r.joff # 0
        /\ file' = [file EXCEPT ![r.jfd] = Truncated(@)]
        /\ Set(c, [Finalized(r) EXCEPT !.pc = "fsync", !.joff = 0])
        /\ CommitTo(c)
        /\ UNCHANGED <<lockVars, jmode, db, dsk, dir, dirMay, countVars>>
FinalZero(c) ==
    LET r == pg[c]
    IN  /\ At(c, "final") /\ r.jfd # 0 /\ jmode[c] = "persist" /\ r.joff # 0
        /\ file' = [file EXCEPT ![r.jfd].now[1] = Hdr(FALSE, 0, <<0, 0>>)]
        /\ Set(c, [Finalized(r) EXCEPT !.pc = "fsync", !.joff = 0])
        /\ CommitTo(c)
        /\ UNCHANGED <<lockVars, jmode, db, dsk, dir, dirMay, countVars>>

\* What was done to the journal is made to last, as far as the mode asks for it.
FinalSync(c) ==
    LET r == pg[c]
        m == jmode[c]
        full == IF m = "delete" THEN ExtraSync ELSE m = "persist" \/ FullSync
    IN  /\ At(c, "fsync")
        /\ Set(c, [r EXCEPT !.pc = "unlock", !.dsync = @ /\ ~full])
        /\ dirMay' = IF full /\ (m = "delete" \/ r.dsync) THEN {dir} ELSE dirMay
        /\ prev' = IF full THEN {} ELSE prev
        /\ UNCHANGED <<lockVars, jmode, db, dsk, dir, cur, countVars>>
        /\ file' = IF full /\ m # "delete" THEN Synced(file, r.jfd) ELSE Collect(file)

EndTransaction(c) ==
    LET r == pg[c]
        e == [Fresh EXCEPT !.cache = r.cache, !.vers = r.vers, !.jfd = r.jfd, !.dsync = r.dsync]
    IN  /\ At(c, "unlock")
        /\ Downgrade(c)
        /\ Set(c, IF r.op = "hot" THEN [e EXCEPT !.pc = "vers"] ELSE [e EXCEPT !.st = "reader"])
        /\ UNCHANGED <<jmode, diskVars, ghostVars, countVars>>

-----------------------------------------------------------------------------
(* Errors, kills and power losses.                                         *)

\* A sync or a write fails.  A commit is rolled back, a spill leaves the pager
\* in the error state; a page may be written in part.
WriteError(c) ==
    LET r == pg[c]
    IN  /\ r.pc \in {"jsync", "nrec", "jsync2", "flush", "dbsync"}
        /\ r.pc = "flush" => r.todo # <<>>
        /\ Rarely
        /\ Set(c, IF r.op = "commit" THEN Undo(r, file[r.jfd].now)
                  ELSE [r EXCEPT !.pc = "idle", !.op = "none", !.st = "error"])
        /\ db' = IF r.pc = "flush" THEN [db EXCEPT ![Head(r.todo)] = Torn] ELSE db
        /\ UNCHANGED <<lockVars, jmode, dsk, dir, dirMay, file, ghostVars>>
PlayError(c) ==
    LET r == pg[c]
    IN  /\ At(c, "play")
        /\ Rarely
        /\ Set(c, [r EXCEPT !.pc = IF r.op = "hot" THEN "fail" ELSE "idle", !.st = "error",
                            !.op = "none", !.todo = <<>>])
        /\ UNCHANGED <<lockVars, jmode, diskVars, ghostVars>>
FinalError(c) ==
    /\ pg[c].pc \in {"final", "fsync"} /\ (At(c, "final") => pg[c].jfd # 0)
    /\ Rarely
    /\ Failed(c)
    /\ UNCHANGED <<jmode, diskVars, ghostVars>>

Kill(c) ==
    LET S == {d \in Conns : Proc[d] = Proc[c]}
    IN  /\ \E d \in S : lock[d] # NoLock
        /\ Rarely
        /\ UnlockAll(S)
        /\ pg' = [d \in Conns |-> IF d \in S THEN Fresh ELSE pg[d]]
        /\ UNCHANGED <<jmode, db, dsk, dir, dirMay, ghostVars>>
        /\ file' = Collect(file)

PowerLoss ==
    /\ Rarely
    /\ UnlockAll(Conns)
    /\ pg' = [c \in Conns |-> Fresh]
    /\ db' \in Databases /\ dsk' = db'
    /\ dir' \in dirMay /\ dirMay' = {dir'}
    /\ \E img \in IF dir' = 0 THEN {NoImage} ELSE Images(file[dir']) :
          /\ file' = [i \in Inodes |-> IF i = dir' THEN [NoFile EXCEPT !.now = img, !.base = img]
                                       ELSE NoFile]
          /\ cur' = LET d == Recover(db', img) IN IF d \in prev THEN d ELSE cur
    /\ prev' = {}
    /\ UNCHANGED jmode

Next ==
    \/ \E c \in Conns :
          \/ SharedLock(c) \/ JournalExists(c) \/ CheckReserved(c) \/ FirstByte(c)
          \/ HotExclusive(c) \/ HotFail(c) \/ HotOpen(c) \/ Vers(c) \/ EndRead(c)
          \/ Begin(c) \/ CommitEmpty(c) \/ Commit(c)
          \/ ExclusiveLock(c) \/ WaitExclusive(c) \/ Busy(c)
          \/ JournalSync(c) \/ WriteNRec(c) \/ JournalSync2(c)
          \/ WritePage(c) \/ PagesWritten(c) \/ DatabaseSync(c)
          \/ Rollback(c) \/ PlayPage(c) \/ PlayEnd(c)
          \/ FinalNothing(c) \/ FinalDelete(c) \/ FinalTruncate(c)
          \/ FinalZero(c) \/ FinalSync(c) \/ EndTransaction(c)
          \/ WriteError(c) \/ PlayError(c) \/ FinalError(c) \/ Kill(c)
          \/ \E p \in Pages : Read(c, p) \/ Evict(c, p) \/ Write(c, p) \/ Spill(c, p)
    \/ PowerLoss

Spec == Init /\ [][Next]_vars

\* In PERSIST mode a connection may be killed, or get an error, after it has zeroed
\* the header and before that is synced.  The next writer starts a journal over one
\* that is still hot on the disk, and a power loss then leaves a mixture of the two.
\* The passing runs go up to that state and no further.
ZeroLasts ==
    \A i \in Inodes : Hot(file[i].base) /\ ~Hot(file[i].now) =>
        \E c \in Conns : At(c, "fsync") /\ pg[c].jfd = i

-----------------------------------------------------------------------------
\* Whenever a connection may use pages, what it has in its cache or would read
\* is the last committed database with its own changes on top.
ReadersView ==
    \A c \in Conns : Idle(c, Active) =>
        \A p \in Pages : IF p \in pg[c].inj THEN View(c, p).t = pg[c].txn
                         ELSE View(c, p) = cur[p]

\* Should all connections die now, or have they just died in a power loss, the
\* next one finds a committed database.
Recoverable == Recover(db, Journal(file, dir)) = cur
=============================================================================
