-------------------------------- MODULE Wal --------------------------------
(***************************************************************************)
(* SQLite's write-ahead log (wal.c): connections of several processes read *)
(* snapshots of a database file and of the log appended to it, one of them *)
(* at a time writes, one of them at a time copies the log back into the    *)
(* database file, and any of them may be killed or lose its power between  *)
(* two of its steps.                                                       *)
(*                                                                         *)
(* The wal-index is shared memory: two copies of the header, written in    *)
(* one order and read in the other, the checkpoint information, and the    *)
(* page number of every frame.  A step of the model is the code between    *)
(* two accesses to the shared memory, to a lock or to a file that another  *)
(* connection, a kill or a power loss could tell apart.                    *)
(*                                                                         *)
(* A page's content is the number of the transaction that wrote it,        *)
(* negated for what the transaction spilled before it committed.  A        *)
(* frame's checksum covers every frame before it, so the model keeps that  *)
(* sequence in its place.  The size of the database does not change.       *)
(***************************************************************************)
EXTENDS Integers, Sequences, FiniteSets, SequencesExt

CONSTANTS
    Conns, None,        \* connections, each in a process of its own; no connection
    NPage,              \* pages of the database
    Writes,             \* the sets of dirty pages that are written at a time
    NReader,            \* WAL_NREADER
    Modes,              \* checkpoint modes: "passive", "full", "restart", "truncate"
    MaxTxn,             \* bound on the number of write transactions
    MaxFrame,           \* bound on the length of the log
    MaxRare             \* bound on the number of spills, of checkpoints other than
                        \* PASSIVE, of kills and of power losses, taken together

ASSUME WalAssumption ==
    /\ IsFiniteSet(Conns) /\ None \notin Conns
    /\ Modes \subseteq {"passive", "full", "restart", "truncate"}
    /\ NPage \in Nat \ {0} /\ NReader \in Nat \ {0, 1}
    /\ Writes \subseteq (SUBSET (1..NPage)) \ {{}}
    /\ {MaxTxn, MaxFrame, MaxRare} \subseteq Nat

VARIABLES
    shm,            \* the two copies of the wal-index header
    nBackfill,      \* WalCkptInfo.nBackfill
    aReadMark,      \* WalCkptInfo.aReadMark
    aPgno,          \* frame -> its page number, 0 when there is no entry
    writeLock,      \* who holds WAL_WRITE_LOCK
    ckptLock,       \* who holds WAL_CKPT_LOCK
    shared,         \* connection -> the WAL_READ_LOCK it shares, or -1
    excl,           \* read lock -> who holds it exclusively across steps
    db, dbMay,      \* page -> content; the contents a power loss may leave
    wal, walMay,    \* frame -> content; the contents a power loss may leave
    file, fileMay,  \* the header of the log file, and what may be left of it
    cut,            \* the log file was truncated since its last sync
    con,            \* connection -> what its Wal object holds and where it is
    hist,           \* transaction -> the database it commits
    ntxn, nrare,    \* transactions so far, and events that MaxRare bounds
    base,           \* the version in the database file when the log was reset
    acked,          \* the last transaction whose commit has returned
    durable,        \* the last one that a power loss must not undo
    flaw            \* "none", or which of the two known windows was hit

indexVars == <<shm, nBackfill, aReadMark, aPgno>>
lockVars == <<writeLock, ckptLock, shared, excl>>
fileVars == <<db, dbMay, wal, walMay, file, fileMay, cut>>
countVars == <<ntxn, nrare>>
ghostVars == <<hist, base, acked, durable, flaw>>
vars == <<indexVars, lockVars, fileVars, con, countVars, ghostVars>>

Pages == 1..NPage
Frames == 1..MaxFrame
Slots == 1..(NReader - 1)
Val == -MaxTxn..MaxTxn
Torn == MaxTxn + 1              \* what a page is after a write was cut off
NotUsed == MaxFrame + 1         \* READMARK_NOT_USED

\* WalIndexHdr.  ver stands for the checksum of the last frame, which tells
\* apart what different transactions left in the log.
ZeroHdr == [init |-> FALSE, chg |-> 0, mx |-> 0, salt |-> 0, ver |-> 0]
NoFile == [salt |-> 0, nCkpt |-> FALSE]
NoFrame == [pg |-> 0, val |-> 0, commit |-> FALSE, salt |-> 0, sum |-> <<>>]
Content(f) == <<f.pg, f.val, f.commit>>

Idle == [pc |-> "none", hdr |-> ZeroHdr, nCkpt |-> FALSE, snap |-> 0,
         mxI |-> 0, mark |-> 0, minFrame |-> 0, useWal |-> FALSE,
         t |-> 0, own |-> {}, todo |-> {}, commit |-> FALSE, first |-> 0,
         n |-> 0, recksum |-> FALSE, synced |-> FALSE,
         mode |-> "none", safe |-> 0, i |-> 0, iter |-> [p \in Pages |-> 0]]
\* A connection between two transactions keeps only its nCkpt.
AtRest(c) == [Idle EXCEPT !.nCkpt = con[c].nCkpt]

Set(c, r) == con' = [con EXCEPT ![c] = r]
At(c, pc) == con[c].pc = pc
Goto(c, pc) == con' = [con EXCEPT ![c].pc = pc]

\* The bound on what happens rarely.
Rarely(now) == IF now THEN nrare < MaxRare /\ nrare' = nrare + 1 ELSE UNCHANGED nrare

Init ==
    /\ shm = [k \in 0..1 |-> ZeroHdr]
    /\ nBackfill = 0 /\ aReadMark = [i \in Slots |-> 0]
    /\ aPgno = [i \in Frames |-> 0]
    /\ writeLock = None /\ ckptLock = None
    /\ shared = [c \in Conns |-> -1] /\ excl = [i \in 0..(NReader - 1) |-> None]
    /\ db = [p \in Pages |-> 0] /\ dbMay = [p \in Pages |-> {0}]
    /\ wal = [i \in Frames |-> NoFrame] /\ walMay = [i \in Frames |-> {NoFrame}]
    /\ file = NoFile /\ fileMay = {NoFile} /\ cut = FALSE
    /\ con = [c \in Conns |-> Idle]
    /\ hist = [t \in 0..MaxTxn |-> [p \in Pages |-> 0]]
    /\ ntxn = 0 /\ nrare = 0
    /\ base = 0 /\ acked = 0 /\ durable = 0 /\ flaw = "none"

-----------------------------------------------------------------------------
(* The wal-index header, the locks and the files.                          *)

\* walIndexTryHdr: both copies are the same and they have been written.
HdrOk == shm[0] = shm[1] /\ shm[0].init

\* walLockExclusive on one read lock, and on all of them but the first.
Free(i) == excl[i] = None /\ \A c \in Conns : shared[c] # i
AllFree == \A i \in Slots : Free(i)
Hold(S, c) == excl' = [i \in DOMAIN excl |-> IF i \in S THEN c ELSE excl[i]]

\* A salt that is nowhere in use: sqlite3_randomness.
FreshSalt ==
    LET used == {shm[0].salt, shm[1].salt} \cup {con[c].hdr.salt : c \in Conns}
                \cup {f.salt : f \in fileMay}
                \cup UNION {{f.salt : f \in walMay[i]} : i \in Frames}
        salts == 1..(Cardinality(used) + 1)
    IN  CHOOSE s \in salts : s \notin used /\ \A r \in salts : r < s => r \in used

\* sqlite3OsSync on the log file.
SyncWal ==
    /\ walMay' = [i \in Frames |-> {wal[i]}]
    /\ fileMay' = {file} /\ cut' = FALSE

WriteFrameAt(i, f) ==
    /\ wal' = [wal EXCEPT ![i] = f]
    /\ walMay' = [walMay EXCEPT ![i] = @ \cup {f}]

\* walCleanupHash: forget the entries past the connection's last frame.
CleanupHash(mx) ==
    IF mx = 0 THEN aPgno ELSE [i \in Frames |-> IF i <= mx THEN aPgno[i] ELSE 0]

\* walIndexAppend for the frames mx + 1, mx + 2, ...: the first frame of all
\* clears the table, a leftover entry of a writer that died is cleaned up.
IndexAppend(mx, pgs) ==
    LET start == IF mx = 0 THEN [i \in Frames |-> 0]
                 ELSE IF pgs # <<>> /\ aPgno[mx + 1] # 0 THEN CleanupHash(mx)
                 ELSE aPgno
    IN  IF pgs = <<>> THEN aPgno
        ELSE [i \in Frames |-> IF i \in (mx + 1)..(mx + Len(pgs)) THEN pgs[i - mx] ELSE start[i]]

-----------------------------------------------------------------------------
(* Recovery: walIndexRecover.                                              *)

\* walDecodeFrame: the frames that carry the salt of the log's header and
\* whose checksum continues that of the frame before.
ValidFrames ==
    LET ok(i) == /\ file # NoFile /\ wal[i].pg # 0 /\ wal[i].salt = file.salt
                 /\ wal[i].sum = [j \in 1..i |-> Content(wal[j])]
    IN  {i \in Frames : \A j \in 1..i : ok(j)}
LastCommit == LET S == {i \in ValidFrames : wal[i].commit} IN
              IF S = {} THEN 0 ELSE CHOOSE i \in S : \A j \in S : j <= i
HasFrames == file # NoFile /\ \E i \in Frames : wal[i] # NoFrame

RecoveredHdr ==
    [init |-> TRUE, chg |-> 0, mx |-> LastCommit,
     salt |-> IF HasFrames THEN file.salt ELSE 0,
     ver |-> IF LastCommit = 0 THEN base ELSE wal[LastCommit].val]

\* The header stays bad under WAL_WRITE_LOCK: take the other locks but
\* READ(0), rebuild the table and write the second copy of the header.
Recover(c) ==
    /\ (At(c, "none") \/ (At(c, "ckpt") /\ writeLock = None)) /\ ~HdrOk
    /\ writeLock = None /\ ckptLock \in {None, c} /\ AllFree
    /\ writeLock' = c /\ ckptLock' = c /\ Hold(Slots, c)
    /\ aPgno' = IF ValidFrames = {} THEN aPgno
                ELSE [i \in Frames |-> IF i \in ValidFrames THEN wal[i].pg ELSE 0]
    /\ shm' = [shm EXCEPT ![1] = RecoveredHdr]
    /\ Set(c, [con[c] EXCEPT !.pc = "rec0", !.hdr = RecoveredHdr,
                             !.nCkpt = IF HasFrames THEN file.nCkpt ELSE @])
    /\ UNCHANGED <<nBackfill, aReadMark, shared, fileVars, countVars, ghostVars>>

RecoverHdr(c) ==
    /\ At(c, "rec0")
    /\ shm' = [shm EXCEPT ![0] = con[c].hdr] /\ Goto(c, "rec1")
    /\ UNCHANGED <<nBackfill, aReadMark, aPgno, lockVars, fileVars, countVars, ghostVars>>

\* The checkpoint information is reset and every lock taken is given back.
RecoverInfo(c) ==
    /\ At(c, "rec1")
    /\ nBackfill' = 0
    /\ aReadMark' = [i \in Slots |->
                        IF i = 1 /\ con[c].hdr.mx # 0 THEN con[c].hdr.mx ELSE NotUsed]
    /\ writeLock' = None /\ Hold(Slots, None)
    /\ ckptLock' = IF con[c].mode = "none" THEN None ELSE c
    /\ Goto(c, IF con[c].mode = "none" THEN "try" ELSE "test")
    /\ UNCHANGED <<shm, aPgno, shared, fileVars, countVars, ghostVars>>

-----------------------------------------------------------------------------
(* Read transactions: sqlite3WalBeginReadTransaction, walTryBeginRead.     *)

\* walIndexReadHdr.
ReadHdr(c) ==
    /\ At(c, "none") /\ HdrOk
    /\ Set(c, [con[c] EXCEPT !.pc = "try", !.hdr = shm[0]])
    /\ UNCHANGED <<indexVars, lockVars, fileVars, countVars, ghostVars>>

\* The whole log has been backfilled: the database file alone will do.
TryLock0(c) ==
    /\ At(c, "try") /\ nBackfill = con[c].hdr.mx /\ excl[0] = None
    /\ shared' = [shared EXCEPT ![c] = 0] /\ Goto(c, "cmp0")
    /\ UNCHANGED <<indexVars, writeLock, ckptLock, excl, fileVars, countVars, ghostVars>>

\* Mutant: a header that changed before READ(0) was taken is not noticed.
SameHdrAlways(c) == TRUE
\* The live header is still the one that was read.
SameHdr(c) == shm[0] = con[c].hdr

\* What a failed attempt leaves: the caller starts again with the header, or,
\* inside a write transaction, with the choice of a mark.
Retry(c) == IF con[c].useWal THEN [con[c] EXCEPT !.pc = "pick"] ELSE AtRest(c)

Compare0(c) ==
    /\ At(c, "cmp0")
    /\ IF SameHdr(c)
       THEN /\ Set(c, [con[c] EXCEPT !.pc = "read", !.snap = con[c].hdr.ver])
            /\ UNCHANGED shared
       ELSE Set(c, AtRest(c)) /\ shared' = [shared EXCEPT ![c] = -1]
    /\ UNCHANGED <<indexVars, writeLock, ckptLock, excl, fileVars, countVars, ghostVars>>

\* The largest mark that is not past the header's last frame; if it is
\* smaller, the first slot nobody uses gets that frame as its mark.
BestMark(mx) ==
    LET S == {i \in Slots : aReadMark[i] <= mx}
    IN  IF S = {} THEN 0
        ELSE CHOOSE i \in S : \A j \in S : \/ aReadMark[j] < aReadMark[i]
                                           \/ aReadMark[j] = aReadMark[i] /\ j <= i
PickMark(c) ==
    LET mx == con[c].hdr.mx
        best == BestMark(mx)
        free == {i \in Slots : Free(i)}
        slot == CHOOSE i \in free : \A j \in free : i <= j
    IN  /\ \/ At(c, "pick")
           \/ At(c, "try") /\ (nBackfill # mx \/ excl[0] # None)
        /\ IF best # 0 /\ (aReadMark[best] = mx \/ free = {})
           THEN /\ Set(c, [con[c] EXCEPT !.pc = "lock", !.mxI = best, !.mark = aReadMark[best]])
                /\ UNCHANGED aReadMark
           ELSE IF free # {}
           THEN /\ aReadMark' = [aReadMark EXCEPT ![slot] = mx]
                /\ Set(c, [con[c] EXCEPT !.pc = "lock", !.mxI = slot, !.mark = mx])
           ELSE Set(c, Retry(c)) /\ UNCHANGED aReadMark
        /\ UNCHANGED <<shm, nBackfill, aPgno, lockVars, fileVars, countVars, ghostVars>>

\* The shared lock on the mark, and the first frame that is not backfilled.
LockMark(c) ==
    /\ At(c, "lock")
    /\ IF excl[con[c].mxI] # None
       THEN Set(c, Retry(c)) /\ UNCHANGED shared
       ELSE /\ shared' = [shared EXCEPT ![c] = con[c].mxI]
            /\ Set(c, [con[c] EXCEPT !.pc = "cmp", !.minFrame = nBackfill + 1])
    /\ UNCHANGED <<indexVars, writeLock, ckptLock, excl, fileVars, countVars, ghostVars>>

CompareMark(c) ==
    /\ At(c, "cmp")
    /\ IF aReadMark[con[c].mxI] = con[c].mark /\ SameHdr(c)
       THEN /\ Set(c, IF con[c].useWal
                      THEN [con[c] EXCEPT !.pc = "file", !.useWal = FALSE, !.mxI = 0, !.mark = 0]
                      ELSE [con[c] EXCEPT !.pc = "read", !.snap = con[c].hdr.ver,
                                          !.mxI = 0, !.mark = 0])
            /\ UNCHANGED shared
       ELSE Set(c, Retry(c)) /\ shared' = [shared EXCEPT ![c] = -1]
    /\ UNCHANGED <<indexVars, writeLock, ckptLock, excl, fileVars, countVars, ghostVars>>

\* sqlite3WalEndReadTransaction.
EndRead(c) ==
    /\ At(c, "read")
    /\ shared' = [shared EXCEPT ![c] = -1] /\ Set(c, AtRest(c))
    /\ UNCHANGED <<indexVars, writeLock, ckptLock, excl, fileVars, countVars, ghostVars>>

\* sqlite3WalFindFrame and sqlite3WalReadFrame: what c reads of page p.
FindFrame(c, p) ==
    LET S == {i \in Frames : con[c].minFrame <= i /\ i <= con[c].hdr.mx /\ aPgno[i] = p}
    IN  IF shared[c] = 0 \/ S = {} THEN 0 ELSE CHOOSE i \in S : \A j \in S : j <= i
ReadPage(c, p) ==
    LET i == FindFrame(c, p) IN IF i = 0 THEN db[p] ELSE wal[i].val

-----------------------------------------------------------------------------
(* Write transactions.                                                     *)

\* Mutant: a snapshot that is out of date is not refused.
CanWriteAnyway(c) == writeLock = None
\* sqlite3WalBeginWriteTransaction: the lock is free and nobody has written
\* since the snapshot was taken; if not, BUSY or BUSY_SNAPSHOT.
CanWrite(c) == writeLock = None /\ SameHdr(c)

BeginWrite(c) ==
    /\ At(c, "read") /\ CanWrite(c)
    /\ writeLock' = c /\ Goto(c, "write")
    /\ UNCHANGED <<indexVars, ckptLock, shared, excl, fileVars, countVars, ghostVars>>

\* sqlite3WalFrames is called with dirty pages S, to commit them, or to spill one
\* (pagerStress).  walRestartLog has something to do when the snapshot ignores the
\* log.
WalFrames(c, S, isCommit) ==
    LET t == IF con[c].t = 0 THEN ntxn + 1 ELSE con[c].t
    IN  /\ At(c, "write") /\ t <= MaxTxn
        /\ isCommit \/ Cardinality(S) = 1
        /\ Rarely(~isCommit)
        /\ ntxn' = IF con[c].t = 0 THEN t ELSE ntxn
        /\ Set(c, [con[c] EXCEPT !.pc = IF shared[c] = 0 THEN "restart" ELSE "file",
                                 !.t = t, !.todo = S, !.commit = isCommit,
                                 !.n = 0, !.first = IF SameHdr(c) THEN 0 ELSE shm[0].mx + 1])
        /\ hist' = IF isCommit
                   THEN [hist EXCEPT ![t] = [p \in Pages |-> IF p \in S THEN t
                                                ELSE IF p \in con[c].own THEN -t
                                                ELSE hist[con[c].snap][p]]]
                   ELSE hist
        /\ UNCHANGED <<indexVars, lockVars, fileVars, base, acked, durable, flaw>>

\* walRestartHdr as its caller's copy of the header sees it.
ResetHdr(c) == [con[c].hdr EXCEPT !.mx = 0, !.salt = FreshSalt]

\* walRestartLog: everything is backfilled and nobody reads the log, so it
\* starts again from its first frame; then the lock on READ(0) is exchanged
\* for one on a mark.
RestartLog(c) ==
    /\ At(c, "restart")
    /\ IF nBackfill > 0 /\ AllFree
       THEN /\ Hold(Slots, c) /\ shm' = [shm EXCEPT ![1] = ResetHdr(c)]
            /\ Set(c, [con[c] EXCEPT !.pc = "reset0", !.hdr = ResetHdr(c), !.nCkpt = TRUE])
            /\ UNCHANGED shared
       ELSE /\ shared' = [shared EXCEPT ![c] = -1]
            /\ Set(c, [con[c] EXCEPT !.pc = "pick", !.useWal = TRUE])
            /\ UNCHANGED <<excl, shm>>
    /\ UNCHANGED <<nBackfill, aReadMark, aPgno, writeLock, ckptLock, fileVars, countVars, ghostVars>>

\* walRestartHdr goes on: the first copy of the header, ...
ResetHdr0(c) ==
    /\ At(c, "reset0")
    /\ shm' = [shm EXCEPT ![0] = con[c].hdr] /\ Goto(c, "reset1")
    /\ base' = con[c].hdr.ver
    /\ UNCHANGED <<nBackfill, aReadMark, aPgno, lockVars, fileVars, countVars,
                   hist, acked, durable, flaw>>

\* ... then the checkpoint information.  The caller is the writer or a
\* checkpoint that will truncate the file.
ResetInfo(c) ==
    /\ At(c, "reset1")
    /\ nBackfill' = 0
    /\ aReadMark' = [i \in Slots |-> IF i = 1 THEN 0 ELSE NotUsed]
    /\ IF con[c].mode = "none"
       THEN /\ Hold(Slots, None) /\ shared' = [shared EXCEPT ![c] = -1]
            /\ Set(c, [con[c] EXCEPT !.pc = "pick", !.useWal = TRUE])
       ELSE Goto(c, "trunc") /\ UNCHANGED <<excl, shared>>
    /\ UNCHANGED <<shm, aPgno, writeLock, ckptLock, fileVars, countVars, ghostVars>>

\* The sync after the header was written (syncHeader).
SyncHeader(h) == fileMay' = {h} /\ walMay' = [i \in Frames |-> {wal[i]}] /\ cut' = FALSE

\* The first frame of a log comes after the header of the file.
WriteFileHdr(c) ==
    LET s == IF con[c].nCkpt THEN con[c].hdr.salt ELSE FreshSalt
        h == [salt |-> s, nCkpt |-> con[c].nCkpt]
    IN  /\ At(c, "file")
        /\ IF con[c].hdr.mx = 0
           THEN /\ file' = h /\ SyncHeader(h)
                /\ Set(c, [con[c] EXCEPT !.pc = "frame", !.hdr.salt = s])
                /\ durable' = acked
           ELSE Goto(c, "frame") /\ UNCHANGED <<file, fileMay, walMay, cut, durable>>
        /\ UNCHANGED <<indexVars, lockVars, db, dbMay, wal, countVars, hist, base, acked, flaw>>

\* walEncodeFrame: a frame that follows an overwritten one gets neither salt
\* nor checksum until the commit.
EncodeFrame(c, i, p, v, isCommit) ==
    [pg |-> p, val |-> v, commit |-> isCommit,
     salt |-> IF con[c].recksum THEN 0 ELSE con[c].hdr.salt,
     sum |-> IF con[c].recksum THEN <<>>
             ELSE Append(IF i = 1 THEN <<>> ELSE wal[i - 1].sum, <<p, v, isCommit>>)]

\* The next page of the list, which is in the order of the page numbers: over the
\* frame the transaction has already written for it, whose checksum is then out of
\* date, or as a new frame.
WriteFrame(c) == \E p \in con[c].todo :
    LET w == con[c]
        last == w.todo = {p}
        v == IF w.commit THEN w.t ELSE -w.t
        old == FindFrame(c, p)
        i == w.hdr.mx + w.n + 1
        f == EncodeFrame(c, i, p, v, w.commit /\ last)
        over == w.first # 0 /\ (~last \/ ~w.commit) /\ old >= w.first
    IN  /\ At(c, "frame") /\ \A q \in w.todo : p <= q
        /\ IF over
           THEN WriteFrameAt(old, [wal[old] EXCEPT !.val = v])
           ELSE i <= MaxFrame /\ WriteFrameAt(i, f)
        /\ Set(c, [w EXCEPT !.todo = @ \ {p}, !.own = @ \cup {p},
                            !.n = IF over THEN @ ELSE @ + 1, !.recksum = @ \/ over])
        /\ UNCHANGED <<indexVars, lockVars, db, dbMay, file, fileMay, cut, countVars, ghostVars>>

\* The pages of the frames this call has appended, in their order.
Appended(c) == [k \in 1..con[c].n |-> wal[con[c].hdr.mx + k].pg]

\* A spill is over once its frames are in the table.
FinishSpill(c) ==
    LET w == con[c] IN
    /\ At(c, "frame") /\ w.todo = {} /\ ~w.commit
    /\ aPgno' = IndexAppend(w.hdr.mx, Appended(c))
    /\ Set(c, [w EXCEPT !.pc = "write", !.hdr.mx = @ + w.n, !.n = 0, !.first = 0])
    /\ UNCHANGED <<shm, nBackfill, aReadMark, lockVars, fileVars, countVars, ghostVars>>

\* Mutant: the checksums of overwritten frames are not computed again.
RewriteChecksumsNot(s, k) == wal
\* walRewriteChecksums up to frame k.
RewriteChecksums(s, k) ==
    [i \in Frames |-> IF i > k THEN wal[i]
                      ELSE [wal[i] EXCEPT !.salt = s, !.sum = [j \in 1..i |-> Content(wal[j])]]]

\* Mutant: the sync of a commit is left out.
CommitSyncNot(new, sync) ==
    walMay' = [i \in Frames |-> walMay[i] \cup {new[i]}] /\ UNCHANGED <<fileMay, cut>>
\* The sync at the end of a commit, if there is one.
CommitSync(new, sync) ==
    IF sync THEN walMay' = [i \in Frames |-> {new[i]}] /\ fileMay' = {file} /\ cut' = FALSE
    ELSE walMay' = [i \in Frames |-> walMay[i] \cup {new[i]}] /\ UNCHANGED <<fileMay, cut>>

\* A commit: checksums, a sync if PRAGMA synchronous is FULL, the table, and
\* the second copy of the header.
FinishCommit(c, sync) ==
    LET w == con[c]
        h == [w.hdr EXCEPT !.mx = @ + w.n, !.chg = @ + 1, !.ver = w.t]
        new == IF w.recksum THEN RewriteChecksums(h.salt, h.mx) ELSE wal
    IN  /\ At(c, "frame") /\ w.todo = {} /\ w.commit
        /\ wal' = new
        /\ CommitSync(new, sync)
        /\ aPgno' = IndexAppend(w.hdr.mx, Appended(c))
        /\ shm' = [shm EXCEPT ![1] = h]
        /\ Set(c, [w EXCEPT !.pc = "publish", !.hdr = h, !.synced = sync])
        /\ UNCHANGED <<nBackfill, aReadMark, lockVars, db, dbMay, file, countVars, ghostVars>>

\* The first copy of the header makes the transaction visible, and
\* sqlite3WalEndWriteTransaction releases the lock.
Publish(c) ==
    LET w == con[c] IN
    /\ At(c, "publish")
    /\ shm' = [shm EXCEPT ![0] = w.hdr]
    /\ writeLock' = None
    /\ acked' = w.t /\ durable' = IF w.synced THEN w.t ELSE durable
    /\ Set(c, [AtRest(c) EXCEPT !.pc = "read", !.hdr = w.hdr, !.snap = w.t, !.minFrame = w.minFrame])
    /\ UNCHANGED <<nBackfill, aReadMark, aPgno, ckptLock, shared, excl, fileVars, countVars,
                   hist, base, flaw>>

\* A write of the log fails (or its bound is reached): the error leaves the
\* transaction with nothing to do but a rollback.
WriteError(c) ==
    /\ con[c].pc \in {"file", "frame"}
    /\ Goto(c, "undo")
    /\ UNCHANGED <<indexVars, lockVars, fileVars, countVars, ghostVars>>

\* sqlite3WalUndo and sqlite3WalEndWriteTransaction.
Undo(c) ==
    LET w == con[c] IN
    /\ w.pc \in {"write", "undo"}
    /\ aPgno' = IF w.hdr.mx # shm[0].mx THEN CleanupHash(shm[0].mx) ELSE aPgno
    /\ writeLock' = None
    /\ Set(c, [AtRest(c) EXCEPT !.pc = "read", !.hdr = shm[0], !.snap = w.snap, !.minFrame = w.minFrame])
    /\ UNCHANGED <<shm, nBackfill, aReadMark, ckptLock, shared, excl, fileVars, countVars, ghostVars>>

-----------------------------------------------------------------------------
(* Checkpoints: sqlite3WalCheckpoint and walCheckpoint.                    *)

\* The checkpoint lock, and the writer's lock in every mode but PASSIVE;
\* without it the checkpoint falls back to PASSIVE.
CkptBegin(c, mode) ==
    /\ At(c, "none") /\ ckptLock = None
    /\ ckptLock' = c
    /\ writeLock' = IF mode # "passive" /\ writeLock = None THEN c ELSE writeLock
    /\ Rarely(writeLock' = c)
    /\ Set(c, [con[c] EXCEPT !.pc = "ckpt", !.mode = IF writeLock' = c THEN mode ELSE "passive"])
    /\ UNCHANGED <<indexVars, shared, excl, fileVars, ntxn, ghostVars>>

\* The locks are released.
CkptRelease(c) ==
    /\ ckptLock' = None
    /\ writeLock' = IF writeLock = c THEN None ELSE writeLock
    /\ Set(c, AtRest(c))

\* walIndexReadHdr, which needs the writer's lock when the header is bad:
\* BUSY if somebody holds it, the checkpoint itself included.
CkptReadHdr(c) ==
    /\ At(c, "ckpt")
    /\ \/ /\ HdrOk
          /\ Set(c, [con[c] EXCEPT !.pc = "test", !.hdr = shm[0]])
          /\ UNCHANGED <<writeLock, ckptLock>>
       \/ ~HdrOk /\ writeLock # None /\ CkptRelease(c)
    /\ UNCHANGED <<indexVars, shared, excl, fileVars, countVars, ghostVars>>

\* Is there something to backfill?  flaw remembers that the header is that
\* of a log which has been reset since.
CkptTest(c) ==
    LET go == nBackfill < con[c].hdr.mx IN
    /\ At(c, "test")
    /\ Set(c, [con[c] EXCEPT !.pc = IF go THEN "marks" ELSE "after",
                             !.safe = IF go THEN con[c].hdr.mx ELSE 0, !.i = 1])
    /\ flaw' = IF go /\ flaw = "none" /\ shm[0].salt # con[c].hdr.salt THEN "stale" ELSE flaw
    /\ UNCHANGED <<indexVars, lockVars, fileVars, countVars, hist, base, acked, durable>>

\* mxSafeFrame after a mark that a reader has locked.
SafeFrame(c, i) == aReadMark[i]

\* One mark below mxSafeFrame: a mark nobody uses is moved out of the way.
CkptMark(c) ==
    LET w == con[c]
        i == w.i
    IN  /\ At(c, "marks") /\ i \in Slots
        /\ IF w.safe <= aReadMark[i]
           THEN Set(c, [w EXCEPT !.i = i + 1]) /\ UNCHANGED aReadMark
           ELSE IF Free(i)
           THEN /\ aReadMark' = [aReadMark EXCEPT ![i] = IF i = 1 THEN w.safe ELSE NotUsed]
                /\ Set(c, [w EXCEPT !.i = i + 1])
           ELSE Set(c, [w EXCEPT !.i = i + 1, !.safe = SafeFrame(c, i)]) /\ UNCHANGED aReadMark
        /\ UNCHANGED <<shm, nBackfill, aPgno, lockVars, fileVars, countVars, ghostVars>>

\* walIteratorInit: the last frame of every page up to the header's mxFrame.
Iterator(mx) ==
    [p \in Pages |-> LET S == {i \in 1..mx : aPgno[i] = p}
                     IN  IF S = {} THEN 0 ELSE CHOOSE i \in S : \A j \in S : j <= i]
CkptIterator(c) ==
    /\ At(c, "marks") /\ con[c].i \notin Slots
    /\ Set(c, IF nBackfill < con[c].safe
              THEN [con[c] EXCEPT !.pc = "lock0", !.iter = Iterator(con[c].hdr.mx)]
              ELSE [con[c] EXCEPT !.pc = "after"])
    /\ UNCHANGED <<indexVars, lockVars, fileVars, countVars, ghostVars>>

\* READ(0) is taken exclusively, or no page is copied; the log is synced.
CkptLock0(c) ==
    /\ At(c, "lock0")
    /\ IF Free(0)
       THEN /\ Hold({0}, c) /\ SyncWal /\ durable' = acked
            /\ Goto(c, "copy")
       ELSE Goto(c, "after") /\ UNCHANGED <<excl, walMay, fileMay, cut, durable>>
    /\ UNCHANGED <<indexVars, writeLock, ckptLock, shared, db, dbMay, wal, file, countVars,
                   hist, base, acked, flaw>>

\* The pages that walIteratorNext has still to yield and that are copied.
ToCopy(c) == {p \in Pages : nBackfill < con[c].iter[p] /\ con[c].iter[p] <= con[c].safe}
CkptCopy(c) ==
    LET p == CHOOSE q \in ToCopy(c) : \A r \in ToCopy(c) : q <= r
        v == wal[con[c].iter[p]].val
    IN  /\ At(c, "copy") /\ ToCopy(c) # {}
        /\ db' = [db EXCEPT ![p] = v] /\ dbMay' = [dbMay EXCEPT ![p] = @ \cup {v, Torn}]
        /\ Set(c, [con[c] EXCEPT !.iter[p] = 0])
        /\ UNCHANGED <<indexVars, lockVars, wal, walMay, file, fileMay, cut, countVars, ghostVars>>

\* The whole log has been copied: the database file is synced.
SyncDb(c) == con[c].safe = shm[0].mx

CkptDone(c) ==
    /\ At(c, "copy") /\ ToCopy(c) = {}
    /\ dbMay' = IF SyncDb(c) THEN [p \in Pages |-> {db[p]}] ELSE dbMay
    /\ nBackfill' = con[c].safe
    /\ Hold({0}, None) /\ Goto(c, "after")
    /\ UNCHANGED <<shm, aReadMark, aPgno, writeLock, ckptLock, shared, db, wal, walMay,
                   file, fileMay, cut, countVars, ghostVars>>

\* RESTART and TRUNCATE wait for the readers of the log; TRUNCATE then
\* resets it and empties the file.
CkptAfter(c) ==
    LET w == con[c] IN
    /\ At(c, "after")
    /\ IF w.mode = "truncate" /\ nBackfill >= w.hdr.mx /\ AllFree
       THEN /\ Hold(Slots, c) /\ shm' = [shm EXCEPT ![1] = ResetHdr(c)]
            /\ Set(c, [w EXCEPT !.pc = "reset0", !.hdr = ResetHdr(c), !.nCkpt = TRUE])
            /\ UNCHANGED <<ckptLock, writeLock>>
       ELSE CkptRelease(c) /\ UNCHANGED <<excl, shm>>
    /\ UNCHANGED <<nBackfill, aReadMark, aPgno, shared, fileVars, countVars, ghostVars>>

CkptTruncate(c) ==
    /\ At(c, "trunc")
    /\ wal' = [i \in Frames |-> NoFrame] /\ file' = NoFile /\ cut' = TRUE
    /\ Hold(Slots, None) /\ CkptRelease(c)
    /\ UNCHANGED <<indexVars, shared, db, dbMay, walMay, fileMay, countVars, ghostVars>>

-----------------------------------------------------------------------------
(* Failures.                                                               *)

\* The process of c dies: the system releases its locks and leaves the
\* shared memory and the files as they are.  flaw remembers a kill inside
\* walRestartHdr, after the header and before the checkpoint information.  Where
\* nothing shared is half done, to die is to end the transaction or the checkpoint.
Midway == {"rec0", "rec1", "reset0", "reset1", "frame", "publish", "undo", "copy", "trunc"}
Kill(c) ==
    /\ con[c].pc \in Midway \/ con[c].own # {}
    /\ Rarely(TRUE)
    /\ writeLock' = IF writeLock = c THEN None ELSE writeLock
    /\ ckptLock' = IF ckptLock = c THEN None ELSE ckptLock
    /\ shared' = [shared EXCEPT ![c] = -1]
    /\ excl' = [i \in DOMAIN excl |-> IF excl[i] = c THEN None ELSE excl[i]]
    /\ Set(c, Idle)
    /\ flaw' = IF flaw = "none" /\ At(c, "reset1") THEN "kill" ELSE flaw
    /\ UNCHANGED <<indexVars, fileVars, ntxn, hist, base, acked, durable>>

\* Power loss: every process dies, the shared memory is gone, and of what
\* was written since the last sync of a file any part may be.
PowerLoss ==
    /\ Rarely(TRUE)
    /\ db' \in [Pages -> UNION Range(dbMay)] /\ \A p \in Pages : db'[p] \in dbMay[p]
    /\ \/ /\ wal' \in {g \in [Frames -> UNION Range(walMay)] : \A i \in Frames : g[i] \in walMay[i]}
          /\ file' \in fileMay
       \/ cut /\ wal' = [i \in Frames |-> NoFrame] /\ file' = NoFile
    /\ dbMay' = [p \in Pages |-> {db'[p]}]
    /\ walMay' = [i \in Frames |-> {wal'[i]}] /\ fileMay' = {file'} /\ cut' = FALSE
    /\ shm' = [k \in 0..1 |-> ZeroHdr] /\ nBackfill' = 0
    /\ aReadMark' = [i \in Slots |-> 0] /\ aPgno' = [i \in Frames |-> 0]
    /\ writeLock' = None /\ ckptLock' = None
    /\ shared' = [c \in Conns |-> -1] /\ excl' = [i \in DOMAIN excl |-> None]
    /\ con' = [c \in Conns |-> Idle]
    /\ acked' = durable
    /\ UNCHANGED <<ntxn, hist, base, durable, flaw>>

-----------------------------------------------------------------------------
Reading(c) ==
    \/ ReadHdr(c) \/ TryLock0(c) \/ Compare0(c) \/ PickMark(c) \/ LockMark(c)
    \/ CompareMark(c) \/ EndRead(c)

Writing(c) ==
    \/ BeginWrite(c)
    \/ \E S \in Writes, isCommit \in BOOLEAN : WalFrames(c, S, isCommit)
    \/ RestartLog(c) \/ ResetHdr0(c) \/ ResetInfo(c) \/ WriteFileHdr(c) \/ WriteFrame(c)
    \/ FinishSpill(c) \/ (\E sync \in BOOLEAN : FinishCommit(c, sync)) \/ Publish(c)
    \/ WriteError(c) \/ Undo(c)

Checkpointing(c) ==
    \/ \E mode \in Modes : CkptBegin(c, mode)
    \/ CkptReadHdr(c) \/ CkptTest(c) \/ CkptMark(c) \/ CkptIterator(c) \/ CkptLock0(c)
    \/ CkptCopy(c) \/ CkptDone(c) \/ CkptAfter(c) \/ CkptTruncate(c)

Recovering(c) == Recover(c) \/ RecoverHdr(c) \/ RecoverInfo(c)

Next ==
    \/ \E c \in Conns : Reading(c) \/ Writing(c) \/ Checkpointing(c) \/ Recovering(c) \/ Kill(c)
    \/ PowerLoss

Spec == Init /\ [][Next]_vars

-----------------------------------------------------------------------------

\* What the snapshot of c says page p is, with what c itself has spilled.
Expected(c, p) == IF p \in con[c].own THEN -con[c].t ELSE hist[con[c].snap][p]

\* Snapshot isolation: every page that sqlite3WalReadFrame or the database
\* file gives a connection inside a transaction is the page of the version
\* its snapshot names, or what it has itself spilled, whatever writers,
\* checkpoints, resets, recoveries, kills and power losses did meanwhile.
Snapshot ==
    \A c \in Conns : con[c].pc \in {"read", "write"} =>
        \A p \in Pages : ReadPage(c, p) = Expected(c, p)

\* Durability: a wal-index that can be read shows the last transaction whose
\* commit has returned; after a power loss, the last one that was synced.
NothingLost == HdrOk => shm[0].ver >= acked

\* The log file can take the wal-index's place at any time: the frames up to
\* mxFrame are those that recovery would accept, they are of the pages the
\* table says, and the last one commits the version the header is of.
Recoverable ==
    HdrOk /\ shm[0].mx > 0 =>
        /\ shm[0].mx \in ValidFrames /\ wal[shm[0].mx].commit
        /\ wal[shm[0].mx].val = shm[0].ver
        /\ \A i \in 1..shm[0].mx : aPgno[i] = wal[i].pg

\* No lost update: nobody has committed since the snapshot of the connection
\* that is in a write transaction, so what it commits follows what it read.
WriterCurrent ==
    \A c \in Conns : con[c].t # 0 \/ con[c].pc = "write" => shm[0].ver = con[c].snap
=============================================================================
