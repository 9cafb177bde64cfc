---------------------------- MODULE WalProofs ----------------------------
(***************************************************************************)
(* A write transaction of wal.c follows the version it has read: nobody    *)
(* commits between its snapshot and its own commit, whatever checkpoints,  *)
(* resets, recoveries, kills and power losses come between, and also after *)
(* one of the two known windows was hit.                                   *)
(*                                                                         *)
(* The argument is that whoever may write the first copy of the header     *)
(* holds WAL_WRITE_LOCK.  Where a connection is tells whether it holds it, *)
(* but three ways lead through the same steps: walRestartHdr is called by  *)
(* a writer and by a TRUNCATE checkpoint, walTryBeginRead by a reader and  *)
(* by a writer that has to leave READ(0), and recovery is part of a read   *)
(* and of a checkpoint.  The invariant tells them apart by what else the   *)
(* connection remembers.                                                   *)
(***************************************************************************)
EXTENDS Wal, FiniteSetTheorems, WellFoundedInduction, TLAPS

ConFields == DOMAIN Idle
HdrFields == DOMAIN ZeroHdr

Shape ==
    /\ DOMAIN shm = 0..1 /\ \A k \in 0..1 : DOMAIN shm[k] = HdrFields
    /\ DOMAIN con = Conns
    /\ \A c \in Conns : DOMAIN con[c] = ConFields /\ DOMAIN con[c].hdr = HdrFields

\* A connection inside a write transaction.
Writer(c) == con[c].t # 0 \/ con[c].pc = "write"

\* Where a checkpoint, and where a transaction that has written, can be.
CkptSteps == {"ckpt", "rec0", "rec1", "test", "marks", "lock0", "copy", "after",
              "reset0", "reset1", "trunc"}
WriteSteps == {"write", "restart", "reset0", "reset1", "pick", "lock", "cmp", "file", "frame",
               "publish", "undo"}

\* Which of its callers a connection is inside of.
Caller(c) ==
    LET w == con[c] IN
    /\ w.mode # "none" => w.pc \in CkptSteps /\ w.t = 0
    /\ w.t # 0 => w.pc \in WriteSteps
    /\ w.pc \in {"restart", "file", "frame", "publish", "undo"} => w.t # 0
    /\ w.pc \in {"reset0", "reset1"} => w.t # 0 \/ w.mode # "none"
    /\ w.useWal => w.pc \in {"pick", "lock", "cmp"} /\ w.t # 0
    /\ w.pc = "pick" \/ (w.pc \in {"lock", "cmp"} /\ w.t # 0) => w.useWal
    /\ w.pc \in {"rec0", "rec1"} => w.mode \in {"none", "passive"}

\* Who holds WAL_WRITE_LOCK.
NeedsLock(c) ==
    \/ Writer(c)
    \/ con[c].pc \in {"rec0", "rec1", "reset0", "reset1", "trunc"}
    \/ con[c].mode \notin {"none", "passive"}
Locked(c) == NeedsLock(c) => writeLock = c

\* The version a transaction is based on.
Based(c) ==
    /\ con[c].pc = "read" => con[c].hdr.ver = con[c].snap
    /\ Writer(c) => /\ shm[0].ver = con[c].snap
                    /\ con[c].pc # "publish" => con[c].hdr.ver = con[c].snap
    /\ con[c].pc = "publish" => con[c].hdr.ver = con[c].t

ConInv(c) == Caller(c) /\ Locked(c) /\ Based(c)

WalInv == Shape /\ \A c \in Conns : ConInv(c)

-----------------------------------------------------------------------------
LEMMA Fields ==
    /\ ConFields = {"pc", "hdr", "nCkpt", "snap", "mxI", "mark", "minFrame", "useWal", "t", "own",
                    "todo", "commit", "first", "n", "recksum", "synced", "mode", "safe", "i", "iter"}
    /\ HdrFields = {"init", "chg", "mx", "salt", "ver"}
  BY DEF ConFields, HdrFields, Idle, ZeroHdr

\* A step of one connection: the others keep what they have when the lock is taken
\* from nobody and the first copy of the header is written by its holder only.
LEMMA OneSteps ==
    ASSUME WalInv, NEW c \in Conns, DOMAIN con' = Conns,
           \A d \in Conns \ {c} : con'[d] = con[d] /\ (writeLock = d => writeLock' = d),
           DOMAIN con'[c] = ConFields, DOMAIN con'[c].hdr = HdrFields,
           DOMAIN shm' = 0..1, \A k \in 0..1 : DOMAIN shm'[k] = HdrFields,
           shm'[0] = shm[0] \/ writeLock = c,
           ConInv(c)'
    PROVE  WalInv'
  <1>1. Shape'
    BY DEF WalInv, Shape
  <1>2. ASSUME NEW d \in Conns, d # c PROVE ConInv(d)'
    <2>1. con'[d] = con[d] /\ (writeLock = d => writeLock' = d) /\ ConInv(d)
      BY <1>2 DEF WalInv
    <2>2. Caller(d)'
      BY <2>1 DEF ConInv, Caller
    <2>3. Locked(d)'
      BY <2>1 DEF ConInv, Locked, NeedsLock, Writer
    <2>4. Writer(d) => shm'[0] = shm[0]
      BY <1>2, <2>1 DEF ConInv, Locked, NeedsLock
    <2>5. Based(d)'
      BY <2>1, <2>4 DEF ConInv, Based, Writer
    <2> QED BY <2>2, <2>3, <2>5 DEF ConInv
  <1> QED BY <1>1, <1>2 DEF WalInv

\* A step that touches neither the header nor the writer's lock.
LEMMA QuietSteps ==
    ASSUME WalInv, NEW c \in Conns, NEW r, con' = [con EXCEPT ![c] = r],
           UNCHANGED <<shm, writeLock>>, DOMAIN r = ConFields, DOMAIN r.hdr = HdrFields,
           con'[c] = r => ConInv(c)'
    PROVE  WalInv'
  BY OneSteps DEF WalInv, Shape

\* The fields that the invariant speaks of, and a step of c that changes those of F.
Tracked == {"pc", "hdr", "snap", "useWal", "t", "mode"}
Only(c, F) ==
    /\ con' = [con EXCEPT ![c] = con'[c]]
    /\ DOMAIN con'[c] = ConFields
    /\ \A x \in Tracked \ F : con'[c][x] = con[c][x]

LEMMA Known == ASSUME WalInv, NEW c \in Conns
    PROVE  /\ DOMAIN con[c] = ConFields /\ DOMAIN con[c].hdr = HdrFields /\ DOMAIN con = Conns
           /\ ConInv(c) /\ 0 \in DOMAIN shm /\ DOMAIN shm[0] = HdrFields
           /\ 1 \in DOMAIN shm /\ DOMAIN shm[1] = HdrFields
  BY DEF WalInv, Shape

\* From one step to another that means the same for the lock and the version.
Moves == {<<"try", "cmp0">>, <<"try", "lock">>, <<"pick", "lock">>, <<"lock", "cmp">>,
          <<"lock", "pick">>, <<"cmp", "pick">>, <<"pick", "pick">>,
          <<"frame", "frame">>, <<"file", "undo">>, <<"frame", "undo">>,
          <<"file", "frame">>, <<"test", "marks">>, <<"test", "after">>, <<"marks", "marks">>,
          <<"marks", "lock0">>, <<"marks", "after">>, <<"lock0", "copy">>, <<"lock0", "after">>,
          <<"copy", "copy">>, <<"copy", "after">>}

LEMMA MoveInv ==
    ASSUME WalInv, NEW c \in Conns, Only(c, {"pc"}), UNCHANGED <<shm, writeLock>>,
           <<con[c].pc, con'[c].pc>> \in Moves, con'[c].pc = "pick" => con[c].useWal
    PROVE  WalInv'
  <1>1. /\ ConInv(c) /\ con'[c].hdr = con[c].hdr /\ con'[c].snap = con[c].snap
        /\ con'[c].useWal = con[c].useWal /\ con'[c].t = con[c].t /\ con'[c].mode = con[c].mode
    BY Known DEF Only, Tracked
  <1>2. Caller(c)'
    BY <1>1 DEF ConInv, Caller, Moves, CkptSteps, WriteSteps
  <1>3. Locked(c)' /\ Based(c)'
    BY <1>1 DEF ConInv, Caller, Locked, Based, NeedsLock, Writer, Moves, CkptSteps, WriteSteps
  <1> QED BY <1>1, <1>2, <1>3, Known, OneSteps DEF ConInv, Only, WalInv, Shape

\* The connection is where it began, with its locks released.
LEMMA StartInv ==
    ASSUME WalInv, NEW c \in Conns, NEW r, con' = [con EXCEPT ![c] = r], DOMAIN r = ConFields,
           DOMAIN r.hdr = HdrFields, r.pc = "none", ~r.useWal, r.t = 0, r.mode = "none",
           UNCHANGED shm, \A d \in Conns \ {c} : writeLock = d => writeLock' = d
    PROVE  WalInv'
  <1>1. con'[c] = r /\ DOMAIN con' = Conns /\ \A d \in Conns \ {c} : con'[d] = con[d]
    BY Known
  <1>2. ConInv(c)'
    BY <1>1 DEF ConInv, Caller, Locked, Based, NeedsLock, Writer, CkptSteps
  <1> QED BY <1>1, <1>2, OneSteps DEF WalInv, Shape

LEMMA RestInv ==
    ASSUME WalInv, NEW c \in Conns, NEW n, con' = [con EXCEPT ![c] = [Idle EXCEPT !.nCkpt = n]],
           UNCHANGED shm, \A d \in Conns \ {c} : writeLock = d => writeLock' = d
    PROVE  WalInv'
  <1> DEFINE r == [Idle EXCEPT !.nCkpt = n]
  <1>1. /\ DOMAIN r = ConFields /\ DOMAIN r.hdr = HdrFields
        /\ r.pc = "none" /\ ~r.useWal /\ r.t = 0 /\ r.mode = "none"
    BY DEF ConFields, HdrFields, Idle
  <1> HIDE DEF r
  <1>2. con' = [con EXCEPT ![c] = r]
    BY DEF r
  <1> QED BY <1>1, <1>2, StartInv

-----------------------------------------------------------------------------
(* Read transactions.                                                      *)

LEMMA ReadHdrInv == ASSUME WalInv, NEW c \in Conns, ReadHdr(c) PROVE WalInv'
  <1>1. /\ Only(c, {"pc", "hdr"}) /\ con'[c].pc = "try" /\ con'[c].hdr = shm[0]
        /\ UNCHANGED <<shm, writeLock>> /\ con[c].pc = "none"
    BY Known, Fields DEF ReadHdr, Set, At, Only, Tracked, indexVars, lockVars
  <1>2. ConInv(c)'
    BY <1>1, Known DEF Only, Tracked, ConInv, Caller, Locked, Based, NeedsLock, Writer,
       CkptSteps, WriteSteps
  <1> QED BY <1>1, <1>2, Known, OneSteps DEF Only, WalInv, Shape

LEMMA TryLock0Inv == ASSUME WalInv, NEW c \in Conns, TryLock0(c) PROVE WalInv'
  <1>1. /\ Only(c, {"pc"}) /\ con'[c].pc = "cmp0" /\ con[c].pc = "try"
        /\ UNCHANGED <<shm, writeLock>>
    BY Known, Fields DEF TryLock0, Goto, At, Only, Tracked, indexVars
  <1> QED BY <1>1, MoveInv DEF Moves

\* walTryBeginRead gives up, or a writer tries again.
LEMMA RetryInv ==
    ASSUME WalInv, NEW c \in Conns, con[c].pc \in {"try", "pick", "lock", "cmp"}, Set(c, Retry(c)),
           UNCHANGED <<shm, writeLock>>
    PROVE  WalInv'
  <1>1. CASE con[c].useWal
    <2>1. Only(c, {"pc"}) /\ con'[c].pc = "pick" /\ con[c].pc # "try"
      BY <1>1, Known, Fields, ZenonT(60) DEF Set, Retry, Only, Tracked, ConInv, Caller
    <2> QED BY <1>1, <2>1, MoveInv DEF Moves
  <1>2. CASE ~con[c].useWal
    BY <1>2, RestInv DEF Set, Retry, AtRest
  <1> QED BY <1>1, <1>2

\* A snapshot is taken of the header that is still there.
LEMMA SnapInv ==
    ASSUME WalInv, NEW c \in Conns, Only(c, {"pc", "snap"}), con[c].pc \in {"cmp0", "cmp"},
           ~con[c].useWal, con'[c].pc = "read", con'[c].snap = con[c].hdr.ver,
           UNCHANGED <<shm, writeLock>>
    PROVE  WalInv'
  <1>1. ConInv(c)'
    BY Known DEF Only, Tracked, ConInv, Caller, Locked, Based, NeedsLock, Writer,
       CkptSteps, WriteSteps
  <1> QED BY <1>1, Known, OneSteps DEF Only, Tracked, WalInv, Shape

LEMMA Compare0Inv == ASSUME WalInv, NEW c \in Conns, Compare0(c) PROVE WalInv'
  <1>1. UNCHANGED <<shm, writeLock>> /\ con[c].pc = "cmp0" /\ ~con[c].useWal
    BY Known DEF Compare0, At, indexVars, ConInv, Caller
  <1>2. CASE Set(c, AtRest(c))
    BY <1>1, <1>2, RestInv DEF Set, AtRest
  <1>3. CASE Set(c, [con[c] EXCEPT !.pc = "read", !.snap = con[c].hdr.ver])
    <2>1. Only(c, {"pc", "snap"}) /\ con'[c].pc = "read" /\ con'[c].snap = con[c].hdr.ver
      BY <1>3, Known, Fields DEF Set, Only, Tracked
    <2> QED BY <1>1, <2>1, SnapInv
  <1> QED BY <1>2, <1>3 DEF Compare0

LEMMA PickMarkInv == ASSUME WalInv, NEW c \in Conns, PickMark(c) PROVE WalInv'
  <1>1. UNCHANGED <<shm, writeLock>> /\ con[c].pc \in {"pick", "try"}
    BY DEF PickMark, At, lockVars
  <1>2. CASE Set(c, Retry(c))
    BY <1>1, <1>2, RetryInv
  <1>3. CASE \E i, m : Set(c, [con[c] EXCEPT !.pc = "lock", !.mxI = i, !.mark = m])
    <2>1. Only(c, {"pc"}) /\ con'[c].pc = "lock"
      <3>1. PICK i, m : Set(c, [con[c] EXCEPT !.pc = "lock", !.mxI = i, !.mark = m])
        BY <1>3, Zenon
      <3>2. con' = [con EXCEPT ![c] = [con[c] EXCEPT !.pc = "lock", !.mxI = i, !.mark = m]]
        BY <3>1, Zenon DEF Set
      <3> QED BY <3>2, Known, Fields DEF Only, Tracked
    <2> QED BY <1>1, <2>1, MoveInv DEF Moves
  <1> QED BY <1>2, <1>3 DEF PickMark

LEMMA LockMarkInv == ASSUME WalInv, NEW c \in Conns, LockMark(c) PROVE WalInv'
  <1>1. UNCHANGED <<shm, writeLock>> /\ con[c].pc = "lock"
    BY DEF LockMark, At, indexVars
  <1>2. CASE Set(c, Retry(c))
    BY <1>1, <1>2, RetryInv
  <1>3. CASE Set(c, [con[c] EXCEPT !.pc = "cmp", !.minFrame = nBackfill + 1])
    <2>1. Only(c, {"pc"}) /\ con'[c].pc = "cmp"
      BY <1>3, Known, Fields DEF Set, Only, Tracked
    <2> QED BY <1>1, <2>1, MoveInv DEF Moves
  <1> QED BY <1>2, <1>3 DEF LockMark

LEMMA CompareMarkInv == ASSUME WalInv, NEW c \in Conns, CompareMark(c) PROVE WalInv'
  <1>1. UNCHANGED <<shm, writeLock>> /\ con[c].pc = "cmp"
    BY DEF CompareMark, At, indexVars
  <1>2. CASE Set(c, Retry(c))
    BY <1>1, <1>2, RetryInv
  <1>3. CASE /\ con[c].useWal
             /\ Set(c, [con[c] EXCEPT !.pc = "file", !.useWal = FALSE, !.mxI = 0, !.mark = 0])
    <2>1. Only(c, {"pc", "useWal"}) /\ con'[c].pc = "file" /\ con'[c].useWal = FALSE
      BY <1>3, Known, Fields DEF Set, Only, Tracked
    <2>2. ConInv(c)'
      BY <1>1, <1>3, <2>1, Known DEF Only, Tracked, ConInv, Caller, Locked, Based, NeedsLock,
         Writer, CkptSteps, WriteSteps
    <2> QED BY <1>1, <2>1, <2>2, Known, OneSteps DEF Only, Tracked, WalInv, Shape
  <1>4. CASE /\ ~con[c].useWal
             /\ Set(c, [con[c] EXCEPT !.pc = "read", !.snap = con[c].hdr.ver, !.mxI = 0, !.mark = 0])
    <2>1. Only(c, {"pc", "snap"}) /\ con'[c].pc = "read" /\ con'[c].snap = con[c].hdr.ver
      BY <1>4, Known, Fields DEF Set, Only, Tracked
    <2> QED BY <1>1, <1>4, <2>1, SnapInv
  <1> QED BY <1>2, <1>3, <1>4 DEF CompareMark

LEMMA EndReadInv == ASSUME WalInv, NEW c \in Conns, EndRead(c) PROVE WalInv'
  BY RestInv DEF EndRead, Set, AtRest, indexVars

-----------------------------------------------------------------------------
(* Write transactions.                                                     *)

LEMMA BeginWriteInv == ASSUME WalInv, NEW c \in Conns, BeginWrite(c) PROVE WalInv'
  <1>1. /\ Only(c, {"pc"}) /\ con'[c].pc = "write" /\ con[c].pc = "read" /\ UNCHANGED shm
        /\ writeLock = None /\ writeLock' = c /\ shm[0] = con[c].hdr
    BY Known, Fields DEF BeginWrite, CanWrite, SameHdr, Goto, At, Only, Tracked, indexVars
  <1>2. ConInv(c)'
    BY <1>1, Known DEF Only, Tracked, ConInv, Caller, Locked, Based, NeedsLock, Writer,
       CkptSteps, WriteSteps
  <1>3. \A d \in Conns : writeLock # d
    BY <1>1, WalAssumption
  <1> QED BY <1>1, <1>2, <1>3, Known, OneSteps DEF Only, Tracked, WalInv, Shape

\* A write transaction goes on: it keeps the lock, and its version.
LEMMA WriterInv ==
    ASSUME WalInv, NEW c \in Conns, Only(c, {"pc", "hdr", "useWal", "t"}), Writer(c),
           DOMAIN con'[c].hdr = HdrFields, con'[c].pc \in WriteSteps, con'[c].t # 0,
           con'[c].pc # "publish" => con'[c].hdr.ver = con[c].hdr.ver /\ con[c].pc # "publish",
           con'[c].pc = "publish" => con'[c].hdr.ver = con'[c].t,
           con'[c].useWal <=> con'[c].pc \in {"pick", "lock", "cmp"},
           UNCHANGED writeLock, DOMAIN shm' = 0..1, \A k \in 0..1 : DOMAIN shm'[k] = HdrFields,
           shm'[0].ver = shm[0].ver
    PROVE  WalInv'
  <1>1. con'[c].mode = con[c].mode /\ con'[c].snap = con[c].snap /\ ConInv(c) /\ writeLock = c
    BY Known DEF Only, Tracked, ConInv, Locked, NeedsLock
  <1>2. con[c].mode = "none"
    BY <1>1 DEF Writer, ConInv, Caller, CkptSteps
  <1>3. ConInv(c)'
    BY <1>1, <1>2 DEF ConInv, Caller, Locked, Based, NeedsLock, Writer, CkptSteps, WriteSteps
  <1> QED BY <1>1, <1>3, Known, OneSteps DEF Only

LEMMA WalFramesInv ==
    ASSUME WalInv, NEW c \in Conns, NEW S, NEW k, ntxn \in Nat, WalFrames(c, S, k) PROVE WalInv'
  <1>1. UNCHANGED <<shm, writeLock>> /\ con[c].pc = "write"
    BY DEF WalFrames, At, indexVars, lockVars
  <1>2. /\ Only(c, {"pc", "t"}) /\ con'[c].pc \in {"restart", "file"}
        /\ con'[c].t = IF con[c].t = 0 THEN ntxn + 1 ELSE con[c].t
    BY Known, Fields, ZenonT(60) DEF WalFrames, Set, Only, Tracked
  <1>3. con'[c].t # 0 /\ con'[c].useWal = con[c].useWal /\ con'[c].hdr = con[c].hdr
    BY <1>2 DEF Only, Tracked
  <1>4. Writer(c) /\ ~con[c].useWal
    BY <1>1, Known DEF Writer, ConInv, Caller
  <1> QED BY <1>1, <1>2, <1>3, <1>4, Known, WriterInv DEF Only, Tracked, WriteSteps, WalInv, Shape

LEMMA RestartLogInv == ASSUME WalInv, NEW c \in Conns, RestartLog(c) PROVE WalInv'
  <1>1. /\ UNCHANGED writeLock /\ con[c].pc = "restart" /\ Writer(c) /\ con[c].t # 0
        /\ ~con[c].useWal
    BY Known DEF RestartLog, At, Writer, ConInv, Caller
  <1>2. CASE Set(c, [con[c] EXCEPT !.pc = "pick", !.useWal = TRUE]) /\ UNCHANGED shm
    <2>1. Only(c, {"pc", "useWal"}) /\ con'[c].pc = "pick" /\ con'[c].useWal = TRUE
      BY <1>2, Known, Fields DEF Set, Only, Tracked
    <2> QED BY <1>1, <1>2, <2>1, Known, WriterInv DEF Only, Tracked, WriteSteps, WalInv, Shape
  <1>3. CASE /\ shm' = [shm EXCEPT ![1] = ResetHdr(c)]
             /\ Set(c, [con[c] EXCEPT !.pc = "reset0", !.hdr = ResetHdr(c), !.nCkpt = TRUE])
    <2>1. DOMAIN ResetHdr(c) = HdrFields /\ ResetHdr(c).ver = con[c].hdr.ver
      BY Known, Fields DEF ResetHdr
    <2>2. Only(c, {"pc", "hdr"}) /\ con'[c].pc = "reset0" /\ con'[c].hdr = ResetHdr(c)
      BY <1>3, Known, Fields DEF Set, Only, Tracked
    <2>3. /\ DOMAIN shm' = 0..1 /\ \A k \in 0..1 : DOMAIN shm'[k] = HdrFields
          /\ shm'[0].ver = shm[0].ver
      BY <1>3, <2>1 DEF WalInv, Shape
    <2> QED BY <1>1, <2>1, <2>2, <2>3, Known, WriterInv DEF Only, Tracked, WriteSteps
  <1> QED BY <1>2, <1>3 DEF RestartLog

LEMMA ResetHdr0Inv == ASSUME WalInv, NEW c \in Conns, ResetHdr0(c) PROVE WalInv'
  <1>1. /\ UNCHANGED writeLock /\ con[c].pc = "reset0" /\ Only(c, {"pc"}) /\ con'[c].pc = "reset1"
        /\ shm' = [shm EXCEPT ![0] = con[c].hdr]
    BY Known, Fields DEF ResetHdr0, Goto, At, Only, Tracked, lockVars
  <1>2. /\ DOMAIN shm' = 0..1 /\ \A k \in 0..1 : DOMAIN shm'[k] = HdrFields
        /\ shm'[0] = con[c].hdr
    BY <1>1, Known DEF WalInv, Shape
  <1>3. writeLock = c
    BY <1>1, Known DEF ConInv, Locked, NeedsLock
  <1>4. ConInv(c)'
    BY <1>1, <1>2, <1>3, Known DEF Only, Tracked, ConInv, Caller, Locked, Based, NeedsLock,
       Writer, CkptSteps, WriteSteps
  <1> QED BY <1>1, <1>2, <1>3, <1>4, Known, OneSteps DEF Only, Tracked

LEMMA ResetInfoInv == ASSUME WalInv, NEW c \in Conns, ResetInfo(c) PROVE WalInv'
  <1>1. UNCHANGED <<shm, writeLock>> /\ con[c].pc = "reset1"
    BY DEF ResetInfo, At
  <1>2. CASE con[c].mode = "none" /\ Set(c, [con[c] EXCEPT !.pc = "pick", !.useWal = TRUE])
    <2>1. Only(c, {"pc", "useWal"}) /\ con'[c].pc = "pick" /\ con'[c].useWal = TRUE
      BY <1>2, Known, Fields DEF Set, Only, Tracked
    <2>2. con[c].t # 0 /\ Writer(c)
      BY <1>1, <1>2, Known DEF ConInv, Caller, Writer
    <2> QED BY <1>1, <2>1, <2>2, Known, WriterInv DEF Only, Tracked, WriteSteps, WalInv, Shape
  <1>3. CASE con[c].mode # "none" /\ Goto(c, "trunc")
    <2>1. Only(c, {"pc"}) /\ con'[c].pc = "trunc"
      BY <1>3, Known, Fields DEF Goto, Only, Tracked
    <2>2. ConInv(c)'
      BY <1>1, <1>3, <2>1, Known DEF Only, Tracked, ConInv, Caller, Locked, Based, NeedsLock,
         Writer, CkptSteps, WriteSteps
    <2> QED BY <1>1, <2>1, <2>2, Known, OneSteps DEF Only, Tracked, WalInv, Shape
  <1> QED BY <1>2, <1>3 DEF ResetInfo

LEMMA WriteFileHdrInv == ASSUME WalInv, NEW c \in Conns, WriteFileHdr(c) PROVE WalInv'
  <1>1. /\ UNCHANGED <<shm, writeLock>> /\ con[c].pc = "file" /\ Writer(c) /\ con[c].t # 0
        /\ ~con[c].useWal
    BY Known DEF WriteFileHdr, At, indexVars, lockVars, ConInv, Caller, Writer
  <1>2. CASE Goto(c, "frame")
    <2>1. Only(c, {"pc"}) /\ con'[c].pc = "frame"
      BY <1>2, Known, Fields DEF Goto, Only, Tracked
    <2> QED BY <1>1, <2>1, MoveInv DEF Moves
  <1>3. CASE \E s : Set(c, [con[c] EXCEPT !.pc = "frame", !.hdr.salt = s])
    <2>1. PICK s : Set(c, [con[c] EXCEPT !.pc = "frame", !.hdr.salt = s])
      BY <1>3
    <2>2. /\ Only(c, {"pc", "hdr"}) /\ con'[c].pc = "frame"
          /\ con'[c].hdr = [con[c].hdr EXCEPT !.salt = s]
      BY <2>1, Known, Fields DEF Set, Only, Tracked
    <2>3. DOMAIN con'[c].hdr = HdrFields /\ con'[c].hdr.ver = con[c].hdr.ver
      BY <2>2, Known, Fields
    <2> QED BY <1>1, <2>2, <2>3, Known, WriterInv DEF Only, Tracked, WriteSteps, WalInv, Shape
  <1> QED BY <1>2, <1>3 DEF WriteFileHdr

LEMMA WriteErrorInv == ASSUME WalInv, NEW c \in Conns, WriteError(c) PROVE WalInv'
  <1>1. /\ UNCHANGED <<shm, writeLock>> /\ con[c].pc \in {"file", "frame"}
        /\ Only(c, {"pc"}) /\ con'[c].pc = "undo"
    BY Known, Fields DEF WriteError, Goto, Only, Tracked, indexVars, lockVars
  <1> QED BY <1>1, MoveInv DEF Moves

LEMMA WriteFrameInv == ASSUME WalInv, NEW c \in Conns, WriteFrame(c) PROVE WalInv'
  <1>1. UNCHANGED <<shm, writeLock>> /\ con[c].pc = "frame"
    BY DEF WriteFrame, At, indexVars, lockVars
  <1>2. \E a, b, d, e : Set(c, [con[c] EXCEPT !.todo = a, !.own = b, !.n = d, !.recksum = e])
    BY DEF WriteFrame
  <1>3. Only(c, {})
    BY <1>2, Known, Fields, ZenonT(60) DEF Set, Only, Tracked
  <1> QED BY <1>1, <1>3, MoveInv DEF Moves, Only, Tracked

LEMMA FinishSpillInv == ASSUME WalInv, NEW c \in Conns, FinishSpill(c) PROVE WalInv'
  <1>1. /\ UNCHANGED <<shm, writeLock>> /\ con[c].pc = "frame" /\ Writer(c) /\ con[c].t # 0
        /\ ~con[c].useWal
    BY Known DEF FinishSpill, At, lockVars, ConInv, Caller, Writer
  <1>2. /\ Only(c, {"pc", "hdr"}) /\ con'[c].pc = "write"
        /\ DOMAIN con'[c].hdr = HdrFields /\ con'[c].hdr.ver = con[c].hdr.ver
    BY Known, Fields DEF FinishSpill, Set, Only, Tracked
  <1> QED BY <1>1, <1>2, Known, WriterInv DEF Only, Tracked, WriteSteps, WalInv, Shape

LEMMA FinishCommitInv ==
    ASSUME WalInv, NEW c \in Conns, NEW sync, FinishCommit(c, sync) PROVE WalInv'
  <1> DEFINE w == con[c]
             h == [w.hdr EXCEPT !.mx = @ + w.n, !.chg = @ + 1, !.ver = w.t]
  <1>1. /\ UNCHANGED writeLock /\ con[c].pc = "frame" /\ Writer(c) /\ con[c].t # 0
        /\ ~con[c].useWal
    BY Known DEF FinishCommit, At, lockVars, ConInv, Caller, Writer
  <1>2. DOMAIN h = HdrFields /\ h.ver = con[c].t
    BY Known, Fields
  <1>3. /\ shm' = [shm EXCEPT ![1] = h]
        /\ Set(c, [w EXCEPT !.pc = "publish", !.hdr = h, !.synced = sync])
    BY DEF FinishCommit
  <1> HIDE DEF h
  <1>4. Only(c, {"pc", "hdr"}) /\ con'[c].pc = "publish" /\ con'[c].hdr = h
    BY <1>3, Known, Fields DEF Set, Only, Tracked
  <1>5. /\ DOMAIN shm' = 0..1 /\ \A k \in 0..1 : DOMAIN shm'[k] = HdrFields
        /\ shm'[0].ver = shm[0].ver
    BY <1>2, <1>3 DEF WalInv, Shape
  <1> QED BY <1>1, <1>2, <1>4, <1>5, Known, WriterInv DEF Only, Tracked, WriteSteps

\* A write transaction ends and its read transaction goes on.
LEMMA BackToRead ==
    ASSUME WalInv, NEW c \in Conns, NEW h, NEW v, NEW m, DOMAIN h = HdrFields, h.ver = v,
           Set(c, [AtRest(c) EXCEPT !.pc = "read", !.hdr = h, !.snap = v, !.minFrame = m]),
           writeLock = c, DOMAIN shm' = 0..1, \A k \in 0..1 : DOMAIN shm'[k] = HdrFields
    PROVE  WalInv'
  <1> DEFINE r == [AtRest(c) EXCEPT !.pc = "read", !.hdr = h, !.snap = v, !.minFrame = m]
  <1>1. /\ DOMAIN r = ConFields /\ r.hdr = h /\ r.snap = v
        /\ r.pc = "read" /\ r.useWal = FALSE /\ r.t = 0 /\ r.mode = "none"
    <2>1. /\ DOMAIN AtRest(c) = ConFields /\ AtRest(c).useWal = FALSE /\ AtRest(c).t = 0
          /\ AtRest(c).mode = "none"
      BY DEF AtRest, ConFields, Idle
    <2> QED BY <2>1, Fields
  <1>2. con' = [con EXCEPT ![c] = r]
    BY DEF Set
  <1> HIDE DEF r
  <1>3. con'[c] = r /\ DOMAIN con' = Conns /\ \A d \in Conns \ {c} : con'[d] = con[d]
    BY <1>2, Known
  <1>4. ConInv(c)'
    BY <1>1, <1>3 DEF ConInv, Caller, Locked, Based, NeedsLock, Writer, CkptSteps
  <1> QED BY <1>1, <1>3, <1>4, OneSteps

LEMMA PublishInv == ASSUME WalInv, NEW c \in Conns, Publish(c) PROVE WalInv'
  <1>1. writeLock = c /\ con[c].hdr.ver = con[c].t
    BY Known DEF Publish, At, ConInv, Caller, Locked, Based, NeedsLock, Writer
  <1>2. /\ shm' = [shm EXCEPT ![0] = con[c].hdr]
        /\ DOMAIN shm' = 0..1 /\ \A k \in 0..1 : DOMAIN shm'[k] = HdrFields
    BY Known DEF Publish, WalInv, Shape
  <1> QED BY <1>1, <1>2, Known, BackToRead DEF Publish

LEMMA UndoInv == ASSUME WalInv, NEW c \in Conns, Undo(c) PROVE WalInv'
  <1>1. writeLock = c /\ shm[0].ver = con[c].snap
    BY Known DEF Undo, ConInv, Caller, Locked, Based, NeedsLock, Writer
  <1> QED BY <1>1, Known, BackToRead DEF Undo, WalInv, Shape

-----------------------------------------------------------------------------
(* Checkpoints.                                                            *)

LEMMA CkptBeginInv == ASSUME WalInv, NEW c \in Conns, NEW mode, CkptBegin(c, mode) PROVE WalInv'
  <1>1. /\ Only(c, {"pc", "mode"}) /\ con[c].pc = "none" /\ con'[c].pc = "ckpt"
        /\ UNCHANGED shm
    BY Known, Fields DEF CkptBegin, Set, At, Only, Tracked, indexVars
  <1>2. con'[c].mode # "passive" => writeLock' = c
    BY Known, Fields DEF CkptBegin, Set
  <1>3. \A d \in Conns \ {c} : writeLock = d => writeLock' = d
    BY WalAssumption DEF CkptBegin
  <1>4. ConInv(c)'
    BY <1>1, <1>2, Known DEF Only, Tracked, ConInv, Caller, Locked, Based, NeedsLock,
       Writer, CkptSteps, WriteSteps
  <1> QED BY <1>1, <1>3, <1>4, Known, OneSteps DEF Only, Tracked, WalInv, Shape

LEMMA CkptReleaseInv ==
    ASSUME WalInv, NEW c \in Conns, CkptRelease(c), UNCHANGED shm PROVE WalInv'
  BY RestInv DEF CkptRelease, Set, AtRest

LEMMA CkptReadHdrInv == ASSUME WalInv, NEW c \in Conns, CkptReadHdr(c) PROVE WalInv'
  <1>1. UNCHANGED shm /\ con[c].pc = "ckpt"
    BY DEF CkptReadHdr, At, indexVars
  <1>2. CASE UNCHANGED writeLock /\ Set(c, [con[c] EXCEPT !.pc = "test", !.hdr = shm[0]])
    <2>1. Only(c, {"pc", "hdr"}) /\ con'[c].pc = "test" /\ con'[c].hdr = shm[0]
      BY <1>2, Known, Fields DEF Set, Only, Tracked
    <2>2. ConInv(c)'
      BY <1>1, <1>2, <2>1, Known DEF Only, Tracked, ConInv, Caller, Locked, Based, NeedsLock,
         Writer, CkptSteps, WriteSteps
    <2> QED BY <1>1, <1>2, <2>1, <2>2, Known, OneSteps DEF Only, Tracked, WalInv, Shape
  <1>3. CASE CkptRelease(c)
    BY <1>1, <1>3, CkptReleaseInv
  <1> QED BY <1>2, <1>3 DEF CkptReadHdr

\* The steps between the header and the end of the backfilling.
LEMMA BackfillInv ==
    ASSUME WalInv, NEW c \in Conns,
           \/ CkptTest(c) \/ CkptMark(c) \/ CkptIterator(c) \/ CkptLock0(c) \/ CkptCopy(c)
           \/ CkptDone(c)
    PROVE  WalInv'
  <1>1. UNCHANGED <<shm, writeLock>>
    BY DEF CkptTest, CkptMark, CkptIterator, CkptLock0, CkptCopy, CkptDone, indexVars, lockVars
  <1>2. CASE CkptTest(c)
    <2>1. con[c].pc = "test" /\ Only(c, {"pc"}) /\ con'[c].pc \in {"marks", "after"}
      BY <1>2, Known, Fields, ZenonT(60) DEF CkptTest, At, Set, Only, Tracked
    <2> QED BY <1>1, <2>1, MoveInv DEF Moves
  <1>3. CASE CkptMark(c)
    <2>1. con[c].pc = "marks"
      BY <1>3 DEF CkptMark, At
    <2>2. \/ \E k : Set(c, [con[c] EXCEPT !.i = k])
          \/ \E k, m : Set(c, [con[c] EXCEPT !.i = k, !.safe = m])
      BY <1>3 DEF CkptMark
    <2>3. Only(c, {})
      BY <2>2, Known, Fields, ZenonT(60) DEF Set, Only, Tracked
    <2> QED BY <1>1, <2>1, <2>3, MoveInv DEF Moves, Only, Tracked
  <1>4. CASE CkptIterator(c)
    <2>1. con[c].pc = "marks" /\ Only(c, {"pc"}) /\ con'[c].pc \in {"lock0", "after"}
      BY <1>4, Known, Fields DEF CkptIterator, At, Set, Only, Tracked
    <2> QED BY <1>1, <2>1, MoveInv DEF Moves
  <1>5. CASE CkptLock0(c)
    <2>1. con[c].pc = "lock0" /\ Only(c, {"pc"}) /\ con'[c].pc \in {"copy", "after"}
      BY <1>5, Known, Fields DEF CkptLock0, At, Goto, Only, Tracked
    <2> QED BY <1>1, <2>1, MoveInv DEF Moves
  <1>6. CASE CkptCopy(c)
    <2>1. con[c].pc = "copy"
      BY <1>6 DEF CkptCopy, At
    <2>2. \E p : Set(c, [con[c] EXCEPT !.iter[p] = 0])
      BY <1>6 DEF CkptCopy
    <2>3. Only(c, {})
      BY <2>2, Known, Fields, ZenonT(60) DEF Set, Only, Tracked
    <2> QED BY <1>1, <2>1, <2>3, MoveInv DEF Moves, Only, Tracked
  <1>7. CASE CkptDone(c)
    <2>1. con[c].pc = "copy" /\ Only(c, {"pc"}) /\ con'[c].pc = "after"
      BY <1>7, Known, Fields DEF CkptDone, At, Goto, Only, Tracked
    <2> QED BY <1>1, <2>1, MoveInv DEF Moves
  <1> QED BY <1>2, <1>3, <1>4, <1>5, <1>6, <1>7

LEMMA CkptAfterInv == ASSUME WalInv, NEW c \in Conns, CkptAfter(c) PROVE WalInv'
  <1>1. con[c].pc = "after"
    BY DEF CkptAfter, At
  <1>2. CASE CkptRelease(c) /\ UNCHANGED shm
    BY <1>2, CkptReleaseInv
  <1>3. CASE /\ con[c].mode = "truncate" /\ shm' = [shm EXCEPT ![1] = ResetHdr(c)]
             /\ Set(c, [con[c] EXCEPT !.pc = "reset0", !.hdr = ResetHdr(c), !.nCkpt = TRUE])
             /\ UNCHANGED writeLock
    <2>1. DOMAIN ResetHdr(c) = HdrFields
      BY Known, Fields DEF ResetHdr
    <2>2. Only(c, {"pc", "hdr"}) /\ con'[c].pc = "reset0" /\ con'[c].hdr = ResetHdr(c)
      BY <1>3, Known, Fields DEF Set, Only, Tracked
    <2>3. /\ DOMAIN shm' = 0..1 /\ \A k \in 0..1 : DOMAIN shm'[k] = HdrFields
          /\ shm'[0] = shm[0]
      BY <1>3, <2>1 DEF WalInv, Shape
    <2>4. ConInv(c)'
      BY <1>1, <1>3, <2>2, Known DEF Only, Tracked, ConInv, Caller, Locked, Based, NeedsLock,
         Writer, CkptSteps, WriteSteps
    <2> QED BY <1>3, <2>1, <2>2, <2>3, <2>4, Known, OneSteps DEF Only
  <1> QED BY <1>2, <1>3 DEF CkptAfter

LEMMA CkptTruncateInv == ASSUME WalInv, NEW c \in Conns, CkptTruncate(c) PROVE WalInv'
  BY CkptReleaseInv DEF CkptTruncate, indexVars

-----------------------------------------------------------------------------
(* Recovery and failures.                                                  *)

LEMMA RecoverInv == ASSUME WalInv, NEW c \in Conns, Recover(c) PROVE WalInv'
  <1>1. /\ con[c].pc \in {"none", "ckpt"} /\ writeLock = None /\ writeLock' = c
        /\ shm' = [shm EXCEPT ![1] = RecoveredHdr]
    BY DEF Recover, At
  <1>2. DOMAIN RecoveredHdr = HdrFields
    BY Fields DEF RecoveredHdr
  <1>3. Only(c, {"pc", "hdr"}) /\ con'[c].pc = "rec0" /\ con'[c].hdr = RecoveredHdr
    <2>1. PICK k : con' = [con EXCEPT ![c] = [con[c] EXCEPT !.pc = "rec0", !.hdr = RecoveredHdr,
                                                          !.nCkpt = k]]
      BY DEF Recover, Set
    <2> QED BY <2>1, Known, Fields DEF Only, Tracked
  <1>4. /\ DOMAIN shm' = 0..1 /\ \A k \in 0..1 : DOMAIN shm'[k] = HdrFields
        /\ shm'[0] = shm[0]
    BY <1>1, <1>2 DEF WalInv, Shape
  <1>5. \A d \in Conns : writeLock # d
    BY <1>1, WalAssumption
  <1>6. ConInv(c)'
    BY <1>1, <1>3, <1>5, Known DEF Only, Tracked, ConInv, Caller, Locked, Based, NeedsLock,
       Writer, CkptSteps, WriteSteps
  <1> QED BY <1>1, <1>2, <1>3, <1>4, <1>5, <1>6, Known, OneSteps DEF Only

LEMMA RecoverHdrInv == ASSUME WalInv, NEW c \in Conns, RecoverHdr(c) PROVE WalInv'
  <1>1. /\ UNCHANGED writeLock /\ con[c].pc = "rec0" /\ Only(c, {"pc"}) /\ con'[c].pc = "rec1"
        /\ shm' = [shm EXCEPT ![0] = con[c].hdr]
    BY Known, Fields DEF RecoverHdr, Goto, At, Only, Tracked, lockVars
  <1>2. DOMAIN shm' = 0..1 /\ \A k \in 0..1 : DOMAIN shm'[k] = HdrFields
    BY <1>1, Known DEF WalInv, Shape
  <1>3. writeLock = c
    BY <1>1, Known DEF ConInv, Locked, NeedsLock
  <1>4. ConInv(c)'
    BY <1>1, <1>3, Known DEF Only, Tracked, ConInv, Caller, Locked, Based, NeedsLock,
       Writer, CkptSteps, WriteSteps
  <1> QED BY <1>1, <1>2, <1>3, <1>4, Known, OneSteps DEF Only, Tracked

LEMMA RecoverInfoInv == ASSUME WalInv, NEW c \in Conns, RecoverInfo(c) PROVE WalInv'
  <1>1. /\ UNCHANGED shm /\ con[c].pc = "rec1" /\ Only(c, {"pc"})
        /\ con'[c].pc = IF con[c].mode = "none" THEN "try" ELSE "test"
    BY Known, Fields DEF RecoverInfo, Goto, At, Only, Tracked
  <1>2. writeLock = c
    BY <1>1, Known DEF ConInv, Locked, NeedsLock
  <1>3. ConInv(c)'
    BY <1>1, Known DEF Only, Tracked, ConInv, Caller, Locked, Based, NeedsLock,
       Writer, CkptSteps, WriteSteps
  <1> QED BY <1>1, <1>2, <1>3, Known, OneSteps DEF Only, Tracked, WalInv, Shape

LEMMA KillInv == ASSUME WalInv, NEW c \in Conns, Kill(c) PROVE WalInv'
  <1>1. /\ DOMAIN Idle = ConFields /\ DOMAIN Idle.hdr = HdrFields
        /\ Idle.pc = "none" /\ ~Idle.useWal /\ Idle.t = 0 /\ Idle.mode = "none"
    BY DEF ConFields, HdrFields, Idle
  <1>2. /\ con' = [con EXCEPT ![c] = Idle]
        /\ UNCHANGED shm /\ \A d \in Conns \ {c} : writeLock = d => writeLock' = d
    BY DEF Kill, Set, indexVars
  <1> QED BY <1>1, <1>2, StartInv

\* Every connection is where it begins.
LEMMA FreshInv ==
    ASSUME shm = [k \in 0..1 |-> ZeroHdr], con = [c \in Conns |-> Idle] PROVE WalInv
  <1>1. Shape
    BY DEF Shape, ConFields, HdrFields, Idle
  <1>2. ASSUME NEW c \in Conns PROVE ConInv(c)
    <2>1. con[c].pc = "none" /\ ~con[c].useWal /\ con[c].t = 0 /\ con[c].mode = "none"
      BY DEF Idle
    <2> QED BY <2>1 DEF ConInv, Caller, Locked, Based, NeedsLock, Writer
  <1> QED BY <1>1, <1>2 DEF WalInv

LEMMA PowerLossInv == PowerLoss => WalInv'
  <1> SUFFICES ASSUME PowerLoss PROVE WalInv'
    OBVIOUS
  <1>1. shm' = [k \in 0..1 |-> ZeroHdr] /\ con' = [c \in Conns |-> Idle]
    BY DEF PowerLoss
  <1>2. Shape'
    BY <1>1 DEF Shape, ConFields, HdrFields, Idle
  <1>3. ASSUME NEW c \in Conns PROVE ConInv(c)'
    <2>1. con'[c].pc = "none" /\ ~con'[c].useWal /\ con'[c].t = 0 /\ con'[c].mode = "none"
      BY <1>1 DEF Idle
    <2> QED BY <2>1 DEF ConInv, Caller, Locked, Based, NeedsLock, Writer
  <1> QED BY <1>2, <1>3 DEF WalInv

LEMMA StutterInv == ASSUME WalInv, UNCHANGED vars PROVE WalInv'
  BY DEF WalInv, Shape, ConInv, Caller, Locked, Based, NeedsLock, Writer, vars, indexVars, lockVars

-----------------------------------------------------------------------------
LEMMA ReadingInv == ASSUME WalInv, NEW c \in Conns, Reading(c) PROVE WalInv'
  BY ReadHdrInv, TryLock0Inv, Compare0Inv, PickMarkInv, LockMarkInv, CompareMarkInv, EndReadInv
     DEF Reading

LEMMA WritingInv == ASSUME WalInv, ntxn \in Nat, NEW c \in Conns, Writing(c) PROVE WalInv'
  BY BeginWriteInv, WalFramesInv, RestartLogInv, ResetHdr0Inv, ResetInfoInv, WriteFileHdrInv,
     WriteFrameInv, FinishSpillInv, FinishCommitInv, PublishInv, WriteErrorInv, UndoInv
     DEF Writing

LEMMA CheckpointingInv == ASSUME WalInv, NEW c \in Conns, Checkpointing(c) PROVE WalInv'
  BY CkptBeginInv, CkptReadHdrInv, BackfillInv, CkptAfterInv, CkptTruncateInv DEF Checkpointing

LEMMA RecoveringInv == ASSUME WalInv, NEW c \in Conns, Recovering(c) PROVE WalInv'
  BY RecoverInv, RecoverHdrInv, RecoverInfoInv DEF Recovering

LEMMA NextInv == WalInv /\ ntxn \in Nat /\ [Next]_vars => WalInv'
  BY ReadingInv, WritingInv, CheckpointingInv, RecoveringInv, KillInv, PowerLossInv, StutterInv
     DEF Next

\* Transactions are counted by WalFrames alone.
LEMMA NtxnNat == ntxn \in Nat /\ [Next]_vars => ntxn' \in Nat
  <1> SUFFICES ASSUME ntxn \in Nat, [Next]_vars PROVE ntxn' \in Nat
    OBVIOUS
  <1>1. ASSUME NEW c \in Conns, Reading(c) \/ Recovering(c) PROVE ntxn' = ntxn
    BY <1>1 DEF Reading, ReadHdr, TryLock0, Compare0, PickMark, LockMark, CompareMark, EndRead,
       Recovering, Recover, RecoverHdr, RecoverInfo, countVars
  <1>2. ASSUME NEW c \in Conns, Checkpointing(c) PROVE ntxn' = ntxn
    BY <1>2 DEF Checkpointing, CkptBegin, CkptReadHdr, CkptTest, CkptMark, CkptIterator, CkptLock0,
       CkptCopy, CkptDone, CkptAfter, CkptTruncate, countVars
  <1>3. ASSUME NEW c \in Conns, Writing(c) PROVE ntxn' \in Nat
    <2>1. ASSUME NEW S, NEW k, WalFrames(c, S, k) PROVE ntxn' \in Nat
      BY <2>1 DEF WalFrames
    <2>2. ASSUME \/ RestartLog(c) \/ ResetHdr0(c) \/ ResetInfo(c) \/ WriteFileHdr(c)
                 \/ WriteFrame(c) \/ FinishSpill(c)
          PROVE  ntxn' = ntxn
      BY <2>2 DEF RestartLog, ResetHdr0, ResetInfo, WriteFileHdr, WriteFrame, FinishSpill, countVars
    <2>3. ASSUME \/ BeginWrite(c) \/ (\E sync \in BOOLEAN : FinishCommit(c, sync))
                 \/ Publish(c) \/ WriteError(c) \/ Undo(c)
          PROVE  ntxn' = ntxn
      BY <2>3 DEF BeginWrite, FinishCommit, Publish, WriteError, Undo, countVars
    <2> QED BY <1>3, <2>1, <2>2, <2>3 DEF Writing
  <1>4. ASSUME NEW c \in Conns, Kill(c) PROVE ntxn' = ntxn
    BY <1>4 DEF Kill
  <1>5. CASE PowerLoss
    BY <1>5 DEF PowerLoss
  <1>6. CASE UNCHANGED vars
    BY <1>6 DEF vars, countVars
  <1> QED BY <1>1, <1>2, <1>3, <1>4, <1>5, <1>6 DEF Next

LEMMA SpecInv == Spec => [](WalInv /\ ntxn \in Nat)
  <1>1. Init => WalInv /\ ntxn \in Nat
    BY FreshInv DEF Init
  <1>2. WalInv /\ ntxn \in Nat /\ [Next]_vars => (WalInv /\ ntxn \in Nat)'
    BY NextInv, NtxnNat
  <1> QED BY <1>1, <1>2, PTL DEF Spec

\* No lost update, for any number of connections, pages, frames, marks, transactions,
\* kills and power losses: while a connection is in a write transaction the version in
\* the wal-index is the one its snapshot is of, so what sqlite3WalFrames commits follows
\* what the connection has read.
THEOREM SpecWriterCurrent == Spec => []WriterCurrent
  <1>1. WalInv => WriterCurrent
    BY DEF WalInv, WriterCurrent, ConInv, Based, Writer
  <1> QED BY <1>1, SpecInv, PTL

\* The log file, its header, and the copy of the wal-index header that readers compare
\* with change in steps of the connection that holds WAL_WRITE_LOCK, or when the power
\* is lost.  sqlite3WalFrames, walRestartLog, walIndexRecover and a TRUNCATE checkpoint
\* write to them, and a checkpoint that fell back to PASSIVE must not.
WriterOnly ==
    wal' # wal \/ file' # file \/ shm'[0] # shm[0] =>
        \/ \E c \in Conns : writeLock = c /\ \A d \in Conns \ {c} : con'[d] = con[d]
        \/ con' = [c \in Conns |-> Idle]

LEMMA InvWriterOnly == WalInv /\ [Next]_vars => WriterOnly
  <1> SUFFICES ASSUME WalInv, [Next]_vars PROVE WriterOnly
    OBVIOUS
  <1>1. ASSUME NEW c \in Conns, Reading(c) PROVE UNCHANGED <<wal, file, shm>>
    BY <1>1 DEF Reading, ReadHdr, TryLock0, Compare0, PickMark, LockMark, CompareMark, EndRead,
       fileVars, indexVars
  <1>2. ASSUME NEW c \in Conns, Locked(c), NeedsLock(c), con' = [con EXCEPT ![c] = con'[c]]
        PROVE  WriterOnly
    BY <1>2, Known DEF WriterOnly, Locked
  <1>3. ASSUME NEW c \in Conns, Writing(c) PROVE WriterOnly
    <2>1. CASE BeginWrite(c) \/ Undo(c) \/ WriteError(c) \/ FinishSpill(c)
      <3>1. UNCHANGED <<wal, file, shm>>
        BY <2>1 DEF BeginWrite, Undo, WriteError, FinishSpill, fileVars, indexVars
      <3> QED BY <3>1 DEF WriterOnly
    <2>2. CASE \E S, k : WalFrames(c, S, k)
      <3>1. UNCHANGED <<wal, file, shm>>
        BY <2>2 DEF WalFrames, fileVars, indexVars
      <3> QED BY <3>1 DEF WriterOnly
    <2>3. CASE \/ RestartLog(c) \/ ResetHdr0(c) \/ ResetInfo(c) \/ WriteFileHdr(c)
               \/ WriteFrame(c) \/ (\E sync \in BOOLEAN : FinishCommit(c, sync)) \/ Publish(c)
      <3>1. con[c].pc \in {"restart", "reset0", "reset1", "file", "frame", "publish"}
        BY <2>3 DEF RestartLog, ResetHdr0, ResetInfo, WriteFileHdr, WriteFrame, FinishCommit,
           Publish, At
      <3>2. NeedsLock(c) /\ Locked(c)
        BY <3>1, Known DEF ConInv, Caller, NeedsLock, Writer
      <3>3. \E r : con' = [con EXCEPT ![c] = r]
        BY <2>3 DEF RestartLog, ResetHdr0, ResetInfo, WriteFileHdr, WriteFrame, FinishCommit,
           Publish, Set, Goto
      <3> QED BY <1>2, <3>2, <3>3, Known
    <2> QED BY <1>3, <2>1, <2>2, <2>3 DEF Writing
  <1>4. ASSUME NEW c \in Conns, Checkpointing(c) PROVE WriterOnly
    <2>1. CASE \/ (\E mode \in Modes : CkptBegin(c, mode)) \/ CkptReadHdr(c) \/ CkptTest(c)
               \/ CkptMark(c) \/ CkptIterator(c) \/ CkptLock0(c) \/ CkptCopy(c) \/ CkptDone(c)
      <3>1. UNCHANGED <<wal, file, shm>>
        BY <2>1 DEF CkptBegin, CkptReadHdr, CkptTest, CkptMark, CkptIterator, CkptLock0, CkptCopy,
           CkptDone, fileVars, indexVars
      <3> QED BY <3>1 DEF WriterOnly
    <2>2. CASE CkptAfter(c)
      <3>1. UNCHANGED <<wal, file>> /\ shm'[0] = shm[0]
        BY <2>2, Known DEF CkptAfter, fileVars
      <3> QED BY <3>1 DEF WriterOnly
    <2>3. CASE CkptTruncate(c)
      <3>1. NeedsLock(c) /\ Locked(c)
        BY <2>3, Known DEF CkptTruncate, At, NeedsLock, ConInv
      <3>2. con' = [con EXCEPT ![c] = AtRest(c)]
        BY <2>3 DEF CkptTruncate, CkptRelease, Set
      <3> QED BY <1>2, <3>1, <3>2, Known
    <2> QED BY <1>4, <2>1, <2>2, <2>3 DEF Checkpointing
  <1>5. ASSUME NEW c \in Conns, Recovering(c) PROVE WriterOnly
    <2>1. CASE Recover(c) \/ RecoverInfo(c)
      <3>1. UNCHANGED <<wal, file>> /\ shm'[0] = shm[0]
        BY <2>1, Known DEF Recover, RecoverInfo, fileVars
      <3> QED BY <3>1 DEF WriterOnly
    <2>2. CASE RecoverHdr(c)
      <3>1. NeedsLock(c) /\ Locked(c)
        BY <2>2, Known DEF RecoverHdr, At, NeedsLock, ConInv
      <3>2. \E r : con' = [con EXCEPT ![c] = r]
        BY <2>2 DEF RecoverHdr, Goto
      <3> QED BY <1>2, <3>1, <3>2, Known
    <2> QED BY <1>5, <2>1, <2>2 DEF Recovering
  <1>6. CASE \E c \in Conns : Kill(c)
    BY <1>6 DEF Kill, WriterOnly, fileVars, indexVars
  <1>7. CASE PowerLoss
    BY <1>7 DEF PowerLoss, WriterOnly
  <1>8. CASE UNCHANGED vars
    BY <1>8 DEF WriterOnly, vars, fileVars, indexVars
  <1> QED BY <1>1, <1>3, <1>4, <1>5, <1>6, <1>7, <1>8 DEF Next, WriterOnly

\* Nobody but the holder of WAL_WRITE_LOCK writes to the log or publishes a header.
THEOREM SpecWriterOnly == Spec => [][WriterOnly]_vars
  BY SpecInv, InvWriterOnly, PTL DEF Spec

-----------------------------------------------------------------------------
(***************************************************************************)
(* What the header calls committed is in the log.  A writer appends frames *)
(* after those, sets the header, and recovery reads the log without the    *)
(* header; so the invariant follows the frames from the call that writes   *)
(* them, over a spill, an overwritten frame and the checksums that are     *)
(* computed again, to the header.  It needs no fact about which frame      *)
(* sqlite3WalFindFrame finds: only where a transaction begins.             *)
(***************************************************************************)

FrameFields == DOMAIN NoFrame

Stored ==
    /\ DOMAIN aPgno = Frames /\ DOMAIN wal = Frames /\ DOMAIN walMay = Frames
    /\ \A i \in Frames : /\ DOMAIN wal[i] = FrameFields /\ IsFiniteSet(walMay[i])
                         /\ \A f \in walMay[i] : DOMAIN f = FrameFields
    /\ IsFiniteSet(fileMay)

\* What the checksum of frame i of a log covers.
SumOf(g, i) == [j \in 1..i |-> Content(g[j])]

\* The checksum of frame i of log g continues that of the frames before it.
Linked(g, i, s) == g[i].salt = s /\ g[i].sum = SumOf(g, i)

\* A log g, with its table a and the header f of its file, holds what header h says.
Logged(h, g, a, f) ==
    /\ h.mx \in Nat
    /\ h.mx > 0 =>
        /\ h.mx <= MaxFrame /\ f # NoFile /\ h.salt = f.salt
        /\ \A i \in 1..h.mx : g[i].pg # 0 /\ Linked(g, i, f.salt) /\ a[i] = g[i].pg
        /\ g[h.mx].commit /\ g[h.mx].val = h.ver

\* What write transaction w has appended, after the frames up to m that are committed.
Composed(w, m, g, a, f) ==
    LET k == w.hdr.mx + w.n
    IN  /\ k <= MaxFrame /\ (w.pc # "frame" => w.n = 0)
        /\ w.pc = "frame" \/ w.hdr.mx > 0 => f # NoFile /\ w.hdr.salt = f.salt
        /\ w.pc # "reset0" => w.hdr.mx >= m
        /\ w.first # 0 => w.first > m
        /\ \A i \in 1..w.hdr.mx : a[i] = g[i].pg
        /\ \A i \in 1..k : g[i].pg # 0
        /\ ~w.recksum => \A i \in 1..k : Linked(g, i, w.hdr.salt)
        /\ w.pc = "frame" /\ w.commit /\ w.todo = {} => w.n > 0 /\ g[k].commit /\ g[k].val = w.t
        /\ w.pc \notin {"write", "frame"} => w.todo # {}

ConLog(w, m, g, a, f) ==
    /\ w.hdr.mx \in Nat /\ w.n \in Nat /\ w.first \in Nat /\ w.todo \in SUBSET Pages
    /\ (w.t # 0 \/ w.pc = "write") /\ w.pc \notin {"publish", "undo"} => Composed(w, m, g, a, f)
    /\ w.pc \in {"publish", "rec0"} => Logged(w.hdr, g, a, f)
    /\ w.pc = "reset0" => w.hdr.mx = 0
    /\ w.pc \in {"reset1", "trunc"} => m = 0
    /\ w.t = 0 /\ w.pc # "write" => w.n = 0 /\ w.recksum = FALSE /\ w.first = 0

LogInv ==
    /\ Stored /\ Logged(shm[0], wal, aPgno, file)
    /\ \A c \in Conns : ConLog(con[c], shm[0].mx, wal, aPgno, file)

(* Numbers and sets.                                                       *)

\* A set of numbers that has an element has a smallest one.
LEMMA Smallest == ASSUME NEW S \in SUBSET Nat, S # {}
                  PROVE  \E s \in S : \A r \in S : s <= r
  <1>1. \E s \in S : \A r \in S : <<r, s>> \notin OpToRel(<, Nat)
    BY NatLessThanWellFounded, WFMin
  <1>2. \A r, s \in S : r < s => <<r, s>> \in OpToRel(<, Nat)
    BY DEF OpToRel
  <1>3. \E s \in S : \A r \in S : ~ (r < s)
    BY <1>1, <1>2, Zenon
  <1> QED BY <1>3

\* And a set of frames a last one.
LEMMA Largest == ASSUME NEW S \in SUBSET Frames, S # {}
                 PROVE  \E s \in S : \A r \in S : r <= s
  <1> DEFINE T == {MaxFrame - s : s \in S}
  <1>0. MaxFrame \in Nat
    BY WalAssumption
  <1>1. T \in SUBSET Nat /\ T # {}
    <2>1. \A s \in S : MaxFrame - s \in Nat
      BY <1>0 DEF Frames
    <2> QED BY <2>1
  <1>2. PICK t \in T : \A r \in T : t <= r
    BY <1>1, Smallest
  <1>3. PICK s \in S : t = MaxFrame - s
    BY <1>2
  <1>4. \A r \in S : MaxFrame - s <= MaxFrame - r
    BY <1>2, <1>3
  <1> QED BY <1>0, <1>4 DEF Frames

LEMMA FiniteImage == ASSUME NEW S, IsFiniteSet(S), NEW f
                     PROVE  IsFiniteSet({f[x] : x \in S})
  <1> DEFINE g == [x \in S |-> f[x]]
             T == {f[x] : x \in S}
  <1>1. g \in Surjection(S, T)
    BY DEF Surjection
  <1> QED BY <1>1, FS_Surjection

\* The salt of a new log is nowhere in use, and there is always one.
LEMMA FreshSaltIs == ASSUME Stored
    PROVE  /\ FreshSalt \in Nat \ {0}
           /\ FreshSalt # shm[0].salt /\ \A c \in Conns : FreshSalt # con[c].hdr.salt
           /\ \A f \in fileMay : FreshSalt # f.salt
           /\ \A i \in Frames : \A f \in walMay[i] : FreshSalt # f.salt
  <1> DEFINE ofFrame == [i \in Frames |-> {f.salt : f \in walMay[i]}]
             frames == {ofFrame[i] : i \in Frames}
             used == {shm[0].salt, shm[1].salt} \cup {con[c].hdr.salt : c \in Conns}
                     \cup {f.salt : f \in fileMay} \cup UNION frames
             salts == 1..(Cardinality(used) + 1)
             free == {s \in salts : s \notin used}
  <1>1. IsFiniteSet(used)
    <2>1. IsFiniteSet({shm[0].salt, shm[1].salt})
      <3>1. IsFiniteSet({shm[0].salt}) /\ {shm[0].salt, shm[1].salt} = {shm[0].salt} \cup {shm[1].salt}
        BY FS_Singleton
      <3> QED BY <3>1, FS_AddElement
    <2>2. IsFiniteSet({con[c].hdr.salt : c \in Conns})
      <3> DEFINE g == [c \in Conns |-> con[c].hdr.salt]
      <3>1. {g[c] : c \in Conns} = {con[c].hdr.salt : c \in Conns}
        OBVIOUS
      <3> HIDE DEF g
      <3>2. IsFiniteSet(Conns)
        BY WalAssumption
      <3> QED BY <3>1, <3>2, FiniteImage
    <2>3. ASSUME NEW S, IsFiniteSet(S) PROVE IsFiniteSet({f.salt : f \in S})
      <3> DEFINE g == [f \in S |-> f.salt]
      <3>1. {g[f] : f \in S} = {f.salt : f \in S}
        OBVIOUS
      <3> HIDE DEF g
      <3> QED BY <2>3, <3>1, FiniteImage
    <2>4. IsFiniteSet({f.salt : f \in fileMay})
      BY <2>3 DEF Stored
    <2>5. IsFiniteSet(UNION frames)
      <3>1. IsFiniteSet(Frames)
        BY FS_Interval, WalAssumption DEF Frames
      <3>2. \A i \in Frames : IsFiniteSet(ofFrame[i])
        BY <2>3 DEF Stored
      <3>3. IsFiniteSet(frames)
        <4> HIDE DEF ofFrame
        <4> QED BY <3>1, FiniteImage
      <3> QED BY <3>2, <3>3, FS_UNION
    <2> HIDE DEF frames
    <2> QED BY <2>1, <2>2, <2>4, <2>5, FS_Union
  <1>2. free # {}
    <2> HIDE DEF used
    <2>1. Cardinality(used) \in Nat
      BY <1>1, FS_CardinalityType
    <2>2. Cardinality(salts) = Cardinality(used) + 1
      BY <2>1, FS_Interval
    <2>3. ASSUME free = {} PROVE FALSE
      <3>1. salts \in SUBSET used
        BY <2>3
      <3>2. Cardinality(salts) <= Cardinality(used)
        BY <1>1, <3>1, FS_Subset
      <3> QED BY <2>1, <2>2, <3>2
    <2> QED BY <2>3
  <1>3. FreshSalt = CHOOSE s \in salts : s \notin used /\ \A r \in salts : r < s => r \in used
    <2>1. used = {shm[0].salt, shm[1].salt} \cup {con[c].hdr.salt : c \in Conns}
                 \cup {f.salt : f \in fileMay}
                 \cup UNION {{f.salt : f \in walMay[i]} : i \in Frames}
      BY {{f.salt : f \in walMay[i]} : i \in Frames} = frames
    <2> HIDE DEF used
    <2> QED BY <2>1 DEF FreshSalt
  <1>4. /\ used = used
        /\ \A s : s \notin used =>
              /\ s # shm[0].salt /\ \A c \in Conns : s # con[c].hdr.salt
              /\ \A f \in fileMay : s # f.salt
              /\ \A i \in Frames : \A f \in walMay[i] : s # f.salt
    OBVIOUS
  <1> HIDE DEF used
  <1>5. \E s \in salts : s \notin used /\ \A r \in salts : r < s => r \in used
    <2>1. free \in SUBSET Nat
      OBVIOUS
    <2>2. PICK s \in free : \A r \in free : s <= r
      BY <1>2, <2>1, Smallest
    <2>3. \A r \in salts : r < s => r \notin free
      BY <2>1, <2>2
    <2> QED BY <2>2, <2>3
  <1>6. FreshSalt \in salts /\ FreshSalt \notin used
    BY <1>3, <1>5
  <1> QED BY <1>4, <1>6

-----------------------------------------------------------------------------
(* The files.                                                              *)

LEMMA FrameFieldsAre == FrameFields = {"pg", "val", "commit", "salt", "sum"}
  BY DEF FrameFields, NoFrame

\* walRewriteChecksums: what it leaves of a frame, and what it gives it.
LEMMA RewriteFields == ASSUME Stored, NEW s, NEW k
    PROVE  /\ DOMAIN RewriteChecksums(s, k) = Frames
           /\ \A i \in Frames :
                 /\ DOMAIN RewriteChecksums(s, k)[i] = FrameFields
                 /\ Content(RewriteChecksums(s, k)[i]) = Content(wal[i])
                 /\ RewriteChecksums(s, k)[i].pg = wal[i].pg
                 /\ RewriteChecksums(s, k)[i].val = wal[i].val
                 /\ RewriteChecksums(s, k)[i].commit = wal[i].commit
  <1> DEFINE g == RewriteChecksums(s, k)
  <1>1. DOMAIN g = Frames
    BY DEF RewriteChecksums
  <1>2. ASSUME NEW i \in Frames
        PROVE  /\ DOMAIN g[i] = FrameFields
               /\ g[i].pg = wal[i].pg /\ g[i].val = wal[i].val /\ g[i].commit = wal[i].commit
    <2>1. DOMAIN wal[i] = FrameFields
      BY DEF Stored
    <2> QED BY <2>1, FrameFieldsAre DEF RewriteChecksums, FrameFields
  <1> QED BY <1>1, <1>2 DEF Content

LEMMA StoredKept ==
    ASSUME Stored, UNCHANGED <<wal, walMay, fileMay>>, DOMAIN aPgno' = Frames PROVE Stored'
  BY DEF Stored, Frames

LEMMA StoredSync ==
    ASSUME Stored, walMay' = [i \in Frames |-> {wal'[i]}], DOMAIN wal' = Frames,
           \A i \in Frames : DOMAIN wal'[i] = FrameFields, \E h : fileMay' = {h},
           DOMAIN aPgno' = Frames
    PROVE  Stored'
  BY FS_Singleton DEF Stored, Frames

LEMMA StoredWriteFrame == ASSUME Stored, NEW c \in Conns, WriteFrame(c) PROVE Stored'
  <1>1. UNCHANGED <<aPgno, fileMay>>
    BY DEF WriteFrame, indexVars
  <1>2. PICK i, f : WriteFrameAt(i, f) /\ (i \in Frames => DOMAIN f = FrameFields)
    <2>1. PICK p \in con[c].todo :
            LET v == IF con[c].commit THEN con[c].t ELSE -con[c].t
                old == FindFrame(c, p)
                i == con[c].hdr.mx + con[c].n + 1
            IN  \/ WriteFrameAt(old, [wal[old] EXCEPT !.val = v])
                \/ \E last : WriteFrameAt(i, EncodeFrame(c, i, p, v, last))
      BY Zenon DEF WriteFrame
    <2>2. \A v, i : i \in Frames => DOMAIN [wal[i] EXCEPT !.val = v] = FrameFields
      BY DEF Stored
    <2>3. \A i, q, v, last : DOMAIN EncodeFrame(c, i, q, v, last) = FrameFields
      BY FrameFieldsAre DEF EncodeFrame, FrameFields
    <2> QED BY <2>1, <2>2, <2>3, Zenon
  <1>3. /\ wal' = [wal EXCEPT ![i] = f] /\ walMay' = [walMay EXCEPT ![i] = @ \cup {f}]
    BY <1>2 DEF WriteFrameAt
  <1>4. ASSUME NEW j \in Frames
        PROVE  /\ DOMAIN wal'[j] = FrameFields /\ IsFiniteSet(walMay'[j])
               /\ \A g \in walMay'[j] : DOMAIN g = FrameFields
    <2>1. CASE i = j
      <3>1. wal'[j] = f /\ walMay'[j] = walMay[j] \cup {f} /\ DOMAIN f = FrameFields
        BY <1>2, <1>3, <2>1 DEF Stored
      <3>2. IsFiniteSet(walMay'[j])
        BY <3>1, FS_AddElement DEF Stored
      <3> QED BY <3>1, <3>2 DEF Stored
    <2>2. CASE i # j
      BY <1>3, <2>2 DEF Stored
    <2> QED BY <2>1, <2>2
  <1> QED BY <1>1, <1>3, <1>4 DEF Stored, Frames

LEMMA StoredCommit == ASSUME Stored, NEW c \in Conns, NEW sync, FinishCommit(c, sync) PROVE Stored'
  <1> DEFINE h == [con[c].hdr EXCEPT !.mx = @ + con[c].n, !.chg = @ + 1, !.ver = con[c].t]
  <1>1. /\ wal' = IF con[c].recksum THEN RewriteChecksums(h.salt, h.mx) ELSE wal
        /\ CommitSync(wal', sync) /\ DOMAIN aPgno' = Frames
    BY DEF FinishCommit, IndexAppend, CleanupHash, Stored
  <1> HIDE DEF h
  <1>2. DOMAIN wal' = Frames /\ \A i \in Frames : DOMAIN wal'[i] = FrameFields
    <2>1. CASE con[c].recksum
      <3>1. wal' = RewriteChecksums(h.salt, h.mx)
        BY <1>1, <2>1
      <3> QED BY <3>1, RewriteFields, Zenon
    <2>2. CASE ~con[c].recksum
      BY <1>1, <2>2 DEF Stored
    <2> QED BY <2>1, <2>2
  <1>3. CASE sync
    BY <1>1, <1>2, <1>3, StoredSync DEF CommitSync
  <1>4. CASE ~sync
    <2>1. walMay' = [i \in Frames |-> walMay[i] \cup {wal'[i]}] /\ fileMay' = fileMay
      BY <1>1, <1>4 DEF CommitSync
    <2>2. \A i \in Frames : IsFiniteSet(walMay'[i])
      BY <2>1, FS_AddElement DEF Stored
    <2> QED BY <1>1, <1>2, <2>1, <2>2 DEF Stored, Frames
  <1> QED BY <1>3, <1>4

LEMMA StoredPowerLoss == ASSUME Stored, PowerLoss PROVE Stored'
  <1>1. DOMAIN wal' = Frames /\ \A i \in Frames : DOMAIN wal'[i] = FrameFields
    <2>1. CASE wal' \in {g \in [Frames -> UNION Range(walMay)] : \A i \in Frames : g[i] \in walMay[i]}
      BY <2>1 DEF Stored
    <2>2. CASE wal' = [i \in Frames |-> NoFrame]
      BY <2>2 DEF FrameFields
    <2> QED BY <2>1, <2>2 DEF PowerLoss
  <1> QED BY <1>1, StoredSync DEF PowerLoss

LEMMA StoredNext == Stored /\ [Next]_vars => Stored'
  <1> SUFFICES ASSUME Stored, [Next]_vars PROVE Stored'
    OBVIOUS
  <1>1. ASSUME NEW c \in Conns, Reading(c) PROVE Stored'
    BY <1>1, StoredKept DEF Reading, ReadHdr, TryLock0, Compare0, PickMark, LockMark, CompareMark,
       EndRead, fileVars, indexVars, Stored
  <1>2. ASSUME NEW c \in Conns, Checkpointing(c) PROVE Stored'
    <2>1. CASE CkptLock0(c)
      <3>1. CASE Free(0)
        <4>1. SyncWal /\ UNCHANGED <<wal, aPgno>>
          BY <2>1, <3>1 DEF CkptLock0, indexVars
        <4> QED BY <4>1, StoredSync DEF SyncWal, Stored, Frames
      <3>2. CASE ~Free(0)
        BY <2>1, <3>2, StoredKept DEF CkptLock0, indexVars, Stored
      <3> QED BY <3>1, <3>2
    <2>2. CASE CkptTruncate(c)
      <3>1. UNCHANGED <<aPgno, walMay, fileMay>> /\ wal' = [i \in Frames |-> NoFrame]
        BY <2>2 DEF CkptTruncate, indexVars
      <3> QED BY <3>1 DEF Stored, FrameFields, Frames
    <2>3. CASE \/ (\E mode \in Modes : CkptBegin(c, mode)) \/ CkptReadHdr(c) \/ CkptTest(c)
               \/ CkptMark(c) \/ CkptIterator(c) \/ CkptCopy(c) \/ CkptDone(c) \/ CkptAfter(c)
      BY <2>3, StoredKept DEF CkptBegin, CkptReadHdr, CkptTest, CkptMark, CkptIterator, CkptCopy,
         CkptDone, CkptAfter, fileVars, indexVars, Stored
    <2> QED BY <1>2, <2>1, <2>2, <2>3 DEF Checkpointing
  <1>3. ASSUME NEW c \in Conns, Writing(c) PROVE Stored'
    <2>1. CASE WriteFileHdr(c)
      <3>1. UNCHANGED <<aPgno, wal>>
        BY <2>1 DEF WriteFileHdr, indexVars
      <3>2. (\E h : SyncHeader(h)) \/ UNCHANGED <<fileMay, walMay>>
        BY <2>1 DEF WriteFileHdr
      <3> QED BY <3>1, <3>2, StoredSync, StoredKept DEF SyncHeader, Stored, Frames
    <2>2. CASE FinishSpill(c) \/ Undo(c)
      BY <2>2, StoredKept DEF FinishSpill, Undo, IndexAppend, CleanupHash, fileVars, Stored
    <2>3. CASE \E S, k : WalFrames(c, S, k)
      BY <2>3, StoredKept DEF WalFrames, fileVars, indexVars, Stored
    <2>4. CASE \/ BeginWrite(c) \/ RestartLog(c) \/ ResetHdr0(c) \/ ResetInfo(c) \/ Publish(c)
               \/ WriteError(c)
      BY <2>4, StoredKept DEF BeginWrite, RestartLog, ResetHdr0, ResetInfo, Publish, WriteError,
         fileVars, indexVars, Stored
    <2> QED BY <1>3, <2>1, <2>2, <2>3, <2>4, StoredWriteFrame, StoredCommit DEF Writing
  <1>4. ASSUME NEW c \in Conns, Recovering(c) PROVE Stored'
    BY <1>4, StoredKept DEF Recovering, Recover, RecoverHdr, RecoverInfo, fileVars, Stored
  <1>5. ASSUME NEW c \in Conns, Kill(c) PROVE Stored'
    BY <1>5, StoredKept DEF Kill, fileVars, indexVars, Stored
  <1>6. CASE UNCHANGED vars
    BY <1>6, StoredKept DEF vars, fileVars, indexVars, Stored
  <1> QED BY <1>1, <1>2, <1>3, <1>4, <1>5, <1>6, StoredPowerLoss DEF Next

LEMMA RewrittenSums == ASSUME Stored, NEW s, NEW k, NEW i \in Frames, ~(i > k)
    PROVE  /\ RewriteChecksums(s, k)[i].salt = s
           /\ RewriteChecksums(s, k)[i].sum = SumOf(wal, i)
  <1>1. DOMAIN wal[i] = FrameFields
    BY DEF Stored
  <1> QED BY <1>1, FrameFieldsAre DEF RewriteChecksums, FrameFields, SumOf

-----------------------------------------------------------------------------
(* What a step may do to the log.                                          *)

LEMMA LinkedKept ==
    ASSUME NEW i \in Nat \ {0}, NEW f, NEW g, NEW s, \A j \in 1..i : f[j] = g[j], Linked(f, i, s)
    PROVE  Linked(g, i, s)
  <1>1. [j \in 1..i |-> Content(f[j])] = [j \in 1..i |-> Content(g[j])]
    OBVIOUS
  <1> QED BY <1>1 DEF Linked, SumOf

\* What is committed stays so when nothing up to its last frame changes.
LEMMA LoggedKept ==
    ASSUME NEW h, NEW f, NEW g, NEW a, NEW b, NEW s, Logged(h, f, a, s),
           \A i \in 1..h.mx : f[i] = g[i] /\ a[i] = b[i]
    PROVE  Logged(h, g, b, s)
  <1>1. h.mx \in Nat
    BY DEF Logged
  <1>2. ASSUME NEW i \in 1..h.mx, Linked(f, i, s.salt) PROVE Linked(g, i, s.salt)
    <2>1. i \in Nat \ {0} /\ \A j \in 1..i : f[j] = g[j]
      BY <1>1
    <2> QED BY <1>2, <2>1, LinkedKept
  <1>3. h.mx > 0 => h.mx \in 1..h.mx
    BY <1>1
  <1> QED BY <1>1, <1>2, <1>3 DEF Logged

\* The log and its table change in steps of one connection, when no other holds the lock.
LEMMA LogSteps ==
    ASSUME WalInv, LogInv, NEW c \in Conns, \A d \in Conns \ {c} : con'[d] = con[d],
           \/ \A d \in Conns \ {c} : writeLock # d
           \/ UNCHANGED <<wal, aPgno, file>> /\ shm'[0] = shm[0],
           Stored', Logged(shm'[0], wal', aPgno', file'),
           ConLog(con'[c], shm'[0].mx, wal', aPgno', file')
    PROVE  LogInv'
  <1>1. ASSUME NEW d \in Conns \ {c} PROVE ConLog(con'[d], shm'[0].mx, wal', aPgno', file')
    <2>1. con'[d] = con[d] /\ ConInv(d) /\ ConLog(con[d], shm[0].mx, wal, aPgno, file)
      BY Known DEF LogInv
    <2>2. CASE writeLock # d
      <3>1. ~NeedsLock(d)
        BY <2>1, <2>2 DEF ConInv, Locked
      <3>2. /\ con[d].t = 0
            /\ con[d].pc \notin {"write", "publish", "rec0", "reset0", "reset1", "trunc"}
        BY <2>1, <3>1 DEF ConInv, Caller, NeedsLock, Writer
      <3> QED BY <2>1, <3>2 DEF ConLog
    <2>3. CASE UNCHANGED <<wal, aPgno, file>> /\ shm'[0] = shm[0]
      BY <2>1, <2>3
    <2> QED BY <2>2, <2>3
  <1> QED BY <1>1 DEF LogInv

LEMMA LogKnown == ASSUME LogInv, NEW c \in Conns
    PROVE  /\ ConLog(con[c], shm[0].mx, wal, aPgno, file) /\ Logged(shm[0], wal, aPgno, file)
           /\ shm[0].mx \in Nat /\ con[c].hdr.mx \in Nat /\ con[c].n \in Nat
           /\ con[c].first \in Nat /\ con[c].todo \in SUBSET Pages
  BY DEF LogInv, ConLog, Logged

\* A step that leaves the log alone.
LEMMA LogAlone ==
    ASSUME WalInv, LogInv, Stored', NEW c \in Conns, NEW r, con' = [con EXCEPT ![c] = r],
           UNCHANGED <<wal, aPgno, file>>, shm'[0] = shm[0],
           con'[c] = r => ConLog(r, shm[0].mx, wal, aPgno, file)
    PROVE  LogInv'
  <1>1. con'[c] = r /\ \A d \in Conns \ {c} : con'[d] = con[d]
    BY Known
  <1> QED BY <1>1, LogSteps, LogKnown

\* A connection that has ended its transaction or its checkpoint.
LEMMA LogRest == ASSUME LogInv, NEW n, NEW m, NEW g, NEW a, NEW f
    PROVE  ConLog([Idle EXCEPT !.nCkpt = n], m, g, a, f)
  BY DEF ConLog, Idle, ZeroHdr

LEMMA LogIdle == ASSUME NEW m, NEW g, NEW a, NEW f PROVE ConLog(Idle, m, g, a, f)
  BY DEF ConLog, Idle, ZeroHdr

\* Between the steps that matter a connection moves about.
Plain == {"none", "try", "cmp0", "pick", "lock", "cmp", "read", "rec1", "ckpt", "test", "marks",
          "lock0", "copy", "after", "restart", "file"}

SameLog(w, r) ==
    /\ r.t = w.t /\ r.todo = w.todo /\ r.commit = w.commit /\ r.first = w.first
    /\ r.n = w.n /\ r.recksum = w.recksum

\* Between the steps that matter a connection moves about, or begins again.
PlainMove(c) ==
    /\ con' = [con EXCEPT ![c] = con'[c]]
    /\ con[c].pc \in Plain /\ con'[c].pc \in Plain /\ SameLog(con[c], con'[c])
    /\ \/ con'[c].hdr = con[c].hdr /\ (con'[c].pc = "ckpt" \/ con[c].pc \notin {"none", "ckpt"})
       \/ con[c].t = 0 /\ con'[c].hdr = shm[0] /\ shm[0].init
    /\ con'[c].mode = con[c].mode \/ con'[c].pc = "ckpt"
Rests(c) == \E n : con' = [con EXCEPT ![c] = [Idle EXCEPT !.nCkpt = n]]

\* Where connections go that read, or that check what a checkpoint may do.
LEMMA RestsBy == ASSUME NEW c \in Conns, Set(c, AtRest(c)) PROVE Rests(c)
  BY DEF Set, AtRest, Rests

LEMMA RetryMoves ==
    ASSUME WalInv, NEW c \in Conns, con[c].pc \in {"try", "pick", "lock", "cmp"}, Set(c, Retry(c))
    PROVE  PlainMove(c) \/ Rests(c)
  <1>1. CASE con[c].useWal
    <2> DEFINE r == [con[c] EXCEPT !.pc = "pick"]
    <2>1. con' = [con EXCEPT ![c] = r]
      BY <1>1 DEF Set, Retry
    <2>2. r.pc = "pick" /\ r.hdr = con[c].hdr /\ SameLog(con[c], r) /\ r.mode = con[c].mode
      BY Known, Fields DEF SameLog
    <2> HIDE DEF r
    <2>3. con'[c] = r
      BY <2>1, Known
    <2> QED BY <2>1, <2>2, <2>3 DEF PlainMove, Plain
  <1>2. CASE ~con[c].useWal
    BY <1>2, RestsBy DEF Retry
  <1> QED BY <1>1, <1>2

LEMMA ReadingMoves == ASSUME WalInv, NEW c \in Conns, Reading(c) PROVE PlainMove(c) \/ Rests(c)
  <1>1. ASSUME NEW r, con' = [con EXCEPT ![c] = r], con[c].pc \in Plain \ {"none", "ckpt"},
               r.pc \in Plain, r.hdr = con[c].hdr, SameLog(con[c], r), r.mode = con[c].mode
        PROVE  PlainMove(c)
    <2>1. con'[c] = r
      BY <1>1, Known
    <2> QED BY <1>1, <2>1 DEF PlainMove
  <1>2. CASE ReadHdr(c)
    <2>1. /\ con' = [con EXCEPT ![c] = [con[c] EXCEPT !.pc = "try", !.hdr = shm[0]]]
          /\ con[c].pc = "none" /\ con[c].t = 0 /\ shm[0].init
      BY <1>2, Known DEF ReadHdr, HdrOk, Set, At, ConInv, Caller, WriteSteps
    <2>2. con'[c].pc = "try" /\ con'[c].hdr = shm[0] /\ SameLog(con[c], con'[c])
          /\ con'[c].mode = con[c].mode /\ con' = [con EXCEPT ![c] = con'[c]]
      BY <2>1, Known, Fields DEF SameLog
    <2> QED BY <2>1, <2>2 DEF PlainMove, Plain
  <1>3. CASE TryLock0(c)
    <2> DEFINE r == [con[c] EXCEPT !.pc = "cmp0"]
    <2>1. con' = [con EXCEPT ![c] = r] /\ con[c].pc = "try"
      BY <1>3 DEF TryLock0, Goto, At
    <2>2. r.pc = "cmp0" /\ r.hdr = con[c].hdr /\ SameLog(con[c], r) /\ r.mode = con[c].mode
      BY Known, Fields DEF SameLog
    <2> HIDE DEF r
    <2> QED BY <1>1, <2>1, <2>2 DEF Plain
  <1>4. CASE Compare0(c)
    <2>1. CASE Set(c, [con[c] EXCEPT !.pc = "read", !.snap = con[c].hdr.ver])
      <3> DEFINE r == [con[c] EXCEPT !.pc = "read", !.snap = con[c].hdr.ver]
      <3>1. con' = [con EXCEPT ![c] = r] /\ con[c].pc = "cmp0"
        BY <1>4, <2>1 DEF Compare0, Set, At
      <3>2. r.pc = "read" /\ r.hdr = con[c].hdr /\ SameLog(con[c], r) /\ r.mode = con[c].mode
        BY Known, Fields DEF SameLog
      <3> HIDE DEF r
      <3> QED BY <1>1, <3>1, <3>2 DEF Plain
    <2> QED BY <1>4, <2>1, RestsBy DEF Compare0
  <1>5. CASE PickMark(c)
    <2>1. con[c].pc \in {"pick", "try"}
      BY <1>5 DEF PickMark, At
    <2>2. CASE \E i, m : Set(c, [con[c] EXCEPT !.pc = "lock", !.mxI = i, !.mark = m])
      <3>1. PICK i, m : Set(c, [con[c] EXCEPT !.pc = "lock", !.mxI = i, !.mark = m])
        BY <2>2, Zenon
      <3> DEFINE r == [con[c] EXCEPT !.pc = "lock", !.mxI = i, !.mark = m]
      <3>2. con' = [con EXCEPT ![c] = r]
        BY <3>1, Zenon DEF Set
      <3>3. r.pc = "lock" /\ r.hdr = con[c].hdr /\ SameLog(con[c], r) /\ r.mode = con[c].mode
        BY Known, Fields DEF SameLog
      <3> HIDE DEF r
      <3> QED BY <1>1, <2>1, <3>2, <3>3 DEF Plain
    <2> QED BY <1>5, <2>1, <2>2, RetryMoves DEF PickMark
  <1>6. CASE LockMark(c)
    <2>1. con[c].pc = "lock"
      BY <1>6 DEF LockMark, At
    <2>2. CASE Set(c, [con[c] EXCEPT !.pc = "cmp", !.minFrame = nBackfill + 1])
      <3> DEFINE r == [con[c] EXCEPT !.pc = "cmp", !.minFrame = nBackfill + 1]
      <3>1. con' = [con EXCEPT ![c] = r]
        BY <2>2 DEF Set
      <3>2. r.pc = "cmp" /\ r.hdr = con[c].hdr /\ SameLog(con[c], r) /\ r.mode = con[c].mode
        BY Known, Fields DEF SameLog
      <3> HIDE DEF r
      <3> QED BY <1>1, <2>1, <3>1, <3>2 DEF Plain
    <2> QED BY <1>6, <2>1, <2>2, RetryMoves DEF LockMark
  <1>7. CASE CompareMark(c)
    <2>1. con[c].pc = "cmp"
      BY <1>7 DEF CompareMark, At
    <2>2. CASE Set(c, [con[c] EXCEPT !.pc = "file", !.useWal = FALSE, !.mxI = 0, !.mark = 0])
      <3> DEFINE r == [con[c] EXCEPT !.pc = "file", !.useWal = FALSE, !.mxI = 0, !.mark = 0]
      <3>1. con' = [con EXCEPT ![c] = r]
        BY <2>2 DEF Set
      <3>2. r.pc = "file" /\ r.hdr = con[c].hdr /\ SameLog(con[c], r) /\ r.mode = con[c].mode
        BY Known, Fields DEF SameLog
      <3> HIDE DEF r
      <3> QED BY <1>1, <2>1, <3>1, <3>2 DEF Plain
    <2>3. CASE Set(c, [con[c] EXCEPT !.pc = "read", !.snap = con[c].hdr.ver, !.mxI = 0, !.mark = 0])
      <3> DEFINE r == [con[c] EXCEPT !.pc = "read", !.snap = con[c].hdr.ver, !.mxI = 0, !.mark = 0]
      <3>1. con' = [con EXCEPT ![c] = r]
        BY <2>3 DEF Set
      <3>2. r.pc = "read" /\ r.hdr = con[c].hdr /\ SameLog(con[c], r) /\ r.mode = con[c].mode
        BY Known, Fields DEF SameLog
      <3> HIDE DEF r
      <3> QED BY <1>1, <2>1, <3>1, <3>2 DEF Plain
    <2> QED BY <1>7, <2>1, <2>2, <2>3, RetryMoves DEF CompareMark
  <1>8. CASE EndRead(c)
    BY <1>8, RestsBy DEF EndRead
  <1> QED BY <1>2, <1>3, <1>4, <1>5, <1>6, <1>7, <1>8 DEF Reading

LEMMA BackfillMoves ==
    ASSUME WalInv, NEW c \in Conns,
           \/ (\E mode \in Modes : CkptBegin(c, mode)) \/ CkptReadHdr(c) \/ CkptTest(c)
           \/ CkptMark(c) \/ CkptIterator(c) \/ CkptLock0(c) \/ CkptCopy(c) \/ CkptDone(c)
    PROVE  PlainMove(c) \/ Rests(c)
  <1>1. CASE \E mode \in Modes : CkptBegin(c, mode)
    <2>1. PICK mode : CkptBegin(c, mode)
      BY <1>1
    <2>2. /\ con' = [con EXCEPT ![c] = con'[c]] /\ con[c].pc = "none" /\ con'[c].pc = "ckpt"
          /\ con'[c].hdr = con[c].hdr /\ SameLog(con[c], con'[c])
      BY <2>1, Known, Fields DEF CkptBegin, Set, At, SameLog
    <2> QED BY <2>2 DEF PlainMove, Plain
  <1>2. CASE CkptReadHdr(c)
    <2>1. con[c].pc = "ckpt" /\ con[c].t = 0
      BY <1>2, Known DEF CkptReadHdr, At, ConInv, Caller, WriteSteps
    <2>2. CASE CkptRelease(c)
      BY <2>2, RestsBy DEF CkptRelease
    <2>3. CASE HdrOk /\ Set(c, [con[c] EXCEPT !.pc = "test", !.hdr = shm[0]])
      <3>1. /\ con' = [con EXCEPT ![c] = con'[c]] /\ con'[c].pc = "test" /\ shm[0].init
            /\ con'[c].hdr = shm[0] /\ SameLog(con[c], con'[c]) /\ con'[c].mode = con[c].mode
        BY <2>3, Known, Fields DEF Set, SameLog, HdrOk
      <3> QED BY <2>1, <3>1 DEF PlainMove, Plain
    <2> QED BY <1>2, <2>2, <2>3 DEF CkptReadHdr
  <1>3. CASE CkptTest(c)
    BY <1>3, Known, Fields DEF CkptTest, Set, At, SameLog, Plain, PlainMove
  <1>4. CASE CkptIterator(c)
    BY <1>4, Known, Fields DEF CkptIterator, Set, At, SameLog, Plain, PlainMove
  <1>5. CASE CkptLock0(c)
    BY <1>5, Known, Fields DEF CkptLock0, Goto, At, SameLog, Plain, PlainMove
  <1>6. CASE CkptDone(c)
    BY <1>6, Known, Fields DEF CkptDone, Goto, At, SameLog, Plain, PlainMove
  <1>7. CASE CkptMark(c) \/ CkptCopy(c)
    <2>1. con[c].pc \in {"marks", "copy"}
      BY <1>7 DEF CkptMark, CkptCopy, At
    <2>2. /\ con' = [con EXCEPT ![c] = con'[c]] /\ con'[c].pc = con[c].pc
          /\ con'[c].hdr = con[c].hdr /\ SameLog(con[c], con'[c]) /\ con'[c].mode = con[c].mode
      <3>1. CASE \E k : Set(c, [con[c] EXCEPT !.i = k])
        BY <3>1, Known, Fields DEF Set, SameLog
      <3>2. CASE \E k, m : Set(c, [con[c] EXCEPT !.i = k, !.safe = m])
        <4>1. PICK k, m : Set(c, [con[c] EXCEPT !.i = k, !.safe = m])
          BY <3>2, Zenon
        <4> QED BY <4>1, Known, Fields DEF Set, SameLog
      <3>3. CASE \E p : Set(c, [con[c] EXCEPT !.iter[p] = 0])
        BY <3>3, Known, Fields DEF Set, SameLog
      <3> QED BY <1>7, <3>1, <3>2, <3>3 DEF CkptMark, CkptCopy
    <2> QED BY <2>1, <2>2 DEF PlainMove, Plain
  <1> QED BY <1>1, <1>2, <1>3, <1>4, <1>5, <1>6, <1>7

\* Neither changes what the log says of the connection.
LEMMA PlainStep ==
    ASSUME WalInv, LogInv, Stored', NEW c \in Conns, NEW r, con' = [con EXCEPT ![c] = r],
           UNCHANGED <<wal, aPgno, file>>, shm'[0] = shm[0],
           con[c].pc \in Plain, r.pc \in Plain, r.hdr = con[c].hdr \/ (con[c].t = 0 /\ r.hdr = shm[0]),
           SameLog(con[c], r)
    PROVE  LogInv'
  <1>1. ConLog(con[c], shm[0].mx, wal, aPgno, file) /\ shm[0].mx \in Nat
    BY LogKnown
  <1>2. ConLog(r, shm[0].mx, wal, aPgno, file)
    <2>1. CASE con[c].t = 0
      BY <1>1, <2>1 DEF ConLog, Plain, SameLog
    <2>2. CASE con[c].t # 0
      <3>1. Composed(con[c], shm[0].mx, wal, aPgno, file)
        BY <1>1, <2>2 DEF ConLog, Plain
      <3>2. Composed(r, shm[0].mx, wal, aPgno, file)
        BY <2>2, <3>1 DEF Composed, Plain, SameLog
      <3> QED BY <1>1, <2>2, <3>2 DEF ConLog, Plain, SameLog
    <2> QED BY <2>1, <2>2
  <1> QED BY <1>2, LogAlone

LEMMA LogPlain ==
    ASSUME WalInv, LogInv, Stored', NEW c \in Conns, PlainMove(c) \/ Rests(c),
           UNCHANGED <<wal, aPgno, file>>, shm'[0] = shm[0]
    PROVE  LogInv'
  <1>1. CASE PlainMove(c)
    BY <1>1, PlainStep DEF PlainMove
  <1>2. CASE Rests(c)
    BY <1>2, LogRest, LogAlone DEF Rests
  <1> QED BY <1>1, <1>2

LEMMA LogReading == ASSUME WalInv, LogInv, Stored', NEW c \in Conns, Reading(c) PROVE LogInv'
  <1>1. UNCHANGED <<shm, wal, aPgno, file>>
    BY DEF Reading, ReadHdr, TryLock0, Compare0, PickMark, LockMark, CompareMark, EndRead,
       indexVars, fileVars
  <1> QED BY <1>1, ReadingMoves, LogPlain

LEMMA LogRelease ==
    ASSUME WalInv, LogInv, Stored', NEW c \in Conns, CkptRelease(c), UNCHANGED <<wal, aPgno, file>>,
           shm'[0] = shm[0]
    PROVE  LogInv'
  BY LogRest, LogAlone DEF CkptRelease, AtRest, Set

LEMMA LogCheckpointing ==
    ASSUME WalInv, LogInv, Stored', NEW c \in Conns, Checkpointing(c) PROVE LogInv'
  <1>1. CASE \/ (\E mode \in Modes : CkptBegin(c, mode)) \/ CkptReadHdr(c) \/ CkptTest(c)
             \/ CkptMark(c) \/ CkptIterator(c) \/ CkptLock0(c) \/ CkptCopy(c) \/ CkptDone(c)
    <2>1. UNCHANGED <<shm, wal, aPgno, file>>
      BY <1>1 DEF CkptBegin, CkptReadHdr, CkptTest, CkptMark, CkptIterator, CkptLock0, CkptCopy,
         CkptDone, indexVars, fileVars
    <2> QED BY <1>1, <2>1, BackfillMoves, LogPlain
  <1>2. CASE CkptAfter(c)
    <2>1. UNCHANGED <<wal, aPgno, file>> /\ shm'[0] = shm[0] /\ con[c].pc = "after" /\ con[c].t = 0
      BY <1>2, Known DEF CkptAfter, At, fileVars, ConInv, Caller, WriteSteps
    <2>2. CASE CkptRelease(c)
      BY <2>1, <2>2, LogRelease
    <2>3. CASE Set(c, [con[c] EXCEPT !.pc = "reset0", !.hdr = ResetHdr(c), !.nCkpt = TRUE])
      <3> DEFINE r == [con[c] EXCEPT !.pc = "reset0", !.hdr = ResetHdr(c), !.nCkpt = TRUE]
      <3>1. r.pc = "reset0" /\ r.hdr = ResetHdr(c) /\ SameLog(con[c], r) /\ ResetHdr(c).mx = 0
        BY Known, Fields DEF SameLog, ResetHdr
      <3>2. con' = [con EXCEPT ![c] = r]
        BY <2>3 DEF Set
      <3> HIDE DEF r
      <3>3. ConLog(r, shm[0].mx, wal, aPgno, file)
        BY <2>1, <3>1, LogKnown DEF ConLog, SameLog
      <3> QED BY <2>1, <3>2, <3>3, LogAlone
    <2> QED BY <1>2, <2>2, <2>3 DEF CkptAfter
  <1>3. CASE CkptTruncate(c)
    <2>1. con[c].pc = "trunc" /\ writeLock = c /\ shm[0].mx = 0 /\ UNCHANGED <<shm, aPgno>>
          /\ con' = [con EXCEPT ![c] = AtRest(c)]
      BY <1>3, Known, LogKnown DEF CkptTruncate, At, ConInv, Locked, NeedsLock, ConLog, indexVars,
         CkptRelease, Set
    <2>2. con'[c] = AtRest(c) /\ \A d \in Conns \ {c} : con'[d] = con[d] /\ writeLock # d
      BY <2>1, Known
    <2>3. ConLog(con'[c], shm'[0].mx, wal', aPgno', file')
      BY <2>2, LogRest DEF AtRest
    <2>4. Logged(shm'[0], wal', aPgno', file')
      BY <2>1 DEF Logged
    <2> QED BY <2>2, <2>3, <2>4, LogSteps
  <1> QED BY <1>1, <1>2, <1>3 DEF Checkpointing

LEMMA LogKill == ASSUME WalInv, LogInv, Stored', NEW c \in Conns, Kill(c) PROVE LogInv'
  BY LogIdle, LogAlone DEF Kill, Set, fileVars, indexVars

LEMMA LogPowerLoss == ASSUME Stored', PowerLoss PROVE LogInv'
  <1>1. shm' = [k \in 0..1 |-> ZeroHdr] /\ con' = [c \in Conns |-> Idle]
    BY DEF PowerLoss
  <1>2. Logged(shm'[0], wal', aPgno', file') /\ shm'[0].mx = 0
    BY <1>1 DEF Logged, ZeroHdr
  <1> QED BY <1>1, <1>2, LogIdle DEF LogInv

-----------------------------------------------------------------------------
(* Recovery and the log.                                                   *)

\* What recovery finds: the frames up to any valid one are valid, and the last commit
\* among them is one.
LEMMA RecoveredLog ==
    ASSUME Stored, NEW a, \A i \in ValidFrames : a[i] = wal[i].pg
    PROVE  Logged(RecoveredHdr, wal, a, file)
  <1> DEFINE S == {i \in ValidFrames : wal[i].commit}
             m == LastCommit
  <1>1. ValidFrames \in SUBSET Frames /\ Frames \in SUBSET (Nat \ {0})
    BY DEF ValidFrames, Frames
  <1>2. ASSUME NEW i \in ValidFrames, NEW j \in 1..i
        PROVE  j \in ValidFrames /\ wal[j].pg # 0 /\ Linked(wal, j, file.salt) /\ file # NoFile
    <2>1. j \in Frames /\ \A k \in 1..j : k \in 1..i
      BY <1>1, WalAssumption DEF Frames
    <2>2. \A k \in 1..i : /\ file # NoFile /\ wal[k].pg # 0 /\ wal[k].salt = file.salt
                          /\ wal[k].sum = [l \in 1..k |-> Content(wal[l])]
      BY DEF ValidFrames
    <2> QED BY <2>1, <2>2 DEF ValidFrames, Linked, SumOf
  <1>3. CASE S = {}
    <2>1. RecoveredHdr.mx = 0
      BY <1>3 DEF RecoveredHdr, LastCommit
    <2> QED BY <2>1 DEF Logged
  <1>4. CASE S # {}
    <2>1. \E s \in S : \A r \in S : r <= s
      BY <1>1, <1>4, Largest
    <2>2. m \in S
      BY <1>4, <2>1 DEF LastCommit
    <2>3. m \in ValidFrames /\ m \in 1..MaxFrame /\ m \in 1..m /\ wal[m].commit
      BY <1>1, <2>2 DEF Frames
    <2>4. HasFrames
      <3>1. wal[m].pg # 0 /\ file # NoFile
        BY <1>2, <2>3
      <3> QED BY <2>3, <3>1 DEF HasFrames, NoFrame, Frames
    <2>5. RecoveredHdr.mx = m /\ RecoveredHdr.salt = file.salt /\ RecoveredHdr.ver = wal[m].val
      BY <2>3, <2>4 DEF RecoveredHdr
    <2> HIDE DEF m
    <2> QED BY <1>2, <2>3, <2>5 DEF Logged
  <1> QED BY <1>3, <1>4

\* Conversely, recovery accepts what is committed.
LEMMA LoggedValid ==
    ASSUME NEW h, Logged(h, wal, aPgno, file), NEW i \in 1..h.mx
    PROVE  i \in ValidFrames
  <1>1. h.mx \in Nat /\ h.mx > 0 /\ h.mx <= MaxFrame /\ MaxFrame \in Nat
    BY WalAssumption DEF Logged
  <1>2. i \in Frames /\ \A j \in 1..i : j \in 1..h.mx
    BY <1>1 DEF Frames
  <1>3. \A j \in 1..h.mx : /\ file # NoFile /\ wal[j].pg # 0 /\ wal[j].salt = file.salt
                           /\ wal[j].sum = [k \in 1..j |-> Content(wal[k])]
    BY <1>1 DEF Logged, Linked, SumOf
  <1> QED BY <1>2, <1>3 DEF ValidFrames

LEMMA LogRecovering == ASSUME WalInv, LogInv, Stored', NEW c \in Conns, Recovering(c) PROVE LogInv'
  <1>1. CASE Recover(c)
    <2>1. /\ UNCHANGED <<wal, file>> /\ shm'[0] = shm[0] /\ con[c].t = 0
          /\ con[c].pc \in {"none", "ckpt"} /\ writeLock = None
      BY <1>1, Known DEF Recover, At, fileVars, ConInv, Caller, WriteSteps
    <2>2. PICK k : con' = [con EXCEPT ![c] = [con[c] EXCEPT !.pc = "rec0", !.hdr = RecoveredHdr,
                                                          !.nCkpt = k]]
      BY <1>1 DEF Recover, Set
    <2>3. con'[c].pc = "rec0" /\ con'[c].hdr = RecoveredHdr /\ SameLog(con[c], con'[c])
      BY <2>2, Known, Fields DEF SameLog
    <2>4. \A i \in ValidFrames : aPgno'[i] = wal[i].pg
      BY <1>1 DEF Recover, ValidFrames
    <2>5. Logged(RecoveredHdr, wal, aPgno', file)
      BY <2>4, RecoveredLog DEF LogInv
    <2>6. Logged(shm[0], wal, aPgno', file)
      <3>1. Logged(shm[0], wal, aPgno, file)
        BY LogKnown
      <3>2. \A i \in 1..shm[0].mx : aPgno'[i] = aPgno[i]
        BY <2>4, <3>1, LoggedValid DEF Logged
      <3> QED BY <3>1, <3>2, LoggedKept
    <2>7. ConLog(con'[c], shm'[0].mx, wal', aPgno', file')
      <3>1. RecoveredHdr.mx \in Nat
        BY <2>5 DEF Logged
      <3> QED BY <2>1, <2>3, <2>5, <3>1, LogKnown DEF ConLog, SameLog
    <2>8. \A d \in Conns \ {c} : con'[d] = con[d] /\ writeLock # d
      BY <2>1, <2>2, WalAssumption
    <2> QED BY <2>1, <2>6, <2>7, <2>8, LogSteps
  <1>2. CASE RecoverHdr(c)
    <2>1. /\ con[c].pc = "rec0" /\ writeLock = c /\ con[c].t = 0 /\ UNCHANGED <<wal, aPgno, file>>
          /\ shm'[0] = con[c].hdr /\ Logged(con[c].hdr, wal, aPgno, file)
      BY <1>2, Known, LogKnown DEF RecoverHdr, At, fileVars, ConInv, Caller, Locked, NeedsLock,
         WriteSteps, ConLog
    <2>2. /\ con' = [con EXCEPT ![c] = con'[c]] /\ con'[c].pc = "rec1"
          /\ con'[c].hdr = con[c].hdr /\ SameLog(con[c], con'[c])
      BY <1>2, Known, Fields DEF RecoverHdr, Goto, SameLog
    <2>3. ConLog(con'[c], shm'[0].mx, wal', aPgno', file')
      BY <2>1, <2>2, LogKnown DEF ConLog, SameLog
    <2> QED BY <2>1, <2>2, <2>3, Known, LogSteps
  <1>3. CASE RecoverInfo(c)
    <2>1. /\ con' = [con EXCEPT ![c] = con'[c]] /\ con[c].pc = "rec1" /\ con'[c].pc \in {"try", "test"}
          /\ con'[c].hdr = con[c].hdr /\ SameLog(con[c], con'[c])
          /\ UNCHANGED <<wal, aPgno, file, shm>>
      BY <1>3, Known, Fields DEF RecoverInfo, Goto, At, SameLog, fileVars
    <2> QED BY <2>1, PlainStep DEF Plain
  <1> QED BY <1>1, <1>2, <1>3 DEF Recovering

-----------------------------------------------------------------------------
(* The writer and the log.                                                 *)

LEMMA LogTypes == ASSUME LogInv, NEW c \in Conns
    PROVE  /\ shm[0].mx \in Nat /\ con[c].hdr.mx \in Nat /\ con[c].n \in Nat
           /\ con[c].first \in Nat /\ con[c].todo \in SUBSET Pages
  BY LogKnown

LEMMA LogBeginWrite == ASSUME WalInv, LogInv, Stored', NEW c \in Conns, BeginWrite(c) PROVE LogInv'
  <1> DEFINE r == [con[c] EXCEPT !.pc = "write"]
  <1>1. /\ con' = [con EXCEPT ![c] = r] /\ con[c].pc = "read" /\ con[c].t = 0 /\ shm[0] = con[c].hdr
        /\ UNCHANGED <<wal, aPgno, file, shm>>
    BY Known DEF BeginWrite, CanWrite, SameHdr, Goto, At, indexVars, fileVars, ConInv, Caller,
       WriteSteps
  <1>2. r.pc = "write" /\ r.hdr = con[c].hdr /\ SameLog(con[c], r)
    BY Known, Fields DEF SameLog
  <1> HIDE DEF r
  <1>3. /\ con[c].n = 0 /\ con[c].recksum = FALSE /\ con[c].first = 0
        /\ Logged(con[c].hdr, wal, aPgno, file) /\ con[c].hdr.mx \in Nat /\ MaxFrame \in Nat
    BY <1>1, LogKnown, WalAssumption DEF ConLog
  <1>4. Composed(r, shm[0].mx, wal, aPgno, file)
    BY <1>1, <1>2, <1>3 DEF Composed, SameLog, Logged
  <1>5. ConLog(r, shm[0].mx, wal, aPgno, file)
    BY <1>1, <1>2, <1>4, LogTypes DEF ConLog, SameLog
  <1> QED BY <1>1, <1>5, LogAlone

\* The transaction is between two calls of sqlite3WalFrames, or inside one.
LEMMA ComposedKnown ==
    ASSUME WalInv, LogInv, NEW c \in Conns,
           con[c].pc \in {"write", "restart", "reset0", "reset1", "file", "frame"},
           con[c].mode = "none"
    PROVE  /\ Composed(con[c], shm[0].mx, wal, aPgno, file) /\ writeLock = c
           /\ con[c].pc # "write" => con[c].t # 0
  BY Known, LogKnown DEF ConInv, Caller, Locked, NeedsLock, Writer, ConLog

LEMMA LogWalFrames ==
    ASSUME WalInv, LogInv, Stored', NEW c \in Conns, ntxn \in Nat, NEW S \in Writes, NEW k,
           WalFrames(c, S, k)
    PROVE  LogInv'
  <1> DEFINE t == IF con[c].t = 0 THEN ntxn + 1 ELSE con[c].t
             first == IF SameHdr(c) THEN 0 ELSE shm[0].mx + 1
             pc == IF shared[c] = 0 THEN "restart" ELSE "file"
             r == [con[c] EXCEPT !.pc = pc, !.t = t, !.todo = S, !.commit = k,
                                 !.n = 0, !.first = first]
  <1>1. /\ con' = [con EXCEPT ![c] = r] /\ con[c].pc = "write"
        /\ UNCHANGED <<wal, aPgno, file, shm>>
    BY DEF WalFrames, Set, At, indexVars, fileVars
  <1>2. /\ r.pc = pc /\ r.hdr = con[c].hdr /\ r.t = t /\ r.todo = S /\ r.n = 0 /\ r.first = first
        /\ r.recksum = con[c].recksum
    BY Known, Fields
  <1>3. pc \in {"restart", "file"} /\ t # 0 /\ first \in Nat /\ (first # 0 => first > shm[0].mx)
    BY LogKnown
  <1> HIDE DEF r, pc, t, first
  <1>4. con[c].mode = "none" /\ Composed(con[c], shm[0].mx, wal, aPgno, file)
    BY <1>1, Known, ComposedKnown DEF ConInv, Caller, CkptSteps
  <1>5. S # {} /\ S \in SUBSET Pages
    BY WalAssumption DEF Pages
  <1>6. Composed(r, shm[0].mx, wal, aPgno, file)
    BY <1>1, <1>2, <1>3, <1>4, <1>5 DEF Composed
  <1>7. ConLog(r, shm[0].mx, wal, aPgno, file)
    BY <1>2, <1>3, <1>5, <1>6, LogTypes DEF ConLog
  <1> QED BY <1>1, <1>7, LogAlone

LEMMA LogRestart == ASSUME WalInv, LogInv, Stored', NEW c \in Conns, RestartLog(c) PROVE LogInv'
  <1>1. /\ UNCHANGED <<wal, aPgno, file>> /\ con[c].pc = "restart" /\ con[c].mode = "none"
        /\ con[c].t # 0 /\ shm'[0] = shm[0]
    BY Known DEF RestartLog, At, fileVars, ConInv, Caller, CkptSteps
  <1>2. Composed(con[c], shm[0].mx, wal, aPgno, file)
    BY <1>1, ComposedKnown
  <1>3. CASE Set(c, [con[c] EXCEPT !.pc = "reset0", !.hdr = ResetHdr(c), !.nCkpt = TRUE])
    <2> DEFINE r == [con[c] EXCEPT !.pc = "reset0", !.hdr = ResetHdr(c), !.nCkpt = TRUE]
    <2>1. r.pc = "reset0" /\ r.hdr = ResetHdr(c) /\ SameLog(con[c], r) /\ ResetHdr(c).mx = 0
      BY Known, Fields DEF SameLog, ResetHdr
    <2>2. con' = [con EXCEPT ![c] = r]
      BY <1>3 DEF Set
    <2> HIDE DEF r
    <2>3. Composed(r, shm[0].mx, wal, aPgno, file)
      BY <1>1, <1>2, <2>1, WalAssumption DEF Composed, SameLog
    <2>4. ConLog(r, shm[0].mx, wal, aPgno, file)
      BY <1>1, <2>1, <2>3, LogTypes DEF ConLog, SameLog
    <2> QED BY <1>1, <2>2, <2>4, LogAlone
  <1>4. CASE Set(c, [con[c] EXCEPT !.pc = "pick", !.useWal = TRUE])
    <2>1. /\ con' = [con EXCEPT ![c] = con'[c]] /\ con'[c].pc = "pick" /\ con'[c].hdr = con[c].hdr
          /\ SameLog(con[c], con'[c])
      BY <1>4, Known, Fields DEF Set, SameLog
    <2> QED BY <1>1, <2>1, PlainStep DEF Plain
  <1> QED BY <1>3, <1>4 DEF RestartLog

LEMMA LogResetHdr0 == ASSUME WalInv, LogInv, Stored', NEW c \in Conns, ResetHdr0(c) PROVE LogInv'
  <1>1. /\ UNCHANGED <<wal, aPgno, file>> /\ con[c].pc = "reset0" /\ shm'[0] = con[c].hdr
        /\ con[c].hdr.mx = 0 /\ writeLock = c /\ (con[c].t # 0 <=> con[c].mode = "none")
    BY Known, LogKnown DEF ResetHdr0, At, fileVars, ConInv, Caller, Locked, NeedsLock, ConLog
  <1>2. /\ con' = [con EXCEPT ![c] = con'[c]] /\ con'[c].pc = "reset1" /\ con'[c].hdr = con[c].hdr
        /\ SameLog(con[c], con'[c])
    BY Known, Fields DEF ResetHdr0, Goto, SameLog
  <1>3. ConLog(con'[c], shm'[0].mx, wal', aPgno', file')
    <2>1. CASE con[c].t = 0
      BY <1>1, <1>2, <2>1, LogKnown DEF ConLog, SameLog
    <2>2. CASE con[c].t # 0
      <3>1. Composed(con[c], shm[0].mx, wal, aPgno, file)
        BY <1>1, <2>2, ComposedKnown
      <3>2. Composed(con'[c], shm'[0].mx, wal', aPgno', file')
        BY <1>1, <1>2, <2>2, <3>1, LogKnown DEF Composed, SameLog
      <3> QED BY <1>1, <1>2, <2>2, <3>2, LogTypes DEF ConLog, SameLog
    <2> QED BY <2>1, <2>2
  <1>4. Logged(shm'[0], wal', aPgno', file')
    BY <1>1 DEF Logged
  <1> QED BY <1>1, <1>2, <1>3, <1>4, Known, LogSteps

LEMMA LogResetInfo == ASSUME WalInv, LogInv, Stored', NEW c \in Conns, ResetInfo(c) PROVE LogInv'
  <1>1. /\ UNCHANGED <<wal, aPgno, file, shm>> /\ con[c].pc = "reset1" /\ shm[0].mx = 0
        /\ (con[c].t # 0 <=> con[c].mode = "none")
    BY Known, LogKnown DEF ResetInfo, At, fileVars, ConInv, Caller, ConLog
  <1>2. /\ con' = [con EXCEPT ![c] = con'[c]] /\ con'[c].hdr = con[c].hdr
        /\ SameLog(con[c], con'[c])
        /\ con'[c].pc = IF con[c].mode = "none" THEN "pick" ELSE "trunc"
    <2>1. CASE con[c].mode = "none"
      <3>1. Set(c, [con[c] EXCEPT !.pc = "pick", !.useWal = TRUE])
        BY <2>1 DEF ResetInfo
      <3> QED BY <2>1, <3>1, Known, Fields DEF Set, SameLog
    <2>2. CASE con[c].mode # "none"
      BY <2>2, Known, Fields DEF ResetInfo, Goto, SameLog
    <2> QED BY <2>1, <2>2
  <1>3. ConLog(con'[c], shm[0].mx, wal, aPgno, file)
    <2>1. CASE con[c].t = 0
      BY <1>1, <1>2, <2>1, LogKnown DEF ConLog, SameLog
    <2>2. CASE con[c].t # 0
      <3>1. Composed(con[c], shm[0].mx, wal, aPgno, file)
        BY <1>1, <2>2, ComposedKnown
      <3>2. Composed(con'[c], shm[0].mx, wal, aPgno, file)
        BY <1>1, <1>2, <2>2, <3>1 DEF Composed, SameLog
      <3> QED BY <1>1, <1>2, <2>2, <3>2, LogTypes DEF ConLog, SameLog
    <2> QED BY <2>1, <2>2
  <1> QED BY <1>1, <1>2, <1>3, LogAlone

LEMMA LogWriteFileHdr ==
    ASSUME WalInv, LogInv, Stored', NEW c \in Conns, WriteFileHdr(c) PROVE LogInv'
  <1>1. /\ UNCHANGED <<wal, aPgno, shm>> /\ con[c].pc = "file" /\ con[c].t # 0
        /\ con[c].mode = "none"
    BY Known DEF WriteFileHdr, At, indexVars, ConInv, Caller, CkptSteps
  <1>2. Composed(con[c], shm[0].mx, wal, aPgno, file) /\ writeLock = c
    BY <1>1, ComposedKnown
  <1>3. CASE con[c].hdr.mx = 0
    <2> DEFINE s == IF con[c].nCkpt THEN con[c].hdr.salt ELSE FreshSalt
               h == [salt |-> s, nCkpt |-> con[c].nCkpt]
               r == [con[c] EXCEPT !.pc = "frame", !.hdr.salt = s]
    <2>1. file' = h /\ con' = [con EXCEPT ![c] = r]
      BY <1>3 DEF WriteFileHdr, Set
    <2>2. h # NoFile
      <3>1. CASE con[c].nCkpt
        BY <3>1 DEF NoFile
      <3>2. CASE ~con[c].nCkpt
        BY <3>2, FreshSaltIs DEF NoFile, LogInv
      <3> QED BY <3>1, <3>2
    <2>3. /\ r.pc = "frame" /\ r.hdr.mx = 0 /\ r.hdr.salt = s /\ SameLog(con[c], r)
      BY <1>3, Known, Fields DEF SameLog
    <2>4. h.salt = s
      OBVIOUS
    <2> HIDE DEF r, h, s
    <2>5. con'[c] = r /\ \A d \in Conns \ {c} : con'[d] = con[d]
      BY <2>1, Known
    <2>6. Composed(r, shm[0].mx, wal, aPgno, file')
      BY <1>1, <1>2, <1>3, <2>1, <2>2, <2>3, <2>4, LogKnown DEF Composed, SameLog
    <2>7. ConLog(r, shm[0].mx, wal, aPgno, file')
      BY <1>1, <2>3, <2>6, LogTypes DEF ConLog, SameLog
    <2>8. shm[0].mx = 0
      BY <1>1, <1>2, <1>3, LogKnown DEF Composed
    <2>9. Logged(shm'[0], wal', aPgno', file')
      BY <1>1, <2>8 DEF Logged
    <2> QED BY <1>1, <1>2, <2>5, <2>7, <2>9, LogSteps
  <1>4. CASE con[c].hdr.mx # 0
    <2> DEFINE r == [con[c] EXCEPT !.pc = "frame"]
    <2>1. con' = [con EXCEPT ![c] = r] /\ UNCHANGED file
      BY <1>4 DEF WriteFileHdr, Goto
    <2>2. r.pc = "frame" /\ r.hdr = con[c].hdr /\ SameLog(con[c], r)
      BY Known, Fields DEF SameLog
    <2> HIDE DEF r
    <2>3. Composed(r, shm[0].mx, wal, aPgno, file)
      BY <1>1, <1>2, <1>4, <2>2, LogKnown DEF Composed, SameLog
    <2>4. ConLog(r, shm[0].mx, wal, aPgno, file)
      BY <1>1, <2>2, <2>3, LogTypes DEF ConLog, SameLog
    <2> QED BY <1>1, <2>1, <2>4, LogAlone
  <1> QED BY <1>3, <1>4

\* The checksum of a frame that is appended continues those before it.
LEMMA LinkedAppend ==
    ASSUME NEW i \in Nat \ {0}, NEW g, NEW h, NEW s, i > 1 => Linked(g, i - 1, s),
           \A j \in 1..(i - 1) : h[j] = g[j]
    PROVE  Append(IF i = 1 THEN <<>> ELSE g[i - 1].sum, Content(h[i]))
             = SumOf(h, i)
  <1> DEFINE x == Content(h[i])
  <1>1. CASE i = 1
    <2>1. Append(<<>>, x) = [j \in 1..1 |-> x]
      OBVIOUS
    <2>2. [j \in 1..1 |-> x] = [j \in 1..1 |-> Content(h[j])]
      BY <1>1
    <2> QED BY <1>1, <2>1, <2>2 DEF SumOf
  <1>2. CASE i # 1
    <2> DEFINE f == [j \in 1..(i - 1) |-> Content(g[j])]
               T == {Content(g[j]) : j \in 1..i} \cup {x}
    <2>1. i - 1 \in Nat /\ f \in [1..(i - 1) -> T]
      BY <1>2
    <2>2. f \in Seq(T) /\ Len(f) = i - 1
      BY <2>1
    <2>3. g[i - 1].sum = f
      BY <1>2 DEF Linked, SumOf
    <2>4. /\ Append(f, x) \in Seq(T) /\ Len(Append(f, x)) = i
          /\ \A j \in 1..i : Append(f, x)[j] = IF j = i THEN x ELSE f[j]
      BY <2>2
    <2>5. DOMAIN Append(f, x) = 1..i /\ Append(f, x) = [j \in 1..i |-> Append(f, x)[j]]
      BY <2>4
    <2>6. \A j \in 1..i : Append(f, x)[j] = Content(h[j])
      <3>1. ASSUME NEW j \in 1..i, j # i PROVE f[j] = Content(h[j])
        BY <3>1
      <3> QED BY <2>4, <3>1
    <2> HIDE DEF f, x
    <2>7. [j \in 1..i |-> Append(f, x)[j]] = [j \in 1..i |-> Content(h[j])]
      BY <2>6
    <2> QED BY <1>2, <2>3, <2>5, <2>7 DEF x, SumOf
  <1> QED BY <1>1, <1>2

LEMMA LogWriteFrame == ASSUME WalInv, LogInv, Stored', NEW c \in Conns, WriteFrame(c) PROVE LogInv'
  <1> DEFINE w == con[c]
             k == w.hdr.mx + w.n
             m == shm[0].mx
  <1>1. /\ UNCHANGED <<aPgno, file, shm>> /\ w.pc = "frame" /\ w.t # 0 /\ w.mode = "none"
    BY Known DEF WriteFrame, At, indexVars, ConInv, Caller, CkptSteps
  <1>2. Composed(w, m, wal, aPgno, file) /\ writeLock = c
    BY <1>1, ComposedKnown
  <1>3. /\ k \in Nat /\ k <= MaxFrame /\ m \in Nat /\ m <= w.hdr.mx /\ w.hdr.mx <= k
        /\ MaxFrame \in Nat
    BY <1>1, <1>2, LogTypes, WalAssumption DEF Composed
  <1>4. PICK p \in w.todo :
          LET last == w.todo = {p}
              v == IF w.commit THEN w.t ELSE -w.t
              old == FindFrame(c, p)
              i == w.hdr.mx + w.n + 1
              f == EncodeFrame(c, i, p, v, w.commit /\ last)
              over == w.first # 0 /\ (~last \/ ~w.commit) /\ old >= w.first
          IN  /\ IF over
                 THEN WriteFrameAt(old, [wal[old] EXCEPT !.val = v])
                 ELSE i <= MaxFrame /\ WriteFrameAt(i, f)
              /\ Set(c, [w EXCEPT !.todo = @ \ {p}, !.own = @ \cup {p},
                                  !.n = IF over THEN @ ELSE @ + 1, !.recksum = @ \/ over])
    BY DEF WriteFrame
  <1> DEFINE last == w.todo = {p}
             v == IF w.commit THEN w.t ELSE -w.t
             old == FindFrame(c, p)
             f == EncodeFrame(c, k + 1, p, v, w.commit /\ last)
             over == w.first # 0 /\ (~last \/ ~w.commit) /\ old >= w.first
             r == con'[c]
  <1>5. /\ r.pc = "frame" /\ r.hdr = w.hdr /\ r.t = w.t /\ r.commit = w.commit /\ r.first = w.first
        /\ r.todo = w.todo \ {p} /\ r.n = (IF over THEN w.n ELSE w.n + 1)
        /\ r.recksum = (w.recksum \/ over) /\ \A d \in Conns \ {c} : con'[d] = con[d]
    BY <1>1, <1>4, Known, Fields DEF Set
  <1>6. p \in Pages /\ p # 0 /\ DOMAIN wal = Frames /\ Frames = 1..MaxFrame
    BY LogTypes DEF Pages, LogInv, Stored, Frames
  <1>7. ASSUME \A i \in 1..m : wal'[i] = wal[i], Composed(r, m, wal', aPgno, file)
        PROVE  LogInv'
    <2>1. Logged(shm[0], wal', aPgno, file)
      BY <1>7, LogKnown, LoggedKept
    <2>2. r.n \in Nat /\ r.todo \in SUBSET Pages
      BY <1>5, LogTypes
    <2>3. ConLog(r, m, wal', aPgno, file)
      BY <1>1, <1>5, <1>7, <2>2, LogTypes DEF ConLog
    <2> QED BY <1>1, <1>2, <1>5, <2>1, <2>3, LogSteps
  <1>8. CASE over
    <2>1. wal' = [wal EXCEPT ![old] = [wal[old] EXCEPT !.val = v]]
      BY <1>4, <1>8 DEF WriteFrameAt
    <2>2. w.first > m /\ old >= w.first /\ w.first # 0
      BY <1>2, <1>8 DEF Composed
    <2> HIDE DEF old, v, over
    <2>3. \A i \in 1..m : wal'[i] = wal[i]
      <3>1. \A i \in 1..m : i # old
        BY <1>3, <2>2, LogTypes
      <3> QED BY <1>3, <2>1, <3>1, <1>6
    <2>4. \A i \in 1..k : wal'[i].pg = wal[i].pg
      <3>1. ASSUME NEW i \in 1..k PROVE wal'[i].pg = wal[i].pg
        <4>1. i \in Frames /\ DOMAIN wal[i] = FrameFields
          BY <1>3 DEF LogInv, Stored, Frames
        <4> QED BY <1>6, <2>1, <4>1, FrameFieldsAre DEF FrameFields
      <3> QED BY <3>1
    <2>5. r.commit => r.todo # {}
      BY <1>5, <1>8 DEF over
    <2>6. Composed(r, m, wal', aPgno, file)
      <3>1. r.n = w.n /\ r.recksum = TRUE
        BY <1>5, <1>8
      <3>2. \A i \in 1..w.hdr.mx : i \in 1..k
        BY <1>3, LogTypes
      <3> QED BY <1>1, <1>2, <1>5, <2>4, <2>5, <3>1, <3>2 DEF Composed
    <2> QED BY <1>7, <2>3, <2>6
  <1>9. CASE ~over
    <2>1. k + 1 <= MaxFrame /\ wal' = [wal EXCEPT ![k + 1] = f]
      BY <1>4, <1>9 DEF WriteFrameAt
    <2>2. /\ f.pg = p /\ f.val = v /\ f.commit = (w.commit /\ last)
          /\ ~w.recksum => /\ f.salt = w.hdr.salt
                           /\ f.sum = Append(IF k + 1 = 1 THEN <<>> ELSE wal[(k + 1) - 1].sum,
                                             <<p, v, w.commit /\ last>>)
      BY DEF EncodeFrame
    <2>3. Content(f) = <<p, v, w.commit /\ last>>
      BY <2>2 DEF Content
    <2>4. r.n = w.n + 1 /\ (w.recksum => r.recksum)
      BY <1>5, <1>9
    <2> HIDE DEF f, v, over, old
    <2>5. wal'[k + 1] = f /\ \A i \in 1..k : wal'[i] = wal[i]
      BY <1>3, <1>6, <2>1
    <2>6. ASSUME ~w.recksum PROVE \A i \in 1..(k + 1) : Linked(wal', i, w.hdr.salt)
      <3>1. \A i \in 1..k : Linked(wal, i, w.hdr.salt)
        BY <1>2, <2>6 DEF Composed
      <3>2. ASSUME NEW i \in 1..k PROVE Linked(wal', i, w.hdr.salt)
        <4>1. \A j \in 1..i : wal'[j] = wal[j]
          BY <1>3, <2>5
        <4> QED BY <3>1, <4>1, <1>3, LinkedKept
      <3>3. Linked(wal', k + 1, w.hdr.salt)
        <4>1. k + 1 > 1 => Linked(wal, (k + 1) - 1, w.hdr.salt)
          BY <1>3, <3>1
        <4>2. k + 1 \in Nat \ {0} /\ \A j \in 1..((k + 1) - 1) : wal'[j] = wal[j]
          BY <1>3, <2>5
        <4>3. Append(IF k + 1 = 1 THEN <<>> ELSE wal[(k + 1) - 1].sum, Content(wal'[k + 1]))
                = SumOf(wal', k + 1)
          BY <4>1, <4>2, LinkedAppend
        <4>4. f.sum = SumOf(wal', k + 1)
          BY <2>2, <2>3, <2>5, <2>6, <4>3
        <4> QED BY <2>2, <2>5, <2>6, <4>4 DEF Linked
      <3> QED BY <1>3, <3>2, <3>3
    <2>7. w.commit /\ r.todo = {} => f.commit /\ f.val = w.t
      BY <1>5, <2>2 DEF v
    <2>8. r.hdr.mx + r.n = k + 1
      BY <1>5, <2>4, LogTypes
    <2>9. Composed(r, m, wal', aPgno, file)
      <3>1. \A i \in 1..(k + 1) : wal'[i].pg # 0
        BY <1>2, <1>3, <1>6, <2>2, <2>5 DEF Composed
      <3>2. \A i \in 1..w.hdr.mx : aPgno[i] = wal'[i].pg
        BY <1>2, <1>3, <2>5, LogTypes DEF Composed
      <3>3. ~r.recksum => \A i \in 1..(r.hdr.mx + r.n) : Linked(wal', i, r.hdr.salt)
        BY <1>5, <2>4, <2>6, <2>8
      <3>4. r.commit /\ r.todo = {} => /\ r.n > 0 /\ wal'[r.hdr.mx + r.n].commit
                                      /\ wal'[r.hdr.mx + r.n].val = r.t
        BY <1>5, <2>4, <2>5, <2>7, <2>8, LogTypes
      <3>5. /\ r.hdr.mx + r.n <= MaxFrame /\ file # NoFile /\ r.hdr.salt = file.salt
            /\ r.hdr.mx >= m /\ (r.first # 0 => r.first > m)
        BY <1>1, <1>2, <1>5, <2>1, <2>8 DEF Composed
      <3> HIDE DEF r
      <3> QED BY <1>1, <1>5, <2>8, <3>1, <3>2, <3>3, <3>4, <3>5 DEF Composed
    <2>10. \A i \in 1..m : wal'[i] = wal[i]
      <3>1. \A i \in 1..m : i \in 1..k
        BY <1>3, LogTypes
      <3> QED BY <2>5, <3>1
    <2> QED BY <1>7, <2>9, <2>10
  <1> QED BY <1>8, <1>9

LEMMA FunSeq == ASSUME NEW S, NEW n \in Nat, NEW f \in [1..n -> S]
                PROVE  f \in Seq(S) /\ Len(f) = n
  OBVIOUS

\* walIndexAppend: the frames up to the header's last keep their entries, and those of
\* this call get theirs.
LEMMA IndexAppendIs ==
    ASSUME NEW c \in Conns, NEW mx \in Nat, NEW n \in Nat, mx = con[c].hdr.mx, n = con[c].n,
           mx + n <= MaxFrame, DOMAIN aPgno = Frames
    PROVE  /\ \A i \in 1..mx : IndexAppend(mx, Appended(c))[i] = aPgno[i]
           /\ \A i \in 1..(mx + n) : i > mx => IndexAppend(mx, Appended(c))[i] = wal[i].pg
  <1> DEFINE pgs == Appended(c)
             T == {wal[mx + k].pg : k \in 1..n}
             start == IF mx = 0 THEN [i \in Frames |-> 0]
                      ELSE IF pgs # <<>> /\ aPgno[mx + 1] # 0 THEN CleanupHash(mx)
                      ELSE aPgno
             a == IndexAppend(mx, pgs)
  <1>1. pgs = [k \in 1..n |-> wal[mx + k].pg]
    BY DEF Appended
  <1>2. pgs \in [1..n -> T]
    <2>1. \A k \in 1..n : wal[mx + k].pg \in T
      OBVIOUS
    <2> HIDE DEF T
    <2>2. [k \in 1..n |-> wal[mx + k].pg] \in [1..n -> T]
      BY <2>1
    <2> QED BY <1>1, <2>2
  <1>3. ASSUME NEW i \in (mx + 1)..(mx + n) PROVE pgs[i - mx] = wal[i].pg
    <2>1. i - mx \in 1..n /\ mx + (i - mx) = i
      OBVIOUS
    <2> QED BY <1>1, <2>1
  <1> HIDE DEF pgs
  <1>4. pgs \in Seq(T) /\ Len(pgs) = n
    BY <1>2, FunSeq
  <1>5. pgs = <<>> <=> n = 0
    <2> HIDE DEF T
    <2> QED BY <1>4
  <1>6. \A i \in 1..(mx + n) : i \in Frames
    BY WalAssumption DEF Frames
  <1>7. ASSUME NEW i \in 1..mx PROVE start[i] = aPgno[i]
    BY <1>6, <1>7 DEF CleanupHash
  <1>8. a = IF pgs = <<>> THEN aPgno
            ELSE [i \in Frames |-> IF i \in (mx + 1)..(mx + Len(pgs)) THEN pgs[i - mx] ELSE start[i]]
    BY Zenon DEF IndexAppend
  <1> HIDE DEF start, a
  <1>9. CASE n = 0
    <2>1. a = aPgno
      BY <1>5, <1>8, <1>9
    <2> QED BY <1>9, <2>1 DEF a, pgs
  <1>10. CASE n # 0
    <2>1. \A i \in Frames : a[i] = IF i \in (mx + 1)..(mx + n) THEN pgs[i - mx] ELSE start[i]
      BY <1>4, <1>5, <1>8, <1>10
    <2>2. ASSUME NEW i \in 1..mx PROVE a[i] = aPgno[i]
      <3>1. i \in Frames /\ i \notin (mx + 1)..(mx + n)
        BY <1>6
      <3> QED BY <1>7, <2>1, <3>1
    <2>3. ASSUME NEW i \in 1..(mx + n), i > mx PROVE a[i] = wal[i].pg
      <3>1. i \in Frames /\ i \in (mx + 1)..(mx + n)
        BY <1>6, <2>3
      <3> QED BY <1>3, <2>1, <3>1
    <2> QED BY <2>2, <2>3 DEF a, pgs
  <1> QED BY <1>9, <1>10

LEMMA LogFinishSpill == ASSUME WalInv, LogInv, Stored', NEW c \in Conns, FinishSpill(c) PROVE LogInv'
  <1> DEFINE w == con[c]
             m == shm[0].mx
  <1>1. /\ UNCHANGED <<wal, file, shm>> /\ w.pc = "frame" /\ w.t # 0 /\ w.mode = "none"
        /\ w.todo = {} /\ ~w.commit
    BY Known DEF FinishSpill, At, fileVars, ConInv, Caller, CkptSteps
  <1>2. Composed(w, m, wal, aPgno, file) /\ writeLock = c
    BY <1>1, ComposedKnown
  <1>3. /\ w.hdr.mx \in Nat /\ w.n \in Nat /\ w.hdr.mx + w.n <= MaxFrame /\ m \in Nat /\ m <= w.hdr.mx
        /\ DOMAIN aPgno = Frames
    BY <1>1, <1>2, LogTypes DEF Composed, LogInv, Stored
  <1>4. aPgno' = IndexAppend(w.hdr.mx, Appended(c))
    BY DEF FinishSpill
  <1>5. /\ \A i \in 1..w.hdr.mx : aPgno'[i] = aPgno[i]
        /\ \A i \in 1..(w.hdr.mx + w.n) : i > w.hdr.mx => aPgno'[i] = wal[i].pg
    BY <1>3, <1>4, IndexAppendIs
  <1>6. \A i \in 1..(w.hdr.mx + w.n) : aPgno'[i] = wal[i].pg
    BY <1>2, <1>3, <1>5 DEF Composed
  <1>7. Logged(shm'[0], wal', aPgno', file')
    <2>1. \A i \in 1..m : aPgno'[i] = aPgno[i]
      BY <1>3, <1>5
    <2> QED BY <1>1, <2>1, LogKnown, LoggedKept
  <1> DEFINE r == [w EXCEPT !.pc = "write", !.hdr.mx = @ + w.n, !.n = 0, !.first = 0]
  <1>8. /\ r.pc = "write" /\ r.hdr.mx = w.hdr.mx + w.n /\ r.hdr.salt = w.hdr.salt /\ r.n = 0
        /\ r.first = 0 /\ r.t = w.t /\ r.todo = w.todo /\ r.recksum = w.recksum /\ r.commit = w.commit
    BY Known, Fields
  <1>9. con' = [con EXCEPT ![c] = r]
    BY DEF FinishSpill, Set
  <1> HIDE DEF r
  <1>10. con'[c] = r /\ \A d \in Conns \ {c} : con'[d] = con[d]
    BY <1>9, Known
  <1>11. Composed(r, m, wal, aPgno', file)
    BY <1>1, <1>2, <1>3, <1>6, <1>8 DEF Composed
  <1>12. ConLog(r, m, wal, aPgno', file)
    BY <1>1, <1>3, <1>8, <1>11, LogTypes DEF ConLog
  <1> QED BY <1>1, <1>2, <1>7, <1>10, <1>12, LogSteps

LEMMA LogFinishCommit ==
    ASSUME WalInv, LogInv, Stored', NEW c \in Conns, NEW sync, FinishCommit(c, sync) PROVE LogInv'
  <1> DEFINE w == con[c]
             m == shm[0].mx
             h == [w.hdr EXCEPT !.mx = @ + w.n, !.chg = @ + 1, !.ver = w.t]
             k == w.hdr.mx + w.n
  <1>1. /\ UNCHANGED file /\ shm'[0] = shm[0] /\ w.pc = "frame" /\ w.t # 0 /\ w.mode = "none"
        /\ w.todo = {} /\ w.commit
    BY Known DEF FinishCommit, At, ConInv, Caller, CkptSteps
  <1>2. Composed(w, m, wal, aPgno, file) /\ writeLock = c
    BY <1>1, ComposedKnown
  <1>3. /\ w.hdr.mx \in Nat /\ w.n \in Nat /\ k <= MaxFrame /\ m \in Nat /\ m <= w.hdr.mx
        /\ DOMAIN aPgno = Frames /\ MaxFrame \in Nat
    BY <1>1, <1>2, LogTypes, WalAssumption DEF Composed, LogInv, Stored
  <1>4. h.mx = k /\ h.salt = w.hdr.salt /\ h.ver = w.t
    BY Known, Fields
  <1>5. aPgno' = IndexAppend(w.hdr.mx, Appended(c))
    BY DEF FinishCommit
  <1>6. /\ \A i \in 1..w.hdr.mx : aPgno'[i] = aPgno[i]
        /\ \A i \in 1..k : i > w.hdr.mx => aPgno'[i] = wal[i].pg
    BY <1>3, <1>5, IndexAppendIs
  <1>7. \A i \in 1..k : aPgno'[i] = wal[i].pg
    BY <1>2, <1>3, <1>6 DEF Composed
  <1>8. \A i \in 1..k : /\ wal'[i].pg = wal[i].pg /\ wal'[i].val = wal[i].val
                        /\ wal'[i].commit = wal[i].commit /\ Linked(wal', i, w.hdr.salt)
    <2>1. CASE ~w.recksum
      BY <1>2, <2>1 DEF FinishCommit, Composed
    <2>2. CASE w.recksum
      <3>1. wal' = RewriteChecksums(w.hdr.salt, k)
        BY <1>4, <2>2 DEF FinishCommit
      <3> HIDE DEF w, k
      <3>2. ASSUME NEW i \in 1..k
            PROVE  /\ wal'[i].pg = wal[i].pg /\ wal'[i].val = wal[i].val
                   /\ wal'[i].commit = wal[i].commit /\ Content(wal'[i]) = Content(wal[i])
                   /\ wal'[i].salt = w.hdr.salt /\ wal'[i].sum = SumOf(wal, i)
        <4>1. k \in Nat
          BY <1>3 DEF k
        <4>2. i \in Frames /\ ~(i > k)
          BY <1>3, <4>1 DEF Frames
        <4> QED BY <3>1, <4>2, RewriteFields, RewrittenSums DEF LogInv
      <3>3. ASSUME NEW i \in 1..k PROVE SumOf(wal', i) = SumOf(wal, i)
        <4>1. \A j \in 1..i : Content(wal'[j]) = Content(wal[j])
          <5>1. k \in Nat
            BY <1>3 DEF k
          <5> QED BY <3>2, <5>1
        <4> QED BY <4>1 DEF SumOf
      <3> QED BY <3>2, <3>3 DEF Linked
    <2> QED BY <2>1, <2>2
  <1> HIDE DEF h
  <1>9. Logged(h, wal', aPgno', file')
    <2>1. k \in Nat /\ k \in 1..k /\ wal[k].commit /\ wal[k].val = w.t /\ file # NoFile
          /\ w.hdr.salt = file.salt
      BY <1>1, <1>2, <1>3 DEF Composed
    <2>2. \A i \in 1..k : wal'[i].pg # 0
      BY <1>2, <1>8 DEF Composed
    <2> QED BY <1>1, <1>3, <1>4, <1>7, <1>8, <2>1, <2>2 DEF Logged
  <1>10. Logged(shm'[0], wal', aPgno', file')
    <2>1. Logged(shm[0], wal, aPgno, file)
      BY LogKnown
    <2>2. \A i \in 1..m : i \in 1..k
      BY <1>3
    <2>3. m > 0 => m \in 1..m /\ shm[0].salt = w.hdr.salt
      BY <1>1, <1>2, <1>3, <2>1 DEF Logged, Composed
    <2> QED BY <1>1, <1>3, <1>7, <1>8, <2>1, <2>2, <2>3 DEF Logged
  <1> DEFINE r == [w EXCEPT !.pc = "publish", !.hdr = h, !.synced = sync]
  <1>11. r.pc = "publish" /\ r.hdr = h /\ SameLog(w, r)
    BY Known, Fields DEF SameLog
  <1>12. con' = [con EXCEPT ![c] = r]
    BY DEF FinishCommit, Set, h
  <1> HIDE DEF r
  <1>13. con'[c] = r /\ \A d \in Conns \ {c} : con'[d] = con[d]
    BY <1>12, Known
  <1>14. ConLog(r, m, wal', aPgno', file')
    BY <1>1, <1>3, <1>4, <1>9, <1>11, LogTypes DEF ConLog, SameLog
  <1> QED BY <1>1, <1>2, <1>10, <1>13, <1>14, LogSteps

LEMMA LogBackToRead ==
    ASSUME WalInv, LogInv, Stored', NEW c \in Conns, NEW h, NEW v, NEW x, h.mx \in Nat,
           Set(c, [AtRest(c) EXCEPT !.pc = "read", !.hdr = h, !.snap = v, !.minFrame = x]),
           writeLock = c, Logged(shm'[0], wal', aPgno', file')
    PROVE  LogInv'
  <1> DEFINE r == [AtRest(c) EXCEPT !.pc = "read", !.hdr = h, !.snap = v, !.minFrame = x]
  <1>1. /\ r.pc = "read" /\ r.hdr = h /\ r.t = 0 /\ r.n = 0 /\ r.recksum = FALSE /\ r.first = 0
        /\ r.todo = {}
    BY DEF AtRest, Idle
  <1>2. con' = [con EXCEPT ![c] = r]
    BY DEF Set
  <1> HIDE DEF r
  <1>3. con'[c] = r /\ \A d \in Conns \ {c} : con'[d] = con[d]
    BY <1>2, Known
  <1>4. ConLog(r, shm'[0].mx, wal', aPgno', file')
    BY <1>1 DEF ConLog
  <1> QED BY <1>3, <1>4, LogSteps

LEMMA LogPublish == ASSUME WalInv, LogInv, Stored', NEW c \in Conns, Publish(c) PROVE LogInv'
  <1>1. /\ writeLock = c /\ Logged(con[c].hdr, wal, aPgno, file) /\ con[c].hdr.mx \in Nat
        /\ shm'[0] = con[c].hdr /\ UNCHANGED <<wal, aPgno, file>>
    BY Known, LogKnown DEF Publish, At, ConInv, Caller, Locked, NeedsLock, Writer, ConLog, fileVars
  <1> QED BY <1>1, LogBackToRead DEF Publish

LEMMA LogUndo == ASSUME WalInv, LogInv, Stored', NEW c \in Conns, Undo(c) PROVE LogInv'
  <1>1. writeLock = c /\ UNCHANGED <<wal, file, shm>> /\ shm[0].mx \in Nat
    BY Known, LogTypes DEF Undo, ConInv, Caller, Locked, NeedsLock, Writer, fileVars
  <1>2. \A i \in 1..shm[0].mx : aPgno'[i] = aPgno[i]
    <2>1. CASE aPgno' = CleanupHash(shm[0].mx)
      <3>1. \A i \in 1..shm[0].mx : i \in Frames /\ i <= shm[0].mx /\ shm[0].mx # 0
        BY <1>1, LogKnown, WalAssumption DEF Logged, Frames
      <3> QED BY <2>1, <3>1 DEF CleanupHash
    <2> QED BY <2>1 DEF Undo
  <1>3. Logged(shm'[0], wal', aPgno', file')
    BY <1>1, <1>2, LogKnown, LoggedKept
  <1> QED BY <1>1, <1>3, LogBackToRead DEF Undo

LEMMA LogWriteError == ASSUME WalInv, LogInv, Stored', NEW c \in Conns, WriteError(c) PROVE LogInv'
  <1>1. /\ con' = [con EXCEPT ![c] = con'[c]] /\ con'[c].pc = "undo" /\ con'[c].hdr = con[c].hdr
        /\ SameLog(con[c], con'[c]) /\ con[c].pc \in {"file", "frame"}
        /\ UNCHANGED <<wal, aPgno, file, shm>>
    BY Known, Fields DEF WriteError, Goto, SameLog, fileVars, indexVars
  <1>2. con[c].t # 0
    BY <1>1, Known DEF ConInv, Caller
  <1>3. ConLog(con'[c], shm[0].mx, wal, aPgno, file)
    BY <1>1, <1>2, LogTypes DEF ConLog, SameLog
  <1> QED BY <1>1, <1>3, LogAlone

LEMMA LogWriting ==
    ASSUME WalInv, LogInv, Stored', ntxn \in Nat, NEW c \in Conns, Writing(c) PROVE LogInv'
  BY LogBeginWrite, LogWalFrames, LogRestart, LogResetHdr0, LogResetInfo, LogWriteFileHdr,
     LogWriteFrame, LogFinishSpill, LogFinishCommit, LogPublish, LogWriteError, LogUndo
     DEF Writing

LEMMA LogNext == WalInv /\ ntxn \in Nat /\ LogInv /\ [Next]_vars => LogInv'
  <1> SUFFICES ASSUME WalInv, ntxn \in Nat, LogInv, [Next]_vars PROVE LogInv'
    OBVIOUS
  <1>1. Stored'
    BY StoredNext DEF LogInv
  <1>2. CASE UNCHANGED vars
    BY <1>2 DEF LogInv, Stored, vars, indexVars, fileVars
  <1> QED BY <1>1, <1>2, LogReading, LogWriting, LogCheckpointing, LogRecovering, LogKill,
          LogPowerLoss DEF Next

LEMMA LogStart == Init => LogInv
  <1> SUFFICES ASSUME Init PROVE LogInv
    OBVIOUS
  <1>1. Stored
    BY FS_Singleton DEF Init, Stored, FrameFields
  <1>2. Logged(shm[0], wal, aPgno, file)
    BY DEF Init, Logged, ZeroHdr
  <1> QED BY <1>1, <1>2, LogIdle DEF Init, LogInv

\* Recovery can take the place of the wal-index at any time, for any number of
\* connections, pages, frames, marks, transactions, kills and power losses: what the
\* header of the wal-index calls committed, walIndexRecover finds in the log file, with
\* the same pages and the same version at its end.
THEOREM SpecRecoverable == Spec => []Recoverable
  <1>1. LogInv => Recoverable
    <2> SUFFICES ASSUME LogInv, shm[0].mx > 0
                 PROVE  /\ shm[0].mx \in ValidFrames /\ wal[shm[0].mx].commit
                        /\ wal[shm[0].mx].val = shm[0].ver
                        /\ \A i \in 1..shm[0].mx : aPgno[i] = wal[i].pg
      BY DEF Recoverable
    <2>1. Logged(shm[0], wal, aPgno, file) /\ shm[0].mx \in 1..shm[0].mx
      BY DEF LogInv, Logged
    <2> QED BY <2>1, LoggedValid DEF Logged
  <1>2. Spec => [](WalInv /\ ntxn \in Nat /\ LogInv)
    <2>1. Init => WalInv /\ ntxn \in Nat /\ LogInv
      BY FreshInv, LogStart DEF Init
    <2>2. WalInv /\ ntxn \in Nat /\ LogInv /\ [Next]_vars => (WalInv /\ ntxn \in Nat /\ LogInv)'
      BY NextInv, NtxnNat, LogNext
    <2> QED BY <2>1, <2>2, PTL DEF Spec
  <1> QED BY <1>1, <1>2, PTL

(***************************************************************************)
(* NothingLost, by an invariant about ages.  The wal-index may vanish at   *)
(* any step, with its processes or with the machine, and recovery then     *)
(* takes what the log file holds for the truth.  So every version that is  *)
(* acknowledged has to be in the database file while no older frame can    *)
(* be taken for one of the log, or to be committed in the log by frames    *)
(* that cannot be lost (Anchored); for what a power loss may leave, the    *)
(* same holds of the last version that was synced.  What keeps it true is  *)
(* when a writer may begin a log: only after a reset that gave it a salt   *)
(* no older frame has (NewLog, Begun).                                     *)
(***************************************************************************)

\* What a value says of when it was written, and which frames a recovery may count.
Age(v) == IF v < 0 THEN -v ELSE v
Signed(x, s) == x.salt = s /\ x.sum # <<>>

IsFrame(x) == x = [y \in FrameFields |-> x[y]]

\* A frame is a record, not younger than the latest transaction, its checksum covers none that
\* is younger than itself, and only a transaction that commits marks it.
FrameOk(x, n) ==
    /\ IsFrame(x)
    /\ x.val \in Int /\ Age(x.val) <= n /\ (x.commit => x.val > 0)
    /\ \A j \in DOMAIN x.sum : x.sum[j][2] \in Int /\ Age(x.sum[j][2]) <= Age(x.val)

\* A log is here the set of frames that may be at each place.
Actual == [i \in Frames |-> {wal[i]}]
The(L) == [j \in Frames |-> CHOOSE x \in L[j] : TRUE]

\* No frame with salt s is older than version v.
NewLog(L, s, v) == \A i \in Frames : \A x \in L[i] : Signed(x, s) => v <= Age(x.val)

\* The frames up to d can only be what they are; they are valid and commit v or a
\* later version.
CommitAt(L, d, s, v) ==
    /\ \A j \in 1..d : L[j] = {The(L)[j]} /\ The(L)[j].pg # 0 /\ Linked(The(L), j, s)
    /\ The(L)[d].commit /\ The(L)[d].val \in Int /\ v <= The(L)[d].val

\* Version v outlasts the wal-index: it is in the database file and a recovery finds
\* nothing older in the log, or it is in the log, up to frame m if m > 0.
OldLog(L, f, v, m) ==
    f # NoFile /\ \E d \in Frames : (m > 0 => d <= m) /\ CommitAt(L, d, f.salt, v)
Anchored(L, F, v, m, b) == \A f \in F : (v <= b /\ NewLog(L, f.salt, v)) \/ OldLog(L, f, v, m)

Versions ==
    /\ {acked, durable, ntxn} \subseteq Nat /\ base \in Int
    /\ durable <= acked /\ acked <= ntxn
    /\ \A i \in Frames : FrameOk(wal[i], ntxn) /\ \A x \in walMay[i] : FrameOk(x, ntxn)

LogFile ==
    /\ file = NoFile => \A i \in Frames : wal[i] = NoFrame
    /\ file # NoFile => fileMay = {file} /\ \A i \in Frames : wal[i] \in walMay[i]
    /\ NoFile \in fileMay => \A i \in Frames : walMay[i] = {NoFrame}
    /\ cut => file = NoFile /\ durable <= base

\* What the wal-index shows is not behind, and is not needed.
Shown ==
    /\ shm[0].ver \in Int /\ (shm[0].init => acked <= shm[0].ver) /\ (shm[0].mx > 0 => shm[0].init)
    /\ shm[0].init /\ shm[0].mx = 0 => acked <= base /\ NewLog(Actual, shm[0].salt, acked)
    /\ Anchored(Actual, {file}, acked, shm[0].mx, base)
    /\ Anchored(walMay, fileMay, durable, shm[0].mx, base)

\* A connection's header is one that was read or recovered.
HdrRead(w) == w.hdr.ver \in Int /\ (w.pc \notin {"none", "ckpt"} => w.hdr.init)

\* Who holds the lock works on the header that is there.
OnShown(w) ==
    /\ w.t # 0 => w.t = ntxn
    /\ w.t # 0 \/ w.pc \in {"write", "reset0", "reset1", "trunc"} => shm[0].init
    /\ (w.mode \notin {"none", "passive"} /\ w.pc # "ckpt") \/ w.pc = "reset0" =>
          shm[0].init /\ w.hdr.ver = shm[0].ver

\* The transaction of w has not been given up.
Going(w) == (w.t # 0 \/ w.pc = "write") /\ w.pc # "undo"

\* A writer that begins a log does so where no older frame can be taken for one of its
\* own, and what it has written is of its transaction, the commit mark at the end.
Begun(w) ==
    LET m == shm[0].mx IN
    /\ (Going(w) /\ m = 0) \/ w.pc = "reset0" => NewLog(Actual, w.hdr.salt, acked)
    /\ Going(w) /\ w.pc # "reset0" /\ m = 0 /\ (w.pc = "frame" \/ w.hdr.mx > 0) =>
          \A f \in fileMay : durable <= base /\ NewLog(walMay, f.salt, durable)
    /\ Going(w) /\ w.pc # "publish" =>
          /\ \A i \in (m + 1)..(w.hdr.mx + w.n) :
                /\ Age(wal[i].val) = w.t
                /\ i <= w.hdr.mx \/ ~w.commit => ~wal[i].commit
          /\ w.t = 0 => w.hdr.mx = m

\* A header that is about to be published, by recovery or by a commit.
Ready(w) ==
    /\ w.pc = "rec0" =>
          /\ acked <= w.hdr.ver
          /\ w.hdr.mx = 0 => acked <= base /\ NewLog(Actual, w.hdr.salt, acked)
          /\ Anchored(Actual, {file}, acked, w.hdr.mx, base)
          /\ Anchored(walMay, fileMay, durable, w.hdr.mx, base)
    /\ w.pc = "publish" =>
          /\ w.hdr.mx > 0 /\ w.hdr.mx >= shm[0].mx
          /\ w.synced => \A i \in 1..w.hdr.mx : walMay[i] = {wal[i]}

ConAnchor(w) == HdrRead(w) /\ OnShown(w) /\ Begun(w) /\ Ready(w)

AnchorInv == Versions /\ LogFile /\ Shown /\ \A c \in Conns : ConAnchor(con[c])

-----------------------------------------------------------------------------
(* Logs and versions.                                                      *)

LEMMA AgeIs == ASSUME NEW v \in Int PROVE Age(v) \in Nat /\ (v > 0 => Age(v) = v)
  BY DEF Age

LEMMA TheIs == ASSUME NEW L, NEW j \in Frames, NEW y, L[j] = {y} PROVE The(L)[j] = y
  BY DEF The

LEMMA ActualIs == \A i \in Frames : Actual[i] = {wal[i]}
  BY DEF Actual

LEMMA UpTo == ASSUME NEW d \in Frames
              PROVE  d \in Nat \ {0} /\ d \in 1..d /\ \A j \in 1..d : j \in Frames /\ j \in Nat \ {0}
  BY WalAssumption DEF Frames

\* A commit stays where nothing up to it changes.
LEMMA CommitAtKept ==
    ASSUME NEW L, NEW K, NEW d \in Frames, NEW s, NEW v \in Int, NEW u \in Int, u <= v,
           CommitAt(L, d, s, v), \A j \in 1..d : K[j] = L[j]
    PROVE  CommitAt(K, d, s, u)
  <1>1. ASSUME NEW j \in 1..d PROVE The(K)[j] = The(L)[j]
    <2>1. L[j] = {The(L)[j]} /\ K[j] = L[j] /\ j \in Frames
      BY UpTo DEF CommitAt
    <2> QED BY <2>1, TheIs
  <1>2. ASSUME NEW j \in 1..d PROVE Linked(The(K), j, s)
    <2>1. j \in Nat \ {0} /\ \A i \in 1..j : i \in 1..d
      BY UpTo
    <2>2. Linked(The(L), j, s)
      BY DEF CommitAt
    <2> QED BY <1>1, <2>1, <2>2, LinkedKept
  <1>3. d \in 1..d
    BY UpTo
  <1> QED BY <1>1, <1>2, <1>3 DEF CommitAt

\* A log that can only be g up to frame d, where g commits.
LEMMA CommitAtOf ==
    ASSUME NEW L, NEW g, NEW d \in Frames, NEW s, NEW v,
           \A j \in 1..d : L[j] = {g[j]} /\ g[j].pg # 0 /\ Linked(g, j, s),
           g[d].commit, g[d].val \in Int, v <= g[d].val
    PROVE  CommitAt(L, d, s, v)
  <1>1. ASSUME NEW j \in 1..d PROVE The(L)[j] = g[j]
    BY UpTo, TheIs
  <1>2. ASSUME NEW j \in 1..d PROVE Linked(The(L), j, s)
    <2>1. j \in Nat \ {0} /\ \A i \in 1..j : i \in 1..d
      BY UpTo
    <2> QED BY <1>1, <2>1, LinkedKept
  <1>3. d \in 1..d
    BY UpTo
  <1> QED BY <1>1, <1>2, <1>3 DEF CommitAt

\* New frames are no older than what they are compared with.
LEMMA NewLogKept ==
    ASSUME NEW L, NEW K, NEW s, NEW v \in Int, NEW u \in Int, u <= v, NewLog(L, s, v),
           \A i \in Frames : \A x \in L[i] : x.val \in Int,
           \A i \in Frames : \A x \in K[i] : x \in L[i] \/ u <= Age(x.val)
    PROVE  NewLog(K, s, u)
  <1>1. ASSUME NEW i \in Frames, NEW x \in K[i], Signed(x, s) PROVE u <= Age(x.val)
    <2>1. CASE x \in L[i]
      <3>1. v <= Age(x.val) /\ Age(x.val) \in Int
        BY <1>1, <2>1, AgeIs DEF NewLog
      <3> QED BY <3>1
    <2> QED BY <1>1, <2>1
  <1> QED BY <1>1 DEF NewLog

LEMMA AnchoredKept ==
    ASSUME NEW L, NEW K, NEW F, NEW v \in Int, NEW u \in Int, u <= v, NEW b \in Int,
           NEW m \in Nat, NEW n \in Nat, Anchored(L, F, v, m, b), n = 0 \/ (m > 0 /\ m <= n),
           \A i \in Frames : \A x \in L[i] : x.val \in Int,
           \A i \in Frames : \A x \in K[i] : x \in L[i] \/ u <= Age(x.val),
           m > 0 \/ (\A j \in Frames : K[j] = L[j]), \A j \in Frames : j <= m => K[j] = L[j]
    PROVE  Anchored(K, F, u, n, b)
  <1> SUFFICES ASSUME NEW f \in F
               PROVE  (u <= b /\ NewLog(K, f.salt, u)) \/ OldLog(K, f, u, n)
    BY DEF Anchored
  <1>1. CASE v <= b /\ NewLog(L, f.salt, v)
    BY <1>1, NewLogKept
  <1>2. CASE OldLog(L, f, v, m)
    <2>1. PICK d \in Frames : (m > 0 => d <= m) /\ CommitAt(L, d, f.salt, v)
      BY <1>2 DEF OldLog
    <2>2. \A j \in 1..d : K[j] = L[j]
      BY <2>1, UpTo
    <2>3. CommitAt(K, d, f.salt, u)
      BY <2>1, <2>2, CommitAtKept
    <2>4. n > 0 => d <= n
      BY <2>1, UpTo
    <2> QED BY <1>2, <2>3, <2>4 DEF OldLog
  <1> QED BY <1>1, <1>2 DEF Anchored

LEMMA NoFrameIs == IsFrame(NoFrame)
  BY DEF IsFrame, FrameFields, NoFrame

LEMMA FrameOkLater == ASSUME NEW x, NEW n \in Nat, NEW k \in Nat, n <= k, FrameOk(x, n)
                      PROVE  FrameOk(x, k)
  BY AgeIs DEF FrameOk

\* The values in the log are numbers.
LEMMA LogValues == ASSUME AnchorInv
    PROVE  /\ \A i \in Frames : \A x \in Actual[i] : x.val \in Int
           /\ \A i \in Frames : \A x \in walMay[i] : x.val \in Int
           /\ \A i \in Frames : wal[i].val \in Int
  BY ActualIs DEF AnchorInv, Versions, FrameOk

\* A fresh salt is on no frame.
LEMMA FreshNew == ASSUME LogInv, AnchorInv, NEW v PROVE NewLog(Actual, FreshSalt, v)
  <1>1. \A i \in Frames : \A f \in walMay[i] : FreshSalt # f.salt
    BY FreshSaltIs DEF LogInv
  <1>2. ASSUME NEW i \in Frames, Signed(wal[i], FreshSalt) PROVE FALSE
    <2>1. CASE file = NoFile
      BY <1>2, <2>1 DEF AnchorInv, LogFile, NoFrame, Signed
    <2>2. CASE file # NoFile
      BY <1>1, <1>2, <2>2 DEF AnchorInv, LogFile, Signed
    <2> QED BY <2>1, <2>2
  <1> QED BY <1>2, ActualIs DEF NewLog

-----------------------------------------------------------------------------
(* What a step may do to the versions.                                     *)

anchorVars == <<wal, walMay, file, fileMay, cut, base, acked, durable, ntxn>>

LEMMA AnchorKnown == ASSUME AnchorInv, NEW c \in Conns
    PROVE  /\ HdrRead(con[c]) /\ OnShown(con[c]) /\ Begun(con[c]) /\ Ready(con[c])
           /\ Versions /\ LogFile /\ Shown
  BY DEF AnchorInv, ConAnchor

\* Who does not hold the lock has nothing in hand.
LEMMA AnchorOthers ==
    ASSUME WalInv, AnchorInv, NEW d \in Conns, con'[d] = con[d], writeLock # d
    PROVE  ConAnchor(con[d])'
  <1>1. ~NeedsLock(d) /\ Caller(d)
    BY Known DEF ConInv, Locked
  <1>2. /\ con[d].t = 0 /\ con[d].mode \in {"none", "passive"}
        /\ con[d].pc \notin {"write", "publish", "rec0", "reset0", "reset1", "trunc"}
    BY <1>1 DEF NeedsLock, Writer, Caller
  <1>3. HdrRead(con[d])'
    BY AnchorKnown DEF HdrRead
  <1> QED BY <1>2, <1>3 DEF ConAnchor, OnShown, Begun, Ready, Going

LEMMA AnchorSame ==
    ASSUME NEW d \in Conns, UNCHANGED anchorVars, shm'[0] = shm[0], ConAnchor(con'[d])
    PROVE  ConAnchor(con[d])'
  <1>1. Actual' = Actual
    BY DEF Actual, anchorVars
  <1>2. HdrRead(con[d])' /\ OnShown(con[d])'
    BY DEF ConAnchor, HdrRead, OnShown, anchorVars
  <1>3. Begun(con[d])'
    BY <1>1 DEF ConAnchor, Begun, Going, anchorVars
  <1>4. Ready(con[d])'
    BY <1>1 DEF ConAnchor, Ready, anchorVars
  <1> QED BY <1>2, <1>3, <1>4 DEF ConAnchor

LEMMA AnchorSteps ==
    ASSUME WalInv, AnchorInv, NEW c \in Conns, \A d \in Conns \ {c} : con'[d] = con[d],
           \/ \A d \in Conns \ {c} : writeLock # d
           \/ UNCHANGED anchorVars /\ shm'[0] = shm[0],
           Versions', LogFile', Shown', ConAnchor(con[c])'
    PROVE  AnchorInv'
  <1>1. ASSUME NEW d \in Conns \ {c} PROVE ConAnchor(con[d])'
    <2>1. con'[d] = con[d] /\ ConAnchor(con[d])
      BY DEF AnchorInv
    <2>2. CASE UNCHANGED anchorVars /\ shm'[0] = shm[0]
      <3>1. ConAnchor(con'[d])
        BY <2>1
      <3> QED BY <2>2, <3>1, AnchorSame
    <2> QED BY <2>1, <2>2, AnchorOthers
  <1> QED BY <1>1 DEF AnchorInv

\* A step that leaves the versions alone.
LEMMA AnchorAlone ==
    ASSUME WalInv, AnchorInv, NEW c \in Conns, \A d \in Conns \ {c} : con'[d] = con[d],
           UNCHANGED anchorVars, shm'[0] = shm[0], ConAnchor(con'[c])
    PROVE  AnchorInv'
  <1>1. Actual' = Actual
    BY DEF Actual, anchorVars
  <1>2. Versions' /\ LogFile' /\ Shown'
    BY <1>1 DEF AnchorInv, Versions, LogFile, Shown, anchorVars
  <1> QED BY <1>2, AnchorSame, AnchorSteps

LEMMA AnchorRest == \A n : ConAnchor([Idle EXCEPT !.nCkpt = n])
  BY DEF ConAnchor, HdrRead, OnShown, Begun, Ready, Going, Idle, ZeroHdr

LEMMA AnchorIdle == ConAnchor(Idle)
  BY DEF ConAnchor, HdrRead, OnShown, Begun, Ready, Going, Idle, ZeroHdr

LEMMA AnchorPlain ==
    ASSUME WalInv, LogInv, AnchorInv, NEW c \in Conns, PlainMove(c) \/ Rests(c),
           UNCHANGED anchorVars, shm'[0] = shm[0]
    PROVE  AnchorInv'
  <1>1. CASE PlainMove(c)
    <2>1. \A d \in Conns \ {c} : con'[d] = con[d]
      BY <1>1, Known DEF PlainMove
    <2>2. ConAnchor(con'[c])
      <3>1. CASE /\ con'[c].hdr = con[c].hdr
                 /\ con'[c].pc = "ckpt" \/ con[c].pc \notin {"none", "ckpt"}
        <4>1. HdrRead(con'[c])
          BY <1>1, <3>1, AnchorKnown DEF PlainMove, HdrRead
        <4>2. OnShown(con'[c])
          BY <1>1, <3>1, AnchorKnown DEF PlainMove, OnShown, SameLog, Plain
        <4>3. Begun(con'[c])
          <5>1. con[c].t = 0 => ~Going(con'[c])
            BY <1>1 DEF PlainMove, SameLog, Going, Plain
          <5>2. con[c].t # 0 => Going(con[c])
            BY <1>1 DEF PlainMove, SameLog, Going, Plain
          <5> QED BY <1>1, <3>1, <5>1, <5>2, AnchorKnown DEF PlainMove, Begun, SameLog, Plain
        <4>4. Ready(con'[c])
          BY <1>1 DEF PlainMove, Ready, Plain
        <4> QED BY <4>1, <4>2, <4>3, <4>4 DEF ConAnchor
      <3>2. CASE con[c].t = 0 /\ con'[c].hdr = shm[0] /\ shm[0].init
        <4>1. shm[0].ver \in Int
          BY AnchorKnown DEF Shown
        <4> QED BY <1>1, <3>2, <4>1 DEF PlainMove, SameLog, Plain, ConAnchor, HdrRead, OnShown,
               Begun, Ready, Going
      <3> QED BY <1>1, <3>1, <3>2 DEF PlainMove
    <2> QED BY <2>1, <2>2, AnchorAlone
  <1>2. CASE Rests(c)
    <2>1. PICK n : con' = [con EXCEPT ![c] = [Idle EXCEPT !.nCkpt = n]]
      BY <1>2 DEF Rests
    <2>2. con'[c] = [Idle EXCEPT !.nCkpt = n] /\ \A d \in Conns \ {c} : con'[d] = con[d]
      BY <2>1, Known
    <2>3. ConAnchor(con'[c])
      BY <2>2, AnchorRest
    <2> QED BY <2>2, <2>3, AnchorAlone
  <1> QED BY <1>1, <1>2

LEMMA AnchorReading ==
    ASSUME WalInv, LogInv, AnchorInv, NEW c \in Conns, Reading(c) PROVE AnchorInv'
  <1>1. UNCHANGED anchorVars /\ shm' = shm
    BY DEF Reading, ReadHdr, TryLock0, Compare0, PickMark, LockMark, CompareMark, EndRead,
       indexVars, fileVars, countVars, ghostVars, anchorVars
  <1> QED BY <1>1, ReadingMoves, AnchorPlain

-----------------------------------------------------------------------------
(* Checkpoints, kills and power losses.                                    *)

\* The frames are on disk as they are: what could be lost no longer can.
LEMMA SyncedFile ==
    ASSUME AnchorInv, walMay' = Actual', fileMay' = {file'}, cut' = FALSE, wal' = wal, file' = file,
           UNCHANGED <<base, acked, ntxn>>, durable' = acked, shm'[0] = shm[0]
    PROVE  Versions' /\ LogFile' /\ Shown'
  <1>1. Actual' = Actual
    BY DEF Actual
  <1>2. Versions'
    BY <1>1, ActualIs DEF AnchorInv, Versions
  <1>3. LogFile'
    BY <1>1, ActualIs DEF AnchorInv, LogFile
  <1> QED BY <1>1, <1>2, <1>3 DEF AnchorInv, Shown

LEMMA AnchorLock0 == ASSUME WalInv, LogInv, AnchorInv, NEW c \in Conns, CkptLock0(c) PROVE AnchorInv'
  <1>1. (PlainMove(c) \/ Rests(c)) /\ shm' = shm
    BY BackfillMoves DEF CkptLock0, indexVars
  <1>2. CASE ~Free(0)
    <2>1. UNCHANGED anchorVars
      BY <1>2 DEF CkptLock0, anchorVars, countVars
    <2> QED BY <1>1, <2>1, AnchorPlain
  <1>3. CASE Free(0)
    <2>1. /\ walMay' = Actual' /\ fileMay' = {file'} /\ cut' = FALSE /\ wal' = wal /\ file' = file
          /\ UNCHANGED <<base, acked, ntxn>> /\ durable' = acked /\ Actual' = Actual
      BY <1>3 DEF CkptLock0, SyncWal, countVars, Actual
    <2>2. Versions' /\ LogFile' /\ Shown'
      BY <1>1, <2>1, SyncedFile
    <2>3. ASSUME NEW d \in Conns PROVE ConAnchor(con[d])'
      <3>1. CASE d = c
        <4>1. /\ con[c].pc = "lock0" /\ con'[c].pc \in {"copy"} /\ con[c].t = 0
              /\ con'[c].hdr = con[c].hdr /\ con'[c].t = con[c].t /\ con'[c].mode = con[c].mode
          BY <1>3, Known, Fields DEF CkptLock0, Goto, At, ConInv, Caller, WriteSteps
        <4>2. HdrRead(con[c]) /\ OnShown(con[c])
          BY AnchorKnown
        <4> QED BY <1>1, <3>1, <4>1, <4>2 DEF ConAnchor, HdrRead, OnShown, Begun, Ready, Going
      <3>2. CASE d # c
        <4> DEFINE w == con[d]
        <4>1. con'[d] = w
          BY <1>3, <3>2, Known DEF CkptLock0, Goto
        <4>2. HdrRead(w) /\ OnShown(w) /\ Begun(w) /\ Ready(w) /\ Shown
          BY AnchorKnown
        <4>3. HdrRead(w)' /\ OnShown(w)'
          BY <1>1, <2>1, <4>1, <4>2 DEF HdrRead, OnShown
        <4>4. Going(w) /\ w.pc # "reset0" /\ (w.pc = "frame" \/ w.hdr.mx > 0) => w.hdr.salt = file.salt
          <5>1. ConLog(w, shm[0].mx, wal, aPgno, file)
            BY LogKnown
          <5>2. w.pc = "publish" => Logged(w.hdr, wal, aPgno, file)
            BY <5>1 DEF ConLog
          <5>3. Going(w) /\ w.pc # "publish" => Composed(w, shm[0].mx, wal, aPgno, file)
            BY <5>1 DEF ConLog, Going
          <5> QED BY <5>2, <5>3 DEF Logged, Composed
        <4>5. Begun(w)'
          <5>1. Going(w) /\ w.pc # "reset0" /\ shm[0].mx = 0 /\ (w.pc = "frame" \/ w.hdr.mx > 0)
                  => acked <= base /\ NewLog(Actual, file.salt, acked)
            <6>1. Going(w) /\ w.pc # "reset0" => shm[0].init
              BY <4>2 DEF OnShown, Going
            <6> QED BY <4>2, <4>4, <6>1 DEF Begun, Shown
          <5> QED BY <1>1, <2>1, <4>1, <4>2, <5>1 DEF Begun, Going
        <4>6. Ready(w)'
          <5>1. w.pc = "publish" => \A i \in 1..w.hdr.mx : walMay'[i] = {wal'[i]}
            <6>1. w.pc = "publish" => w.hdr.mx \in Nat /\ w.hdr.mx <= MaxFrame
              <7>1. w.pc = "publish" => Logged(w.hdr, wal, aPgno, file)
                BY LogKnown DEF ConLog
              <7> QED BY <7>1, WalAssumption DEF Logged
            <6>2. w.pc = "publish" => \A i \in 1..w.hdr.mx : i \in Frames
              BY <6>1, WalAssumption DEF Frames
            <6> QED BY <2>1, <6>2, ActualIs
          <5>2. w.pc = "rec0" => Ready(w)'
            BY <2>1, <4>1, <4>2 DEF Ready
          <5>3. w.pc = "publish" => Ready(w)'
            BY <1>1, <4>1, <4>2, <5>1 DEF Ready
          <5> QED BY <4>1, <5>2, <5>3 DEF Ready
        <4> QED BY <4>3, <4>5, <4>6 DEF ConAnchor
      <3> QED BY <3>1, <3>2
    <2> QED BY <2>2, <2>3 DEF AnchorInv
  <1> QED BY <1>2, <1>3

LEMMA AnchorReset ==
    ASSUME WalInv, LogInv, AnchorInv, NEW c \in Conns, OnShown(con'[c]), con[c].pc \in {"restart", "after"},
           Set(c, [con[c] EXCEPT !.pc = "reset0", !.hdr = ResetHdr(c), !.nCkpt = TRUE]),
           UNCHANGED anchorVars, shm'[0] = shm[0]
    PROVE  AnchorInv'
  <1>1. /\ con'[c].pc = "reset0" /\ con'[c].hdr = ResetHdr(c) /\ con'[c].n = con[c].n
        /\ con'[c].t = con[c].t /\ con'[c].mode = con[c].mode
        /\ \A d \in Conns \ {c} : con'[d] = con[d]
    BY Known, Fields DEF Set
  <1>2. /\ ResetHdr(c).mx = 0 /\ ResetHdr(c).salt = FreshSalt /\ ResetHdr(c).ver = con[c].hdr.ver
        /\ ResetHdr(c).init = con[c].hdr.init
    BY Known, Fields DEF ResetHdr
  <1>3. HdrRead(con'[c])
    BY <1>1, <1>2, AnchorKnown DEF HdrRead
  <1>4. Begun(con'[c])
    <2>1. con'[c].n = 0 /\ shm[0].mx \in Nat
      <3>1. con[c].n = 0
        BY LogKnown DEF ConLog, Composed
      <3> QED BY <1>1, <3>1, LogTypes
    <2>2. \A i \in (shm[0].mx + 1)..(con'[c].hdr.mx + con'[c].n) : FALSE
      BY <1>1, <1>2, <2>1
    <2>3. Going(con'[c]) => con'[c].t # 0
      BY <1>1 DEF Going
    <2> QED BY <1>1, <1>2, <2>2, <2>3, FreshNew DEF Begun
  <1>5. Ready(con'[c])
    BY <1>1 DEF Ready
  <1> QED BY <1>1, <1>3, <1>4, <1>5, AnchorAlone DEF ConAnchor

LEMMA AnchorAfter == ASSUME WalInv, LogInv, AnchorInv, NEW c \in Conns, CkptAfter(c) PROVE AnchorInv'
  <1>1. UNCHANGED anchorVars /\ shm'[0] = shm[0] /\ con[c].pc = "after"
    BY Known DEF CkptAfter, At, fileVars, countVars, ghostVars, anchorVars
  <1>2. CASE CkptRelease(c)
    BY <1>1, <1>2, RestsBy, AnchorPlain DEF CkptRelease
  <1>3. CASE /\ con[c].mode = "truncate"
             /\ Set(c, [con[c] EXCEPT !.pc = "reset0", !.hdr = ResetHdr(c), !.nCkpt = TRUE])
    <2>1. /\ con'[c].pc = "reset0" /\ con'[c].hdr = ResetHdr(c) /\ con'[c].t = con[c].t
          /\ con'[c].mode = "truncate" /\ ResetHdr(c).ver = con[c].hdr.ver
      BY <1>3, Known, Fields DEF Set, ResetHdr
    <2>2. OnShown(con'[c])
      BY <1>1, <1>3, <2>1, AnchorKnown DEF OnShown
    <2> QED BY <1>1, <1>3, <2>2, AnchorReset
  <1> QED BY <1>2, <1>3 DEF CkptAfter

\* The file is emptied when its database file holds the last version.
LEMMA AnchorTruncate ==
    ASSUME WalInv, LogInv, AnchorInv, NEW c \in Conns, CkptTruncate(c) PROVE AnchorInv'
  <1>1. /\ con[c].pc = "trunc" /\ writeLock = c /\ shm[0].mx = 0 /\ shm[0].init /\ shm' = shm
        /\ con' = [con EXCEPT ![c] = AtRest(c)]
    BY Known, LogKnown, AnchorKnown DEF CkptTruncate, At, ConInv, Locked, NeedsLock, ConLog, indexVars,
       CkptRelease, Set, OnShown
  <1>2. con'[c] = AtRest(c) /\ \A d \in Conns \ {c} : con'[d] = con[d] /\ writeLock # d
    BY <1>1, Known
  <1>3. /\ wal' = [i \in Frames |-> NoFrame] /\ file' = NoFile /\ cut' = TRUE
        /\ UNCHANGED <<walMay, fileMay, base, acked, durable, ntxn>>
    BY DEF CkptTruncate, countVars, ghostVars
  <1>4. acked <= base /\ durable <= base
    BY <1>1, AnchorKnown DEF Shown, Versions
  <1>5. FrameOk(NoFrame, ntxn) /\ \A s : ~Signed(NoFrame, s)
    BY NoFrameIs, AnchorKnown DEF FrameOk, NoFrame, Age, Versions, Signed
  <1>6. \A s, v : NewLog(Actual', s, v)
    BY <1>3, <1>5 DEF Actual, NewLog
  <1>7. Versions'
    BY <1>3, <1>5, AnchorKnown DEF Versions
  <1>8. LogFile'
    BY <1>3, <1>4, AnchorKnown DEF LogFile
  <1>9. Shown'
    BY <1>1, <1>3, <1>4, <1>6, AnchorKnown DEF Shown, Anchored
  <1>10. ConAnchor(con[c])'
    BY <1>2 DEF AtRest, ConAnchor, HdrRead, OnShown, Begun, Ready, Going, Idle, ZeroHdr
  <1> QED BY <1>2, <1>7, <1>8, <1>9, <1>10, AnchorSteps

LEMMA AnchorCheckpointing ==
    ASSUME WalInv, LogInv, AnchorInv, NEW c \in Conns, Checkpointing(c) PROVE AnchorInv'
  <1>1. CASE \/ (\E mode \in Modes : CkptBegin(c, mode)) \/ CkptReadHdr(c) \/ CkptTest(c)
             \/ CkptMark(c) \/ CkptIterator(c) \/ CkptCopy(c) \/ CkptDone(c)
    <2>1. UNCHANGED anchorVars /\ shm' = shm
      BY <1>1 DEF CkptBegin, CkptReadHdr, CkptTest, CkptMark, CkptIterator, CkptCopy, CkptDone,
         indexVars, fileVars, countVars, ghostVars, anchorVars
    <2> QED BY <1>1, <2>1, BackfillMoves, AnchorPlain
  <1> QED BY <1>1, AnchorLock0, AnchorAfter, AnchorTruncate DEF Checkpointing

LEMMA AnchorKill == ASSUME WalInv, AnchorInv, NEW c \in Conns, Kill(c) PROVE AnchorInv'
  <1>1. /\ UNCHANGED anchorVars /\ shm' = shm /\ con' = [con EXCEPT ![c] = Idle]
    BY DEF Kill, Set, indexVars, fileVars, anchorVars
  <1>2. con'[c] = Idle /\ \A d \in Conns \ {c} : con'[d] = con[d]
    BY <1>1, Known
  <1> QED BY <1>1, <1>2, AnchorIdle, AnchorAlone

\* What a power loss leaves is one of the logs that were possible.
LEMMA AnchorPowerLoss == ASSUME AnchorInv, PowerLoss PROVE AnchorInv'
  <1>1. /\ shm'[0] = ZeroHdr /\ con' = [c \in Conns |-> Idle] /\ acked' = durable
        /\ UNCHANGED <<ntxn, base, durable>> /\ fileMay' = {file'} /\ cut' = FALSE
        /\ walMay' = Actual'
    BY DEF PowerLoss, Actual
  <1>2. \A i \in Frames : Actual'[i] = {wal'[i]}
    BY DEF Actual
  <1>3. FrameOk(NoFrame, ntxn) /\ \A s : ~Signed(NoFrame, s)
    BY NoFrameIs DEF FrameOk, NoFrame, Age, AnchorInv, Versions, Signed
  <1>4. /\ \A i \in Frames : FrameOk(wal'[i], ntxn)
        /\ file' = NoFile => \A i \in Frames : wal'[i] = NoFrame
        /\ Anchored(Actual', {file'}, durable, 0, base)
    <2>1. CASE (\A i \in Frames : wal'[i] \in walMay[i]) /\ file' \in fileMay
      <3>1. \A i \in Frames : FrameOk(wal'[i], ntxn)
        BY <2>1 DEF AnchorInv, Versions
      <3>2. file' = NoFile => \A i \in Frames : wal'[i] = NoFrame
        BY <2>1 DEF AnchorInv, LogFile
      <3>3. durable \in Int /\ durable <= durable
        BY DEF AnchorInv, Versions
      <3>4. CASE durable <= base /\ NewLog(walMay, file'.salt, durable)
        <4>1. NewLog(Actual', file'.salt, durable)
          BY <1>2, <2>1, <3>4 DEF NewLog
        <4> QED BY <3>1, <3>2, <3>4, <4>1 DEF Anchored
      <3>5. CASE OldLog(walMay, file', durable, shm[0].mx)
        <4>1. PICK d \in Frames : CommitAt(walMay, d, file'.salt, durable)
          BY <3>5 DEF OldLog
        <4>2. \A j \in 1..d : walMay[j] = {wal'[j]}
          <5>1. \A j \in 1..d : wal'[j] \in walMay[j]
            BY <2>1, UpTo
          <5> QED BY <4>1, <5>1 DEF CommitAt
        <4>3. \A j \in 1..d : Actual'[j] = walMay[j]
          BY <1>2, <4>2, UpTo
        <4>4. CommitAt(Actual', d, file'.salt, durable)
          BY <3>3, <4>1, <4>3, CommitAtKept
        <4> QED BY <3>1, <3>2, <3>5, <4>4 DEF OldLog, Anchored
      <3> QED BY <2>1, <3>1, <3>2, <3>4, <3>5 DEF AnchorInv, Shown, Anchored
    <2>2. CASE cut /\ wal' = [i \in Frames |-> NoFrame] /\ file' = NoFile
      <3>1. durable <= base
        BY <2>2 DEF AnchorInv, LogFile
      <3>2. NewLog(Actual', file'.salt, durable)
        BY <1>2, <1>3, <2>2 DEF NewLog
      <3> QED BY <1>3, <2>2, <3>1, <3>2 DEF Anchored
    <2> QED BY <2>1, <2>2 DEF PowerLoss
  <1>5. Versions'
    BY <1>1, <1>2, <1>4 DEF Versions, AnchorInv
  <1>6. LogFile'
    BY <1>1, <1>2, <1>4 DEF LogFile
  <1>7. Shown'
    BY <1>1, <1>4 DEF Shown, ZeroHdr
  <1>8. ASSUME NEW c \in Conns PROVE ConAnchor(con[c])'
    BY <1>1 DEF ConAnchor, HdrRead, OnShown, Begun, Ready, Going, Idle, ZeroHdr
  <1> QED BY <1>5, <1>6, <1>7, <1>8 DEF AnchorInv

-----------------------------------------------------------------------------
(* Recovery finds the last version that must not be lost.                  *)

LEMMA ValidAre == ASSUME NEW i \in ValidFrames
    PROVE  /\ i \in Frames /\ file # NoFile
           /\ \A j \in 1..i : wal[j].pg # 0 /\ Linked(wal, j, file.salt)
  <1>1. i \in Frames /\ i \in 1..i
    BY UpTo DEF ValidFrames
  <1>2. \A j \in 1..i : /\ file # NoFile /\ wal[j].pg # 0 /\ wal[j].salt = file.salt
                        /\ wal[j].sum = [k \in 1..j |-> Content(wal[k])]
    BY DEF ValidFrames
  <1> QED BY <1>1, <1>2 DEF Linked, SumOf

LEMMA LinkedValid ==
    ASSUME NEW d \in Frames, file # NoFile,
           \A j \in 1..d : wal[j].pg # 0 /\ Linked(wal, j, file.salt)
    PROVE  d \in ValidFrames
  BY DEF ValidFrames, Linked, SumOf

LEMMA LastCommitIs ==
    \/ LastCommit = 0 /\ \A i \in ValidFrames : ~wal[i].commit
    \/ /\ LastCommit \in ValidFrames /\ wal[LastCommit].commit
       /\ \A i \in ValidFrames : wal[i].commit => i <= LastCommit
  <1> DEFINE S == {i \in ValidFrames : wal[i].commit}
  <1>1. LastCommit = IF S = {} THEN 0 ELSE CHOOSE i \in S : \A j \in S : j <= i
    BY DEF LastCommit
  <1>2. S \in SUBSET Frames
    BY DEF ValidFrames
  <1>3. CASE S # {}
    <2>1. \E s \in S : \A r \in S : r <= s
      BY <1>2, <1>3, Largest
    <2>2. LastCommit \in S /\ \A r \in S : r <= LastCommit
      BY <1>1, <1>3, <2>1
    <2> QED BY <2>2
  <1> QED BY <1>1, <1>3

\* A frame that recovery accepts and that commits is no older than one before it.
LEMMA LaterCommit ==
    ASSUME AnchorInv, NEW m \in ValidFrames, wal[m].commit, NEW d \in 1..m, wal[d].commit
    PROVE  wal[d].val <= wal[m].val
  <1>1. m \in Frames /\ d \in Frames /\ wal[m].sum = SumOf(wal, m)
    BY ValidAre, UpTo DEF Linked
  <1>2. d \in DOMAIN wal[m].sum /\ wal[m].sum[d][2] = wal[d].val
    BY <1>1 DEF SumOf, Content
  <1>3. FrameOk(wal[m], ntxn) /\ FrameOk(wal[d], ntxn)
    BY <1>1 DEF AnchorInv, Versions
  <1> QED BY <1>2, <1>3, AgeIs DEF FrameOk

LEMMA RecoveredAnchor == ASSUME LogInv, AnchorInv
    PROVE  /\ RecoveredHdr.ver \in Int /\ RecoveredHdr.init /\ acked <= RecoveredHdr.ver
           /\ RecoveredHdr.mx = 0 => acked <= base /\ NewLog(Actual, RecoveredHdr.salt, acked)
           /\ Anchored(Actual, {file}, acked, RecoveredHdr.mx, base)
           /\ Anchored(walMay, fileMay, durable, RecoveredHdr.mx, base)
  <1> DEFINE m == LastCommit
  <1>1. /\ Anchored(Actual, {file}, acked, shm[0].mx, base)
        /\ Anchored(walMay, fileMay, durable, shm[0].mx, base)
        /\ acked \in Int /\ durable \in Int /\ base \in Int
    BY DEF AnchorInv, Shown, Versions
  \* A commit that must be in the log is one that recovery accepts.
  <1>2. ASSUME NEW L, NEW d \in Frames, NEW v, CommitAt(L, d, file.salt, v), file # NoFile,
               \A j \in Frames : wal[j] \in L[j]
        PROVE  d \in ValidFrames /\ wal[d].commit /\ v <= wal[d].val
    <2>1. \A j \in 1..d : j \in Frames /\ wal[j] \in L[j]
      BY <1>2, UpTo
    <2>2. \A j \in 1..d : L[j] = {The(L)[j]} /\ The(L)[j] = wal[j]
      BY <1>2, <2>1 DEF CommitAt
    <2>3. ASSUME NEW j \in 1..d PROVE Linked(wal, j, file.salt)
      <3>1. j \in Nat \ {0} /\ \A i \in 1..j : i \in 1..d
        BY UpTo
      <3>2. Linked(The(L), j, file.salt)
        BY <1>2 DEF CommitAt
      <3> QED BY <2>2, <3>1, <3>2, LinkedKept
    <2>4. d \in 1..d
      BY UpTo
    <2> QED BY <1>2, <2>2, <2>3, <2>4, LinkedValid DEF CommitAt
  <1>3. \A j \in Frames : wal[j] \in Actual[j]
    BY ActualIs
  <1>4. CASE m = 0 /\ \A i \in ValidFrames : ~wal[i].commit
    <2>1. RecoveredHdr.mx = 0 /\ RecoveredHdr.ver = base /\ RecoveredHdr.init
      BY <1>4 DEF RecoveredHdr
    <2>2. ~OldLog(Actual, file, acked, shm[0].mx)
      BY <1>2, <1>3, <1>4 DEF OldLog
    <2>3. acked <= base /\ NewLog(Actual, file.salt, acked)
      BY <1>1, <2>2 DEF Anchored
    <2>4. NewLog(Actual, RecoveredHdr.salt, acked)
      <3>1. CASE HasFrames
        BY <2>3, <3>1 DEF RecoveredHdr
      <3>2. CASE ~HasFrames
        <4>1. \A i \in Frames : wal[i] = NoFrame
          BY <3>2 DEF HasFrames, AnchorInv, LogFile
        <4>2. \A s : ~Signed(NoFrame, s)
          BY DEF Signed, NoFrame
        <4> QED BY <4>1, <4>2, ActualIs DEF NewLog
      <3> QED BY <3>1, <3>2
    <2>5. \A L, F, v : Anchored(L, F, v, shm[0].mx, base) => Anchored(L, F, v, 0, base)
      BY DEF Anchored, OldLog
    <2> QED BY <1>1, <2>1, <2>3, <2>4, <2>5
  <1>5. CASE /\ m \in ValidFrames /\ wal[m].commit
             /\ \A i \in ValidFrames : wal[i].commit => i <= m
    <2>1. /\ m \in Frames /\ file # NoFile /\ wal[m].pg # 0
          /\ \A j \in 1..m : wal[j].pg # 0 /\ Linked(wal, j, file.salt)
      BY <1>5, ValidAre, UpTo
    <2>2. fileMay = {file} /\ \A j \in Frames : wal[j] \in walMay[j]
      BY <2>1 DEF AnchorInv, LogFile
    <2>3. RecoveredHdr.mx = m /\ RecoveredHdr.ver = wal[m].val /\ RecoveredHdr.init
      BY <2>1, UpTo DEF RecoveredHdr
    <2>4. FrameOk(wal[m], ntxn)
      BY <2>1 DEF AnchorInv, Versions
    <2>5. acked <= wal[m].val
      <3>1. CASE NewLog(Actual, file.salt, acked)
        <4>1. Linked(wal, m, file.salt) /\ m \in 1..m
          BY <2>1, UpTo
        <4>2. wal[m].sum # <<>>
          <5>1. DOMAIN SumOf(wal, m) # {}
            BY <4>1 DEF SumOf
          <5> QED BY <4>1, <5>1 DEF Linked
        <4>3. acked <= Age(wal[m].val)
          BY <2>1, <3>1, <4>1, <4>2, ActualIs DEF NewLog, Signed, Linked
        <4> QED BY <1>5, <2>4, <4>3, AgeIs DEF FrameOk
      <3>2. CASE OldLog(Actual, file, acked, shm[0].mx)
        <4>1. PICK d \in Frames : CommitAt(Actual, d, file.salt, acked)
          BY <3>2 DEF OldLog
        <4>2. d \in ValidFrames /\ wal[d].commit /\ acked <= wal[d].val
          BY <1>2, <1>3, <2>1, <4>1
        <4>3. d \in 1..m
          BY <1>5, <2>1, <4>2, UpTo
        <4>4. wal[d].val <= wal[m].val /\ wal[d].val \in Int /\ wal[m].val \in Int
          BY <1>5, <2>1, <4>2, <4>3, LaterCommit, LogValues
        <4> QED BY <1>1, <4>2, <4>4
      <3> QED BY <1>1, <3>1, <3>2 DEF Anchored
    <2>6. Anchored(Actual, {file}, acked, m, base)
      <3>1. \A j \in 1..m : Actual[j] = {wal[j]}
        BY <2>1, UpTo, ActualIs
      <3>2. CommitAt(Actual, m, file.salt, acked)
        <4>1. \A j \in 1..m : Actual[j] = {wal[j]} /\ wal[j].pg # 0 /\ Linked(wal, j, file.salt)
          BY <2>1, <3>1
        <4>2. wal[m].val \in Int
          BY <2>1, LogValues
        <4> HIDE DEF m
        <4> QED BY <1>5, <2>1, <2>5, <4>1, <4>2, CommitAtOf
      <3>3. m <= m
        BY <2>1, UpTo
      <3> QED BY <2>1, <3>2, <3>3 DEF Anchored, OldLog
    <2>7. Anchored(walMay, fileMay, durable, m, base)
      <3>1. CASE durable <= base /\ NewLog(walMay, file.salt, durable)
        BY <2>2, <3>1 DEF Anchored
      <3>2. CASE OldLog(walMay, file, durable, shm[0].mx)
        <4>1. PICK d \in Frames : CommitAt(walMay, d, file.salt, durable)
          BY <3>2 DEF OldLog
        <4>2. d \in ValidFrames /\ wal[d].commit
          BY <1>2, <2>1, <2>2, <4>1
        <4>3. d <= m
          BY <1>5, <4>2
        <4> QED BY <2>1, <2>2, <4>1, <4>3 DEF Anchored, OldLog
      <3> QED BY <1>1, <2>2, <3>1, <3>2 DEF Anchored
    <2> HIDE DEF m
    <2> QED BY <2>1, <2>3, <2>4, <2>5, <2>6, <2>7, UpTo DEF FrameOk
  <1> QED BY <1>4, <1>5, LastCommitIs

LEMMA AnchorRecovering ==
    ASSUME WalInv, LogInv, AnchorInv, NEW c \in Conns, Recovering(c) PROVE AnchorInv'
  <1>1. CASE Recover(c)
    <2>1. /\ UNCHANGED anchorVars /\ shm'[0] = shm[0] /\ con[c].t = 0 /\ writeLock = None
          /\ con[c].pc \in {"none", "ckpt"}
      BY <1>1, Known DEF Recover, At, fileVars, countVars, ghostVars, anchorVars, ConInv, Caller,
         WriteSteps
    <2>2. PICK k : con' = [con EXCEPT ![c] = [con[c] EXCEPT !.pc = "rec0", !.hdr = RecoveredHdr,
                                                          !.nCkpt = k]]
      BY <1>1 DEF Recover, Set
    <2>3. /\ con'[c].pc = "rec0" /\ con'[c].hdr = RecoveredHdr /\ con'[c].mode = con[c].mode
          /\ con'[c].t = 0 /\ \A d \in Conns \ {c} : con'[d] = con[d]
      BY <2>1, <2>2, Known, Fields
    <2>4. con[c].mode \in {"none", "passive"}
      BY <2>1, Known, WalAssumption DEF ConInv, Locked, NeedsLock
    <2>5. ConAnchor(con'[c])
      BY <2>3, <2>4, RecoveredAnchor DEF ConAnchor, HdrRead, OnShown, Begun, Ready, Going
    <2> QED BY <2>1, <2>3, <2>5, AnchorAlone
  <1>2. CASE RecoverHdr(c)
    <2>1. /\ UNCHANGED anchorVars /\ shm'[0] = con[c].hdr /\ con[c].pc = "rec0" /\ con[c].t = 0
          /\ writeLock = c /\ con[c].mode \in {"none", "passive"}
      BY <1>2, Known DEF RecoverHdr, At, fileVars, countVars, ghostVars, anchorVars, ConInv, Caller,
         Locked, NeedsLock, WriteSteps
    <2>2. /\ con'[c].pc = "rec1" /\ con'[c].hdr = con[c].hdr /\ con'[c].t = 0
          /\ con'[c].mode = con[c].mode /\ \A d \in Conns \ {c} : con'[d] = con[d] /\ writeLock # d
      BY <1>2, <2>1, Known, Fields DEF RecoverHdr, Goto
    <2>3. Actual' = Actual
      BY <2>1 DEF Actual, anchorVars
    <2>4. Versions' /\ LogFile'
      BY <2>1, <2>3, AnchorKnown DEF Versions, LogFile, anchorVars
    <2>5. Shown'
      BY <2>1, <2>3, AnchorKnown DEF Shown, HdrRead, Ready, anchorVars
    <2>6. ConAnchor(con[c])'
      BY <2>1, <2>2, AnchorKnown DEF ConAnchor, HdrRead, OnShown, Begun, Ready, Going
    <2> QED BY <2>2, <2>4, <2>5, <2>6, AnchorSteps
  <1>3. CASE RecoverInfo(c)
    <2>1. UNCHANGED anchorVars /\ shm' = shm
      BY <1>3 DEF RecoverInfo, fileVars, countVars, ghostVars, anchorVars
    <2>2. /\ con' = [con EXCEPT ![c] = con'[c]] /\ con[c].pc = "rec1" /\ con'[c].pc \in {"try", "test"}
          /\ con'[c].hdr = con[c].hdr /\ SameLog(con[c], con'[c]) /\ con'[c].mode = con[c].mode
      BY <1>3, Known, Fields DEF RecoverInfo, Goto, At, SameLog
    <2>3. PlainMove(c)
      BY <2>2 DEF PlainMove, Plain
    <2> QED BY <2>1, <2>3, AnchorPlain
  <1> QED BY <1>1, <1>2, <1>3 DEF Recovering

-----------------------------------------------------------------------------
(* The writer.                                                             *)

LEMMA AnchorBeginWrite ==
    ASSUME WalInv, LogInv, AnchorInv, NEW c \in Conns, BeginWrite(c) PROVE AnchorInv'
  <1>1. /\ con[c].pc = "read" /\ con[c].t = 0 /\ shm[0] = con[c].hdr
        /\ UNCHANGED anchorVars /\ shm' = shm /\ con[c].mode = "none"
    BY Known DEF BeginWrite, CanWrite, SameHdr, At, indexVars, fileVars, countVars, ghostVars,
       anchorVars, ConInv, Caller, WriteSteps, CkptSteps
  <1>2. /\ con'[c].pc = "write" /\ con'[c].hdr = con[c].hdr /\ con'[c].mode = con[c].mode
        /\ SameLog(con[c], con'[c]) /\ \A d \in Conns \ {c} : con'[d] = con[d]
    BY Known, Fields DEF BeginWrite, Goto, SameLog
  <1>3. con[c].n = 0 /\ con[c].hdr.mx \in Nat /\ con[c].hdr.init
    BY <1>1, LogKnown, AnchorKnown DEF ConLog, HdrRead
  <1>4. HdrRead(con'[c]) /\ OnShown(con'[c])
    BY <1>1, <1>2, <1>3, AnchorKnown DEF HdrRead, OnShown, SameLog
  <1>5. Begun(con'[c])
    <2>1. \A i \in (shm[0].mx + 1)..(con'[c].hdr.mx + con'[c].n) : FALSE
      BY <1>1, <1>2, <1>3 DEF SameLog
    <2>2. shm[0].mx = 0 => NewLog(Actual, con'[c].hdr.salt, acked)
      BY <1>1, <1>2, <1>3, AnchorKnown DEF Shown
    <2> QED BY <1>1, <1>2, <1>3, <2>1, <2>2 DEF Begun, SameLog
  <1>6. Ready(con'[c])
    BY <1>2 DEF Ready
  <1> QED BY <1>1, <1>2, <1>4, <1>5, <1>6, AnchorAlone DEF ConAnchor

LEMMA AnchorWalFrames ==
    ASSUME WalInv, LogInv, AnchorInv, NEW c \in Conns, NEW S \in Writes, NEW k, WalFrames(c, S, k)
    PROVE  AnchorInv'
  <1> DEFINE t == IF con[c].t = 0 THEN ntxn + 1 ELSE con[c].t
             m == shm[0].mx
  <1>1. /\ con[c].pc = "write" /\ shm' = shm
        /\ UNCHANGED <<wal, walMay, file, fileMay, cut, base, acked, durable>>
        /\ ntxn' = IF con[c].t = 0 THEN t ELSE ntxn
    BY DEF WalFrames, At, indexVars, fileVars
  <1>2. /\ con'[c].pc \in {"restart", "file"} /\ con'[c].hdr = con[c].hdr /\ con'[c].t = t
        /\ con'[c].n = 0 /\ con'[c].mode = con[c].mode /\ \A d \in Conns \ {c} : con'[d] = con[d]
    BY Known, Fields DEF WalFrames, Set
  <1>3. /\ con[c].mode = "none" /\ Composed(con[c], m, wal, aPgno, file) /\ writeLock = c
        /\ Going(con[c])
    BY <1>1, Known, ComposedKnown DEF ConInv, Caller, CkptSteps, Going
  <1>4. ntxn \in Nat /\ ntxn' \in Nat /\ ntxn <= ntxn' /\ t = ntxn' /\ t # 0
    BY <1>1, AnchorKnown DEF Versions, OnShown
  <1>5. Actual' = Actual
    BY <1>1 DEF Actual
  <1>6. Versions'
    BY <1>1, <1>4, AnchorKnown, FrameOkLater DEF Versions
  <1>7. LogFile' /\ Shown'
    BY <1>1, <1>5, AnchorKnown DEF LogFile, Shown
  <1>8. HdrRead(con[c])' /\ OnShown(con[c])'
    BY <1>1, <1>2, <1>3, <1>4, AnchorKnown DEF HdrRead, OnShown
  <1>9. Begun(con[c])'
    <2>1. ASSUME NEW i \in (m + 1)..(con[c].hdr.mx + 0)
          PROVE  Age(wal[i].val) = t /\ ~wal[i].commit /\ i <= con[c].hdr.mx
      <3>1. i \in (m + 1)..(con[c].hdr.mx + con[c].n) /\ i <= con[c].hdr.mx /\ con[c].hdr.mx # m
        BY <1>1, <1>3, LogTypes DEF Composed
      <3> QED BY <1>1, <1>3, <3>1, AnchorKnown DEF Begun
    <2>2. t # 0
      BY <1>4
    <2> HIDE DEF t
    <2> QED BY <1>1, <1>2, <1>3, <1>5, <2>1, <2>2, AnchorKnown DEF Begun, Going
  <1>10. Ready(con[c])'
    BY <1>2 DEF Ready
  <1>11. \A d \in Conns \ {c} : writeLock # d
    BY <1>3
  <1> QED BY <1>2, <1>6, <1>7, <1>8, <1>9, <1>10, <1>11, AnchorSteps DEF ConAnchor

LEMMA AnchorRestart ==
    ASSUME WalInv, LogInv, AnchorInv, NEW c \in Conns, RestartLog(c) PROVE AnchorInv'
  <1>1. /\ UNCHANGED anchorVars /\ shm'[0] = shm[0] /\ con[c].pc = "restart" /\ con[c].mode = "none"
        /\ con[c].t # 0
    BY Known DEF RestartLog, At, fileVars, countVars, ghostVars, anchorVars, ConInv, Caller, CkptSteps
  <1>2. CASE Set(c, [con[c] EXCEPT !.pc = "reset0", !.hdr = ResetHdr(c), !.nCkpt = TRUE])
    <2>1. /\ con'[c].pc = "reset0" /\ con'[c].t = con[c].t /\ con'[c].mode = con[c].mode
          /\ con'[c].hdr = ResetHdr(c) /\ ResetHdr(c).ver = con[c].hdr.ver
      BY <1>2, Known, Fields DEF Set, ResetHdr
    <2>2. con[c].hdr.ver = shm[0].ver
      BY <1>1, Known DEF ConInv, Based, Writer
    <2>3. OnShown(con'[c])
      BY <1>1, <2>1, <2>2, AnchorKnown DEF OnShown
    <2> QED BY <1>1, <1>2, <2>3, AnchorReset
  <1>3. CASE Set(c, [con[c] EXCEPT !.pc = "pick", !.useWal = TRUE])
    <2>1. /\ con' = [con EXCEPT ![c] = con'[c]] /\ con'[c].pc = "pick" /\ con'[c].hdr = con[c].hdr
          /\ SameLog(con[c], con'[c]) /\ con'[c].mode = con[c].mode
      BY <1>3, Known, Fields DEF Set, SameLog
    <2>2. PlainMove(c)
      BY <1>1, <2>1 DEF PlainMove, Plain
    <2> QED BY <1>1, <2>2, AnchorPlain
  <1> QED BY <1>2, <1>3 DEF RestartLog

\* walRestartHdr: the log begins again, and what it held is in the database file.
LEMMA AnchorResetHdr0 ==
    ASSUME WalInv, LogInv, AnchorInv, NEW c \in Conns, ResetHdr0(c) PROVE AnchorInv'
  <1> DEFINE w == con[c]
  <1>1. /\ UNCHANGED <<wal, walMay, file, fileMay, cut, acked, durable, ntxn>> /\ base' = w.hdr.ver
        /\ w.pc = "reset0" /\ shm'[0] = w.hdr /\ writeLock = c /\ w.hdr.mx = 0
    BY Known, LogKnown DEF ResetHdr0, At, fileVars, countVars, ConInv, Locked, NeedsLock, ConLog
  <1>2. /\ con'[c].pc = "reset1" /\ con'[c].hdr = w.hdr /\ con'[c].mode = w.mode
        /\ SameLog(w, con'[c]) /\ \A d \in Conns \ {c} : con'[d] = con[d] /\ writeLock # d
    BY <1>1, Known, Fields DEF ResetHdr0, Goto, SameLog
  <1>3. /\ w.hdr.ver \in Int /\ w.hdr.init /\ acked <= w.hdr.ver /\ shm[0].init
        /\ NewLog(Actual, w.hdr.salt, acked)
    BY <1>1, AnchorKnown DEF HdrRead, OnShown, Shown, Begun
  <1>4. acked \in Nat /\ durable \in Nat /\ durable <= acked /\ Actual' = Actual
    BY <1>1, AnchorKnown DEF Versions, Actual
  <1>5. Versions' /\ LogFile'
    BY <1>1, <1>3, <1>4, AnchorKnown DEF Versions, LogFile
  <1>6. ASSUME NEW L, NEW F, NEW v \in Nat, v <= acked, Anchored(L, F, v, shm[0].mx, base)
        PROVE  Anchored(L, F, v, 0, w.hdr.ver)
    <2>1. v <= w.hdr.ver
      BY <1>3, <1>4, <1>6
    <2> QED BY <1>6, <2>1 DEF Anchored, OldLog
  <1>7. Shown'
    <2>1. Anchored(Actual, {file}, acked, 0, w.hdr.ver) /\ Anchored(walMay, fileMay, durable, 0, w.hdr.ver)
      BY <1>4, <1>6, AnchorKnown DEF Shown
    <2> QED BY <1>1, <1>3, <1>4, <2>1 DEF Shown
  <1>8. HdrRead(con[c])' /\ OnShown(con[c])' /\ Ready(con[c])'
    BY <1>1, <1>2, <1>3, AnchorKnown DEF HdrRead, OnShown, Ready, SameLog
  <1>9. Begun(con[c])'
    <2>1. w.n = 0
      BY <1>1, LogKnown DEF ConLog, Composed
    <2>2. \A i \in (0 + 1)..(0 + 0) : FALSE
      OBVIOUS
    <2> QED BY <1>1, <1>2, <1>3, <1>4, <2>1, <2>2 DEF Begun, Going, SameLog
  <1> QED BY <1>2, <1>5, <1>7, <1>8, <1>9, AnchorSteps DEF ConAnchor

LEMMA AnchorResetInfo ==
    ASSUME WalInv, LogInv, AnchorInv, NEW c \in Conns, ResetInfo(c) PROVE AnchorInv'
  <1>1. /\ UNCHANGED anchorVars /\ shm' = shm /\ con[c].pc = "reset1"
        /\ (con[c].t # 0 <=> con[c].mode = "none")
    BY Known DEF ResetInfo, At, fileVars, countVars, ghostVars, anchorVars, ConInv, Caller
  <1>2. /\ con'[c].hdr = con[c].hdr /\ SameLog(con[c], con'[c]) /\ con'[c].mode = con[c].mode
        /\ con'[c].pc = (IF con[c].mode = "none" THEN "pick" ELSE "trunc")
        /\ \A d \in Conns \ {c} : con'[d] = con[d]
    <2>1. CASE con[c].mode = "none"
      <3>1. Set(c, [con[c] EXCEPT !.pc = "pick", !.useWal = TRUE])
        BY <2>1 DEF ResetInfo
      <3> QED BY <2>1, <3>1, Known, Fields DEF Set, SameLog
    <2>2. CASE con[c].mode # "none"
      BY <2>2, Known, Fields DEF ResetInfo, Goto, SameLog
    <2> QED BY <2>1, <2>2
  <1>3. HdrRead(con'[c]) /\ OnShown(con'[c]) /\ Ready(con'[c])
    BY <1>1, <1>2, AnchorKnown DEF HdrRead, OnShown, Ready, SameLog
  <1>4. Begun(con'[c])
    BY <1>1, <1>2, AnchorKnown DEF Begun, Going, SameLog
  <1> QED BY <1>1, <1>2, <1>3, <1>4, AnchorAlone DEF ConAnchor

\* The header of the file is written where no older frame can follow it.
LEMMA AnchorWriteFileHdr ==
    ASSUME WalInv, LogInv, AnchorInv, NEW c \in Conns, WriteFileHdr(c) PROVE AnchorInv'
  <1> DEFINE w == con[c]
             s == IF con[c].nCkpt THEN con[c].hdr.salt ELSE FreshSalt
             h == [salt |-> s, nCkpt |-> con[c].nCkpt]
  <1>1. /\ shm' = shm /\ w.pc = "file" /\ w.t # 0 /\ w.mode = "none"
        /\ UNCHANGED <<wal, base, acked, ntxn>> /\ Actual' = Actual
    BY Known DEF WriteFileHdr, At, indexVars, ConInv, Caller, CkptSteps, countVars, Actual
  <1>2. Composed(w, shm[0].mx, wal, aPgno, file) /\ writeLock = c /\ Going(w)
    BY <1>1, ComposedKnown DEF Going
  <1>3. CASE w.hdr.mx # 0
    <2>1. /\ con' = [con EXCEPT ![c] = con'[c]] /\ con'[c].pc = "frame" /\ con'[c].hdr = w.hdr
          /\ SameLog(w, con'[c]) /\ con'[c].mode = w.mode /\ UNCHANGED anchorVars
      BY <1>1, <1>3, Known, Fields DEF WriteFileHdr, Goto, SameLog, anchorVars
    <2>2. HdrRead(con'[c]) /\ OnShown(con'[c]) /\ Ready(con'[c])
      BY <1>1, <2>1, AnchorKnown DEF HdrRead, OnShown, Ready, SameLog
    <2>3. Begun(con'[c])
      <3>1. w.hdr.mx > 0
        BY <1>3, LogTypes
      <3> QED BY <1>1, <1>2, <2>1, <3>1, AnchorKnown DEF Begun, Going, SameLog
    <2>4. \A d \in Conns \ {c} : con'[d] = con[d]
      BY <2>1, Known
    <2> QED BY <1>1, <2>1, <2>2, <2>3, <2>4, AnchorAlone DEF ConAnchor
  <1>4. CASE w.hdr.mx = 0
    <2>1. /\ file' = h /\ fileMay' = {h} /\ walMay' = Actual' /\ cut' = FALSE /\ durable' = acked
          /\ con' = [con EXCEPT ![c] = [w EXCEPT !.pc = "frame", !.hdr.salt = s]]
      BY <1>4 DEF WriteFileHdr, SyncHeader, Set, Actual
    <2>2. h # NoFile /\ h.salt = s
      <3>1. CASE con[c].nCkpt
        BY <3>1 DEF NoFile
      <3>2. CASE ~con[c].nCkpt
        BY <3>2, FreshSaltIs DEF NoFile, LogInv
      <3> QED BY <3>1, <3>2
    <2>3. /\ con'[c].pc = "frame" /\ con'[c].hdr.mx = 0 /\ con'[c].hdr.salt = s
          /\ con'[c].hdr.ver = w.hdr.ver /\ con'[c].hdr.init = w.hdr.init /\ con'[c].mode = w.mode
          /\ SameLog(w, con'[c]) /\ \A d \in Conns \ {c} : con'[d] = con[d] /\ writeLock # d
      BY <1>2, <1>4, <2>1, Known, Fields DEF SameLog
    <2>4. shm[0].mx = 0 /\ shm[0].init
      BY <1>1, <1>2, <1>4, LogKnown, AnchorKnown DEF Composed, OnShown
    <2>5. NewLog(Actual, s, acked) /\ acked <= base /\ acked \in Nat
      <3>1. NewLog(Actual, w.hdr.salt, acked) /\ acked <= base /\ acked \in Nat
        BY <1>2, <2>4, AnchorKnown DEF Begun, Shown, Versions
      <3> QED BY <3>1, FreshNew
    <2> HIDE DEF h, s
    <2>6. Versions'
      BY <1>1, <2>1, <2>5, AnchorKnown, ActualIs DEF Versions
    <2>7. LogFile'
      BY <1>1, <2>1, <2>2, ActualIs DEF LogFile
    <2>8. Shown'
      BY <1>1, <2>1, <2>2, <2>4, <2>5, AnchorKnown DEF Shown, Anchored
    <2>9. HdrRead(con[c])' /\ OnShown(con[c])' /\ Ready(con[c])'
      BY <1>1, <2>3, <2>4, AnchorKnown DEF HdrRead, OnShown, Ready, SameLog
    <2>10. Begun(con[c])'
      <3>1. w.n = 0
        BY <1>1, <1>2 DEF Composed
      <3>2. \A i \in (0 + 1)..(0 + 0) : FALSE
        OBVIOUS
      <3> QED BY <1>1, <1>2, <2>1, <2>2, <2>3, <2>4, <2>5, <3>1, <3>2 DEF Begun, Going, SameLog
    <2> QED BY <2>3, <2>6, <2>7, <2>8, <2>9, <2>10, AnchorSteps DEF ConAnchor
  <1> QED BY <1>3, <1>4

LEMMA AnchorWriteError ==
    ASSUME WalInv, LogInv, AnchorInv, NEW c \in Conns, WriteError(c) PROVE AnchorInv'
  <1>1. /\ UNCHANGED anchorVars /\ shm' = shm /\ con[c].pc \in {"file", "frame"}
        /\ con'[c].pc = "undo" /\ con'[c].hdr = con[c].hdr /\ SameLog(con[c], con'[c])
        /\ con'[c].mode = con[c].mode /\ \A d \in Conns \ {c} : con'[d] = con[d]
    BY Known, Fields DEF WriteError, Goto, SameLog, fileVars, indexVars, countVars, ghostVars, anchorVars
  <1>2. HdrRead(con'[c]) /\ OnShown(con'[c])
    BY <1>1, AnchorKnown DEF HdrRead, OnShown, SameLog
  <1>3. Begun(con'[c]) /\ Ready(con'[c])
    BY <1>1 DEF Begun, Going, Ready
  <1> QED BY <1>1, <1>2, <1>3, AnchorAlone DEF ConAnchor

LEMMA AnchorUndo == ASSUME WalInv, LogInv, AnchorInv, NEW c \in Conns, Undo(c) PROVE AnchorInv'
  <1>1. UNCHANGED anchorVars /\ shm' = shm /\ shm[0].init /\ shm[0].ver \in Int
    <2>1. con[c].pc = "undo" => con[c].t # 0
      BY Known DEF ConInv, Caller
    <2>2. shm[0].init
      BY <2>1, AnchorKnown DEF Undo, OnShown
    <2> QED BY <2>2, AnchorKnown DEF Undo, Shown, fileVars, countVars, ghostVars, anchorVars
  <1>2. /\ con'[c].pc = "read" /\ con'[c].hdr = shm[0] /\ con'[c].t = 0 /\ con'[c].mode = "none"
        /\ \A d \in Conns \ {c} : con'[d] = con[d]
    BY Known DEF Undo, Set, AtRest, Idle
  <1>3. ConAnchor(con'[c])
    BY <1>1, <1>2 DEF ConAnchor, HdrRead, OnShown, Begun, Ready, Going
  <1> QED BY <1>1, <1>2, <1>3, AnchorAlone

LEMMA AnchorFinishSpill ==
    ASSUME WalInv, LogInv, AnchorInv, NEW c \in Conns, FinishSpill(c) PROVE AnchorInv'
  <1> DEFINE w == con[c]
             m == shm[0].mx
  <1>1. /\ UNCHANGED anchorVars /\ shm' = shm /\ w.pc = "frame" /\ w.t # 0 /\ w.mode = "none"
        /\ ~w.commit
    BY Known DEF FinishSpill, At, fileVars, countVars, ghostVars, anchorVars, ConInv, Caller, CkptSteps
  <1>2. /\ con'[c].pc = "write" /\ con'[c].hdr.mx = w.hdr.mx + w.n /\ con'[c].hdr.salt = w.hdr.salt
        /\ con'[c].hdr.init = w.hdr.init /\ con'[c].hdr.ver = w.hdr.ver /\ con'[c].n = 0
        /\ con'[c].t = w.t /\ con'[c].mode = w.mode /\ \A d \in Conns \ {c} : con'[d] = con[d]
    BY Known, Fields DEF FinishSpill, Set
  <1>3. /\ w.hdr.mx \in Nat /\ w.n \in Nat /\ m \in Nat /\ Going(w)
    BY <1>1, LogTypes DEF Going
  <1>4. HdrRead(con'[c]) /\ OnShown(con'[c]) /\ Ready(con'[c])
    BY <1>1, <1>2, AnchorKnown DEF HdrRead, OnShown, Ready
  <1>5. Begun(con'[c])
    <2>1. ASSUME NEW i \in (m + 1)..((w.hdr.mx + w.n) + 0) PROVE Age(wal[i].val) = w.t /\ ~wal[i].commit
      <3>1. i \in (m + 1)..(w.hdr.mx + w.n)
        BY <1>3
      <3> QED BY <1>1, <1>3, <3>1, AnchorKnown DEF Begun
    <2> HIDE DEF w
    <2> QED BY <1>1, <1>2, <1>3, <2>1, AnchorKnown DEF Begun, Going, w
  <1> QED BY <1>1, <1>2, <1>4, <1>5, AnchorAlone DEF ConAnchor

\* A writer adds frames of its transaction after the ones that are committed: what was
\* committed stays, and in a log that begins nothing older than it turns up.
LEMMA LogGrows ==
    ASSUME WalInv, LogInv, AnchorInv, NEW c \in Conns, con[c].pc = "frame",
           UNCHANGED <<file, base, acked, durable, ntxn>>, shm'[0] = shm[0],
           \A i \in Frames : \/ wal'[i] = wal[i]
                             \/ i > shm[0].mx /\ FrameOk(wal'[i], ntxn) /\ Age(wal'[i].val) = ntxn,
           \/ /\ UNCHANGED <<fileMay, cut>>
              /\ \A i \in Frames : /\ wal'[i] \in walMay'[i]
                                   /\ walMay'[i] \in {walMay[i], walMay[i] \cup {wal'[i]}}
           \/ fileMay' = {file} /\ cut' = FALSE /\ \A i \in Frames : walMay'[i] = {wal'[i]}
    PROVE  /\ Versions' /\ LogFile' /\ Shown'
           /\ \A s : NewLog(Actual, s, acked) => NewLog(Actual', s, acked)
           /\ shm[0].mx = 0 => \A f \in fileMay' : durable <= base /\ NewLog(walMay', f.salt, durable)
  <1> DEFINE m == shm[0].mx
             Sync == fileMay' = {file} /\ cut' = FALSE /\ \A i \in Frames : walMay'[i] = {wal'[i]}
             Kept == /\ UNCHANGED <<fileMay, cut>>
                     /\ \A i \in Frames : /\ wal'[i] \in walMay'[i]
                                          /\ walMay'[i] \in {walMay[i], walMay[i] \cup {wal'[i]}}
  <1>1. con[c].t # 0 /\ con[c].mode = "none"
    BY Known DEF ConInv, Caller, CkptSteps
  <1>2. Composed(con[c], m, wal, aPgno, file) /\ Going(con[c])
    BY <1>1, ComposedKnown DEF Going
  <1>3. file # NoFile /\ con[c].hdr.salt = file.salt /\ m \in Nat
    BY <1>2, LogTypes DEF Composed
  <1>4. fileMay = {file} /\ ~cut /\ \A i \in Frames : wal[i] \in walMay[i]
    BY <1>3, AnchorKnown DEF LogFile
  <1>5. /\ acked \in Nat /\ durable \in Nat /\ ntxn \in Nat /\ base \in Int
        /\ durable <= acked /\ acked <= ntxn
    BY AnchorKnown DEF Versions
  <1>6. \A i \in Frames : Actual[i] = {wal[i]} /\ Actual'[i] = {wal'[i]}
    BY DEF Actual
  <1>7. ASSUME NEW i \in Frames PROVE FrameOk(wal'[i], ntxn) /\ \A x \in walMay'[i] : FrameOk(x, ntxn)
    BY AnchorKnown DEF Versions
  <1>8. /\ \A i \in Frames : \A x \in Actual[i] : x.val \in Int
        /\ \A i \in Frames : \A x \in Actual'[i] : x.val \in Int
        /\ \A i \in Frames : \A x \in walMay[i] : x.val \in Int
    BY <1>6, <1>7, LogValues DEF FrameOk
  <1>9. \A i \in Frames : \A x \in Actual'[i] : x \in Actual[i] \/ acked <= Age(x.val)
    BY <1>5, <1>6
  <1>10. ASSUME NEW s, NewLog(Actual, s, acked) PROVE NewLog(Actual', s, acked)
    BY <1>5, <1>8, <1>9, <1>10, NewLogKept
  <1>11. m = 0 => acked <= base /\ NewLog(Actual', file.salt, acked) /\ NewLog(Actual', shm[0].salt, acked)
    BY <1>1, <1>2, <1>3, <1>10, AnchorKnown DEF Shown, Begun, OnShown
  <1>12. Anchored(Actual', {file}, acked, m, base)
    <2>1. CASE m = 0
      BY <1>11, <2>1 DEF Anchored
    <2>2. CASE m > 0
      <3>1. ASSUME NEW j \in Frames, j <= m PROVE Actual'[j] = Actual[j]
        <4>1. wal'[j] = wal[j]
          BY <1>3, <3>1, WalAssumption DEF Frames
        <4> QED BY <1>6, <4>1
      <3>2. Anchored(Actual, {file}, acked, m, base)
        BY AnchorKnown DEF Shown
      <3> QED BY <1>3, <1>5, <1>8, <1>9, <2>2, <3>1, <3>2, AnchoredKept
    <2> QED BY <1>3, <2>1, <2>2
  <1>13. CASE Sync
    <2>1. \A i \in Frames : walMay'[i] = Actual'[i]
      BY <1>6, <1>13
    <2>2. Anchored(walMay', {file}, durable, m, base)
      <3>1. \A i \in Frames : \A x \in walMay'[i] : x \in Actual'[i] \/ durable <= Age(x.val)
        BY <2>1
      <3>2. m = 0 \/ (m > 0 /\ m <= m)
        BY <1>3
      <3> QED BY <1>3, <1>5, <1>8, <1>12, <2>1, <3>1, <3>2, AnchoredKept
    <2>3. m = 0 => durable <= base /\ NewLog(walMay', file.salt, durable)
      <3>1. \A i \in Frames : \A x \in walMay'[i] : x \in Actual'[i] \/ durable <= Age(x.val)
        BY <2>1
      <3> QED BY <1>5, <1>8, <1>11, <3>1, NewLogKept
    <2>4. Versions' /\ LogFile'
      BY <1>3, <1>5, <1>7, <1>13 DEF Versions, LogFile
    <2>5. Shown'
      BY <1>11, <1>12, <1>13, <2>2, AnchorKnown DEF Shown
    <2> QED BY <1>10, <1>13, <2>3, <2>4, <2>5
  <1>14. CASE Kept
    <2>1. \A i \in Frames : \A x \in walMay'[i] : x \in walMay[i] \/ durable <= Age(x.val)
      <3>1. ASSUME NEW i \in Frames, NEW x \in walMay'[i], x \notin walMay[i] PROVE durable <= Age(x.val)
        <4>1. x = wal'[i] /\ x # wal[i]
          BY <1>4, <1>14, <3>1
        <4> QED BY <1>5, <4>1
      <3> QED BY <3>1
    <2>2. \A j \in Frames : j <= m => walMay'[j] = walMay[j]
      <3>1. ASSUME NEW j \in Frames, j <= m PROVE walMay'[j] = walMay[j]
        <4>1. wal'[j] = wal[j]
          BY <1>3, <3>1, WalAssumption DEF Frames
        <4>2. walMay[j] \cup {wal'[j]} = walMay[j]
          BY <1>4, <4>1
        <4> QED BY <1>14, <4>2
      <3> QED BY <3>1
    <2>3. m = 0 => durable <= base /\ NewLog(walMay', file.salt, durable)
      <3>1. m = 0 => durable <= base /\ NewLog(walMay, file.salt, durable)
        BY <1>2, <1>4, AnchorKnown DEF Begun
      <3> QED BY <1>5, <1>8, <2>1, <3>1, NewLogKept
    <2>4. Anchored(walMay', {file}, durable, m, base)
      <3>1. CASE m = 0
        BY <2>3, <3>1 DEF Anchored
      <3>2. CASE m > 0
        <4>1. Anchored(walMay, {file}, durable, m, base)
          BY <1>4, AnchorKnown DEF Shown
        <4> QED BY <1>3, <1>5, <1>8, <2>1, <2>2, <3>2, <4>1, AnchoredKept
      <3> QED BY <1>3, <3>1, <3>2
    <2>5. Versions' /\ LogFile'
      BY <1>3, <1>4, <1>5, <1>7, <1>14 DEF Versions, LogFile
    <2>6. Shown'
      BY <1>4, <1>11, <1>12, <1>14, <2>4, AnchorKnown DEF Shown
    <2> QED BY <1>4, <1>10, <1>14, <2>3, <2>5, <2>6
  <1> QED BY <1>13, <1>14

\* sqlite3WalFindFrame finds nothing, or a frame that is not past the header's last.
LEMMA FindFrameIs == ASSUME LogInv, NEW c \in Conns, NEW p
    PROVE  FindFrame(c, p) = 0 \/ (FindFrame(c, p) \in Frames /\ FindFrame(c, p) <= con[c].hdr.mx)
  <1> DEFINE S == {i \in Frames : con[c].minFrame <= i /\ i <= con[c].hdr.mx /\ aPgno[i] = p}
  <1>1. ASSUME S # {} PROVE \E i \in S : \A j \in S : j <= i
    BY <1>1, Largest
  <1>2. CASE S = {}
    BY <1>2 DEF FindFrame
  <1>3. CASE S # {}
    <2>1. (CHOOSE i \in S : \A j \in S : j <= i) \in S
      BY <1>1, <1>3
    <2>2. FindFrame(c, p) = 0 \/ FindFrame(c, p) \in S
      BY <1>3, <2>1 DEF FindFrame
    <2> QED BY <2>2
  <1> QED BY <1>2, <1>3

\* What a frame that is written says of its age.
LEMMA WrittenAge == ASSUME NEW n \in Nat, n # 0, NEW b \in BOOLEAN
    PROVE  LET v == IF b THEN n ELSE -n IN v \in Int /\ Age(v) = n /\ (b => v > 0)
  BY DEF Age

LEMMA AnchorWriteFrame ==
    ASSUME WalInv, LogInv, AnchorInv, WalInv', LogInv', NEW c \in Conns, WriteFrame(c)
    PROVE  AnchorInv'
  <1> DEFINE w == con[c]
             k == w.hdr.mx + w.n
             m == shm[0].mx
             r == con'[c]
  <1>1. /\ UNCHANGED <<aPgno, file, fileMay, cut, base, acked, durable, ntxn>> /\ shm' = shm
        /\ w.pc = "frame" /\ w.t # 0 /\ w.mode = "none"
    BY Known DEF WriteFrame, At, indexVars, countVars, ghostVars, ConInv, Caller, CkptSteps
  <1>2. Composed(w, m, wal, aPgno, file) /\ writeLock = c /\ Going(w)
    BY <1>1, ComposedKnown DEF Going
  <1>3. /\ w.hdr.mx \in Nat /\ w.n \in Nat /\ k \in Nat /\ k <= MaxFrame /\ m \in Nat
        /\ m <= w.hdr.mx /\ w.hdr.mx <= k /\ MaxFrame \in Nat
    BY <1>1, <1>2, LogTypes, WalAssumption DEF Composed
  <1>4. PICK p \in w.todo :
          LET last == w.todo = {p}
              v == IF w.commit THEN w.t ELSE -w.t
              old == FindFrame(c, p)
              i == w.hdr.mx + w.n + 1
              f == EncodeFrame(c, i, p, v, w.commit /\ last)
              over == w.first # 0 /\ (~last \/ ~w.commit) /\ old >= w.first
          IN  /\ IF over
                 THEN WriteFrameAt(old, [wal[old] EXCEPT !.val = v])
                 ELSE i <= MaxFrame /\ WriteFrameAt(i, f)
              /\ Set(c, [w EXCEPT !.todo = @ \ {p}, !.own = @ \cup {p},
                                  !.n = IF over THEN @ ELSE @ + 1, !.recksum = @ \/ over])
    BY DEF WriteFrame
  <1> DEFINE last == w.todo = {p}
             v == IF w.commit THEN w.t ELSE -w.t
             old == FindFrame(c, p)
             f == EncodeFrame(c, k + 1, p, v, w.commit /\ last)
             over == w.first # 0 /\ (~last \/ ~w.commit) /\ old >= w.first
  <1>5. /\ r.pc = "frame" /\ r.hdr = w.hdr /\ r.t = w.t /\ r.commit = w.commit /\ r.mode = w.mode
        /\ r.n = (IF over THEN w.n ELSE w.n + 1) /\ r.recksum = (w.recksum \/ over)
        /\ \A d \in Conns \ {c} : con'[d] = con[d] /\ writeLock # d
    BY <1>1, <1>2, <1>4, Known, Fields DEF Set
  <1>6. DOMAIN wal = Frames /\ DOMAIN walMay = Frames /\ Frames = 1..MaxFrame
    BY DEF LogInv, Stored, Frames
  <1>7. w.t = ntxn /\ ntxn \in Nat /\ ntxn # 0 /\ v \in Int /\ Age(v) = ntxn /\ (w.commit => v > 0)
    BY <1>1, AnchorKnown DEF OnShown, Versions, Age
  <1>8. ASSUME NEW i \in (m + 1)..k
        PROVE  Age(wal[i].val) = w.t /\ (i <= w.hdr.mx \/ ~w.commit => ~wal[i].commit)
    BY <1>1, <1>2, <1>8, AnchorKnown DEF Begun
  <1>9. ASSUME NEW i \in Frames, NEW g, wal' = [wal EXCEPT ![i] = g],
               walMay' = [walMay EXCEPT ![i] = @ \cup {g}], i > m, FrameOk(g, ntxn), Age(g.val) = ntxn,
               \A j \in (m + 1)..(r.hdr.mx + r.n) :
                  /\ Age(wal'[j].val) = w.t
                  /\ j <= w.hdr.mx \/ ~w.commit => ~wal'[j].commit
        PROVE  AnchorInv'
    <2>1. wal'[i] = g /\ walMay'[i] = walMay[i] \cup {wal'[i]}
      BY <1>6, <1>9
    <2>2. \A j \in Frames : j # i => wal'[j] = wal[j] /\ walMay'[j] = walMay[j]
      BY <1>6, <1>9
    <2>3. \A j \in Frames : wal[j] \in walMay[j]
      BY <1>1, <1>2, AnchorKnown DEF LogFile, Composed
    <2>4. \A j \in Frames : \/ wal'[j] = wal[j]
                            \/ j > m /\ FrameOk(wal'[j], ntxn) /\ Age(wal'[j].val) = ntxn
      <3>1. i > m /\ FrameOk(wal'[i], ntxn) /\ Age(wal'[i].val) = ntxn
        BY <1>9, <2>1
      <3>2. ASSUME NEW j \in Frames, j = i
            PROVE  j > m /\ FrameOk(wal'[j], ntxn) /\ Age(wal'[j].val) = ntxn
        BY <3>1, <3>2
      <3> QED BY <2>2, <3>2
    <2>5. \A j \in Frames : /\ wal'[j] \in walMay'[j]
                            /\ walMay'[j] \in {walMay[j], walMay[j] \cup {wal'[j]}}
      BY <2>1, <2>2, <2>3
    <2>6. /\ Versions' /\ LogFile' /\ Shown'
          /\ \A s : NewLog(Actual, s, acked) => NewLog(Actual', s, acked)
          /\ m = 0 => \A h \in fileMay' : durable <= base /\ NewLog(walMay', h.salt, durable)
      BY <1>1, <2>4, <2>5, LogGrows
    <2>7. HdrRead(con[c])' /\ OnShown(con[c])' /\ Ready(con[c])'
      BY <1>1, <1>5, AnchorKnown DEF HdrRead, OnShown, Ready
    <2>8. m = 0 => NewLog(Actual', w.hdr.salt, acked)
      BY <1>2, <2>6, AnchorKnown DEF Begun
    <2>9. Begun(con[c])'
      BY <1>1, <1>5, <1>9, <2>6, <2>8 DEF Begun
    <2> QED BY <1>5, <2>6, <2>7, <2>9, AnchorSteps DEF ConAnchor
  <1>10. CASE over
    <2>1. /\ wal' = [wal EXCEPT ![old] = [wal[old] EXCEPT !.val = v]]
          /\ walMay' = [walMay EXCEPT ![old] = @ \cup {[wal[old] EXCEPT !.val = v]}]
          /\ r.n = w.n
      BY <1>4, <1>5, <1>10 DEF WriteFrameAt
    <2>2. /\ old \in Frames /\ old > m /\ old <= w.hdr.mx /\ old \in (m + 1)..k
      <3>1. w.first > m /\ old >= w.first /\ w.first \in Nat
        BY <1>2, <1>10, LogTypes DEF Composed
      <3>2. old = 0 \/ (old \in Frames /\ old <= w.hdr.mx)
        BY FindFrameIs
      <3> QED BY <1>3, <1>6, <3>1, <3>2
    <2> DEFINE g == [wal[old] EXCEPT !.val = v]
    <2>3. /\ g.val = v /\ g.commit = wal[old].commit /\ g.sum = wal[old].sum /\ IsFrame(g)
          /\ FrameOk(wal[old], ntxn) /\ Age(wal[old].val) = w.t /\ ~wal[old].commit
      <3>1. DOMAIN wal[old] = FrameFields
        BY <2>2 DEF LogInv, Stored
      <3>2. IsFrame(g)
        BY <3>1 DEF IsFrame
      <3> QED BY <1>8, <2>2, <3>1, <3>2, FrameFieldsAre, AnchorKnown DEF Versions
    <2> HIDE DEF old, v, over, g
    <2>4. FrameOk(g, ntxn) /\ Age(g.val) = ntxn
      BY <1>7, <2>3 DEF FrameOk
    <2>5. wal' = [wal EXCEPT ![old] = g] /\ walMay' = [walMay EXCEPT ![old] = @ \cup {g}]
      BY <2>1 DEF g
    <2>6. ASSUME NEW j \in (m + 1)..(r.hdr.mx + r.n)
          PROVE  Age(wal'[j].val) = w.t /\ (j <= w.hdr.mx \/ ~w.commit => ~wal'[j].commit)
      <3>1. j \in (m + 1)..k /\ j \in Frames
        BY <1>3, <1>5, <1>6, <2>1
      <3>2. CASE j = old
        BY <1>6, <1>7, <2>2, <2>3, <2>4, <2>5, <3>2
      <3>3. CASE j # old
        <4>1. wal'[j] = wal[j]
          BY <1>6, <2>5, <3>1, <3>3
        <4> QED BY <1>8, <3>1, <4>1
      <3> QED BY <3>2, <3>3
    <2> HIDE DEF r, w, m
    <2> QED BY <1>9, <2>2, <2>4, <2>5, <2>6
  <1>11. CASE ~over
    <2>1. /\ k + 1 <= MaxFrame /\ wal' = [wal EXCEPT ![k + 1] = f]
          /\ walMay' = [walMay EXCEPT ![k + 1] = @ \cup {f}]
          /\ r.n = w.n + 1 /\ (~w.recksum => ~r.recksum)
      BY <1>4, <1>5, <1>11 DEF WriteFrameAt
    <2>2. f.val = v /\ (f.commit => w.commit) /\ (w.recksum => f.sum = <<>>) /\ IsFrame(f)
      <3>1. IsFrame(f)
        BY FrameFieldsAre DEF EncodeFrame, IsFrame
      <3> QED BY <3>1 DEF EncodeFrame
    <2> HIDE DEF f, v, over, old
    <2>3. k + 1 \in Frames /\ wal'[k + 1] = f /\ k + 1 > m
      BY <1>3, <1>6, <2>1
    <2>4. \A j \in Frames : j # k + 1 => wal'[j] = wal[j]
      BY <1>6, <2>1
    <2>5. ASSUME NEW j \in Frames PROVE wal'[j].val \in Int /\ Age(wal'[j].val) <= ntxn
      <3>1. CASE j = k + 1
        BY <1>7, <2>2, <2>3, <3>1
      <3>2. CASE j # k + 1
        BY <2>4, <3>2, AnchorKnown DEF Versions, FrameOk
      <3> QED BY <3>1, <3>2
    <2>6. ASSUME NEW j \in DOMAIN f.sum PROVE f.sum[j][2] \in Int /\ Age(f.sum[j][2]) <= ntxn
      <3>1. CASE ~w.recksum
        <4>1. Composed(con'[c], m, wal', aPgno, file)
          BY <1>1, <1>5, LogKnown DEF LogInv, ConLog
        <4>2. Linked(wal', k + 1, w.hdr.salt)
          <5>1. r.hdr.mx + r.n = k + 1 /\ k + 1 \in 1..(k + 1) /\ ~r.recksum
            BY <1>3, <1>5, <2>1, <3>1
          <5> QED BY <1>5, <4>1, <5>1 DEF Composed
        <4>3. f.sum = SumOf(wal', k + 1)
          BY <2>3, <4>2 DEF Linked
        <4>4. j \in 1..(k + 1) /\ f.sum[j] = Content(wal'[j])
          BY <4>3 DEF SumOf
        <4>5. j \in Frames
          BY <1>3, <1>6, <2>1, <4>4
        <4> QED BY <2>5, <4>4, <4>5 DEF Content
      <3>2. CASE w.recksum
        BY <2>2, <3>2
      <3> QED BY <3>1, <3>2
    <2>7. FrameOk(f, ntxn) /\ Age(f.val) = ntxn
      <3>1. f.val \in Int /\ Age(f.val) = ntxn /\ Age(f.val) <= ntxn /\ (f.commit => f.val > 0)
        BY <1>7, <2>2
      <3> QED BY <2>2, <2>6, <3>1 DEF FrameOk
    <2>8. ASSUME NEW j \in (m + 1)..(r.hdr.mx + r.n)
          PROVE  Age(wal'[j].val) = w.t /\ (j <= w.hdr.mx \/ ~w.commit => ~wal'[j].commit)
      <3>1. j \in (m + 1)..(k + 1) /\ j \in Frames
        BY <1>3, <1>5, <1>6, <2>1
      <3>2. CASE j = k + 1
        <4>1. ~(j <= w.hdr.mx)
          BY <1>3, <3>2
        <4> QED BY <1>7, <2>2, <2>3, <2>7, <3>2, <4>1
      <3>3. CASE j # k + 1
        <4>1. j \in (m + 1)..k /\ wal'[j] = wal[j]
          BY <1>3, <2>4, <3>1, <3>3
        <4> QED BY <1>8, <4>1
      <3> QED BY <3>2, <3>3
    <2> HIDE DEF r, w, m, k
    <2> QED BY <1>9, <2>1, <2>3, <2>7, <2>8
  <1> QED BY <1>10, <1>11

\* walRewriteChecksums leaves what is committed as it is, and what it changes of a
\* frame of the transaction is not its age.
LEMMA AnchorFinishCommit ==
    ASSUME WalInv, LogInv, AnchorInv, WalInv', LogInv', NEW c \in Conns, NEW sync,
           FinishCommit(c, sync)
    PROVE  AnchorInv'
  <1> DEFINE w == con[c]
             m == shm[0].mx
             h == [w.hdr EXCEPT !.mx = @ + w.n, !.chg = @ + 1, !.ver = w.t]
             k == w.hdr.mx + w.n
  <1>1. /\ UNCHANGED <<file, base, acked, durable, ntxn>> /\ shm'[0] = shm[0] /\ w.pc = "frame"
        /\ w.t # 0 /\ w.mode = "none" /\ w.todo = {} /\ w.commit
    BY Known DEF FinishCommit, At, countVars, ghostVars, ConInv, Caller, CkptSteps
  <1>2. Composed(w, m, wal, aPgno, file) /\ writeLock = c /\ Going(w)
    BY <1>1, ComposedKnown DEF Going
  <1>3. /\ w.hdr.mx \in Nat /\ w.n \in Nat /\ k \in Nat /\ k <= MaxFrame /\ m \in Nat
        /\ m <= w.hdr.mx /\ m <= k /\ MaxFrame \in Nat /\ Frames = 1..MaxFrame
        /\ k > 0 /\ file # NoFile /\ w.hdr.salt = file.salt
    BY <1>1, <1>2, LogTypes, WalAssumption DEF Composed, Frames
  <1>4. h.mx = k /\ h.salt = w.hdr.salt /\ h.ver = w.t /\ h.init = w.hdr.init
    BY Known, Fields
  <1>5. /\ con'[c].pc = "publish" /\ con'[c].hdr = h /\ con'[c].t = w.t /\ con'[c].mode = w.mode
        /\ con'[c].synced = sync /\ \A d \in Conns \ {c} : con'[d] = con[d]
    BY Known, Fields DEF FinishCommit, Set
  <1>6. \/ wal' = wal
        \/ wal' = RewriteChecksums(w.hdr.salt, k)
    BY <1>4 DEF FinishCommit
  <1>7. CommitSync(wal', sync)
    BY DEF FinishCommit
  <1> HIDE DEF h
  <1>8. w.t = ntxn /\ ntxn \in Nat /\ shm[0].init
    BY <1>1, AnchorKnown DEF OnShown, Versions
  <1>9. ASSUME NEW i \in Frames, i <= m PROVE wal'[i] = wal[i]
    <2>1. CASE wal' = RewriteChecksums(w.hdr.salt, k)
      <3>1. Linked(wal, i, w.hdr.salt) /\ DOMAIN wal[i] = FrameFields
        <4>1. i \in 1..m /\ m > 0
          BY <1>3, <1>9
        <4> QED BY <1>3, <4>1, LogKnown DEF Logged, LogInv, Stored
      <3>2. ~(i > k)
        BY <1>3, <1>9
      <3>3. wal'[i] = [wal[i] EXCEPT !.salt = w.hdr.salt, !.sum = SumOf(wal, i)]
        BY <2>1, <3>2 DEF RewriteChecksums, SumOf
      <3>4. wal[i] = [y \in FrameFields |-> wal[i][y]]
        BY AnchorKnown DEF Versions, FrameOk, IsFrame
      <3> QED BY <3>1, <3>3, <3>4 DEF Linked
    <2> QED BY <1>6, <2>1
  <1>10. ASSUME NEW i \in Frames, ~(i <= m), i <= k PROVE Age(wal'[i].val) = ntxn
    <2>1. Age(wal[i].val) = ntxn
      <3>1. i \in (m + 1)..k
        BY <1>3, <1>10
      <3> QED BY <1>1, <1>2, <1>8, <3>1, AnchorKnown DEF Begun
    <2>2. wal'[i].val = wal[i].val
      BY <1>6, RewriteFields DEF LogInv
    <2> QED BY <2>1, <2>2
  <1>11. ASSUME NEW i \in Frames PROVE FrameOk(wal'[i], ntxn)
    <2>1. FrameOk(wal[i], ntxn)
      BY AnchorKnown DEF Versions
    <2>2. CASE wal' = RewriteChecksums(w.hdr.salt, k) /\ ~(i <= m) /\ i <= k
      <3>1. wal'[i].val = wal[i].val /\ wal'[i].commit = wal[i].commit /\ IsFrame(wal'[i])
        <4>1. IsFrame(wal'[i])
          <5>1. DOMAIN wal[i] = FrameFields /\ ~(i > k)
            BY <1>3, <2>2 DEF LogInv, Stored
          <5>2. wal'[i] = [wal[i] EXCEPT !.salt = w.hdr.salt, !.sum = [j \in 1..i |-> Content(wal[j])]]
            BY <2>2, <5>1 DEF RewriteChecksums
          <5> QED BY <5>1, <5>2 DEF IsFrame
        <4> QED BY <2>2, <4>1, RewriteFields DEF LogInv
      <3>2. wal'[i].sum = SumOf(wal, i)
        <4>1. ~(i > k)
          BY <1>3, <2>2
        <4> QED BY <2>2, <4>1, RewrittenSums DEF LogInv
      <3>3. ASSUME NEW j \in DOMAIN SumOf(wal, i)
            PROVE  SumOf(wal, i)[j][2] \in Int /\ Age(SumOf(wal, i)[j][2]) <= ntxn
        <4>1. j \in 1..i /\ SumOf(wal, i)[j] = Content(wal[j])
          BY DEF SumOf
        <4>2. j \in Frames
          BY <1>3, <4>1
        <4> QED BY <4>1, <4>2, AnchorKnown DEF Versions, FrameOk, Content
      <3> QED BY <1>10, <2>1, <2>2, <3>1, <3>2, <3>3 DEF FrameOk
    <2>3. CASE wal'[i] = wal[i]
      BY <2>1, <2>3
    <2>4. wal' = RewriteChecksums(w.hdr.salt, k) /\ i > k => wal'[i] = wal[i]
      BY DEF RewriteChecksums
    <2> QED BY <1>3, <1>6, <1>9, <2>2, <2>3, <2>4
  <1>12. ASSUME NEW i \in Frames
         PROVE  \/ wal'[i] = wal[i]
                \/ i > m /\ FrameOk(wal'[i], ntxn) /\ Age(wal'[i].val) = ntxn
    <2>1. wal' = RewriteChecksums(w.hdr.salt, k) /\ i > k => wal'[i] = wal[i]
      BY DEF RewriteChecksums
    <2> QED BY <1>3, <1>6, <1>9, <1>10, <1>11, <2>1
  <1>13. \/ /\ UNCHANGED <<fileMay, cut>>
            /\ \A i \in Frames : /\ wal'[i] \in walMay'[i]
                                 /\ walMay'[i] \in {walMay[i], walMay[i] \cup {wal'[i]}}
         \/ fileMay' = {file} /\ cut' = FALSE /\ \A i \in Frames : walMay'[i] = {wal'[i]}
    BY <1>7 DEF CommitSync
  <1>14. sync => \A i \in Frames : walMay'[i] = {wal'[i]}
    BY <1>7 DEF CommitSync
  <1>15. /\ Versions' /\ LogFile' /\ Shown'
         /\ \A s : NewLog(Actual, s, acked) => NewLog(Actual', s, acked)
         /\ m = 0 => \A g \in fileMay' : durable <= base /\ NewLog(walMay', g.salt, durable)
    BY <1>1, <1>12, <1>13, LogGrows
  <1>16. HdrRead(con[c])' /\ OnShown(con[c])'
    BY <1>1, <1>4, <1>5, <1>8, AnchorKnown DEF HdrRead, OnShown
  <1>17. Begun(con[c])'
    <2>1. m = 0 => NewLog(Actual', w.hdr.salt, acked)
      BY <1>2, <1>15, AnchorKnown DEF Begun
    <2> QED BY <1>1, <1>4, <1>5, <1>15, <2>1 DEF Begun
  <1>18. Ready(con[c])'
    <2>1. \A i \in 1..k : i \in Frames
      BY <1>3
    <2> QED BY <1>1, <1>3, <1>4, <1>5, <1>14, <2>1 DEF Ready
  <1>19. \A d \in Conns \ {c} : writeLock # d
    BY <1>2
  <1> QED BY <1>5, <1>15, <1>16, <1>17, <1>18, <1>19, AnchorSteps DEF ConAnchor

\* A commit is in the log when the header shows it.
LEMMA AnchorPublish == ASSUME WalInv, LogInv, AnchorInv, NEW c \in Conns, Publish(c) PROVE AnchorInv'
  <1> DEFINE w == con[c]
             d == w.hdr.mx
             m == shm[0].mx
  <1>1. /\ UNCHANGED <<wal, walMay, file, fileMay, cut, base, ntxn>> /\ shm'[0] = w.hdr
        /\ w.pc = "publish" /\ acked' = w.t /\ durable' = (IF w.synced THEN w.t ELSE durable)
        /\ w.t # 0 /\ w.hdr.ver = w.t /\ writeLock = c
    BY Known DEF Publish, At, fileVars, countVars, ConInv, Caller, Locked, NeedsLock, Writer, Based
  <1>2. /\ con'[c].pc = "read" /\ con'[c].hdr = w.hdr /\ con'[c].t = 0 /\ con'[c].mode = "none"
        /\ \A e \in Conns \ {c} : con'[e] = con[e] /\ writeLock # e
    BY <1>1, Known DEF Publish, Set, AtRest, Idle
  <1>3. w.t = ntxn /\ ntxn \in Nat /\ w.hdr.init /\ d > 0 /\ d >= m
    BY <1>1, AnchorKnown DEF OnShown, Versions, HdrRead, Ready
  <1>4. /\ acked \in Nat /\ durable \in Nat /\ base \in Int /\ durable <= acked /\ acked <= ntxn
        /\ Actual' = Actual /\ m \in Nat /\ d \in Nat
    BY <1>1, AnchorKnown, LogTypes DEF Versions, Actual
  <1>5. Logged(w.hdr, wal, aPgno, file)
    BY <1>1, LogKnown DEF ConLog
  <1>6. /\ file # NoFile /\ d \in Frames /\ wal[d].commit /\ wal[d].val = w.t
        /\ \A j \in 1..d : wal[j].pg # 0 /\ Linked(wal, j, file.salt)
    BY <1>1, <1>3, <1>4, <1>5, WalAssumption DEF Logged, Frames
  <1>7. fileMay = {file} /\ ~cut
    BY <1>6, AnchorKnown DEF LogFile
  <1>8. ASSUME NEW L, \A j \in 1..d : L[j] = {wal[j]} PROVE Anchored(L, {file}, w.t, d, base)
    <2>1. CommitAt(L, d, file.salt, w.t)
      BY <1>3, <1>6, <1>8, CommitAtOf
    <2> QED BY <1>3, <1>4, <1>6, <2>1 DEF Anchored, OldLog
  <1>9. Anchored(Actual, {file}, w.t, d, base)
    <2>1. \A j \in 1..d : Actual[j] = {wal[j]}
      BY <1>6, UpTo, ActualIs
    <2> QED BY <1>8, <2>1
  <1>10. Anchored(walMay, {file}, durable', d, base)
    <2>1. CASE w.synced
      BY <1>1, <1>8, <2>1, AnchorKnown DEF Ready
    <2>2. CASE ~w.synced /\ m > 0
      <3>1. Anchored(walMay, {file}, durable, m, base)
        BY <1>7, AnchorKnown DEF Shown
      <3> QED BY <1>1, <1>3, <1>4, <2>2, <3>1, LogValues, AnchoredKept
    <2>3. CASE ~w.synced /\ m = 0
      <3>1. durable <= base /\ NewLog(walMay, file.salt, durable)
        BY <1>1, <1>3, <1>7, <2>3, AnchorKnown DEF Begun, Going
      <3> QED BY <1>1, <2>3, <3>1 DEF Anchored
    <2> QED BY <1>4, <2>1, <2>2, <2>3
  <1>11. Versions' /\ LogFile'
    BY <1>1, <1>3, <1>4, <1>6, <1>7, AnchorKnown DEF Versions, LogFile
  <1>12. Shown'
    BY <1>1, <1>3, <1>4, <1>7, <1>9, <1>10 DEF Shown
  <1>13. ConAnchor(con[c])'
    BY <1>1, <1>2, <1>3 DEF ConAnchor, HdrRead, OnShown, Begun, Ready, Going
  <1> QED BY <1>2, <1>11, <1>12, <1>13, AnchorSteps

LEMMA AnchorWriting ==
    ASSUME WalInv, LogInv, AnchorInv, WalInv', LogInv', NEW c \in Conns, Writing(c) PROVE AnchorInv'
  BY AnchorBeginWrite, AnchorWalFrames, AnchorRestart, AnchorResetHdr0, AnchorResetInfo,
     AnchorWriteFileHdr, AnchorWriteFrame, AnchorFinishSpill, AnchorFinishCommit, AnchorPublish,
     AnchorWriteError, AnchorUndo
     DEF Writing

LEMMA AnchorNext ==
    ASSUME WalInv, LogInv, AnchorInv, WalInv', LogInv', [Next]_vars PROVE AnchorInv'
  <1>1. CASE UNCHANGED vars
    <2>1. UNCHANGED anchorVars /\ shm' = shm /\ con' = con /\ Actual' = Actual
      BY <1>1 DEF vars, anchorVars, indexVars, fileVars, countVars, ghostVars, Actual
    <2>2. Versions' /\ LogFile' /\ Shown'
      BY <2>1 DEF AnchorInv, Versions, LogFile, Shown, anchorVars
    <2>3. ASSUME NEW d \in Conns PROVE ConAnchor(con[d])'
      BY <2>1, AnchorSame DEF AnchorInv
    <2> QED BY <2>2, <2>3 DEF AnchorInv
  <1> QED BY <1>1, AnchorReading, AnchorWriting, AnchorCheckpointing, AnchorRecovering, AnchorKill,
          AnchorPowerLoss DEF Next

LEMMA AnchorStart == Init => AnchorInv
  <1> SUFFICES ASSUME Init PROVE AnchorInv
    OBVIOUS
  <1>1. \A i \in Frames : wal[i] = NoFrame /\ walMay[i] = {NoFrame} /\ Actual[i] = {NoFrame}
    BY DEF Init, Actual
  <1>2. FrameOk(NoFrame, 0) /\ \A s : ~Signed(NoFrame, s)
    BY NoFrameIs DEF FrameOk, NoFrame, Age, Signed
  <1>3. Versions
    BY <1>1, <1>2 DEF Init, Versions
  <1>4. LogFile
    BY <1>1 DEF Init, LogFile
  <1>5. \A s : NewLog(Actual, s, 0) /\ NewLog(walMay, s, 0)
    BY <1>1, <1>2 DEF NewLog
  <1>6. Shown
    <2>1. shm[0] = ZeroHdr /\ acked = 0 /\ durable = 0 /\ base = 0
      BY DEF Init
    <2>2. \A F, m : Anchored(Actual, F, 0, m, 0) /\ Anchored(walMay, F, 0, m, 0)
      BY <1>5 DEF Anchored
    <2> QED BY <1>5, <2>1, <2>2 DEF Shown, ZeroHdr
  <1>7. \A c \in Conns : ConAnchor(con[c])
    BY AnchorIdle DEF Init
  <1> QED BY <1>3, <1>4, <1>6, <1>7 DEF AnchorInv

\* No commit is lost, for any number of connections, pages, frames, marks,
\* transactions, kills and power losses: a wal-index that can be read, whether a writer
\* published it or walIndexRecover rebuilt it from the log file, is not older than the
\* last transaction whose commit has returned, and after a power loss not older than
\* the last one that was synced.
THEOREM SpecNothingLost == Spec => []NothingLost
  <1> DEFINE Inv == WalInv /\ ntxn \in Nat /\ LogInv /\ AnchorInv
  <1>1. Init => Inv
    BY FreshInv, LogStart, AnchorStart DEF Init
  <1>2. Inv /\ [Next]_vars => Inv'
    <2> SUFFICES ASSUME Inv, [Next]_vars PROVE Inv'
      OBVIOUS
    <2>1. WalInv' /\ (ntxn \in Nat)' /\ LogInv'
      BY NextInv, NtxnNat, LogNext
    <2> QED BY <2>1, AnchorNext
  <1>3. Inv => NothingLost
    BY DEF AnchorInv, Shown, Versions, NothingLost, HdrOk
  <1> HIDE DEF Inv
  <1> QED BY <1>1, <1>2, <1>3, PTL DEF Spec
=============================================================================
