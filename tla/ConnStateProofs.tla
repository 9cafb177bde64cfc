-------------------------- MODULE ConnStateProofs --------------------------
(***************************************************************************)
(* What the server remembers of a connection: the subscriptions that       *)
(* PubSub has made on it, and the WATCH of a transaction.                  *)
(*                                                                         *)
(* PubSub: no connection is lost, or closed in another's place, and the    *)
(* server knows what was asked for, for any channels, patterns and number  *)
(* of connections, and however often they break.                           *)
(*                                                                         *)
(* Client.Watch, for any number of goroutines, connections and increments: *)
(* what WATCH gives when no command is retried, and that no WATCH is ever  *)
(* left on a connection of the pool, retries or not.                       *)
(***************************************************************************)
EXTENDS PubSub, TxWatch, TLAPS

-----------------------------------------------------------------------------
(* PubSub.                                                                 *)

(***************************************************************************)
(* What a goroutine may believe of the connection it uses, and what the    *)
(* calls made so far ask for.  A goroutine that has seen a connection fail *)
(* has seen one that is broken or closed; the connection cannot be made    *)
(* anew in the meantime, because it is still in that goroutine's hands.    *)
(* Without this, HealthyKept does not follow from the test in              *)
(* _releaseConn.                                                           *)
(***************************************************************************)
Shape ==
    /\ cn # NoConn => cn \in open
    /\ pc[User] \in {"idle", "pwrite", "prelease"}
    /\ pc[Recv] # "idle"
    /\ \A p \in Procs : pc[p] \in {"read", "release", "pwrite", "prelease"} => using[p] \in Conns
    /\ \A p \in Procs : outcome[p] = "bad" => using[p] \in broken \/ using[p] \notin open
    /\ \A p \in Procs : outcome[p] # "none" => pc[p] \in {"release", "prelease"}
    /\ pc[Recv] = "release" => outcome[Recv] \in {"msg", "note", "timeout", "bad"}
    /\ wanted \subseteq channels
    /\ closed => cn = NoConn

Inv == TypeOK /\ Shape /\ OneConn /\ Subscribed

USE DEF connVars, selfVars, chanVars, procVars, srvVars, cntVars

LEMMA InitInv == Init => Inv
  <1> SUFFICES ASSUME Init PROVE Inv
    OBVIOUS
  <1>1. /\ sub \in [Conns -> SUBSET Names]
        /\ msgs \in [Conns -> 0 .. MaxInbox] /\ notes \in [Conns -> 0 .. 1]
        /\ using \in [Procs -> Conns \cup {NoConn}]
    BY PubSubAssumption, ConnsAssumption DEF Init
  <1>2. /\ pc \in [Procs -> {"idle", "conn", "read", "release", "send", "ended", "pconn", "pwrite",
                             "prelease"}]
        /\ outcome \in [Procs -> {"none", "ok", "bad", "msg", "note", "timeout"}]
    BY DEF Init
  <1>3. TypeOK
    <2>1. ch \in 0 .. ChanSize /\ errNum \in 0 .. 3 /\ breaks \in 0 .. MaxBreaks
      BY PubSubAssumption, ConnsAssumption DEF Init
    <2>2. /\ {closed, poolClosed, chClosed} \subseteq BOOLEAN /\ cn \in Conns \cup {NoConn}
          /\ channels \subseteq Names /\ wanted \subseteq Names
          /\ open \subseteq Conns /\ broken \subseteq Conns /\ torn \subseteq Conns
      BY DEF Init
    <2> QED BY <1>1, <1>2, <2>1, <2>2 DEF TypeOK
  <1>4. Shape /\ OneConn /\ Subscribed
    BY PubSubAssumption, ConnsAssumption DEF Init, Shape, OneConn, Subscribed, Procs
  <1> QED BY <1>3, <1>4 DEF Inv

LEMMA SubscribeInv ==
    ASSUME Inv, NEW T \in {Channels, Patterns}, NEW S \in SUBSET T, NEW add \in BOOLEAN,
           Subscribe(S, T, add)
    PROVE  Inv'
  <1> USE PubSubAssumption, ConnsAssumption
          DEF Inv, TypeOK, Shape, OneConn, Subscribed, Procs, Names
  <1>1. /\ Record(S, add) \subseteq Names /\ Apply(wanted, S, T, add) \subseteq Names
        /\ Apply(wanted, S, T, add) \subseteq Record(S, add)
    BY DEF Record, Apply
  <1>2. CASE SubscribeFails(S, T, add)
    BY <1>1, <1>2 DEF SubscribeFails, NoConnToHave, ConnFails
  <1>3. CASE SubscribeBroken(S, T, add)
    BY <1>1, <1>3 DEF SubscribeBroken, ReleaseConn, Closing, Keeping
  <1>4. CASE SubscribeTimesOut(S, T, add)
    BY <1>1, <1>4 DEF SubscribeTimesOut, Made, Fresh, Resubscribe
  <1>5. CASE SubscribeWritten(S, T, add)
    BY <1>1, <1>5 DEF SubscribeWritten, Made, Fresh, Resubscribe, Apply, Record
  <1> QED BY <1>2, <1>3, <1>4, <1>5 DEF Subscribe

LEMMA CloseInv ==
    ASSUME Inv, Close
    PROVE  Inv'
  BY PubSubAssumption, ConnsAssumption
     DEF Inv, TypeOK, Shape, OneConn, Subscribed, Procs, Names, Close, Closing

\* A goroutine fetches the connection, which may have to be made.
LEMMA FetchInv ==
    ASSUME Inv, NEW p \in Procs, outcome[p] = "none",
           NEW at \in {"read", "pwrite"}, p = User => at = "pwrite",
           NEW c \in Conns, Conn(c), using' = [using EXCEPT ![p] = c], Goto(p, at),
           UNCHANGED <<closed, poolClosed, channels, wanted, chanVars, outcome>>
    PROVE  Inv'
  <1> USE PubSubAssumption, ConnsAssumption
          DEF Inv, TypeOK, Shape, OneConn, Subscribed, Procs, Names, Goto
  <1>1. CASE c = cn /\ UNCHANGED <<cn, connVars>>  BY <1>1
  <1>2. CASE /\ Made(c, Resubscribe) /\ torn' = torn \ {c}
             /\ notes' = [notes EXCEPT ![c] = IF channels = {} THEN 0 ELSE 1]
             /\ UNCHANGED breaks
    <2>1. TypeOK'  BY <1>2 DEF Made, Resubscribe
    <2>2. OneConn' /\ Subscribed'  BY <1>2 DEF Made, Resubscribe
    <2>3. (\A q \in Procs : outcome[q] = "bad" => using[q] \in broken \/ using[q] \notin open)'
      BY <1>2 DEF Made, Fresh
    <2>4. (cn # NoConn => cn \in open)' /\ ~closed'
      BY <1>2 DEF Made, Conn
    <2> QED BY <2>1, <2>2, <2>3, <2>4
  <1> QED BY <1>1, <1>2 DEF Conn

LEMMA PingInv ==
    ASSUME Inv, NEW p \in Procs, PingStep(p)
    PROVE  Inv'
  <1> USE PubSubAssumption, ConnsAssumption
          DEF Inv, TypeOK, Shape, OneConn, Subscribed, Procs, Names, Goto, PingEnds
  <1>1. CASE PingConn(p)
    <2>1. CASE \E c \in Conns : Conn(c) /\ using' = [using EXCEPT ![p] = c] /\ Goto(p, "pwrite")
      BY <1>1, <2>1, FetchInv DEF PingConn
    <2>2. CASE NoConnToHave /\ PingEnds(p) /\ UNCHANGED <<cn, using>>
      BY <1>1, <2>2 DEF PingConn, NoConnToHave, ConnFails
    <2> QED BY <1>1, <2>1, <2>2 DEF PingConn
  <1>2. CASE PingWrite(p)    BY <1>2 DEF PingWrite
  <1>3. CASE PingRelease(p)  BY <1>3 DEF PingRelease, ReleaseConn, Closing, Keeping
  <1> QED BY <1>1, <1>2, <1>3 DEF PingStep

LEMMA RecvInv ==
    ASSUME Inv,
           \/ RecvConn \/ RecvConnFails \/ RecvClosed \/ RecvRelease \/ RecvSend
           \/ \E o \in {"msg", "note", "timeout", "bad"} : RecvRead(o)
    PROVE  Inv'
  <1> USE PubSubAssumption, ConnsAssumption
          DEF Inv, TypeOK, Shape, OneConn, Subscribed, Procs, Names, Goto
  <1>1. CASE RecvConn
    BY <1>1, FetchInv DEF RecvConn
  <1>2. CASE RecvConnFails  BY <1>2 DEF RecvConnFails, ConnFails, ErrNum, AfterNetError
  <1>3. CASE RecvClosed     BY <1>3 DEF RecvClosed
  <1>4. CASE RecvRelease
    BY <1>4 DEF RecvRelease, ReleaseConn, Closing, Keeping, ErrNum, AfterNetError
  <1>5. CASE RecvSend       BY <1>5 DEF RecvSend
  <1>6. CASE \E o \in {"msg", "note", "timeout", "bad"} : RecvRead(o)
    BY <1>6 DEF RecvRead
  <1> QED BY <1>1, <1>2, <1>3, <1>4, <1>5, <1>6

LEMMA WorldInv ==
    ASSUME Inv, Consume \/ ClientClose \/ \E c \in Conns : Break(c) \/ \E a \in Names : Publish(c, a)
    PROVE  Inv'
  <1> USE PubSubAssumption, ConnsAssumption
          DEF Inv, TypeOK, Shape, OneConn, Subscribed, Procs, Names
  <1>1. CASE Consume      BY <1>1 DEF Consume
  <1>2. CASE ClientClose  BY <1>2 DEF ClientClose
  <1>3. ASSUME NEW c \in Conns, Break(c) PROVE Inv'  BY <1>3 DEF Break
  <1>4. ASSUME NEW c \in Conns, NEW a \in Names, Publish(c, a) PROVE Inv'  BY <1>4 DEF Publish
  <1> QED BY <1>1, <1>2, <1>3, <1>4

LEMMA InvStep == Inv /\ [Next]_vars => Inv'
  <1> SUFFICES ASSUME Inv, [Next]_vars PROVE Inv'
    OBVIOUS
  <1>1. CASE UNCHANGED vars
    BY <1>1 DEF vars, Inv, TypeOK, Shape, OneConn, Subscribed
  <1>2. ASSUME NEW T \in {Channels, Patterns}, NEW S \in SUBSET T,
               Subscribe(S, T, TRUE) \/ Subscribe(S, T, FALSE)
        PROVE  Inv'
    BY <1>2, SubscribeInv
  <1>3. CASE Close           BY <1>3, CloseInv
  <1>4. CASE PingStep(User)  BY <1>4, PingInv DEF Procs
  <1>5. CASE RecvStep        BY <1>5, PingInv, RecvInv DEF Procs, RecvStep
  <1>6. CASE Consume \/ ClientClose \/ \E c \in Conns : Break(c) \/ \E a \in Names : Publish(c, a)
    BY <1>6, WorldInv
  <1> QED BY <1>1, <1>2, <1>3, <1>4, <1>5, <1>6 DEF Next

LEMMA Invariant == Spec => []Inv
  BY InitInv, InvStep, PTL DEF Spec

\* No connection a PubSub has made is ever lost, whichever call made it and
\* whichever of dialing, resubscribing, writing or reading failed.
THEOREM OneConnAlways == Spec => []OneConn
  BY Invariant, PTL DEF Inv

\* The server has the connection subscribed to everything asked for and to
\* nothing that would not be replayed, for any names and any interleaving.
THEOREM SubscribedAlways == Spec => []Subscribed
  BY Invariant, PTL DEF Inv

\* Only Close closes a connection that works: a call that failed on an old
\* connection leaves the one that has replaced it alone.
THEOREM HealthyKeptAlways == Spec => HealthyKept
  <1> DEFINE Kept == \A c \in open \ open' : c \in broken \/ closed'
  <1>1. Inv /\ [Next]_vars => [Kept]_vars
    <2> SUFFICES ASSUME Inv, Next PROVE Kept
      OBVIOUS
    <2> USE DEF Inv, TypeOK, Shape, Procs
    <2>1. ASSUME NEW T \in {Channels, Patterns}, NEW S \in SUBSET T, NEW add \in BOOLEAN,
                 Subscribe(S, T, add)
          PROVE  Kept
      BY <2>1 DEF Subscribe, SubscribeFails, SubscribeBroken, SubscribeTimesOut, SubscribeWritten,
                  NoConnToHave, ConnFails, Made, ReleaseConn, Closing, Keeping
    <2>2. CASE Close  BY <2>2 DEF Close
    <2>3. ASSUME NEW p \in Procs, PingStep(p) PROVE Kept
      BY <2>3 DEF PingStep, PingConn, PingWrite, PingRelease, Conn, Made, NoConnToHave, ConnFails,
                  ReleaseConn, Closing, Keeping
    <2>4. CASE RecvConn \/ RecvConnFails \/ RecvClosed \/ RecvRelease \/ RecvSend
               \/ \E o \in {"msg", "note", "timeout", "bad"} : RecvRead(o)
      BY <2>4 DEF RecvConn, RecvConnFails, RecvClosed, RecvRelease, RecvSend, RecvRead, Conn, Made,
                  ConnFails, ReleaseConn, Closing, Keeping
    <2>5. CASE Consume \/ ClientClose \/ \E c \in Conns : Break(c) \/ \E a \in Names : Publish(c, a)
      BY <2>5 DEF Consume, ClientClose, Break, Publish
    <2> QED BY <2>1, <2>2, <2>3, <2>4, <2>5 DEF Next, RecvStep, Procs
  <1> QED BY <1>1, Invariant, PTL DEF Spec, HealthyKept

-----------------------------------------------------------------------------
(* Client.Watch.                                                           *)

Points == {"idle", "watch", "get", "exec", "unwatch", "close"}

Funs ==
    /\ cmd \in [Txs -> Points] /\ attempt \in [Txs -> 0 .. MaxRetries]
    /\ sticky \in [Txs -> Conns \cup {NoConn}] /\ n \in [Txs -> Nat] /\ failed \in [Txs -> BOOLEAN]

(***************************************************************************)
(* Every WATCH on the server belongs to a connection that one goroutine    *)
(* has in hand and will still UNWATCH, EXEC or drop.                       *)
(***************************************************************************)
Owned ==
    /\ \A s, t \in Txs : s # t /\ sticky[s] # NoConn => sticky[s] # sticky[t]
    /\ \A t \in Txs : cmd[t] = "idle" => sticky[t] = NoConn
    /\ \A c \in watched : \E t \in Txs : sticky[t] = c /\ cmd[t] \in {"get", "exec", "unwatch"}

WatchInv == TxTypeOK /\ Funs /\ Owned

LEMMA InitWatch == TxInit => WatchInv
  <1> SUFFICES ASSUME TxInit PROVE WatchInv
    OBVIOUS
  <1>1. Funs
    BY TxAssumption, ConnsAssumption DEF TxInit, Funs, Points
  <1>2. TxTypeOK
    BY <1>1, TxAssumption, ConnsAssumption DEF TxInit, Funs, Points, TxTypeOK
  <1> QED BY <1>1, <1>2 DEF TxInit, Owned, WatchInv

LEMMA WatchStep == WatchInv /\ [TxNext]_txVars => WatchInv'
  <1> SUFFICES ASSUME WatchInv, [TxNext]_txVars PROVE WatchInv'
    OBVIOUS
  <1> USE TxAssumption, ConnsAssumption DEF WatchInv, TxTypeOK, Funs, Owned, Points, NextCmd
  <1>1. CASE UNCHANGED txVars  BY <1>1 DEF txVars
  <1>2. ASSUME NEW t \in Txs, Begin(t) \/ TxStep(t) PROVE WatchInv'
    <2>1. CASE Begin(t)
      <3>1. failed' \in [Txs -> BOOLEAN]  BY <2>1 DEF Begin
      <3>2. begun' \in 0 .. MaxIncrs  BY <2>1 DEF Begin
      <3>3. attempt' \in [Txs -> 0 .. MaxRetries] /\ cmd' \in [Txs -> Points]  BY <2>1 DEF Begin
      <3>4. Owned'  BY <2>1 DEF Begin
      <3>5. TxTypeOK'  BY <2>1, <3>1, <3>2, <3>3 DEF Begin
      <3> QED BY <2>1, <3>1, <3>3, <3>4, <3>5 DEF Begin
    <2>2. CASE StickyGet(t)       BY <2>2 DEF StickyGet
    <2>3. CASE StickyGetFails(t)  BY <2>3 DEF StickyGetFails, RetryOrFail, AfterError
    <2>4. CASE CmdBreaks(t)       BY <2>4 DEF CmdBreaks, StickyRemove, RetryOrFail, AfterError
    <2>5. CASE CmdRefused(t)      BY <2>5 DEF CmdRefused
    <2>6. CASE Watch(t)           BY <2>6 DEF Watch
    <2>7. CASE Get(t)             BY <2>7 DEF Get
    <2>8. CASE Exec(t)
      <3>1. failed' \in [Txs -> BOOLEAN]  BY <2>8 DEF Exec
      <3>2. Owned'  BY <2>8 DEF Exec, ServerExec
      <3>3. TxTypeOK'  BY <2>8, <3>1 DEF Exec, ServerExec
      <3> QED BY <2>8, <3>1, <3>2, <3>3 DEF Exec
    <2>9. CASE ExecNotWritten(t)
      BY <2>9 DEF ExecNotWritten, StickyRemove, RetryOrFail, AfterError
    <2>10. CASE ExecReplyLost(t)  BY <2>10 DEF ExecReplyLost, ServerExec
    <2>11. CASE Unwatch(t)        BY <2>11 DEF Unwatch
    <2>12. CASE StickyClose(t)
      <3>1. failed' \in [Txs -> BOOLEAN]  BY <2>12 DEF StickyClose
      <3>2. Owned'  BY <2>12 DEF StickyClose
      <3>3. TxTypeOK'  BY <2>12, <3>1 DEF StickyClose
      <3> QED BY <2>12, <3>1, <3>2, <3>3 DEF StickyClose
    <2> QED BY <1>2, <2>1, <2>2, <2>3, <2>4, <2>5, <2>6, <2>7, <2>8, <2>9, <2>10, <2>11, <2>12
            DEF TxStep
  <1> QED BY <1>1, <1>2 DEF TxNext

\* A connection that goes back to the pool carries no WATCH, whichever command
\* failed and however often it was retried.
THEOREM IdleUnwatchedAlways == TxSpec => []IdleUnwatched
  <1>1. WatchInv => IdleUnwatched
    BY TxAssumption, ConnsAssumption DEF WatchInv, TxTypeOK, Funs, Owned, IdleUnwatched
  <1> QED BY <1>1, InitWatch, WatchStep, PTL DEF TxSpec

-----------------------------------------------------------------------------
(* Without retries.                                                        *)

(***************************************************************************)
(* From GET to EXEC a goroutine keeps the connection its WATCH was sent    *)
(* on, and what it has read is the counter's value unless the server has   *)
(* noted a write.  A retried command breaks the first line: it goes on     *)
(* with a new connection that watches nothing.                             *)
(***************************************************************************)
Snapshot ==
    /\ \A t \in Txs : cmd[t] \in {"get", "exec"} => sticky[t] \in watched
    /\ \A t \in Txs : cmd[t] = "exec" /\ sticky[t] \notin dirty => n[t] = val

LEMMA SnapshotStep ==
    ASSUME MaxRetries = 0, WatchInv, Snapshot, [TxNext]_txVars
    PROVE  /\ Snapshot'
           /\ \/ val' = val /\ done' = done
              \/ val' = val + 1 /\ (done' = done \/ done' = done + 1)
  <1> USE TxAssumption, ConnsAssumption
          DEF WatchInv, TxTypeOK, Funs, Owned, Points, NextCmd, Snapshot
  <1> DEFINE Counted == \/ val' = val /\ done' = done
                        \/ val' = val + 1 /\ (done' = done \/ done' = done + 1)
  <1>1. CASE UNCHANGED txVars  BY <1>1 DEF txVars
  <1>2. ASSUME NEW t \in Txs, Begin(t) \/ TxStep(t) PROVE Snapshot' /\ Counted
    <2>1. CASE Begin(t)           BY <2>1 DEF Begin
    <2>2. CASE StickyGet(t)       BY <2>2 DEF StickyGet
    <2>3. CASE StickyGetFails(t)  BY <2>3 DEF StickyGetFails, RetryOrFail, AfterError
    <2>4. CASE CmdBreaks(t)       BY <2>4 DEF CmdBreaks, StickyRemove, RetryOrFail, AfterError
    <2>5. CASE CmdRefused(t)      BY <2>5 DEF CmdRefused
    <2>6. CASE Watch(t)           BY <2>6 DEF Watch
    <2>7. CASE Get(t)             BY <2>7 DEF Get
    <2>8. CASE Exec(t)            BY <2>8 DEF Exec, ServerExec
    <2>9. CASE ExecNotWritten(t)
      BY <2>9 DEF ExecNotWritten, StickyRemove, RetryOrFail, AfterError
    <2>10. CASE ExecReplyLost(t)  BY <2>10 DEF ExecReplyLost, ServerExec
    <2>11. CASE Unwatch(t)        BY <2>11 DEF Unwatch
    <2>12. CASE StickyClose(t)    BY <2>12 DEF StickyClose
    <2> QED BY <1>2, <2>1, <2>2, <2>3, <2>4, <2>5, <2>6, <2>7, <2>8, <2>9, <2>10, <2>11, <2>12
            DEF TxStep
  <1> QED BY <1>1, <1>2 DEF TxNext

\* With MaxRetries = 0, the client's default, WATCH is the check-and-set it is
\* documented to be: no increment reported as successful is lost, for any
\* number of goroutines and whatever connection breaks.
THEOREM IncrementsKeptWithoutRetries ==
    ASSUME MaxRetries = 0
    PROVE  TxSpec => []IncrementsKept
  <1>1. TxInit => Snapshot /\ IncrementsKept
    BY DEF TxInit, Snapshot, IncrementsKept
  <1>2. WatchInv /\ Snapshot /\ IncrementsKept /\ [TxNext]_txVars => Snapshot' /\ IncrementsKept'
    <2> SUFFICES ASSUME WatchInv, Snapshot, IncrementsKept, [TxNext]_txVars
                 PROVE  Snapshot' /\ IncrementsKept'
      OBVIOUS
    <2> QED BY SnapshotStep DEF IncrementsKept, WatchInv, TxTypeOK
  <1> QED BY <1>1, <1>2, InitWatch, WatchStep, PTL DEF TxSpec

\* Under the same assumption every write of the counter is made by an EXEC whose
\* GET saw the value it replaces.
THEOREM CheckAndSetWithoutRetries ==
    ASSUME MaxRetries = 0
    PROVE  TxSpec => CheckAndSet
  <1>1. TxInit => Snapshot
    BY DEF TxInit, Snapshot
  <1>2. WatchInv /\ Snapshot /\ [TxNext]_txVars
          => Snapshot' /\ [val' # val => val' = val + 1]_txVars
    BY SnapshotStep
  <1> QED BY <1>1, <1>2, InitWatch, WatchStep, PTL DEF TxSpec, CheckAndSet
=============================================================================
