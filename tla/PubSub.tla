------------------------------- MODULE PubSub -------------------------------
(***************************************************************************)
(* PubSub (pubsub.go): a connection made on demand and re-made after it    *)
(* broke, the set of subscriptions that is replayed on every new one, the  *)
(* goroutine behind Channel, and Close.                                    *)
(*                                                                         *)
(* Subscribe, Unsubscribe and Close hold c.mu from beginning to end and    *)
(* are one step each.  Receiving and Ping hold it only to fetch and to     *)
(* release the connection, so the connection they use may be replaced      *)
(* while they read or write.  The server is external: it knows what a      *)
(* connection is subscribed to and publishes to it.                        *)
(***************************************************************************)
EXTENDS Conns, Naturals, FiniteSets

CONSTANTS
    Channels, Patterns, \* names for Subscribe and for PSubscribe
    User, Recv,         \* the user's goroutine and the one Channel starts
    ChanSize,           \* capacity of c.ch
    MaxInbox,           \* bound on the replies in flight
    MaxBreaks           \* bound on the number of connections that break

ASSUME PubSubAssumption ==
    /\ Channels \cap Patterns = {} /\ User # Recv
    /\ ChanSize \in Nat \ {0} /\ MaxInbox \in Nat \ {0} /\ MaxBreaks \in Nat

VARIABLES
    closed,         \* c.closed
    poolClosed,     \* the client the PubSub belongs to is closed
    cn,             \* c.cn
    channels,       \* c.channels and c.patterns
    wanted,         \* what the calls made so far ask for
    open,           \* connections made and not closed by the PubSub
    broken,         \* those of them that no longer reach the server
    torn,           \* those on which a write has timed out, with a command cut off
    sub,            \* connection -> what the server has it subscribed to
    msgs, notes,    \* connection -> messages to be read; 1 if other replies are
    ch, chClosed,   \* number of messages in c.ch; it has been closed
    errNum,         \* receiveMessage's count of consecutive errors
    pc,             \* where a goroutine is
    using,          \* the connection it has fetched
    outcome,        \* what its read or write on it returned
    breaks

connVars == <<open, broken, torn, sub, msgs, notes, breaks>>
selfVars == <<closed, poolClosed, cn, channels, wanted>>
chanVars == <<ch, chClosed, errNum>>
procVars == <<pc, using, outcome>>
vars == <<connVars, selfVars, chanVars, procVars>>

Procs == {User, Recv}
Names == Channels \cup Patterns
Fresh(c) == c \notin open /\ \A p \in Procs : using[p] # c

Goto(p, at) == pc' = [pc EXCEPT ![p] = at]

Init ==
    /\ closed = FALSE /\ poolClosed = FALSE /\ cn = NoConn
    /\ channels = {} /\ wanted = {}
    /\ open = {} /\ broken = {} /\ torn = {} /\ sub = [c \in Conns |-> {}]
    /\ msgs = [c \in Conns |-> 0] /\ notes = [c \in Conns |-> 0]
    /\ ch = 0 /\ chClosed = FALSE /\ errNum = 0
    /\ pc = [p \in Procs |-> IF p = Recv THEN "conn" ELSE "idle"]
    /\ using = [p \in Procs |-> NoConn]
    /\ outcome = [p \in Procs |-> "none"]
    /\ breaks = 0

-----------------------------------------------------------------------------
(* _conn and _releaseConn.                                                 *)

\* Mutant: the subscriptions are not replayed.
ResubscribeNothing == {}
\* resubscribe: what the server is told on a new connection.
Resubscribe == channels

\* Mutant: the connection is not closed when resubscribe fails.
ConnFailsOpen ==
    /\ ~closed /\ cn = NoConn
    /\ \E c \in Conns : Fresh(c) /\ open' = open \cup {c} /\ broken' = broken \cup {c}
    /\ UNCHANGED <<torn, sub, msgs, notes, breaks>>

\* newConn fails, or resubscribe does and the connection is closed again.
ConnFails ==
    /\ ~closed /\ cn = NoConn
    /\ UNCHANGED connVars

\* newConn succeeds and so does resubscribe; the server goes on to have the
\* connection subscribed to S.
Made(c, S) ==
    /\ cn = NoConn /\ ~poolClosed /\ Fresh(c)
    /\ cn' = c /\ open' = open \cup {c} /\ broken' = broken \ {c}
    /\ sub' = [sub EXCEPT ![c] = S]
    /\ msgs' = [msgs EXCEPT ![c] = 0]

\* c is the connection _conn returns: the current one, or a new one on which
\* the subscriptions have been replayed.
Conn(c) ==
    /\ ~closed
    /\ \/ c = cn /\ UNCHANGED <<cn, connVars>>
       \/ /\ Made(c, Resubscribe) /\ torn' = torn \ {c}
          /\ notes' = [notes EXCEPT ![c] = IF channels = {} THEN 0 ELSE 1]
          /\ UNCHANGED breaks

\* closeTheCn: nothing more is known of a connection that is closed.
Closing(c) ==
    /\ open' = open \ {c} /\ broken' = broken \ {c} /\ torn' = torn \ {c}
    /\ sub' = [x \in Conns |-> IF x = c THEN {} ELSE sub[x]]
    /\ cn' = NoConn

\* What it leaves alone when there is nothing to close.
Keeping == UNCHANGED <<open, broken, torn, sub, cn>>

\* Mutant: the connection in place is closed, whichever failed.
ReleaseConnAny(c, o) ==
    IF o = "bad" /\ cn # NoConn
      THEN Closing(cn)
      ELSE Keeping

\* Mutant: the broken connection stays.
ReleaseConnNever(c, o) == Keeping

\* _releaseConn: a bad connection is closed if it is still the current one; a
\* timeout does not make it bad.
ReleaseConn(c, o) ==
    IF c = cn /\ o = "bad"
      THEN Closing(c)
      ELSE Keeping

-----------------------------------------------------------------------------
(* Subscribe, Unsubscribe and their pattern forms: S are the names given,  *)
(* T all the names of their sort, add tells which of the two it is.        *)

\* Names after the command, as the server understands it: an UNSUBSCRIBE
\* without names is from all of them.
Apply(old, S, T, add) == IF add THEN old \cup S ELSE IF S = {} THEN old \ T ELSE old \ S

\* The maps follow the names given, whether or not the command was written.
Record(S, add) == IF add THEN channels \cup S ELSE channels \ S

\* There is no connection to be had.
NoConnToHave == (closed /\ UNCHANGED connVars) \/ ConnFails

SubscribeFails(S, T, add) ==
    /\ pc[User] = "idle"
    /\ NoConnToHave
    /\ channels' = Record(S, add) /\ wanted' = Apply(wanted, S, T, add)
    /\ UNCHANGED <<closed, poolClosed, cn, chanVars, procVars>>

\* A write to a broken connection may still seem to succeed.
SubscribeBroken(S, T, add) ==
    /\ pc[User] = "idle" /\ ~closed /\ cn \in broken
    /\ \E o \in {"ok", "timeout", "bad"} : ReleaseConn(cn, o)
    /\ channels' = Record(S, add) /\ wanted' = Apply(wanted, S, T, add)
    /\ UNCHANGED <<closed, poolClosed, msgs, notes, breaks, chanVars, procVars>>

\* The write times out: the connection stays, with the command cut off.
SubscribeTimesOut(S, T, add) ==
    /\ pc[User] = "idle" /\ ~closed
    /\ \E c \in Conns :
         /\ \/ c = cn /\ c \notin broken /\ UNCHANGED <<cn, open, broken, sub, msgs, notes>>
            \/ Made(c, Resubscribe) /\ notes' = [notes EXCEPT ![c] = 1]
         /\ torn' = torn \cup {c}
    /\ channels' = Record(S, add) /\ wanted' = Apply(wanted, S, T, add)
    /\ UNCHANGED <<closed, poolClosed, breaks, chanVars, procVars>>

SubscribeWritten(S, T, add) ==
    /\ pc[User] = "idle" /\ ~closed
    /\ \E c \in Conns :
         /\ \/ /\ c = cn /\ c \notin broken /\ UNCHANGED <<cn, open, broken, torn, msgs>>
               /\ sub' = IF c \in torn THEN sub ELSE [sub EXCEPT ![c] = Apply(@, S, T, add)]
            \/ Made(c, Apply(Resubscribe, S, T, add)) /\ torn' = torn \ {c}
         /\ notes' = [notes EXCEPT ![c] = 1]
    /\ channels' = Record(S, add) /\ wanted' = Apply(wanted, S, T, add)
    /\ UNCHANGED <<closed, poolClosed, breaks, chanVars, procVars>>

Subscribe(S, T, add) ==
    \/ SubscribeFails(S, T, add) \/ SubscribeBroken(S, T, add)
    \/ SubscribeTimesOut(S, T, add) \/ SubscribeWritten(S, T, add)

Close ==
    /\ pc[User] = "idle" /\ ~closed
    /\ closed' = TRUE
    /\ Closing(cn)
    /\ UNCHANGED <<poolClosed, channels, wanted, msgs, notes, breaks, chanVars, procVars>>

-----------------------------------------------------------------------------
(* Ping, by the user or by receiveMessage after a timeout.                 *)

\* Where a goroutine goes on after Ping.
PingEnds(p) == Goto(p, IF p = Recv THEN "conn" ELSE "idle")

PingConn(p) ==
    /\ pc[p] = IF p = Recv THEN "pconn" ELSE "idle"
    /\ \/ /\ \E c \in Conns : Conn(c) /\ using' = [using EXCEPT ![p] = c]
          /\ Goto(p, "pwrite")
       \/ /\ NoConnToHave
          /\ PingEnds(p) /\ UNCHANGED <<cn, using>>
    /\ UNCHANGED <<closed, poolClosed, channels, wanted, chanVars, outcome>>

\* The write may fail for a connection that is broken or was closed meanwhile.
PingWrite(p) ==
    LET c == using[p]
        dead == c \in broken \/ c \notin open
    IN
    /\ pc[p] = "pwrite"
    /\ \/ /\ ~dead /\ outcome' = [outcome EXCEPT ![p] = "ok"]
          /\ notes' = [notes EXCEPT ![c] = 1] /\ UNCHANGED torn
       \/ /\ ~dead /\ outcome' = [outcome EXCEPT ![p] = "timeout"]
          /\ torn' = torn \cup {c} /\ UNCHANGED notes
       \/ /\ dead /\ UNCHANGED <<torn, notes>>
          /\ \E o \in {"ok", "bad"} : outcome' = [outcome EXCEPT ![p] = o]
    /\ Goto(p, "prelease")
    /\ UNCHANGED <<selfVars, open, broken, sub, msgs, breaks, chanVars, using>>

PingRelease(p) ==
    /\ pc[p] = "prelease"
    /\ ReleaseConn(using[p], outcome[p])
    /\ using' = [using EXCEPT ![p] = NoConn] /\ outcome' = [outcome EXCEPT ![p] = "none"]
    /\ PingEnds(p)
    /\ UNCHANGED <<closed, poolClosed, channels, wanted, msgs, notes, breaks, chanVars>>

-----------------------------------------------------------------------------
(* receiveMessage, in the goroutine that Channel starts.                   *)

ErrNum == IF errNum < 3 THEN errNum + 1 ELSE errNum

\* Ping after a timeout; from the third error in a row on, a pause instead.
AfterNetError(o) == Goto(Recv, IF o = "timeout" /\ ErrNum < 3 THEN "pconn" ELSE "conn")

RecvConn ==
    /\ pc[Recv] = "conn"
    /\ \E c \in Conns : Conn(c) /\ using' = [using EXCEPT ![Recv] = c]
    /\ Goto(Recv, "read")
    /\ UNCHANGED <<closed, poolClosed, channels, wanted, chanVars, outcome>>

\* newConn or resubscribe fails with a network error.
RecvConnFails ==
    /\ pc[Recv] = "conn" /\ ~poolClosed
    /\ ConnFails
    /\ errNum' = ErrNum
    /\ \E o \in {"timeout", "bad"} : AfterNetError(o)
    /\ UNCHANGED <<selfVars, ch, chClosed, using, outcome>>

\* Mutant: the loop of Channel goes on after any error.
RecvClosedIgnored ==
    /\ pc[Recv] = "conn" /\ (closed \/ (cn = NoConn /\ poolClosed))
    /\ errNum' = 0
    /\ UNCHANGED <<connVars, selfVars, ch, chClosed, procVars>>

\* ErrClosed, of the PubSub or of its client, ends the loop of Channel.
RecvClosed ==
    /\ pc[Recv] = "conn" /\ (closed \/ (cn = NoConn /\ poolClosed))
    /\ chClosed' = TRUE
    /\ Goto(Recv, "ended")
    /\ UNCHANGED <<connVars, selfVars, ch, errNum, using, outcome>>

\* readReply: a message, another reply (ignored, or turned into an error after
\* which Channel calls ReceiveMessage again), a timeout, or a broken connection.  Replies
\* already in the reader's buffer survive the connection's end.
RecvRead(o) ==
    LET c == using[Recv] IN
    /\ pc[Recv] = "read"
    /\ \/ o = "msg" /\ msgs[c] > 0
          /\ msgs' = [msgs EXCEPT ![c] = @ - 1] /\ UNCHANGED notes
       \/ o = "note" /\ notes[c] > 0
          /\ notes' = [notes EXCEPT ![c] = 0] /\ UNCHANGED msgs
       \/ o = "timeout" /\ c \in open /\ UNCHANGED <<msgs, notes>>
       \/ o = "bad" /\ (c \in broken \/ c \notin open) /\ UNCHANGED <<msgs, notes>>
    /\ outcome' = [outcome EXCEPT ![Recv] = o]
    /\ Goto(Recv, "release")
    /\ UNCHANGED <<selfVars, open, broken, torn, sub, breaks, chanVars, using>>

RecvRelease ==
    LET o == outcome[Recv] IN
    /\ pc[Recv] = "release"
    /\ ReleaseConn(using[Recv], o)
    /\ using' = [using EXCEPT ![Recv] = NoConn] /\ outcome' = [outcome EXCEPT ![Recv] = "none"]
    /\ \/ o \in {"timeout", "bad"} /\ errNum' = ErrNum /\ AfterNetError(o)
       \/ o = "note" /\ errNum' = 0 /\ Goto(Recv, "conn")
       \/ o = "msg" /\ errNum' = 0 /\ Goto(Recv, "send")
    /\ UNCHANGED <<closed, poolClosed, channels, wanted, msgs, notes, breaks, ch, chClosed>>

RecvSend ==
    /\ pc[Recv] = "send" /\ ch < ChanSize
    /\ ch' = ch + 1
    /\ Goto(Recv, "conn")
    /\ UNCHANGED <<connVars, selfVars, chClosed, errNum, using, outcome>>

\* The reader of c.ch.
Consume ==
    /\ ch > 0
    /\ ch' = ch - 1
    /\ UNCHANGED <<connVars, selfVars, chClosed, errNum, procVars>>

-----------------------------------------------------------------------------
(* The server and the network (external), and the client's Close.          *)

Publish(c, n) ==
    /\ c \in open \ broken /\ n \in sub[c] /\ msgs[c] < MaxInbox
    /\ msgs' = [msgs EXCEPT ![c] = @ + 1]
    /\ UNCHANGED <<open, broken, torn, sub, notes, breaks, selfVars, chanVars, procVars>>

Break(c) ==
    /\ c \in open \ broken /\ breaks < MaxBreaks
    /\ broken' = broken \cup {c}
    /\ breaks' = breaks + 1
    /\ UNCHANGED <<open, torn, sub, msgs, notes, selfVars, chanVars, procVars>>

\* The pool closes the PubSub's connection under it and makes no other.
ClientClose ==
    /\ ~poolClosed
    /\ poolClosed' = TRUE
    /\ broken' = broken \cup open
    /\ UNCHANGED <<closed, cn, channels, wanted, open, torn, sub, msgs, notes, breaks, chanVars, procVars>>

-----------------------------------------------------------------------------
PingStep(p) == PingConn(p) \/ PingWrite(p) \/ PingRelease(p)

RecvStep ==
    \/ RecvConn \/ RecvConnFails \/ RecvClosed \/ RecvRelease \/ RecvSend \/ PingStep(Recv)
    \/ \E o \in {"msg", "note", "timeout", "bad"} : RecvRead(o)

Next ==
    \/ \E T \in {Channels, Patterns} : \E S \in SUBSET T :
         \/ S # {} /\ Subscribe(S, T, TRUE)
         \/ Subscribe(S, T, FALSE)
    \/ Close \/ PingStep(User)
    \/ RecvStep \/ Consume
    \/ \E c \in Conns : Break(c) \/ \E n \in Names : Publish(c, n)
    \/ ClientClose

Spec == Init /\ [][Next]_vars

-----------------------------------------------------------------------------
(* Properties.                                                             *)

\* Type invariant: the fields of PubSub, and where its goroutines are.
TypeOK ==
    /\ {closed, poolClosed, chClosed} \subseteq BOOLEAN
    /\ cn \in Conns \cup {NoConn} /\ channels \subseteq Names /\ wanted \subseteq Names
    /\ open \subseteq Conns /\ broken \subseteq Conns /\ torn \subseteq Conns
    /\ sub \in [Conns -> SUBSET Names]
    /\ msgs \in [Conns -> 0 .. MaxInbox] /\ notes \in [Conns -> 0 .. 1]
    /\ ch \in 0 .. ChanSize /\ errNum \in 0 .. 3 /\ breaks \in 0 .. MaxBreaks
    /\ pc \in [Procs -> {"idle", "conn", "read", "release", "send", "ended", "pconn", "pwrite",
                         "prelease"}]
    /\ using \in [Procs -> Conns \cup {NoConn}]
    /\ outcome \in [Procs -> {"none", "ok", "bad", "msg", "note", "timeout"}]

\* No connection is lost: whichever goroutine made it and whatever failed
\* then, a connection that has not been closed is the current one.
OneConn == open \subseteq {cn}

\* The current connection, while it reaches the server and no write on it has
\* timed out, is subscribed to everything the calls made so far ask for, and to
\* nothing the PubSub would not replay.
Subscribed ==
    cn # NoConn /\ cn \notin broken \cup torn => wanted \subseteq sub[cn] /\ sub[cn] \subseteq channels

\* A goroutine that failed on an old connection never closes the new one that
\* another has made meanwhile: only Close closes a connection that works.
HealthyKept == [][\A c \in open \ open' : c \in broken \/ closed']_vars

-----------------------------------------------------------------------------
(* Liveness.  The goroutine of Channel runs, its channel is read, a broken *)
(* connection is reported in the end, and so does a dial succeed.          *)

FairSpec ==
    /\ Spec
    /\ WF_vars(RecvStep) /\ WF_vars(Consume)
    /\ SF_vars(RecvRead("bad")) /\ SF_vars(RecvConn)

\* "The channel is closed with PubSub."
ChannelCloses == closed ~> chClosed

\* "PubSub automatically resubscribes to the channels and patterns when Redis
\* becomes unavailable."
Resubscribes ==
    \A n \in Names :
        n \in wanted ~> \/ n \notin wanted \/ closed \/ poolClosed \/ cn \in torn
                         \/ (cn \in Conns \ broken /\ n \in sub[cn])
=============================================================================
