------------------------------ MODULE ConnPool ------------------------------
(***************************************************************************)
(* The connection pool of the Redis client (internal/pool/pool.go): a      *)
(* counting semaphore (the queue channel), the registry of every           *)
(* connection (conns), the stack of idle ones (freeConns), the dial-error  *)
(* breaker with its tryDial goroutine, the reaper goroutine and Close.     *)
(*                                                                         *)
(* A step is what runs between two synchronisation points: one critical    *)
(* section of connsMu or freeConnsMu, one channel operation, one atomic    *)
(* access, or one network call.  The only section longer than a step is    *)
(* the reaper's, which closes a connection while it holds freeConnsMu;     *)
(* freeMu records that.                                                    *)
(***************************************************************************)
EXTENDS Naturals, Sequences, FiniteSets

CONSTANTS
    Users,      \* goroutines that call Get/Put/Remove or NewConn/CloseConn
    Reaper,     \* the goroutine that runs (*ConnPool).reaper
    Conns,      \* identities of network connections
    NoConn,     \* a nil *Conn
    PoolSize    \* Options.PoolSize

ASSUME UsersAssumption    == IsFiniteSet(Users) /\ Reaper \notin Users
ASSUME ConnsAssumption    == NoConn \notin Conns
ASSUME PoolSizeAssumption == PoolSize \in Nat \ {0}

VARIABLES
    queue,          \* number of elements in the channel p.queue
    conns,          \* p.conns, as a set: its order is never used
    freeConns,      \* p.freeConns: popped at the end, reaped at the front
    freeMu,         \* TRUE while the reaper holds p.freeConnsMu
    closed,         \* p._closed
    closer,         \* progress of the one Close call that wins the swap
    dialErrorsNum,  \* p.dialErrorsNum
    lastDialError,  \* TRUE once p.lastDialError is not nil
    tryDial,        \* how many tryDial goroutines are at each of its points
    pc,             \* where each goroutine is
    op,             \* which operation it is in: decides where it returns to
    cn,             \* the connection it has in hand
    open,           \* connections whose socket is open
    stale           \* connections idle for longer than IdleTimeout

semVars  == queue
listVars == <<conns, freeConns, freeMu>>
endVars  == <<closed, closer>>
dialVars == <<dialErrorsNum, lastDialError, tryDial>>
procVars == <<pc, op, cn>>
netVars  == <<open, stale>>
vars == <<semVars, listVars, endVars, dialVars, procVars, netVars>>

Procs == Users \cup {Reaper}

\* Points at which a goroutine has a connection in hand.
HoldingPoints == {"check", "append", "using", "unlink", "close", "trim"}
\* Points before the queue is sent to and after it is received from.
OutsidePoints == {"idle", "enqueue", "wait", "stopped"}
Points == OutsidePoints \cup HoldingPoints
            \cup {"pop", "new", "dial", "dialErr", "peek", "release"}

\* "get" and "remove" are (*ConnPool).Get and Remove; "bare" is a
\* NewConn/CloseConn pair outside the queue (PubSub); "reap" is the reaper.
Ops == {"get", "remove", "bare", "reap"}

Elems(s) == {s[i] : i \in DOMAIN s}

\* p has sent on the queue and has not received from it yet.
HoldsToken(p) == pc[p] \notin OutsidePoints /\ op[p] # "bare"
TokenHolders  == {p \in Procs : HoldsToken(p)}

\* An identity that nothing refers to: the next dial may be given it.
Fresh(c) ==
    /\ c \notin open \cup conns \cup Elems(freeConns)
    /\ \A p \in Procs : cn[p] # c

Goto(p, at) == pc' = [pc EXCEPT ![p] = at]

-----------------------------------------------------------------------------
Init ==
    /\ queue = 0
    /\ conns = {} /\ freeConns = <<>> /\ freeMu = FALSE
    /\ closed = FALSE /\ closer = "none"
    /\ dialErrorsNum = 0 /\ lastDialError = FALSE
    /\ tryDial = [at \in {"check", "dial", "reset"} |-> 0]
    /\ pc = [p \in Procs |-> "idle"]
    /\ op = [p \in Procs |-> IF p = Reaper THEN "reap" ELSE "get"]
    /\ cn = [p \in Procs |-> NoConn]
    /\ open = {} /\ stale = {}

-----------------------------------------------------------------------------
(* Get.  A Get that finds the pool closed returns ErrClosed and changes    *)
(* nothing.                                                                *)

GetStart(u) ==
    /\ pc[u] = "idle" /\ ~closed
    /\ Goto(u, "enqueue")
    /\ op' = [op EXCEPT ![u] = "get"]
    /\ UNCHANGED <<semVars, listVars, endVars, dialVars, cn, netVars>>

\* Mutant: the send does not wait for room in the channel.
EnqueueAlways(u) ==
    /\ pc[u] \in {"enqueue", "wait"}
    /\ queue' = queue + 1
    /\ Goto(u, "pop")
    /\ UNCHANGED <<listVars, endVars, dialVars, op, cn, netVars>>

\* The two selects on the queue: the first gives up at once when the channel
\* is full, the second waits for room or for the timer.
Enqueue(u) ==
    /\ pc[u] \in {"enqueue", "wait"}
    /\ queue < PoolSize
    /\ queue' = queue + 1
    /\ Goto(u, "pop")
    /\ UNCHANGED <<listVars, endVars, dialVars, op, cn, netVars>>

EnqueueFull(u) ==
    /\ pc[u] = "enqueue"
    /\ queue = PoolSize
    /\ Goto(u, "wait")
    /\ UNCHANGED <<semVars, listVars, endVars, dialVars, op, cn, netVars>>

\* ErrPoolTimeout; the select may pick the timer although there is room.
PoolTimeout(u) ==
    /\ pc[u] = "wait"
    /\ Goto(u, "idle")
    /\ UNCHANGED <<semVars, listVars, endVars, dialVars, op, cn, netVars>>

\* Mutant: the popped connection stays in the slice.
PopFreeKeeps(u) ==
    /\ pc[u] = "pop" /\ ~freeMu
    /\ \/ freeConns = <<>> /\ Goto(u, "new") /\ UNCHANGED cn
       \/ /\ freeConns # <<>>
          /\ Goto(u, "check")
          /\ cn' = [cn EXCEPT ![u] = freeConns[Len(freeConns)]]
    /\ UNCHANGED <<semVars, listVars, endVars, dialVars, op, netVars>>

\* Mutant: a stale connection on top is left there and a new one is dialed.
PopFreeSkipsStale(u) ==
    /\ pc[u] = "pop" /\ ~freeMu
    /\ freeConns # <<>> => freeConns[Len(freeConns)] \in stale
    /\ Goto(u, "new")
    /\ UNCHANGED <<semVars, listVars, endVars, dialVars, op, cn, netVars>>

PopFree(u) ==
    /\ pc[u] = "pop" /\ ~freeMu
    /\ \/ /\ freeConns = <<>>
          /\ Goto(u, "new")
          /\ UNCHANGED <<freeConns, cn>>
       \/ /\ freeConns # <<>>
          /\ Goto(u, "check")
          /\ cn' = [cn EXCEPT ![u] = freeConns[Len(freeConns)]]
          /\ freeConns' = SubSeq(freeConns, 1, Len(freeConns) - 1)
    /\ UNCHANGED <<semVars, conns, freeMu, endVars, dialVars, op, netVars>>

\* Mutant: a stale connection goes back to the list instead of being closed.
CheckStaleRequeues(u) ==
    /\ pc[u] = "check"
    /\ IF cn[u] \in stale
         THEN /\ Goto(u, "pop")
              /\ freeConns' = Append(freeConns, cn[u])
              /\ cn' = [cn EXCEPT ![u] = NoConn]
         ELSE Goto(u, "using") /\ UNCHANGED <<freeConns, cn>>
    /\ UNCHANGED <<semVars, conns, freeMu, endVars, dialVars, op, netVars>>

\* IsStale sends the connection to CloseConn, and Get back to the pop.
CheckStale(u) ==
    /\ pc[u] = "check"
    /\ Goto(u, IF cn[u] \in stale THEN "unlink" ELSE "using")
    /\ UNCHANGED <<semVars, listVars, endVars, dialVars, op, cn, netVars>>

-----------------------------------------------------------------------------
(* NewConn, from Get (op "get") or for a PubSub (op "bare").               *)

NewConnStart(u) ==
    /\ pc[u] = "idle"
    /\ Goto(u, "new")
    /\ op' = [op EXCEPT ![u] = "bare"]
    /\ UNCHANGED <<semVars, listVars, endVars, dialVars, cn, netVars>>

\* Mutant: a Get whose dial fails forgets to receive from the queue.
NewConnFailsHoldsQueue(u) == Goto(u, "idle")

\* A failed NewConn: Get still has to receive from the queue.
NewConnFails(u) == Goto(u, IF op[u] = "bare" THEN "idle" ELSE "release")

NewConnCheck(u) ==
    /\ pc[u] = "new"
    /\ IF closed \/ dialErrorsNum >= PoolSize
         THEN NewConnFails(u)
         ELSE Goto(u, "dial")
    /\ UNCHANGED <<semVars, listVars, endVars, dialVars, op, cn, netVars>>

DialOk(u) ==
    /\ pc[u] = "dial"
    /\ \E c \in Conns :
         /\ Fresh(c)
         /\ open' = open \cup {c}
         /\ cn' = [cn EXCEPT ![u] = c]
    /\ Goto(u, "append")
    /\ UNCHANGED <<semVars, listVars, endVars, dialVars, op, stale>>

\* Mutant: the error is not recorded.
DialErrorForgotten(u) ==
    /\ pc[u] = "dial"
    /\ Goto(u, "dialErr")
    /\ UNCHANGED <<semVars, listVars, endVars, dialVars, op, cn, netVars>>

\* Dialer() fails and setLastDialError runs.
DialError(u) ==
    /\ pc[u] = "dial"
    /\ lastDialError' = TRUE
    /\ Goto(u, "dialErr")
    /\ UNCHANGED <<semVars, listVars, endVars, dialErrorsNum, tryDial, op, cn, netVars>>

\* Mutant: every failure past the threshold starts a tryDial.
CountDialErrorAtLeast(u) ==
    /\ pc[u] = "dialErr"
    /\ dialErrorsNum' = dialErrorsNum + 1
    /\ tryDial' = IF dialErrorsNum + 1 >= PoolSize
                    THEN [tryDial EXCEPT !["check"] = @ + 1]
                    ELSE tryDial
    /\ NewConnFails(u)
    /\ UNCHANGED <<semVars, listVars, endVars, lastDialError, op, cn, netVars>>

\* The goroutine whose increment reaches PoolSize starts tryDial.
CountDialError(u) ==
    /\ pc[u] = "dialErr"
    /\ dialErrorsNum' = dialErrorsNum + 1
    /\ tryDial' = IF dialErrorsNum + 1 = PoolSize
                    THEN [tryDial EXCEPT !["check"] = @ + 1]
                    ELSE tryDial
    /\ NewConnFails(u)
    /\ UNCHANGED <<semVars, listVars, endVars, lastDialError, op, cn, netVars>>

\* Mutant: the new connection is not registered.
AppendConnSkipped(u) ==
    /\ pc[u] = "append"
    /\ Goto(u, "using")
    /\ UNCHANGED <<semVars, listVars, endVars, dialVars, op, cn, netVars>>

AppendConn(u) ==
    /\ pc[u] = "append"
    /\ conns' = conns \cup {cn[u]}
    /\ Goto(u, "using")
    /\ UNCHANGED <<semVars, freeConns, freeMu, endVars, dialVars, op, cn, netVars>>

-----------------------------------------------------------------------------
(* tryDial, started once the breaker trips; the counts of tryDial say how  *)
(* many such goroutines are about to test p.closed(), are dialing, or are  *)
(* about to reset dialErrorsNum.                                           *)

Move(from, to) == tryDial' = [tryDial EXCEPT ![from] = @ - 1, ![to] = @ + 1]

TryDialCheck ==
    /\ tryDial["check"] > 0
    /\ IF closed
         THEN tryDial' = [tryDial EXCEPT !["check"] = @ - 1]
         ELSE Move("check", "dial")
    /\ UNCHANGED <<semVars, listVars, endVars, dialErrorsNum, lastDialError,
                   procVars, netVars>>

\* setLastDialError, a second's sleep, and round the loop.
TryDialError ==
    /\ tryDial["dial"] > 0
    /\ lastDialError' = TRUE
    /\ Move("dial", "check")
    /\ UNCHANGED <<semVars, listVars, endVars, dialErrorsNum, procVars, netVars>>

TryDialOk ==
    /\ tryDial["dial"] > 0
    /\ Move("dial", "reset")
    /\ UNCHANGED <<semVars, listVars, endVars, dialErrorsNum, lastDialError,
                   procVars, netVars>>

\* Mutant: the goroutine ends without resetting the counter.
TryDialResetForgotten ==
    /\ tryDial["reset"] > 0
    /\ tryDial' = [tryDial EXCEPT !["reset"] = @ - 1]
    /\ UNCHANGED <<semVars, listVars, endVars, dialErrorsNum, lastDialError,
                   procVars, netVars>>

\* The probe connection never enters the pool and is closed here.
TryDialReset ==
    /\ tryDial["reset"] > 0
    /\ dialErrorsNum' = 0
    /\ tryDial' = [tryDial EXCEPT !["reset"] = @ - 1]
    /\ UNCHANGED <<semVars, listVars, endVars, lastDialError, procVars, netVars>>

-----------------------------------------------------------------------------
(* Put, Remove and CloseConn.                                              *)

PutFree(u) ==
    /\ pc[u] = "using" /\ op[u] = "get" /\ ~freeMu
    /\ freeConns' = Append(freeConns, cn[u])
    /\ cn' = [cn EXCEPT ![u] = NoConn]
    /\ Goto(u, "release")
    /\ UNCHANGED <<semVars, conns, freeMu, endVars, dialVars, op, netVars>>

\* Remove, which Put also calls for a connection with unread data, and the
\* CloseConn of a PubSub.
DropConn(u) ==
    /\ pc[u] = "using"
    /\ Goto(u, "unlink")
    /\ op' = [op EXCEPT ![u] = IF @ = "get" THEN "remove" ELSE @]
    /\ UNCHANGED <<semVars, listVars, endVars, dialVars, cn, netVars>>

\* CloseConn, for every caller: leave p.conns, then close the socket.
Unlink(p) ==
    /\ pc[p] = "unlink"
    /\ conns' = conns \ {cn[p]}
    /\ Goto(p, "close")
    /\ UNCHANGED <<semVars, freeConns, freeMu, endVars, dialVars, op, cn, netVars>>

AfterClose(p) == IF op[p] = "get" THEN "pop"
                 ELSE IF op[p] = "remove" THEN "release"
                 ELSE IF op[p] = "bare" THEN "idle" ELSE "trim"

CloseNetConn(p) ==
    /\ pc[p] = "close"
    /\ open' = open \ {cn[p]} /\ stale' = stale \ {cn[p]}
    /\ Goto(p, AfterClose(p))
    /\ cn' = IF op[p] = "reap" THEN cn ELSE [cn EXCEPT ![p] = NoConn]
    /\ UNCHANGED <<semVars, listVars, endVars, dialVars, op>>

\* The receive from p.queue that ends Put, Remove and a failed Get.
Release(u) ==
    /\ pc[u] = "release" /\ u # Reaper
    /\ queue > 0
    /\ queue' = queue - 1
    /\ Goto(u, "idle")
    /\ UNCHANGED <<listVars, endVars, dialVars, op, cn, netVars>>

-----------------------------------------------------------------------------
(* The reaper goroutine: one tick, and ReapStaleConns, which takes a queue *)
(* element for each stale connection it removes from the front.            *)

\* Mutant: the reaper does not look at p.closed().
ReapTickBlind ==
    /\ pc[Reaper] = "idle"
    /\ Goto(Reaper, "enqueue")
    /\ UNCHANGED <<semVars, listVars, endVars, dialVars, op, cn, netVars>>

ReapTick ==
    /\ pc[Reaper] = "idle"
    /\ Goto(Reaper, IF closed THEN "stopped" ELSE "enqueue")
    /\ UNCHANGED <<semVars, listVars, endVars, dialVars, op, cn, netVars>>

ReapEnqueue ==
    /\ pc[Reaper] = "enqueue"
    /\ queue < PoolSize
    /\ queue' = queue + 1
    /\ Goto(Reaper, "peek")
    /\ UNCHANGED <<listVars, endVars, dialVars, op, cn, netVars>>

\* reapStaleConn looks at the front only; on a stale one it goes on to
\* CloseConn with freeConnsMu still held.
ReapPeek ==
    /\ pc[Reaper] = "peek"
    /\ IF freeConns # <<>> /\ Head(freeConns) \in stale
         THEN /\ freeMu' = TRUE
              /\ cn' = [cn EXCEPT ![Reaper] = Head(freeConns)]
              /\ Goto(Reaper, "unlink")
         ELSE /\ Goto(Reaper, "release")
              /\ UNCHANGED <<freeMu, cn>>
    /\ UNCHANGED <<semVars, conns, freeConns, endVars, dialVars, op, netVars>>

ReapTrim ==
    /\ pc[Reaper] = "trim"
    /\ freeConns' = Tail(freeConns)
    /\ freeMu' = FALSE
    /\ Goto(Reaper, "release")
    /\ UNCHANGED <<semVars, conns, endVars, dialVars, op, cn, netVars>>

\* A round that reaped something starts another; one that did not ends.
ReapRelease ==
    /\ pc[Reaper] = "release"
    /\ queue > 0
    /\ queue' = queue - 1
    /\ Goto(Reaper, IF cn[Reaper] # NoConn THEN "enqueue" ELSE "idle")
    /\ cn' = [cn EXCEPT ![Reaper] = NoConn]
    /\ UNCHANGED <<listVars, endVars, dialVars, op, netVars>>

-----------------------------------------------------------------------------
(* Close, Filter, and time.                                                *)

CloseSwap ==
    /\ ~closed
    /\ closed' = TRUE /\ closer' = "conns"
    /\ UNCHANGED <<semVars, listVars, dialVars, procVars, netVars>>

CloseConns ==
    /\ closer = "conns"
    /\ open' = open \ conns
    /\ conns' = {}
    /\ closer' = "free"
    /\ UNCHANGED <<semVars, freeConns, freeMu, closed, dialVars, procVars, stale>>

CloseFree ==
    /\ closer = "free" /\ ~freeMu
    /\ freeConns' = <<>> /\ stale' = stale \ Elems(freeConns)
    /\ closer' = "done"
    /\ UNCHANGED <<semVars, conns, freeMu, closed, dialVars, procVars, open>>

\* Filter closes the connections its predicate selects and leaves them in
\* both lists.
Filter(S) ==
    /\ S # {} /\ S \subseteq conns \cap open
    /\ open' = open \ S
    /\ UNCHANGED <<semVars, listVars, endVars, dialVars, procVars, stale>>

\* A connection in use ages too, but the command refreshes usedAt.
IdleTimeoutPasses(c) ==
    /\ c \in Elems(freeConns) \ stale
    /\ stale' = stale \cup {c}
    /\ UNCHANGED <<semVars, listVars, endVars, dialVars, procVars, open>>

-----------------------------------------------------------------------------
UserStep(u) ==
    \/ Enqueue(u) \/ EnqueueFull(u) \/ PoolTimeout(u) \/ PopFree(u) \/ CheckStale(u)
    \/ NewConnCheck(u) \/ DialOk(u) \/ DialError(u) \/ CountDialError(u) \/ AppendConn(u)
    \/ PutFree(u) \/ DropConn(u) \/ Unlink(u) \/ CloseNetConn(u) \/ Release(u)

TryDialStep == TryDialCheck \/ TryDialError \/ TryDialOk \/ TryDialReset

ReaperStep ==
    \/ ReapTick \/ ReapEnqueue \/ ReapPeek \/ ReapTrim \/ ReapRelease
    \/ Unlink(Reaper) \/ CloseNetConn(Reaper)

CloseStep == CloseConns \/ CloseFree

Next ==
    \/ \E u \in Users : GetStart(u) \/ NewConnStart(u) \/ UserStep(u)
    \/ TryDialStep \/ ReaperStep \/ CloseSwap \/ CloseStep
    \/ \E S \in SUBSET Conns : Filter(S)
    \/ \E c \in Conns : IdleTimeoutPasses(c)

Spec == Init /\ [][Next]_vars

-----------------------------------------------------------------------------
(* Properties.                                                             *)

\* Type invariant: every field of ConnPool and every local of its goroutines
\* has the type the code gives it.
TypeOK ==
    /\ queue \in 0..PoolSize
    /\ conns \subseteq Conns /\ freeConns \in Seq(Conns) /\ freeMu \in BOOLEAN
    /\ closed \in BOOLEAN /\ closer \in {"none", "conns", "free", "done"}
    /\ dialErrorsNum \in Nat /\ lastDialError \in BOOLEAN
    /\ tryDial \in [{"check", "dial", "reset"} -> Nat]
    /\ pc \in [Procs -> Points] /\ op \in [Procs -> Ops]
    /\ cn \in [Procs -> Conns \cup {NoConn}]
    /\ open \subseteq Conns /\ stale \subseteq Conns

\* Users that hold, or are about to dial, a connection that counts against
\* PoolSize.
Busy == {u \in Users : HoldsToken(u) /\ pc[u] \notin {"pop", "release"}}

\* The queue holds exactly one element per operation in progress, so the
\* receives of Put, Remove, a failed Get and the reaper never block and never
\* take another goroutine's place.
QueueCountsHolders == queue = Cardinality(TokenHolders)

\* However Get, Put, Remove, the reaper and Close interleave, the connections
\* lent out, being dialed and idle in the pool are never more than PoolSize.
PoolBound == Len(freeConns) + Cardinality(Busy) <= PoolSize

\* A connection is in one place: no two goroutines have it in hand, it is not
\* twice among the idle ones, and a user that has it does not also find it
\* there (two commands would mix their replies on one socket).
NoSharing ==
    /\ \A p, q \in Procs : p # q /\ cn[p] # NoConn => cn[p] # cn[q]
    /\ \A i, j \in DOMAIN freeConns : i # j => freeConns[i] # freeConns[j]
    /\ \A u \in Users : cn[u] \notin Elems(freeConns)

\* Every open socket is accounted for until Close begins: it is registered
\* in p.conns, where Close will find it, or a goroutine is about to register
\* or to close it.
OpenIsOwned ==
    ~closed => \A c \in open :
        c \in conns \/ \E p \in Procs : cn[p] = c /\ pc[p] \in {"append", "close"}

\* While the breaker is tripped and the pool is open there is exactly one
\* tryDial goroutine to close it again, however many dials fail at once.
BreakerHasProber ==
    LET running == tryDial["check"] + tryDial["dial"] + tryDial["reset"]
    IN  /\ running <= 1
        /\ dialErrorsNum >= PoolSize /\ ~closed => running = 1

\* NewConn with the breaker tripped returns getLastDialError(): that error is
\* never nil, or the caller would go on with a nil connection.
TrippedHasError == dialErrorsNum >= PoolSize => lastDialError

\* Once Close has returned and every call has ended, no socket is open
\* ("Close closes the client, releasing any open resources.").
CloseReleasesAll ==
    (closer = "done" /\ \A u \in Users : pc[u] = "idle") => open = {}

\* The connections that Get has returned and that are not given back yet.
Lent == [u \in Users |-> IF pc[u] = "using" /\ op[u] = "get" THEN cn[u] ELSE NoConn]

Lease == INSTANCE ConnLease WITH lent <- Lent

\* To the commands that use it the pool is a ConnLease: whatever the reaper,
\* tryDial, Filter and Close do, a step lends one connection that nobody has,
\* takes one back, or changes nothing they can see.
ImplementsLease == Lease!Spec

-----------------------------------------------------------------------------
(* Liveness.  A goroutine that can run does; a borrowed connection is      *)
(* given back; the server answers a dial now and then.                     *)

Fairness ==
    /\ \A u \in Users : WF_vars(UserStep(u))
    /\ WF_vars(TryDialStep) /\ SF_vars(TryDialOk)
    /\ WF_vars(ReaperStep) /\ WF_vars(CloseStep)

FairSpec == Spec /\ Fairness

\* Close ends the background goroutines: the reaper stops although it may be
\* blocked on a full queue when Close runs, and so does tryDial.
GoroutinesStop ==
    closed ~> (pc[Reaper] = "stopped" /\ \A at \in DOMAIN tryDial : tryDial[at] = 0)

\* A tripped breaker is reset if dialing succeeds again, or the pool closes.
BreakerResets == dialErrorsNum >= PoolSize ~> (dialErrorsNum < PoolSize \/ closed)

\* A Get or NewConn in progress ends: no call waits for ever on the queue, on
\* freeConnsMu or for a connection.  Only the loop of Get can be kept going, by
\* connections that are put back and go stale again before each of its pops.
CallsEnd ==
    <>[][\A c \in Conns : ~IdleTimeoutPasses(c)]_vars
      => \A u \in Users : pc[u] # "idle" ~> pc[u] = "idle"
=============================================================================
