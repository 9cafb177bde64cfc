--------------------------- MODULE ConnPoolProofs ---------------------------
(***************************************************************************)
(* Proofs about the connection pool, for any set of users, any number of   *)
(* connections and any PoolSize.                                           *)
(***************************************************************************)
EXTENDS ConnPool, FiniteSetTheorems, TLAPS

ReaperPoints == {"idle", "enqueue", "peek", "unlink", "close", "trim", "release", "stopped"}

(***************************************************************************)
(* Which operation a goroutine can be in at each point, and what freeMu    *)
(* means.  TypeOK is not inductive without it: ReapTrim takes the tail of  *)
(* freeConns, which is a sequence only because the reaper still holds the  *)
(* lock under which it found the front.                                    *)
(***************************************************************************)
Shape ==
    /\ op[Reaper] = "reap" /\ pc[Reaper] \in ReaperPoints
    /\ \A u \in Users :
         /\ op[u] # "reap" /\ pc[u] \notin {"peek", "trim", "stopped"}
         /\ pc[u] \in {"enqueue", "wait", "pop", "check"} => op[u] = "get"
         /\ pc[u] = "release" => op[u] \in {"get", "remove"}
         /\ pc[u] \in {"new", "dial", "dialErr", "append", "using"} => op[u] \in {"get", "bare"}
    /\ freeMu <=> pc[Reaper] \in {"unlink", "close", "trim"}
    /\ freeMu => freeConns # <<>> /\ cn[Reaper] = Head(freeConns)
    /\ \A p \in Procs : pc[p] \in HoldingPoints => cn[p] \in Conns
    /\ closed <=> closer # "none"

ShapeInv == TypeOK /\ Shape

\* What Get's pop and the reaper's trim take from the idle list and leave.
LEMMA IdleList ==
    ASSUME NEW S, NEW s \in Seq(S), s # <<>>
    PROVE  /\ Len(s) \in Nat \ {0} /\ DOMAIN s = 1 .. Len(s)
           /\ s[Len(s)] \in S /\ Head(s) \in S /\ Head(s) = s[1]
           /\ SubSeq(s, 1, Len(s) - 1) \in Seq(S)
           /\ Len(SubSeq(s, 1, Len(s) - 1)) = Len(s) - 1
           /\ \A i \in 1 .. (Len(s) - 1) : SubSeq(s, 1, Len(s) - 1)[i] = s[i]
           /\ Tail(s) \in Seq(S) /\ Len(Tail(s)) = Len(s) - 1
           /\ \A i \in 1 .. (Len(s) - 1) : Tail(s)[i] = s[i + 1]
  OBVIOUS

LEMMA InitShape == Init => ShapeInv
  <1> SUFFICES ASSUME Init PROVE ShapeInv
    OBVIOUS
  <1>1. TypeOK
    <2>1. pc \in [Procs -> Points] /\ op \in [Procs -> Ops] /\ cn \in [Procs -> Conns \cup {NoConn}]
      BY DEF Init, Points, OutsidePoints, Ops
    <2>2. queue \in 0 .. PoolSize /\ freeConns \in Seq(Conns) /\ dialErrorsNum \in Nat
      BY PoolSizeAssumption DEF Init
    <2> QED BY <2>1, <2>2 DEF Init, TypeOK
  <1>2. Shape
    BY UsersAssumption DEF Init, Shape, Procs, HoldingPoints, ReaperPoints
  <1> QED BY <1>1, <1>2 DEF ShapeInv

USE DEF semVars, listVars, endVars, dialVars, procVars, netVars

\* One lemma per group of actions of the code.
LEMMA GetShape ==
    ASSUME ShapeInv, NEW u \in Users,
           GetStart(u) \/ Enqueue(u) \/ EnqueueFull(u) \/ PoolTimeout(u) \/ PopFree(u) \/ CheckStale(u)
    PROVE  ShapeInv'
  <1> USE UsersAssumption, PoolSizeAssumption
          DEF ShapeInv, TypeOK, Shape, Procs, Points, OutsidePoints, HoldingPoints, Ops,
              ReaperPoints, Goto
  <1>1. CASE GetStart(u)     BY <1>1 DEF GetStart
  <1>2. CASE Enqueue(u)      BY <1>2 DEF Enqueue
  <1>3. CASE EnqueueFull(u)  BY <1>3 DEF EnqueueFull
  <1>4. CASE PoolTimeout(u)  BY <1>4 DEF PoolTimeout
  <1>5. CASE PopFree(u)      
    <2>1. CASE freeConns = <<>>   BY <1>5, <2>1 DEF PopFree
    <2>2. CASE freeConns # <<>>
      <3>1. /\ freeConns[Len(freeConns)] \in Conns
            /\ SubSeq(freeConns, 1, Len(freeConns) - 1) \in Seq(Conns)
        BY <2>2, IdleList
      <3> QED BY <1>5, <2>2, <3>1, ZenonT(60) DEF PopFree
    <2> QED BY <2>1, <2>2
  <1>6. CASE CheckStale(u)   BY <1>6 DEF CheckStale
  <1> QED BY <1>1, <1>2, <1>3, <1>4, <1>5, <1>6

LEMMA NewConnShape ==
    ASSUME ShapeInv, NEW u \in Users,
           \/ NewConnStart(u) \/ NewConnCheck(u) \/ DialOk(u) \/ DialError(u)
           \/ CountDialError(u) \/ AppendConn(u)
    PROVE  ShapeInv'
  <1> USE UsersAssumption, PoolSizeAssumption
          DEF ShapeInv, TypeOK, Shape, Procs, Points, OutsidePoints, HoldingPoints, Ops,
              ReaperPoints, Goto, NewConnFails
  <1>1. CASE NewConnStart(u)    BY <1>1 DEF NewConnStart
  <1>2. CASE NewConnCheck(u)    BY <1>2 DEF NewConnCheck
  <1>3. CASE DialOk(u)          BY <1>3 DEF DialOk
  <1>4. CASE DialError(u)       BY <1>4 DEF DialError
  <1>5. CASE CountDialError(u)  BY <1>5 DEF CountDialError
  <1>6. CASE AppendConn(u)      BY <1>6 DEF AppendConn
  <1> QED BY <1>1, <1>2, <1>3, <1>4, <1>5, <1>6

LEMMA PutShape ==
    ASSUME ShapeInv, NEW u \in Users,
           PutFree(u) \/ DropConn(u) \/ Release(u)
    PROVE  ShapeInv'
  <1> USE UsersAssumption, PoolSizeAssumption
          DEF ShapeInv, TypeOK, Shape, Procs, Points, OutsidePoints, HoldingPoints, Ops,
              ReaperPoints, Goto
  <1>1. CASE PutFree(u)   BY <1>1 DEF PutFree
  <1>2. CASE DropConn(u)  BY <1>2 DEF DropConn
  <1>3. CASE Release(u)   BY <1>3 DEF Release
  <1> QED BY <1>1, <1>2, <1>3

LEMMA CloseConnShape ==
    ASSUME ShapeInv, NEW p \in Procs, Unlink(p) \/ CloseNetConn(p)
    PROVE  ShapeInv'
  <1> USE UsersAssumption, PoolSizeAssumption
          DEF ShapeInv, TypeOK, Shape, Procs, Points, OutsidePoints, HoldingPoints, Ops,
              ReaperPoints, Goto
  <1>1. CASE Unlink(p)        BY <1>1 DEF Unlink
  <1>2. CASE CloseNetConn(p)  BY <1>2 DEF CloseNetConn, AfterClose
  <1> QED BY <1>1, <1>2

LEMMA TryDialShape ==
    ASSUME ShapeInv, TryDialStep
    PROVE  ShapeInv'
  <1> USE DEF ShapeInv, TypeOK, Shape, Move
  <1>1. CASE TryDialCheck  BY <1>1 DEF TryDialCheck
  <1>2. CASE TryDialError  BY <1>2 DEF TryDialError
  <1>3. CASE TryDialOk     BY <1>3 DEF TryDialOk
  <1>4. CASE TryDialReset  BY <1>4 DEF TryDialReset
  <1> QED BY <1>1, <1>2, <1>3, <1>4 DEF TryDialStep

LEMMA ReaperShape ==
    ASSUME ShapeInv, ReapTick \/ ReapEnqueue \/ ReapPeek \/ ReapTrim \/ ReapRelease
    PROVE  ShapeInv'
  <1> USE UsersAssumption, PoolSizeAssumption
          DEF ShapeInv, TypeOK, Shape, Procs, Points, OutsidePoints, HoldingPoints, Ops,
              ReaperPoints, Goto
  <1>1. CASE ReapTick     BY <1>1 DEF ReapTick
  <1>2. CASE ReapEnqueue  BY <1>2 DEF ReapEnqueue
  <1>3. CASE ReapPeek     
    <2>1. CASE freeConns # <<>> /\ Head(freeConns) \in stale
      <3>1. Head(freeConns) \in Conns  BY <2>1, IdleList
      <3> QED BY <1>3, <2>1, <3>1 DEF ReapPeek
    <2>2. CASE ~(freeConns # <<>> /\ Head(freeConns) \in stale)
      BY <1>3, <2>2 DEF ReapPeek
    <2> QED BY <2>1, <2>2
  <1>4. CASE ReapTrim     BY <1>4, IdleList DEF ReapTrim
  <1>5. CASE ReapRelease  BY <1>5 DEF ReapRelease
  <1> QED BY <1>1, <1>2, <1>3, <1>4, <1>5

LEMMA CloseShape ==
    ASSUME ShapeInv,
           \/ CloseSwap \/ CloseConns \/ CloseFree
           \/ \E S \in SUBSET Conns : Filter(S)
           \/ \E c \in Conns : IdleTimeoutPasses(c)
    PROVE  ShapeInv'
  <1> USE DEF ShapeInv, TypeOK, Shape
  <1>1. CASE CloseSwap   BY <1>1 DEF CloseSwap
  <1>2. CASE CloseConns  BY <1>2 DEF CloseConns
  <1>3. CASE CloseFree   BY <1>3 DEF CloseFree
  <1>4. CASE \E S \in SUBSET Conns : Filter(S)           BY <1>4 DEF Filter
  <1>5. CASE \E c \in Conns : IdleTimeoutPasses(c)       BY <1>5 DEF IdleTimeoutPasses
  <1> QED BY <1>1, <1>2, <1>3, <1>4, <1>5

\* The shape is kept by every step.
LEMMA ShapeStep == ShapeInv /\ [Next]_vars => ShapeInv'
  <1> SUFFICES ASSUME ShapeInv, [Next]_vars PROVE ShapeInv'
    OBVIOUS
  <1>1. CASE UNCHANGED vars
    BY <1>1 DEF vars, ShapeInv, TypeOK, Shape
  <1>2. ASSUME NEW u \in Users, GetStart(u) \/ NewConnStart(u) \/ UserStep(u)
        PROVE  ShapeInv'
    BY <1>2, GetShape, NewConnShape, PutShape, CloseConnShape DEF UserStep, Procs
  <1>3. CASE TryDialStep BY <1>3, TryDialShape
  <1>4. CASE ReaperStep  BY <1>4, ReaperShape, CloseConnShape DEF ReaperStep, Procs
  <1>5. CASE \/ CloseSwap \/ CloseStep \/ \E S \in SUBSET Conns : Filter(S)
             \/ \E c \in Conns : IdleTimeoutPasses(c)
    BY <1>5, CloseShape DEF CloseStep
  <1> QED BY <1>1, <1>2, <1>3, <1>4, <1>5 DEF Next

LEMMA ShapeInvariant == Spec => []ShapeInv
  BY InitShape, ShapeStep, PTL DEF Spec

\* Every field of the pool keeps its type, and every goroutine is where its
\* operation can be, whatever the interleaving of Get, Put, Remove, NewConn,
\* CloseConn, Filter, Close, the reaper and tryDial.
THEOREM TypeCorrect == Spec => []TypeOK
  BY ShapeInvariant, PTL DEF ShapeInv

-----------------------------------------------------------------------------
(* The dial-error breaker.                                                 *)

Running == tryDial["check"] + tryDial["dial"] + tryDial["reset"]

(***************************************************************************)
(* BreakerHasProber is not inductive: nothing in it keeps a tryDial that   *)
(* is still running from seeing the counter pass PoolSize a second time.   *)
(* The counter stays at or above PoolSize for as long as one runs.         *)
(***************************************************************************)
Breaker ==
    /\ Running \in {0, 1}
    /\ Running = 1 => dialErrorsNum >= PoolSize
    /\ dialErrorsNum >= PoolSize /\ ~closed => Running = 1
    /\ dialErrorsNum > 0 => lastDialError
    /\ \A u \in Users : pc[u] = "dialErr" => lastDialError

LEMMA BreakerStep == ShapeInv /\ Breaker /\ [Next]_vars => Breaker'
  <1> SUFFICES ASSUME ShapeInv, Breaker, [Next]_vars PROVE Breaker'
    OBVIOUS
  <1> USE PoolSizeAssumption, UsersAssumption DEF ShapeInv, TypeOK, Shape, Breaker, Running, Procs, Goto
  <1>1. CASE UNCHANGED vars  BY <1>1 DEF vars
  <1>2. ASSUME NEW u \in Users, GetStart(u) \/ NewConnStart(u) \/ UserStep(u)
        PROVE  Breaker'
    <2>1. CASE CountDialError(u)
      BY <2>1 DEF CountDialError, NewConnFails
    <2>2. CASE DialError(u)
      BY <2>2 DEF DialError
    <2>3. CASE NewConnCheck(u)
      BY <2>3 DEF NewConnCheck, NewConnFails
    <2>4. CASE CloseNetConn(u)
      BY <2>4 DEF CloseNetConn, AfterClose
    <2>5. CASE \/ GetStart(u) \/ NewConnStart(u) \/ Enqueue(u) \/ EnqueueFull(u) \/ PoolTimeout(u)
               \/ PopFree(u) \/ CheckStale(u)
      BY <2>5 DEF GetStart, NewConnStart, Enqueue, EnqueueFull, PoolTimeout, PopFree, CheckStale
    <2>6. CASE DialOk(u) \/ AppendConn(u) \/ PutFree(u) \/ DropConn(u) \/ Unlink(u) \/ Release(u)
      BY <2>6 DEF DialOk, AppendConn, PutFree, DropConn, Unlink, Release
    <2> QED BY <1>2, <2>1, <2>2, <2>3, <2>4, <2>5, <2>6 DEF UserStep
  <1>3. CASE TryDialStep
    <2>1. CASE TryDialCheck  BY <2>1 DEF TryDialCheck, Move
    <2>2. CASE TryDialError
      <3>1. Running' = Running
        BY <2>2 DEF TryDialError, Move
      <3> QED BY <2>2, <3>1 DEF TryDialError
    <2>3. CASE TryDialOk     BY <2>3 DEF TryDialOk, Move
    <2>4. CASE TryDialReset  BY <2>4 DEF TryDialReset
    <2> QED BY <1>3, <2>1, <2>2, <2>3, <2>4 DEF TryDialStep
  <1>4. CASE ReaperStep
    BY <1>4 DEF ReaperStep, ReapTick, ReapEnqueue, ReapPeek, ReapTrim, ReapRelease, Unlink,
                CloseNetConn, AfterClose
  <1>5. CASE \/ CloseSwap \/ CloseStep \/ \E S \in SUBSET Conns : Filter(S)
             \/ \E c \in Conns : IdleTimeoutPasses(c)
    BY <1>5 DEF CloseSwap, CloseStep, CloseConns, CloseFree, Filter, IdleTimeoutPasses
  <1> QED BY <1>1, <1>2, <1>3, <1>4, <1>5 DEF Next

LEMMA BreakerInvariant == Spec => [](ShapeInv /\ Breaker)
  <1>1. Init => Breaker
    BY PoolSizeAssumption DEF Init, Breaker, Running, Procs
  <1> QED BY <1>1, InitShape, ShapeStep, BreakerStep, PTL DEF Spec

\* NewConn with the breaker tripped always has an error to return, for any
\* number of users that dial and fail at once.
THEOREM TrippedHasErrorAlways == Spec => []TrippedHasError
  <1>1. ShapeInv /\ Breaker => TrippedHasError
    BY PoolSizeAssumption DEF ShapeInv, TypeOK, Breaker, TrippedHasError
  <1> QED BY <1>1, BreakerInvariant, PTL

\* A tripped breaker of an open pool has exactly one tryDial goroutine to reset
\* it, for any PoolSize and any number of failing dials.
THEOREM BreakerHasProberAlways == Spec => []BreakerHasProber
  <1>1. ShapeInv /\ Breaker => BreakerHasProber
    BY DEF ShapeInv, TypeOK, Breaker, Running, BreakerHasProber
  <1> QED BY <1>1, BreakerInvariant, PTL

-----------------------------------------------------------------------------
(* Ownership of connections.                                               *)

Distinct(s) == \A i, j \in DOMAIN s : i # j => s[i] # s[j]

\* Get's pop takes one connection off the list and leaves the others.
LEMMA IdlePop ==
    ASSUME NEW S, NEW s \in Seq(S), s # <<>>, Distinct(s)
    PROVE  LET t == SubSeq(s, 1, Len(s) - 1)
           IN  Distinct(t) /\ Elems(t) = Elems(s) \ {s[Len(s)]} /\ s[Len(s)] \in Elems(s)
  <1> DEFINE t == SubSeq(s, 1, Len(s) - 1)
             n == Len(s)
  <1>1. n \in Nat \ {0} /\ DOMAIN s = 1 .. n /\ DOMAIN t = 1 .. (n - 1)
        /\ \A i \in 1 .. (n - 1) : t[i] = s[i]
    BY IdleList
  <1> HIDE DEF t, n
  <1>2. \A i \in 1 .. n : i # n => s[i] # s[n]
    BY <1>1 DEF Distinct
  <1>3. Distinct(t)
    BY <1>1 DEF Distinct
  <1>4. Elems(t) = Elems(s) \ {s[n]}
    <2>1. ASSUME NEW i \in 1 .. (n - 1) PROVE t[i] \in Elems(s) \ {s[n]}
      BY <1>1, <1>2 DEF Elems
    <2>2. ASSUME NEW i \in 1 .. n, s[i] # s[n] PROVE s[i] \in Elems(t)
      BY <1>1, <2>2 DEF Elems
    <2> QED BY <1>1, <2>1, <2>2 DEF Elems
  <1>5. s[n] \in Elems(s)
    BY <1>1 DEF Elems
  <1> QED BY <1>3, <1>4, <1>5 DEF t, n

\* So does the reaper's trim, at the other end.
LEMMA IdleTrim ==
    ASSUME NEW S, NEW s \in Seq(S), s # <<>>, Distinct(s)
    PROVE  Distinct(Tail(s)) /\ Elems(Tail(s)) = Elems(s) \ {Head(s)} /\ Head(s) \in Elems(s)
  <1> DEFINE t == Tail(s)
             n == Len(s)
  <1>1. n \in Nat \ {0} /\ DOMAIN s = 1 .. n /\ DOMAIN t = 1 .. (n - 1) /\ Head(s) = s[1]
        /\ \A i \in 1 .. (n - 1) : t[i] = s[i + 1]
    BY IdleList
  <1> HIDE DEF t, n
  <1>2. \A i \in 1 .. n : i # 1 => s[i] # s[1]
    BY <1>1 DEF Distinct
  <1>3. Distinct(t)
    BY <1>1 DEF Distinct
  <1>4. Elems(t) = Elems(s) \ {s[1]}
    <2>1. ASSUME NEW i \in 1 .. (n - 1) PROVE t[i] \in Elems(s) \ {s[1]}
      <3>1. i + 1 \in 1 .. n /\ i + 1 # 1 /\ t[i] = s[i + 1]
        BY <1>1
      <3> QED BY <1>1, <1>2, <3>1 DEF Elems
    <2>2. ASSUME NEW i \in 1 .. n, s[i] # s[1] PROVE s[i] \in Elems(t)
      <3>1. i - 1 \in 1 .. (n - 1) /\ t[i - 1] = s[i]
        BY <1>1, <2>2
      <3> QED BY <1>1, <3>1 DEF Elems
    <2> QED BY <1>1, <2>1, <2>2, ZenonT(60) DEF Elems
  <1>5. s[1] \in Elems(s)
    BY <1>1 DEF Elems
  <1> QED BY <1>1, <1>3, <1>4, <1>5 DEF t, n

\* Put adds one connection to the list.
LEMMA IdlePut ==
    ASSUME NEW S, NEW s \in Seq(S), NEW e \in S, Distinct(s), e \notin Elems(s)
    PROVE  Distinct(Append(s, e)) /\ Elems(Append(s, e)) = Elems(s) \cup {e}
  <1> DEFINE t == Append(s, e)
             n == Len(s)
  <1>1. n \in Nat /\ DOMAIN s = 1 .. n /\ DOMAIN t = 1 .. (n + 1) /\ t[n + 1] = e
        /\ \A i \in 1 .. n : t[i] = s[i]
    OBVIOUS
  <1> HIDE DEF t, n
  <1>2. Distinct(t)
    <2>1. \A i \in 1 .. n : s[i] # e
      BY <1>1 DEF Elems
    <2> QED BY <1>1, <2>1 DEF Distinct
  <1>3. Elems(t) = Elems(s) \cup {e}
    BY <1>1 DEF Elems
  <1> QED BY <1>2, <1>3 DEF t

(***************************************************************************)
(* NoSharing says nothing of the connection the reaper has in hand: while  *)
(* it holds the lock that connection is still at the front of the list,    *)
(* and once it has let go it is not there any more.                        *)
(***************************************************************************)
OneOwner ==
    /\ \A p, q \in Procs : p # q /\ cn[p] # NoConn => cn[p] # cn[q]
    /\ Distinct(freeConns)
    /\ \A u \in Users : cn[u] \notin Elems(freeConns)
    /\ ~freeMu => cn[Reaper] \notin Elems(freeConns)

LEMMA OneOwnerStep == ShapeInv /\ OneOwner /\ [Next]_vars => OneOwner'
  <1> SUFFICES ASSUME ShapeInv, OneOwner, [Next]_vars PROVE OneOwner'
    OBVIOUS
  <1> USE UsersAssumption, ConnsAssumption DEF ShapeInv, TypeOK, Shape, OneOwner, Procs, Goto
  <1>0. NoConn \notin Elems(freeConns)
    BY DEF Elems
  <1>1. CASE UNCHANGED vars  BY <1>1 DEF vars
  <1>2. ASSUME NEW u \in Users, GetStart(u) \/ NewConnStart(u) \/ UserStep(u)
        PROVE  OneOwner'
    <2>1. CASE PopFree(u)
      <3>1. CASE freeConns = <<>>  BY <2>1, <3>1 DEF PopFree
      <3>2. CASE freeConns # <<>>
        <4>1. /\ Distinct(freeConns') /\ cn'[u] \in Elems(freeConns)
              /\ Elems(freeConns') = Elems(freeConns) \ {cn'[u]}
              /\ cn' = [cn EXCEPT ![u] = cn'[u]]
          BY <2>1, <3>2, IdlePop DEF PopFree
        <4>2. freeMu' = freeMu /\ ~freeMu
          BY <2>1 DEF PopFree
        <4> QED BY <4>1, <4>2
      <3> QED BY <3>1, <3>2
    <2>2. CASE PutFree(u)
      <3>1. cn[u] \in Conns /\ cn[u] \notin Elems(freeConns)
        BY <2>2 DEF PutFree, HoldingPoints
      <3>2. /\ Distinct(freeConns') /\ Elems(freeConns') = Elems(freeConns) \cup {cn[u]}
            /\ cn' = [cn EXCEPT ![u] = NoConn] /\ ~freeMu /\ freeMu' = freeMu
        BY <2>2, <3>1, IdlePut DEF PutFree
      <3> QED BY <1>0, <3>1, <3>2
    <2>3. CASE DialOk(u)
      BY <2>3 DEF DialOk, Fresh
    <2>4. CASE CloseNetConn(u)
      BY <1>0, <2>4 DEF CloseNetConn
    <2>5. CASE \/ GetStart(u) \/ NewConnStart(u) \/ Enqueue(u) \/ EnqueueFull(u) \/ PoolTimeout(u)
               \/ CheckStale(u) \/ NewConnCheck(u)
      BY <2>5 DEF GetStart, NewConnStart, Enqueue, EnqueueFull, PoolTimeout, CheckStale,
                  NewConnCheck
    <2>6. CASE \/ DialError(u) \/ CountDialError(u) \/ AppendConn(u) \/ DropConn(u) \/ Unlink(u)
               \/ Release(u)
      BY <2>6 DEF DialError, CountDialError, AppendConn, DropConn, Unlink, Release
    <2> QED BY <1>2, <2>1, <2>2, <2>3, <2>4, <2>5, <2>6 DEF UserStep
  <1>3. CASE TryDialStep
    BY <1>3 DEF TryDialStep, TryDialCheck, TryDialError, TryDialOk, TryDialReset
  <1>4. CASE ReaperStep
    <2>1. CASE ReapPeek
      <3>1. CASE freeConns # <<>> /\ Head(freeConns) \in stale
        <4>1. Head(freeConns) \in Elems(freeConns)  BY <3>1, IdleTrim
        <4> QED BY <2>1, <3>1, <4>1 DEF ReapPeek
      <3>2. CASE ~(freeConns # <<>> /\ Head(freeConns) \in stale)
        BY <2>1, <3>2 DEF ReapPeek
      <3> QED BY <3>1, <3>2
    <2>2. CASE ReapTrim
      <3>1. freeConns # <<>> /\ cn[Reaper] = Head(freeConns)
        BY <2>2 DEF ReapTrim
      <3>2. Distinct(freeConns') /\ Elems(freeConns') = Elems(freeConns) \ {cn[Reaper]}
        BY <2>2, <3>1, IdleTrim DEF ReapTrim
      <3> QED BY <2>2, <3>2 DEF ReapTrim
    <2>3. CASE ReapRelease
      BY <1>0, <2>3 DEF ReapRelease
    <2>4. CASE ReapTick \/ ReapEnqueue \/ Unlink(Reaper) \/ CloseNetConn(Reaper)
      BY <2>4 DEF ReapTick, ReapEnqueue, Unlink, CloseNetConn
    <2> QED BY <1>4, <2>1, <2>2, <2>3, <2>4 DEF ReaperStep
  <1>5. CASE CloseFree
    <2>1. Distinct(<<>>) /\ Elems(<<>>) = {}  BY DEF Distinct, Elems
    <2> QED BY <1>5, <2>1 DEF CloseFree
  <1>6. CASE \/ CloseSwap \/ CloseConns \/ \E S \in SUBSET Conns : Filter(S)
             \/ \E c \in Conns : IdleTimeoutPasses(c)
    BY <1>6 DEF CloseSwap, CloseConns, Filter, IdleTimeoutPasses
  <1> QED BY <1>1, <1>2, <1>3, <1>4, <1>5, <1>6 DEF Next, CloseStep

\* A connection is in one place, for any number of users: no interleaving of
\* Get, Put, Remove, the reaper and Close lends it to two of them.
THEOREM NoSharingAlways == Spec => []NoSharing
  <1>1. Init => OneOwner
    BY DEF Init, OneOwner, Distinct, Elems, Procs
  <1>2. OneOwner => NoSharing
    BY DEF OneOwner, NoSharing, Distinct
  <1> QED BY <1>1, <1>2, InitShape, ShapeStep, OneOwnerStep, PTL DEF Spec

-----------------------------------------------------------------------------
(* Open sockets.                                                           *)

LEMMA OwnedStep == ShapeInv /\ OpenIsOwned /\ [Next]_vars => OpenIsOwned'
  <1> SUFFICES ASSUME ShapeInv, OpenIsOwned, [Next]_vars, ~closed', NEW c \in open'
               PROVE  \/ c \in conns'
                      \/ \E p \in Procs : cn'[p] = c /\ pc'[p] \in {"append", "close"}
    BY DEF OpenIsOwned
  <1> USE UsersAssumption DEF ShapeInv, TypeOK, Shape, Procs, Goto
  <1>0. ~closed => \A d \in open :
            d \in conns \/ \E p \in Procs : cn[p] = d /\ pc[p] \in {"append", "close"}
    BY DEF OpenIsOwned
  <1>1. CASE UNCHANGED vars  BY <1>0, <1>1 DEF vars
  <1>2. ASSUME NEW u \in Users, GetStart(u) \/ NewConnStart(u) \/ UserStep(u)
        PROVE  \/ c \in conns'
               \/ \E p \in Procs : cn'[p] = c /\ pc'[p] \in {"append", "close"}
    <2>1. CASE DialOk(u)         BY <1>0, <2>1 DEF DialOk
    <2>2. CASE AppendConn(u)     BY <1>0, <2>2 DEF AppendConn
    <2>3. CASE Unlink(u)         BY <1>0, <2>3 DEF Unlink
    <2>4. CASE CloseNetConn(u)   BY <1>0, <2>4 DEF CloseNetConn
    <2>5. ASSUME pc[u] \notin {"append", "close"}, \A p \in Procs \ {u} : pc'[p] = pc[p] /\ cn'[p] = cn[p],
                 conns' = conns, open' = open, closed' = closed
          PROVE  \/ c \in conns'
                 \/ \E p \in Procs : cn'[p] = c /\ pc'[p] \in {"append", "close"}
      BY <1>0, <2>5
    <2>6. CASE \/ GetStart(u) \/ NewConnStart(u) \/ Enqueue(u) \/ EnqueueFull(u) \/ PoolTimeout(u)
               \/ CheckStale(u) \/ NewConnCheck(u)
      BY <2>5, <2>6 DEF GetStart, NewConnStart, Enqueue, EnqueueFull, PoolTimeout, CheckStale,
                        NewConnCheck, NewConnFails
    <2>7. CASE PopFree(u) \/ DialError(u) \/ CountDialError(u) \/ PutFree(u) \/ DropConn(u) \/ Release(u)
      BY <2>5, <2>7 DEF PopFree, DialError, CountDialError, NewConnFails, PutFree, DropConn, Release
    <2> QED BY <1>2, <2>1, <2>2, <2>3, <2>4, <2>6, <2>7 DEF UserStep
  <1>3. CASE TryDialStep
    BY <1>0, <1>3 DEF TryDialStep, TryDialCheck, TryDialError, TryDialOk, TryDialReset
  <1>4. CASE ReaperStep
    <2>1. CASE Unlink(Reaper)        BY <1>0, <2>1 DEF Unlink
    <2>2. CASE CloseNetConn(Reaper)  BY <1>0, <2>2 DEF CloseNetConn
    <2>3. CASE ReapTick \/ ReapEnqueue \/ ReapPeek \/ ReapTrim \/ ReapRelease
      BY <1>0, <2>3 DEF ReapTick, ReapEnqueue, ReapPeek, ReapTrim, ReapRelease
    <2> QED BY <1>4, <2>1, <2>2, <2>3 DEF ReaperStep
  <1>5. CASE \/ CloseSwap \/ CloseStep \/ \E S \in SUBSET Conns : Filter(S)
             \/ \E d \in Conns : IdleTimeoutPasses(d)
    BY <1>0, <1>5 DEF CloseSwap, CloseStep, CloseConns, CloseFree, Filter, IdleTimeoutPasses
  <1> QED BY <1>1, <1>2, <1>3, <1>4, <1>5 DEF Next

\* No socket of an open pool is lost, for any number of users: Close will find
\* it in p.conns, or a goroutine is about to register or to close it.
THEOREM OpenIsOwnedAlways == Spec => []OpenIsOwned
  <1>1. Init => OpenIsOwned
    BY DEF Init, OpenIsOwned
  <1> QED BY <1>1, InitShape, ShapeStep, OwnedStep, PTL DEF Spec

-----------------------------------------------------------------------------
(* The queue as a semaphore.                                               *)

LEMMA ProcsFinite == IsFiniteSet(Procs)
  BY UsersAssumption, FS_AddElement DEF Procs

\* Adding or taking away one goroutine changes a count by one.
LEMMA CountOne ==
    ASSUME NEW S, IsFiniteSet(S), NEW x
    PROVE  /\ Cardinality(S) \in Nat
           /\ x \notin S => Cardinality(S \cup {x}) = Cardinality(S) + 1
           /\ x \in S => Cardinality(S \ {x}) = Cardinality(S) - 1
  BY FS_CardinalityType, FS_AddElement, FS_RemoveElement

LEMMA HoldersFinite == IsFiniteSet(TokenHolders) /\ Cardinality(TokenHolders) \in Nat
  BY ProcsFinite, FS_Subset, FS_CardinalityType DEF TokenHolders

\* A step of one goroutine that leaves the queue alone neither makes it a
\* holder nor ends its being one.
LEMMA QueueStep == ShapeInv /\ QueueCountsHolders /\ [Next]_vars => QueueCountsHolders'
  <1> SUFFICES ASSUME ShapeInv, QueueCountsHolders, [Next]_vars PROVE QueueCountsHolders'
    OBVIOUS
  <1> USE UsersAssumption, PoolSizeAssumption
          DEF ShapeInv, TypeOK, Shape, Procs, Goto, HoldsToken, OutsidePoints, ReaperPoints
  <1>1. ASSUME queue' = queue, \A p \in Procs : HoldsToken(p)' <=> HoldsToken(p)
        PROVE  QueueCountsHolders'
    <2>1. TokenHolders' = TokenHolders  BY <1>1 DEF TokenHolders
    <2> QED BY <1>1, <2>1 DEF QueueCountsHolders
  <1>2. ASSUME NEW p \in Procs, ~HoldsToken(p), HoldsToken(p)', queue' = queue + 1,
               \A q \in Procs \ {p} : HoldsToken(q)' <=> HoldsToken(q)
        PROVE  QueueCountsHolders'
    <2>1. p \notin TokenHolders /\ TokenHolders' = TokenHolders \cup {p}
      BY <1>2 DEF TokenHolders
    <2> QED BY <1>2, <2>1, HoldersFinite, CountOne DEF QueueCountsHolders
  <1>3. ASSUME NEW p \in Procs, HoldsToken(p), ~HoldsToken(p)', queue' = queue - 1,
               \A q \in Procs \ {p} : HoldsToken(q)' <=> HoldsToken(q)
        PROVE  QueueCountsHolders'
    <2>1. p \in TokenHolders /\ TokenHolders' = TokenHolders \ {p}
      BY <1>3 DEF TokenHolders
    <2> QED BY <1>3, <2>1, HoldersFinite, CountOne DEF QueueCountsHolders
  <1>4. CASE UNCHANGED vars  BY <1>1, <1>4 DEF vars
  <1>5. ASSUME NEW u \in Users, GetStart(u) \/ NewConnStart(u) \/ UserStep(u)
        PROVE  QueueCountsHolders'
    <2>1. CASE Enqueue(u)         BY <1>2, <2>1 DEF Enqueue
    <2>2. CASE Release(u)         BY <1>3, <2>2 DEF Release
    <2>3. CASE GetStart(u) \/ NewConnStart(u) \/ EnqueueFull(u) \/ PoolTimeout(u) \/ PopFree(u) \/ CheckStale(u)
      BY <1>1, <2>3 DEF GetStart, NewConnStart, EnqueueFull, PoolTimeout, PopFree, CheckStale
    <2>4. CASE NewConnCheck(u) \/ DialOk(u) \/ DialError(u) \/ CountDialError(u) \/ AppendConn(u)
      BY <1>1, <2>4 DEF NewConnCheck, NewConnFails, DialOk, DialError, CountDialError, AppendConn
    <2>5. CASE PutFree(u) \/ DropConn(u) \/ Unlink(u) \/ CloseNetConn(u)
      BY <1>1, <2>5 DEF PutFree, DropConn, Unlink, CloseNetConn, AfterClose
    <2> QED BY <1>5, <2>1, <2>2, <2>3, <2>4, <2>5 DEF UserStep
  <1>6. CASE TryDialStep
    BY <1>1, <1>6 DEF TryDialStep, TryDialCheck, TryDialError, TryDialOk, TryDialReset
  <1>7. CASE ReaperStep
    <2>1. CASE ReapEnqueue  BY <1>2, <2>1 DEF ReapEnqueue
    <2>2. CASE ReapRelease  BY <1>3, <2>2 DEF ReapRelease
    <2>3. CASE ReapTick \/ ReapPeek \/ ReapTrim \/ Unlink(Reaper) \/ CloseNetConn(Reaper)
      BY <1>1, <2>3 DEF ReapTick, ReapPeek, ReapTrim, Unlink, CloseNetConn, AfterClose
    <2> QED BY <1>7, <2>1, <2>2, <2>3 DEF ReaperStep
  <1>8. CASE \/ CloseSwap \/ CloseStep \/ \E S \in SUBSET Conns : Filter(S)
             \/ \E c \in Conns : IdleTimeoutPasses(c)
    BY <1>1, <1>8 DEF CloseSwap, CloseStep, CloseConns, CloseFree, Filter, IdleTimeoutPasses
  <1> QED BY <1>4, <1>5, <1>6, <1>7, <1>8 DEF Next

LEMMA QueueInit == Init => QueueCountsHolders
  <1> SUFFICES ASSUME Init PROVE QueueCountsHolders
    OBVIOUS
  <1>1. TokenHolders = {}
    BY DEF Init, TokenHolders, HoldsToken, OutsidePoints, Procs
  <1> QED BY <1>1, FS_EmptySet DEF Init, QueueCountsHolders

\* The semaphore is exact for any PoolSize and any number of users: the receive
\* that ends Put, Remove, a failed Get or a round of the reaper never blocks and
\* never takes another goroutine's place.
THEOREM QueueCountsHoldersAlways == Spec => []QueueCountsHolders
  BY QueueInit, InitShape, ShapeStep, QueueStep, PTL DEF Spec

-----------------------------------------------------------------------------
(* The bound on the connections.                                           *)

LEMMA BusyFinite ==
    /\ IsFiniteSet(Busy) /\ Cardinality(Busy) \in Nat
    /\ Cardinality(Busy) <= Cardinality(TokenHolders)
  <1>1. Busy \subseteq TokenHolders  BY DEF Busy, TokenHolders, Procs
  <1> QED BY <1>1, HoldersFinite, FS_Subset, FS_CardinalityType

LEMMA BoundStep ==
    ShapeInv /\ QueueCountsHolders /\ PoolBound /\ [Next]_vars => PoolBound'
  <1> SUFFICES ASSUME ShapeInv, QueueCountsHolders, PoolBound, [Next]_vars PROVE PoolBound'
    OBVIOUS
  <1> USE UsersAssumption, PoolSizeAssumption
          DEF ShapeInv, TypeOK, Shape, Procs, Goto, HoldsToken, OutsidePoints, ReaperPoints
  <1>0. /\ Len(freeConns) \in Nat /\ Len(freeConns') \in Nat
        /\ ShapeInv' /\ QueueCountsHolders'
    BY ShapeStep, QueueStep
  <1>1. ASSUME Busy' \subseteq Busy, Len(freeConns') <= Len(freeConns)
        PROVE  PoolBound'
    <2>1. Cardinality(Busy') <= Cardinality(Busy) /\ Cardinality(Busy') \in Nat
      BY <1>1, BusyFinite, FS_Subset, FS_CardinalityType
    <2> QED BY <1>0, <1>1, <2>1, BusyFinite DEF PoolBound
  <1>4. CASE UNCHANGED vars  BY <1>1, <1>4, <1>0 DEF vars, Busy
  <1>5. ASSUME NEW u \in Users, GetStart(u) \/ NewConnStart(u) \/ UserStep(u)
        PROVE  PoolBound'
    <2>1. CASE PopFree(u)
      <3>1. CASE freeConns = <<>>
        <4>1. freeConns' = <<>> /\ Len(freeConns') = 0  BY <2>1, <3>1 DEF PopFree
        <4>2. Cardinality(Busy)' <= Cardinality(TokenHolders)' /\ Cardinality(Busy)' \in Nat
          <5>1. (Busy \subseteq TokenHolders)'  BY DEF Busy, TokenHolders
          <5>2. IsFiniteSet(TokenHolders)' 
            BY ProcsFinite, FS_Subset DEF TokenHolders
          <5> QED BY <5>1, <5>2, FS_Subset, FS_CardinalityType
        <4> QED BY <1>0, <4>1, <4>2 DEF PoolBound, QueueCountsHolders
      <3>2. CASE freeConns # <<>>
        <4>1. Len(freeConns') = Len(freeConns) - 1  BY <2>1, <3>2, IdleList DEF PopFree
        <4>2. u \notin Busy /\ Busy' = Busy \cup {u}  BY <2>1, <3>2 DEF PopFree, Busy
        <4> QED BY <1>0, <4>1, <4>2, BusyFinite, CountOne, SMTT(60) DEF PoolBound
      <3> QED BY <3>1, <3>2
    <2>2. CASE PutFree(u)
      <3>1. Len(freeConns') = Len(freeConns) + 1
        <4>1. cn[u] \in Conns  BY <2>2 DEF PutFree, HoldingPoints
        <4> QED BY <2>2, <4>1 DEF PutFree
      <3>2. u \in Busy /\ Busy' = Busy \ {u}  BY <2>2 DEF PutFree, Busy
      <3>3. Cardinality(Busy') = Cardinality(Busy) - 1
        BY <3>2, BusyFinite, CountOne
      <3> HIDE DEF ShapeInv
      <3> QED BY <1>0, <3>1, <3>3, BusyFinite DEF PoolBound
    <2>3. CASE \/ GetStart(u) \/ NewConnStart(u) \/ Enqueue(u) \/ EnqueueFull(u) \/ PoolTimeout(u)
               \/ CheckStale(u) \/ Release(u)
      BY <1>0, <1>1, <2>3 DEF GetStart, NewConnStart, Enqueue, EnqueueFull, PoolTimeout, CheckStale,
                              Release, Busy
    <2>4. CASE NewConnCheck(u) \/ DialOk(u) \/ DialError(u) \/ CountDialError(u) \/ AppendConn(u)
      BY <1>0, <1>1, <2>4 DEF NewConnCheck, NewConnFails, DialOk, DialError, CountDialError,
                              AppendConn, Busy
    <2>5. CASE DropConn(u) \/ Unlink(u) \/ CloseNetConn(u)
      BY <1>0, <1>1, <2>5 DEF DropConn, Unlink, CloseNetConn, AfterClose, Busy
    <2> QED BY <1>5, <2>1, <2>2, <2>3, <2>4, <2>5 DEF UserStep
  <1>6. CASE TryDialStep
    BY <1>0, <1>1, <1>6 DEF TryDialStep, TryDialCheck, TryDialError, TryDialOk, TryDialReset, Busy
  <1>7. CASE ReaperStep
    <2>1. Busy' \subseteq Busy
      BY <1>7 DEF ReaperStep, ReapTick, ReapEnqueue, ReapPeek, ReapTrim, ReapRelease, Unlink,
                  CloseNetConn, Busy
    <2>2. Len(freeConns') <= Len(freeConns)
      <3>1. CASE ReapTrim  BY <3>1, IdleList DEF ReapTrim
      <3>2. CASE ~ReapTrim
        BY <1>0, <1>7, <3>2 DEF ReaperStep, ReapTick, ReapEnqueue, ReapPeek, ReapRelease, Unlink, CloseNetConn
      <3> QED BY <3>1, <3>2
    <2> QED BY <1>1, <2>1, <2>2
  <1>8. CASE \/ CloseSwap \/ CloseStep \/ \E S \in SUBSET Conns : Filter(S)
             \/ \E c \in Conns : IdleTimeoutPasses(c)
    <2>1. Busy' \subseteq Busy
      BY <1>8 DEF CloseSwap, CloseStep, CloseConns, CloseFree, Filter, IdleTimeoutPasses, Busy
    <2>2. freeConns' = freeConns \/ freeConns' = <<>>
      BY <1>8 DEF CloseSwap, CloseStep, CloseConns, CloseFree, Filter, IdleTimeoutPasses
    <2> QED BY <1>0, <1>1, <2>1, <2>2
  <1> QED BY <1>4, <1>5, <1>6, <1>7, <1>8 DEF Next

\* The connections lent out, being dialed and idle are never more than PoolSize,
\* for every PoolSize and any number of users.
THEOREM PoolBoundAlways == Spec => []PoolBound
  <1>1. Init => PoolBound
    <2> SUFFICES ASSUME Init PROVE PoolBound
      OBVIOUS
    <2>1. Busy = {}
      BY UsersAssumption DEF Init, Busy, HoldsToken, OutsidePoints, Procs
    <2> QED BY <2>1, FS_EmptySet, PoolSizeAssumption DEF Init, PoolBound
  <1>2. Init => QueueCountsHolders
    BY QueueInit
  <1> QED BY <1>1, <1>2, InitShape, ShapeStep, QueueStep, BoundStep, PTL DEF Spec

-----------------------------------------------------------------------------
(* The pool implements ConnLease.                                          *)

\* Only the end of Get, and the beginning of Put or Remove, can be seen.
LEMMA LentStep ==
    ASSUME ShapeInv, OneOwner, QueueCountsHolders, Next
    PROVE  Lease!Next \/ Lent' = Lent
  <1> USE UsersAssumption, ConnsAssumption DEF ShapeInv, TypeOK, Shape, Procs, Goto
  <1>1. ASSUME NEW u \in Users, pc[u] \in {"check", "append"}, op[u] = "get",
               pc' = [pc EXCEPT ![u] = "using"], op' = op, cn' = cn
        PROVE  Lease!Next
    <2>1. cn[u] \in Conns  BY <1>1 DEF HoldingPoints
    <2>2. Lent' = [Lent EXCEPT ![u] = cn[u]] /\ Lent[u] = NoConn  BY <1>1 DEF Lent
    <2>3. \A v \in Users : Lent[v] # cn[u]  BY <1>1, <2>1 DEF Lent, OneOwner
    <2>4. Cardinality(Lease!Borrowers) < PoolSize
      <3> DEFINE B == Lease!Borrowers
      <3>1. B \cup {u} \subseteq TokenHolders /\ u \notin B
        BY <1>1, <2>2 DEF Lease!Borrowers, Lent, TokenHolders, HoldsToken, OutsidePoints
      <3> HIDE DEF B
      <3>2. IsFiniteSet(B) /\ Cardinality(B) \in Nat
        BY <3>1, HoldersFinite, FS_Subset, FS_CardinalityType
      <3>3. Cardinality(B) + 1 <= Cardinality(TokenHolders)
        BY <3>1, <3>2, HoldersFinite, FS_Subset, CountOne
      <3> QED BY <3>2, <3>3, HoldersFinite, PoolSizeAssumption DEF QueueCountsHolders, B
    <2>5. Lease!Cardinality(Lease!Borrowers) = Cardinality(Lease!Borrowers)
      BY DEF Lease!Cardinality, Cardinality
    <2>6. Lease!Get(u, cn[u])  BY <2>2, <2>3, <2>4, <2>5 DEF Lease!Get
    <2> QED BY <2>1, <2>6 DEF Lease!Next
  <1>2. ASSUME NEW u \in Users, pc[u] = "using", op[u] = "get",
               pc' = [pc EXCEPT ![u] = pc'[u]], pc'[u] # "using",
               \A v \in Users \ {u} : op'[v] = op[v] /\ cn'[v] = cn[v]
        PROVE  Lease!Next
    <2>1. Lent' = [Lent EXCEPT ![u] = NoConn]  BY <1>2 DEF Lent
    <2>2. Lent[u] # NoConn  BY <1>2 DEF Lent, HoldingPoints
    <2> QED BY <2>1, <2>2 DEF Lease!Next, Lease!GiveBack
  <1>3. ASSUME NEW u \in Procs, pc[u] # "using" \/ op[u] # "get", pc'[u] # "using" \/ op'[u] # "get",
               \A v \in Users \ {u} : pc'[v] = pc[v] /\ op'[v] = op[v] /\ cn'[v] = cn[v]
        PROVE  Lent' = Lent
    BY <1>3 DEF Lent
  <1>4. ASSUME NEW u \in Users, GetStart(u) \/ NewConnStart(u) \/ UserStep(u)
        PROVE  Lease!Next \/ Lent' = Lent
    <2>1. CASE CheckStale(u)
      <3>1. CASE cn[u] \in stale  BY <1>3, <2>1, <3>1 DEF CheckStale
      <3>2. CASE cn[u] \notin stale  BY <1>1, <2>1, <3>2 DEF CheckStale
      <3> QED BY <3>1, <3>2
    <2>2. CASE AppendConn(u)
      <3>1. CASE op[u] = "get"  BY <1>1, <2>2, <3>1 DEF AppendConn
      <3>2. CASE op[u] # "get"  BY <1>3, <2>2, <3>2 DEF AppendConn
      <3> QED BY <3>1, <3>2
    <2>3. CASE PutFree(u)  BY <1>2, <2>3 DEF PutFree
    <2>4. CASE DropConn(u)
      <3>1. CASE op[u] = "get"  BY <1>2, <2>4, <3>1 DEF DropConn
      <3>2. CASE op[u] # "get"  BY <1>3, <2>4, <3>2 DEF DropConn
      <3> QED BY <3>1, <3>2
    <2>5. CASE \/ GetStart(u) \/ NewConnStart(u) \/ Enqueue(u) \/ EnqueueFull(u) \/ PoolTimeout(u)
               \/ PopFree(u)
      BY <1>3, <2>5 DEF GetStart, NewConnStart, Enqueue, EnqueueFull, PoolTimeout, PopFree
    <2>6. CASE NewConnCheck(u) \/ DialOk(u) \/ DialError(u) \/ CountDialError(u)
      BY <1>3, <2>6 DEF NewConnCheck, NewConnFails, DialOk, DialError, CountDialError
    <2>7. CASE Unlink(u) \/ CloseNetConn(u) \/ Release(u)
      BY <1>3, <2>7 DEF Unlink, CloseNetConn, AfterClose, Release
    <2> QED BY <1>4, <2>1, <2>2, <2>3, <2>4, <2>5, <2>6, <2>7 DEF UserStep
  <1>5. CASE TryDialStep
    BY <1>5 DEF TryDialStep, TryDialCheck, TryDialError, TryDialOk, TryDialReset, Lent
  <1>6. CASE ReaperStep
    BY <1>3, <1>6 DEF ReaperStep, ReapTick, ReapEnqueue, ReapPeek, ReapTrim, ReapRelease, Unlink,
                      CloseNetConn, AfterClose
  <1>7. CASE \/ CloseSwap \/ CloseStep \/ \E S \in SUBSET Conns : Filter(S)
             \/ \E c \in Conns : IdleTimeoutPasses(c)
    BY <1>7 DEF CloseSwap, CloseStep, CloseConns, CloseFree, Filter, IdleTimeoutPasses, Lent
  <1> QED BY <1>4, <1>5, <1>6, <1>7 DEF Next

\* To the commands that use it the pool is a lender of at most PoolSize
\* connections, each to one goroutine at a time, for every PoolSize and any
\* number of users.
THEOREM LeaseImplemented == Spec => ImplementsLease
  <1>1. Init => Lease!Init
    BY DEF Init, Lease!Init, Lent, Procs
  <1>2. /\ ShapeInv /\ OneOwner /\ QueueCountsHolders /\ [Next]_vars
        => [Lease!Next]_Lent
    <2> SUFFICES ASSUME ShapeInv, OneOwner, QueueCountsHolders, [Next]_vars
                 PROVE  [Lease!Next]_Lent
      OBVIOUS
    <2>1. CASE Next  BY <2>1, LentStep
    <2>2. CASE UNCHANGED vars  BY <2>2 DEF vars, Lent
    <2> QED BY <2>1, <2>2
  <1>3. Init => OneOwner
    BY DEF Init, OneOwner, Distinct, Elems, Procs
  <1> QED
    BY <1>1, <1>2, <1>3, InitShape, QueueInit, ShapeStep, OneOwnerStep, QueueStep, PTL
       DEF Spec, ImplementsLease, Lease!Spec
=============================================================================
