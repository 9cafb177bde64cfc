----------------------------- MODULE ClientCmds -----------------------------
(***************************************************************************)
(* How a client runs commands, pipelines and MULTI/EXEC pipelines over     *)
(* pooled connections (redis.go, pipeline.go, internal/error.go): write,   *)
(* read the replies in order, give the connection back or drop it, retry.  *)
(*                                                                         *)
(* The pool is taken by its promise: Get lends a connection to one user,   *)
(* Put makes it idle, Remove closes it.  The server is external: it runs   *)
(* what a connection delivers in order and replies in order, but late, and *)
(* it may run requests of a connection the client has already dropped.     *)
(***************************************************************************)
EXTENDS Naturals, Sequences

CONSTANTS
    Users,          \* goroutines that share the client
    Conns, NoConn,
    Kinds,          \* of "cmd", "blocking", "pipe" and "tx": what is called
    Batch,          \* number of commands of a pipe or tx
    MaxRetries,     \* Options.MaxRetries
    MaxCalls,       \* bound on the number of calls of a user
    MultiRefused    \* whether the server ever answers MULTI with an error

ASSUME ClientAssumption ==
    /\ NoConn \notin Conns
    /\ Kinds \subseteq {"cmd", "blocking", "pipe", "tx"}
    /\ Batch \in Nat \ {0} /\ MaxRetries \in Nat /\ MaxCalls \in Nat
    /\ MultiRefused \in BOOLEAN

VARIABLES
    idle, open,     \* connections in the pool, and those not closed
    req,            \* connection -> requests delivered and not yet run
    rep,            \* connection -> replies sent and not yet read
    multi,          \* connection -> <<>>, or the commands queued since MULTI
    execs,          \* user -> how often each command of its call has been run
    pc, calls, kind, attempt,
    cn,             \* the connection a user holds
    pos,            \* how many replies of this attempt it has read
    err,            \* user -> Err() of each command of the call
    result,         \* user -> what the call returned
    mixed           \* a user has read a reply to something else

netVars  == <<idle, open, req, rep, multi, execs>>
callVars == <<calls, kind>>
tryVars  == <<attempt, cn, pos>>
vars == <<netVars, callVars, tryVars, pc, err, result, mixed>>

Size(k) == IF k \in {"pipe", "tx"} THEN Batch ELSE 1
\* Requests are the numbers of the commands of the call, MULTI and EXEC.
Multi == 0
Exec  == Batch + 1
NoErrs == [i \in 1 .. Batch |-> "nil"]

\* Mutant: the error is not given to the commands.
SetCmdsErrForgotten(u, e) == err[u]

\* setCmdsErr: commands that have an error keep it.
SetCmdsErr(u, e) ==
    [i \in 1 .. Batch |-> IF i <= Size(kind[u]) /\ err[u][i] = "nil" THEN e ELSE err[u][i]]

\* firstCmdsErr.
FirstCmdsErr(f) ==
    IF \A i \in DOMAIN f : f[i] = "nil" THEN "nil"
    ELSE f[CHOOSE i \in DOMAIN f : f[i] # "nil" /\ \A j \in 1 .. (i - 1) : f[j] = "nil"]

\* The bytes of one attempt, as a sequence of requests.
Requests(u) ==
    LET n == Size(kind[u])
        id == <<u, calls[u], attempt[u]>>
        what == IF kind[u] = "tx"
                  THEN <<Multi>> \o [i \in 1 .. n |-> i] \o <<Exec>>
                  ELSE [i \in 1 .. n |-> i]
    IN  [i \in 1 .. Len(what) |-> [id |-> id, what |-> what[i]]]

Init ==
    /\ idle = {} /\ open = {}
    /\ req = [c \in Conns |-> <<>>] /\ rep = [c \in Conns |-> <<>>]
    /\ multi = [c \in Conns |-> <<>>]
    /\ execs = [u \in Users |-> [i \in 1 .. Batch |-> 0]]
    /\ pc = [u \in Users |-> "idle"] /\ calls = [u \in Users |-> 0]
    /\ kind = [u \in Users |-> CHOOSE k \in Kinds : TRUE]
    /\ attempt = [u \in Users |-> 0]
    /\ cn = [u \in Users |-> NoConn] /\ pos = [u \in Users |-> 0]
    /\ err = [u \in Users |-> NoErrs] /\ result = [u \in Users |-> "none"]
    /\ mixed = FALSE

-----------------------------------------------------------------------------
(* The ways an attempt ends.                                               *)

Return(u, e) ==
    /\ pc' = [pc EXCEPT ![u] = "idle"]
    /\ result' = [result EXCEPT ![u] = e]
    /\ UNCHANGED attempt

\* The loop's continue: another attempt, or the error the commands hold.
Retry(u, e) ==
    IF attempt[u] < MaxRetries
      THEN /\ attempt' = [attempt EXCEPT ![u] = @ + 1]
           /\ pc' = [pc EXCEPT ![u] = "get"]
           /\ UNCHANGED result
      ELSE Return(u, e)

\* Remove: the socket is closed; what was sent may still be run.
Remove(u) ==
    /\ open' = open \ {cn[u]} /\ UNCHANGED idle
    /\ cn' = [cn EXCEPT ![u] = NoConn]

\* Put: a connection whose reader has buffered unread bytes is removed; bytes
\* that have not been read from the socket are not noticed.
Put(u, unread) ==
    \/ /\ idle' = idle \cup {cn[u]} /\ UNCHANGED open
       /\ cn' = [cn EXCEPT ![u] = NoConn]
    \/ unread # <<>> /\ Remove(u)

-----------------------------------------------------------------------------
Start(u, k) ==
    /\ pc[u] = "idle" /\ calls[u] < MaxCalls
    /\ calls' = [calls EXCEPT ![u] = @ + 1]
    /\ kind' = [kind EXCEPT ![u] = k]
    /\ attempt' = [attempt EXCEPT ![u] = 0]
    /\ err' = [err EXCEPT ![u] = NoErrs]
    /\ execs' = [execs EXCEPT ![u] = [i \in 1 .. Batch |-> 0]]
    /\ result' = [result EXCEPT ![u] = "none"]
    /\ pc' = [pc EXCEPT ![u] = "get"]
    /\ UNCHANGED <<idle, open, req, rep, multi, cn, pos, mixed>>

\* getConn: an idle connection or a new one.
GetConn(u) ==
    /\ pc[u] = "get"
    /\ \/ /\ \E c \in idle : idle' = idle \ {c} /\ cn' = [cn EXCEPT ![u] = c]
          /\ UNCHANGED <<open, rep>>
       \/ /\ \E c \in Conns \ open :
               /\ req[c] = <<>> /\ multi[c] = <<>>
               /\ open' = open \cup {c}
               /\ rep' = [rep EXCEPT ![c] = <<>>]
               /\ cn' = [cn EXCEPT ![u] = c]
          /\ UNCHANGED idle
    /\ pc' = [pc EXCEPT ![u] = "write"]
    /\ pos' = [pos EXCEPT ![u] = 0]
    /\ UNCHANGED <<req, multi, execs, callVars, attempt, err, result, mixed>>

\* getConn fails: a dial error is a network error, ErrClosed and
\* ErrPoolTimeout are not.  A pipeline does not retry either.
GetConnFails(u, e) ==
    /\ pc[u] = "get" /\ e \in {"net", "pool"}
    /\ IF kind[u] \in {"pipe", "tx"}
         THEN err' = [err EXCEPT ![u] = SetCmdsErr(u, e)] /\ Return(u, e)
         ELSE /\ err' = [err EXCEPT ![u] = [NoErrs EXCEPT ![1] = e]]
              /\ IF e = "net" THEN Retry(u, e) ELSE Return(u, e)
    /\ UNCHANGED <<netVars, callVars, cn, pos, mixed>>

WriteCmd(u) ==
    /\ pc[u] = "write"
    /\ req' = [req EXCEPT ![cn[u]] = @ \o Requests(u)]
    /\ pc' = [pc EXCEPT ![u] = "read"]
    /\ UNCHANGED <<idle, open, rep, multi, execs, callVars, tryVars, err, result, mixed>>

\* The write fails after a proper prefix, or ("bad") an argument cannot be
\* encoded and nothing is written.
WriteFails(u, e) ==
    /\ pc[u] = "write"
    /\ \/ e = "bad" /\ UNCHANGED req
       \/ e = "net" /\ \E k \in 0 .. (Len(Requests(u)) - 1) :
                          req' = [req EXCEPT ![cn[u]] = @ \o SubSeq(Requests(u), 1, k)]
    /\ Remove(u)
    /\ err' = [err EXCEPT ![u] = IF kind[u] \in {"pipe", "tx"} THEN SetCmdsErr(u, e)
                                 ELSE [NoErrs EXCEPT ![1] = e]]
    /\ IF e = "net" THEN Retry(u, FirstCmdsErr(err'[u])) ELSE Return(u, FirstCmdsErr(err'[u]))
    /\ UNCHANGED <<rep, multi, execs, callVars, pos, mixed>>

-----------------------------------------------------------------------------
(* Reading.  A reply is [id, val]; val is "ok", "error" or "loading" (both *)
(* Redis errors, the second one retryable), "queued", "array" or "nil".    *)

\* Mutant: Read takes a transaction's broken connection for retryable.
CanRetryTx(u) == kind[u] \in {"cmd", "pipe", "tx"}
\* Whether a network error while reading may be retried: the second argument
\* of IsRetryableError, and canRetry of the pipeline processors.
CanRetry(u) == kind[u] \in {"cmd", "pipe"}

\* Mutant: a command whose reply did not come gives the connection back.
ReadFailsPut(u) ==
    /\ pc[u] = "read"
    /\ Put(u, <<>>)
    /\ err' = [err EXCEPT ![u][1] = "net"]
    /\ IF CanRetry(u) THEN Retry(u, FirstCmdsErr(err'[u])) ELSE Return(u, FirstCmdsErr(err'[u]))
    /\ UNCHANGED <<req, rep, multi, execs, callVars, pos, mixed>>

\* A timeout or a closed connection.  In a pipeline only the command being
\* read gets the error; before the replies of EXEC all of them do.
ReadFails(u) ==
    LET n == Size(kind[u])
        at == IF kind[u] = "tx" THEN pos[u] - n - 1 ELSE pos[u] + 1
    IN
    /\ pc[u] = "read"
    /\ Remove(u)
    /\ err' = [err EXCEPT ![u] = IF at < 1 THEN SetCmdsErr(u, "net") ELSE [@ EXCEPT ![at] = "net"]]
    /\ IF CanRetry(u) THEN Retry(u, FirstCmdsErr(err'[u])) ELSE Return(u, FirstCmdsErr(err'[u]))
    /\ UNCHANGED <<req, rep, multi, execs, callVars, pos, mixed>>

ErrOf(val) == IF val \in {"error", "loading"} THEN "redis" ELSE "nil"

\* The reply is taken from the stream, whoever it is meant for.
Take(u) ==
    /\ pc[u] = "read" /\ rep[cn[u]] # <<>>
    /\ rep' = [rep EXCEPT ![cn[u]] = Tail(@)]
    /\ mixed' = (mixed \/ Head(rep[cn[u]]).id # <<u, calls[u], attempt[u]>>)
    /\ UNCHANGED <<req, multi, execs>>

\* defaultProcess.
ReadCmd(u) ==
    /\ kind[u] \in {"cmd", "blocking"}
    /\ Take(u) /\ Put(u, rep'[cn[u]])
    /\ LET val == Head(rep[cn[u]]).val IN
       /\ err' = [err EXCEPT ![u][1] = ErrOf(val)]
       /\ IF val = "loading" THEN Retry(u, "redis") ELSE Return(u, ErrOf(val))
    /\ UNCHANGED <<callVars, pos>>

\* One of the replies of a pipeline, or of those that follow EXEC's header;
\* the last one ends the call.
ReadBatch(u) ==
    LET n == Size(kind[u])
        skip == IF kind[u] = "tx" THEN n + 2 ELSE 0
    IN
    /\ kind[u] \in {"pipe", "tx"} /\ pos[u] >= skip
    /\ Take(u)
    /\ err' = [err EXCEPT ![u][pos[u] - skip + 1] = ErrOf(Head(rep[cn[u]]).val)]
    /\ pos' = [pos EXCEPT ![u] = @ + 1]
    /\ IF pos[u] - skip + 1 = n
         THEN Put(u, rep'[cn[u]]) /\ Return(u, FirstCmdsErr(err'[u]))
         ELSE UNCHANGED <<idle, open, cn, attempt, pc, result>>
    /\ UNCHANGED callVars

\* txPipelineReadQueued: MULTI's reply, the QUEUED ones, EXEC's header.
ReadQueued(u) ==
    LET n == Size(kind[u])
        val == Head(rep[cn[u]]).val
        stop == \/ pos[u] = 0 /\ ErrOf(val) = "redis"
                \/ pos[u] = n + 1 /\ val # "array"
    IN
    /\ kind[u] = "tx" /\ pos[u] < n + 2
    /\ Take(u)
    /\ pos' = [pos EXCEPT ![u] = @ + 1]
    /\ IF stop
         THEN /\ err' = [err EXCEPT ![u] = SetCmdsErr(u, IF val = "nil" THEN "txfailed" ELSE "redis")]
              /\ Put(u, rep'[cn[u]]) /\ Return(u, FirstCmdsErr(err'[u]))
         ELSE UNCHANGED <<idle, open, cn, attempt, err, pc, result>>
    /\ UNCHANGED callVars

-----------------------------------------------------------------------------
(* The server (external).                                                  *)

Reply(c, id, vals) ==
    /\ req' = [req EXCEPT ![c] = Tail(@)]
    /\ rep' = [rep EXCEPT ![c] = @ \o [i \in 1 .. Len(vals) |-> [id |-> id, val |-> vals[i]]]]

\* A command counts only while its call is the user's current one.
Ran(id, S) ==
    execs' = IF calls[id[1]] = id[2]
               THEN [execs EXCEPT ![id[1]] = [i \in 1 .. Batch |-> IF i \in S THEN @[i] + 1 ELSE @[i]]]
               ELSE execs

ServerMulti(c, r) ==
    /\ r.what = Multi
    /\ \/ Reply(c, r.id, <<"ok">>) /\ multi' = [multi EXCEPT ![c] = <<Multi>>]
       \/ MultiRefused /\ Reply(c, r.id, <<"error">>) /\ UNCHANGED multi
    /\ UNCHANGED execs

ServerCmd(c, r) ==
    /\ r.what \in 1 .. Batch
    /\ \/ /\ multi[c] # <<>>
          /\ Reply(c, r.id, <<"queued">>)
          /\ multi' = [multi EXCEPT ![c] = Append(@, r.what)]
          /\ UNCHANGED execs
       \/ /\ multi[c] = <<>>
          /\ \/ Reply(c, r.id, <<"ok">>) /\ Ran(r.id, {r.what})
             \/ \E v \in {"error", "loading"} : Reply(c, r.id, <<v>>) /\ UNCHANGED execs
          /\ UNCHANGED multi

ServerExec(c, r) ==
    LET queued == Tail(multi[c]) IN
    /\ r.what = Exec
    /\ \/ /\ multi[c] # <<>>
          /\ \/ /\ Reply(c, r.id, <<"array">> \o [i \in DOMAIN queued |-> "ok"])
                /\ Ran(r.id, {queued[i] : i \in DOMAIN queued})
             \/ Reply(c, r.id, <<"nil">>) /\ UNCHANGED execs
       \/ multi[c] = <<>> /\ Reply(c, r.id, <<"error">>) /\ UNCHANGED execs
    /\ multi' = [multi EXCEPT ![c] = <<>>]

Serve(c) ==
    /\ req[c] # <<>>
    /\ LET r == Head(req[c]) IN ServerMulti(c, r) \/ ServerCmd(c, r) \/ ServerExec(c, r)
    /\ UNCHANGED <<idle, open, callVars, tryVars, pc, err, result, mixed>>

\* The server notices that the client has gone.
Drop(c) ==
    /\ c \notin open /\ (req[c] # <<>> \/ multi[c] # <<>>)
    /\ req' = [req EXCEPT ![c] = <<>>] /\ multi' = [multi EXCEPT ![c] = <<>>]
    /\ UNCHANGED <<idle, open, rep, execs, callVars, tryVars, pc, err, result, mixed>>

-----------------------------------------------------------------------------
UserStep(u) ==
    \/ GetConn(u) \/ WriteCmd(u) \/ ReadFails(u) \/ ReadCmd(u) \/ ReadBatch(u) \/ ReadQueued(u)
    \/ \E e \in {"net", "pool", "bad"} : GetConnFails(u, e) \/ WriteFails(u, e)

Next ==
    \/ \E u \in Users : UserStep(u) \/ \E k \in Kinds : Start(u, k)
    \/ \E c \in Conns : Serve(c) \/ Drop(c)

Spec == Init /\ [][Next]_vars

-----------------------------------------------------------------------------
(* Properties.                                                             *)

\* A reply is read by the attempt that asked for it, whatever was retried or
\* timed out before on the connection.
OwnReplies == ~mixed

\* Retries may run a command or a pipeline again, up to MaxRetries times; a
\* transaction and a blocking command are never run twice.
RunsBounded ==
    \A u \in Users, i \in 1 .. Batch :
        execs[u][i] <= IF kind[u] \in {"tx", "blocking"} THEN 1 ELSE MaxRetries + 1

\* A call that returns no error has run all its commands.
NoErrorMeansRun ==
    \A u \in Users : result[u] = "nil" => \A i \in 1 .. Size(kind[u]) : execs[u][i] > 0
=============================================================================
