------------------------------ MODULE TxWatch ------------------------------
(***************************************************************************)
(* Client.Watch (tx.go) over the sticky pool (internal/pool/               *)
(* pool_sticky.go), running the repository's own example: read a counter   *)
(* under WATCH, write it plus one in MULTI/EXEC, and start again when EXEC *)
(* reports TxFailedErr.                                                    *)
(*                                                                         *)
(* One exchange of a command is one step.  It can succeed; fail before the *)
(* server has run it; or fail after (the reply is lost).  Either failure   *)
(* makes releaseConn or the pipeline drop the connection; what is retried  *)
(* is defaultProcess's rule for WATCH, GET and UNWATCH, and                *)
(* txPipelineProcessCmds's for MULTI/EXEC (only when the write failed).    *)
(***************************************************************************)
EXTENDS Conns, Naturals, FiniteSets

CONSTANTS
    Txs,            \* goroutines, each with its own Tx
    MaxRetries,     \* Options.MaxRetries
    MaxIncrs        \* bound on the increments that are begun

ASSUME TxAssumption ==
    IsFiniteSet(Txs) /\ MaxRetries \in Nat /\ MaxIncrs \in Nat

VARIABLES
    val,            \* the counter, on the server
    watched,        \* connections with a WATCH on it
    dirty,          \* those of them since whose WATCH it has been written
    idle,           \* connections in the upstream pool
    cmd, attempt,   \* the command a Tx is at, and the retry loop's counter
    sticky,         \* the sticky pool's p.cn
    n,              \* the value GET returned
    failed,         \* EXEC returned TxFailedErr
    begun, done     \* increments begun, and reported as successful

txVars == <<val, watched, dirty, idle, cmd, attempt, sticky, n, failed, begun, done>>
srvVars == <<val, watched, dirty>>
cntVars == <<begun, done>>

TxInit ==
    /\ val = 0 /\ watched = {} /\ dirty = {} /\ idle = {}
    /\ cmd = [t \in Txs |-> "idle"] /\ attempt = [t \in Txs |-> 0]
    /\ sticky = [t \in Txs |-> NoConn] /\ n = [t \in Txs |-> 0]
    /\ failed = [t \in Txs |-> FALSE]
    /\ begun = 0 /\ done = 0

\* The next command of t, with a fresh retry loop.
NextCmd(t, at) ==
    /\ cmd' = [cmd EXCEPT ![t] = at]
    /\ attempt' = [attempt EXCEPT ![t] = 0]

-----------------------------------------------------------------------------
Begin(t) ==
    /\ cmd[t] = "idle" /\ begun < MaxIncrs           \* bound
    /\ begun' = begun + 1
    /\ failed' = [failed EXCEPT ![t] = FALSE]
    /\ NextCmd(t, "watch")
    /\ UNCHANGED <<srvVars, idle, sticky, n, done>>

\* StickyConnPool.Get with p.cn = nil: an idle connection or a new one, for
\* whatever command comes next.
StickyGet(t) ==
    /\ cmd[t] \in {"watch", "get", "exec", "unwatch"} /\ sticky[t] = NoConn
    /\ \E c \in Conns :
         /\ \A s \in Txs : sticky[s] # c
         /\ sticky' = [sticky EXCEPT ![t] = c]
         /\ idle' = idle \ {c}
    /\ UNCHANGED <<srvVars, cmd, attempt, n, failed, cntVars>>

\* What follows a command that has failed for good: an error of WATCH or of
\* the user's function leads to Close, whose UNWATCH error is ignored.
AfterError(at) == IF at = "unwatch" THEN "close" ELSE "unwatch"

\* StickyConnPool.Remove: the connection is closed upstream, and the server
\* forgets its WATCH.
StickyRemove(t) ==
    /\ watched' = watched \ {sticky[t]} /\ dirty' = dirty \ {sticky[t]}
    /\ sticky' = [sticky EXCEPT ![t] = NoConn]

\* The loop's continue, or the error.
RetryOrFail(t) ==
    IF attempt[t] < MaxRetries
      THEN attempt' = [attempt EXCEPT ![t] = @ + 1] /\ UNCHANGED cmd
      ELSE NextCmd(t, AfterError(cmd[t]))

\* pool.Get fails.  A pipeline gives up; a command retries a dial error.
StickyGetFails(t) ==
    /\ cmd[t] \in {"watch", "get", "exec", "unwatch"} /\ sticky[t] = NoConn
    /\ \/ cmd[t] # "exec" /\ RetryOrFail(t)
       \/ NextCmd(t, AfterError(cmd[t]))
    /\ UNCHANGED <<srvVars, idle, sticky, n, failed, cntVars>>

\* WATCH, GET or UNWATCH breaks: what it did dies with the connection.
CmdBreaks(t) ==
    /\ cmd[t] \in {"watch", "get", "unwatch"} /\ sticky[t] # NoConn
    /\ StickyRemove(t)
    /\ RetryOrFail(t)
    /\ UNCHANGED <<val, idle, n, failed, cntVars>>

\* A Redis error to WATCH, GET or the transaction: the connection is kept.
\* UNWATCH is assumed not to be refused.
CmdRefused(t) ==
    /\ cmd[t] \in {"watch", "get", "exec"} /\ sticky[t] # NoConn
    /\ NextCmd(t, "unwatch")
    /\ UNCHANGED <<srvVars, idle, sticky, n, failed, cntVars>>

\* Mutant: tx.Watch sends nothing.
WatchSkipped(t) ==
    /\ cmd[t] = "watch" /\ sticky[t] # NoConn
    /\ NextCmd(t, "get")
    /\ UNCHANGED <<srvVars, idle, sticky, n, failed, cntVars>>

Watch(t) ==
    /\ cmd[t] = "watch" /\ sticky[t] # NoConn
    /\ watched' = watched \cup {sticky[t]}
    /\ NextCmd(t, "get")
    /\ UNCHANGED <<val, dirty, idle, sticky, n, failed, cntVars>>

Get(t) ==
    /\ cmd[t] = "get" /\ sticky[t] # NoConn
    /\ n' = [n EXCEPT ![t] = val]
    /\ NextCmd(t, "exec")
    /\ UNCHANGED <<srvVars, idle, sticky, failed, cntVars>>

-----------------------------------------------------------------------------
(* MULTI, SET counter n+1, EXEC.                                           *)

\* The server runs EXEC on c: not if a watched key was written.
ServerExec(c, v) ==
    /\ val' = IF c \in dirty THEN val ELSE v
    /\ watched' = watched \ {c}
    /\ dirty' = (IF c \in dirty THEN dirty ELSE watched) \ {c}

Exec(t) ==
    /\ cmd[t] = "exec" /\ sticky[t] # NoConn
    /\ ServerExec(sticky[t], n[t] + 1)
    /\ failed' = [failed EXCEPT ![t] = sticky[t] \in dirty]
    /\ done' = IF sticky[t] \in dirty THEN done ELSE done + 1
    /\ NextCmd(t, "unwatch")
    /\ UNCHANGED <<idle, sticky, n, begun>>

\* The write breaks before EXEC is delivered: canRetry.
ExecNotWritten(t) ==
    /\ cmd[t] = "exec" /\ sticky[t] # NoConn
    /\ StickyRemove(t)
    /\ RetryOrFail(t)
    /\ UNCHANGED <<val, idle, n, failed, cntVars>>

\* Mutant: a lost reply to EXEC is retried.
ExecReplyLostRetried(t) ==
    /\ cmd[t] = "exec" /\ sticky[t] # NoConn
    /\ val' = IF sticky[t] \in dirty THEN val ELSE n[t] + 1
    /\ watched' = watched \ {sticky[t]}
    /\ dirty' = (IF sticky[t] \in dirty THEN dirty ELSE watched) \ {sticky[t]}
    /\ sticky' = [sticky EXCEPT ![t] = NoConn]
    /\ UNCHANGED <<cmd, attempt, idle, n, failed, cntVars>>

\* EXEC's reply does not come, run or not: an error, and no retry.
ExecReplyLost(t) ==
    /\ cmd[t] = "exec" /\ sticky[t] # NoConn
    /\ \/ ServerExec(sticky[t], n[t] + 1)
       \/ /\ watched' = watched \ {sticky[t]} /\ dirty' = dirty \ {sticky[t]}
          /\ UNCHANGED val
    /\ sticky' = [sticky EXCEPT ![t] = NoConn]
    /\ NextCmd(t, "unwatch")
    /\ UNCHANGED <<idle, n, failed, cntVars>>

-----------------------------------------------------------------------------
(* Tx.Close: UNWATCH, then the sticky pool's Close.                        *)

\* Mutant: Close does not send UNWATCH.
UnwatchSkipped(t) ==
    /\ cmd[t] = "unwatch" /\ sticky[t] # NoConn
    /\ NextCmd(t, "close")
    /\ UNCHANGED <<srvVars, idle, sticky, n, failed, cntVars>>

Unwatch(t) ==
    /\ cmd[t] = "unwatch" /\ sticky[t] # NoConn
    /\ watched' = watched \ {sticky[t]} /\ dirty' = dirty \ {sticky[t]}
    /\ NextCmd(t, "close")
    /\ UNCHANGED <<val, idle, sticky, n, failed, cntVars>>

\* putUpstream if there is a connection; TxFailedErr starts all over.
StickyClose(t) ==
    /\ cmd[t] = "close"
    /\ idle' = IF sticky[t] = NoConn THEN idle ELSE idle \cup {sticky[t]}
    /\ sticky' = [sticky EXCEPT ![t] = NoConn]
    /\ failed' = [failed EXCEPT ![t] = FALSE]
    /\ NextCmd(t, IF failed[t] THEN "watch" ELSE "idle")
    /\ UNCHANGED <<srvVars, n, cntVars>>

TxStep(t) ==
    \/ StickyGet(t) \/ StickyGetFails(t) \/ CmdBreaks(t) \/ CmdRefused(t)
    \/ Watch(t) \/ Get(t) \/ Exec(t) \/ ExecNotWritten(t) \/ ExecReplyLost(t)
    \/ Unwatch(t) \/ StickyClose(t)

TxNext == \E t \in Txs : Begin(t) \/ TxStep(t)

TxSpec == TxInit /\ [][TxNext]_txVars

-----------------------------------------------------------------------------
(* Properties.                                                             *)

\* Type invariant: an idle or borrowed connection is one of Conns, counters
\* stay within their bounds, and a Tx that has been closed holds none.
TxTypeOK ==
    /\ val \in Nat /\ begun \in 0 .. MaxIncrs /\ done \in Nat /\ failed \in [Txs -> BOOLEAN]
    /\ idle \subseteq Conns /\ watched \subseteq Conns /\ dirty \subseteq watched
    /\ \A t \in Txs :
         /\ cmd[t] \in {"idle", "watch", "get", "exec", "unwatch", "close"}
         /\ attempt[t] \in 0 .. MaxRetries
         /\ n[t] \in Nat
         /\ sticky[t] \in (Conns \ idle) \cup {NoConn}
         /\ cmd[t] = "idle" => sticky[t] = NoConn

\* "When using WATCH, EXEC will execute commands only if the watched keys were
\* not modified, allowing for a check-and-set mechanism.": no increment that
\* was reported as successful is lost.
IncrementsKept == done <= val

\* The counter is only ever written by an EXEC whose GET saw its last value.
CheckAndSet == [][val' # val => val' = val + 1]_txVars

\* A connection in the pool has no WATCH left on it, so the next user's EXEC
\* cannot fail because of this one's keys.
IdleUnwatched == idle \cap watched = {}
=============================================================================
