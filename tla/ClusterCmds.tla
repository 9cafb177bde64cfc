----------------------------- MODULE ClusterCmds -----------------------------
(***************************************************************************)
(* How the cluster client runs a command, a pipeline or a transaction      *)
(* (cluster.go): routing by the slot state, MOVED and ASK redirections,    *)
(* closed nodes, network errors, and the attempts that follow them.        *)
(*                                                                         *)
(* One call at a time is followed; the other goroutines appear through     *)
(* what they change under it: the slot state is reloaded, unused nodes are *)
(* collected, the client is closed.  The registry of nodes is taken by its *)
(* promise (ClusterNodes has its steps): an address has at most one node,  *)
(* and GetOrCreate makes the next one after a collection.  The servers are *)
(* external: they own slots and migrate them key by key.                   *)
(***************************************************************************)
EXTENDS Naturals, Sequences, FiniteSets

CONSTANTS
    Addrs, Slots,
    Covered,        \* slots CLUSTER SLOTS assigns; the others have no node in a state
    NoAddr, NoNode,
    Batch,          \* number of commands of a pipeline or transaction
    Kinds,          \* of "cmd", "pipe" and "tx": what is called
    MaxRedirects,   \* ClusterOptions.MaxRedirects
    MaxMoves,       \* bound on the number of slot migrations
    MaxTrouble,     \* bound on the number of network errors
    MaxNodes        \* bound on the number of nodes made for an address

ASSUME ClusterCmdsAssumption ==
    /\ Covered \subseteq Slots
    /\ NoAddr \notin Addrs /\ NoNode \notin Addrs \X (1 .. MaxNodes)
    /\ Kinds \subseteq {"cmd", "pipe", "tx"}
    /\ Batch \in Nat \ {0} /\ MaxRedirects \in Nat /\ MaxMoves \in Nat
    /\ MaxNodes \in Nat \ {0} /\ MaxTrouble \in Nat

VARIABLES
    owner, importing,   \* slot -> its owner, and where it is migrating to
    gone,               \* commands whose key has already migrated
    moves,              \* migrations begun
    closed,             \* the client is closed
    made, up,           \* address -> nodes made for it; is the last one registered
    view, reloading,    \* the slot state: slot -> master node; LazyReload's flag
    pc, kind, slotOf,   \* the call, and the slot of each of its commands
    attempt, err, ran,  \* ran: how often a command has been run
    result,
    node, ask,          \* defaultProcess: the node to use, ASKING first
    cmdsMap, failedCmds,\* node -> commands of this attempt and of the next one
    pending,            \* nodes of cmdsMap not visited yet
    cur, pos, dirty,    \* the node being read, replies read, EXEC will abort
    snap, todo,         \* defaultProcessTxPipeline: its state, slots to do
    trouble, metClosed  \* network and retryable errors of the call; it met ErrClosed

serverVars == <<owner, importing, gone, moves>>
nodeVars   == <<closed, made, up>>
stateVars  == <<view, reloading>>
callVars   == <<kind, slotOf>>
cmdVars    == <<node, ask>>
pipeVars   == <<cmdsMap, failedCmds, pending, cur, pos, dirty>>
txVars     == <<snap, todo>>
histVars   == <<trouble, metClosed>>
vars == <<serverVars, nodeVars, stateVars, callVars, cmdVars, pipeVars, txVars, histVars,
          pc, attempt, err, ran, result>>

Cmds  == 1 .. Batch
Nodes == Addrs \X (1 .. MaxNodes)
Asking == 0             \* the ASKING command in a batch
Home(n) == n[1]
IsOpen(n) == ~closed /\ up[Home(n)] /\ made[Home(n)] = n[2]
NoCmds == [n \in Nodes |-> <<>>]
Busy(m) == {n \in Nodes : m[n] # <<>>}
InCall == IF kind = "cmd" THEN {1} ELSE Cmds
EntriesOf(s) == {s[i] : i \in DOMAIN s}

-----------------------------------------------------------------------------
(* The registry and the slot state, as the call uses them.                 *)

\* GetOrCreate.  n is the node it returns, NoNode an error: the registry is
\* closed, or the node had to be made and its Test failed.
GetOrCreate(a, n) ==
    \/ closed /\ n = NoNode /\ UNCHANGED nodeVars
    \/ ~closed /\ up[a] /\ n = <<a, made[a]>> /\ UNCHANGED nodeVars
    \/ /\ ~closed /\ ~up[a] /\ made[a] < MaxNodes
       /\ n \in {<<a, made[a] + 1>>, NoNode}
       /\ made' = [made EXCEPT ![a] = @ + 1] /\ up' = [up EXCEPT ![a] = TRUE]
       /\ UNCHANGED closed

\* Random: the registered nodes, of which there is one until Close.
RandomNode == IF closed THEN {NoNode} ELSE {<<a, made[a]>> : a \in {b \in Addrs : up[b]}}

\* slotMasterNode on state v.
SlotMasterNode(v, s) == IF v[s] # NoNode THEN {v[s]} ELSE RandomNode

\* cmdSlot: ASKING has no key and gets a random slot.
CmdSlot(e) == IF e = Asking THEN Slots ELSE {slotOf[e]}

\* The entries of es at the positions at, in their order.
InOrder(es, at) ==
    LET nth(k) == CHOOSE i \in at : Cardinality({j \in at : j <= i}) = k
    IN  [k \in 1 .. Cardinality(at) |-> es[nth(k)]]

\* The maps mapCmdsByNode can return for a batch, or none when it fails.
MapCmdsByNode(es) ==
    LET Routes == {f \in [DOMAIN es -> Nodes] :
                     \A i \in DOMAIN es : \E s \in CmdSlot(es[i]) :
                        f[i] \in SlotMasterNode(view, s)}
    IN  {[n \in Nodes |-> InOrder(es, {i \in DOMAIN es : f[i] = n})] : f \in Routes}

Unroutable(es) ==
    \E i \in DOMAIN es : \E s \in CmdSlot(es[i]) : NoNode \in SlotMasterNode(view, s)

\* setCmdsErr: commands that have an error keep it.
SetCmdsErr(es, e) ==
    [i \in Cmds |-> IF i \in EntriesOf(es) /\ err[i] = "nil" THEN e ELSE err[i]]

FirstCmdsErr(f) ==
    IF \A i \in InCall : f[i] = "nil" THEN "nil"
    ELSE f[CHOOSE i \in InCall : f[i] # "nil" /\ \A j \in InCall : j < i => f[j] = "nil"]

\* A network error or a retryable answer.
Trouble == trouble < MaxTrouble /\ trouble' = trouble + 1

Return(e) == pc' = "idle" /\ result' = e

-----------------------------------------------------------------------------
(* The servers (external).                                                 *)

\* What the server at a may answer to command i.
Answers(a, i, asking) ==
    LET s == slotOf[i]
        run == {[val |-> v, to |-> NoAddr] : v \in {"ok", "error", "busy"}}
    IN  IF owner[s] = a
          THEN IF i \in gone THEN {[val |-> "ask", to |-> importing[s]]} ELSE run
          ELSE IF asking /\ importing[s] = a THEN run
          ELSE {[val |-> "moved", to |-> owner[s]]}

After(es, k) == k > 1 /\ es[k - 1] = Asking

\* Sets of commands the server may run when the replies to es, from the k-th
\* on, are lost.
LostRuns(a, es, k) ==
    SUBSET {es[j] : j \in {h \in DOMAIN es : h >= k /\ es[h] # Asking
                             /\ \E r \in Answers(a, es[h], After(es, h)) : r.val = "ok"}}

Ran(S) == ran' = [i \in Cmds |-> IF i \in S THEN ran[i] + 1 ELSE ran[i]]

StartMigration(s, a) ==
    /\ importing[s] = NoAddr /\ owner[s] # a /\ moves < MaxMoves
    /\ importing' = [importing EXCEPT ![s] = a]
    /\ moves' = moves + 1
    /\ UNCHANGED <<owner, gone, nodeVars, stateVars, callVars, cmdVars, pipeVars, txVars, histVars,
                   pc, attempt, err, ran, result>>

MigrateKey(i) ==
    /\ importing[slotOf[i]] # NoAddr /\ i \in InCall \ gone
    /\ gone' = gone \cup {i}
    /\ UNCHANGED <<owner, importing, moves, nodeVars, stateVars, callVars, cmdVars, pipeVars, txVars,
                   histVars, pc, attempt, err, ran, result>>

FinishMigration(s) ==
    /\ importing[s] # NoAddr
    /\ owner' = [owner EXCEPT ![s] = importing[s]]
    /\ importing' = [importing EXCEPT ![s] = NoAddr]
    /\ gone' = {i \in gone : slotOf[i] # s}
    /\ UNCHANGED <<moves, nodeVars, stateVars, callVars, cmdVars, pipeVars, txVars, histVars,
                   pc, attempt, err, ran, result>>

-----------------------------------------------------------------------------
(* The other goroutines of the client.                                     *)

Masters == {owner[s] : s \in Covered}

\* The goroutine LazyReload started stores a state, or fails.
Reload ==
    /\ reloading
    /\ reloading' = FALSE
    /\ \/ UNCHANGED <<nodeVars, view>>
       \/ /\ ~closed
          /\ \A a \in Masters : up[a] \/ made[a] < MaxNodes
          /\ made' = [a \in Addrs |-> IF a \in Masters /\ ~up[a] THEN made[a] + 1 ELSE made[a]]
          /\ up' = [a \in Addrs |-> up[a] \/ a \in Masters]
          /\ view' = [s \in Slots |-> IF s \in Covered THEN <<owner[s], made'[owner[s]]>> ELSE NoNode]
          /\ UNCHANGED closed
    /\ UNCHANGED <<serverVars, callVars, cmdVars, pipeVars, txVars, histVars,
                   pc, attempt, err, ran, result>>

\* GC closes a node that the state no longer uses.
Collect(a) ==
    /\ ~closed /\ up[a] /\ made[a] < MaxNodes
    /\ \E s \in Slots : view[s] # NoNode
    /\ \A s \in Slots : view[s] # <<a, made[a]>>
    /\ up' = [up EXCEPT ![a] = FALSE]
    /\ UNCHANGED <<serverVars, closed, made, stateVars, callVars, cmdVars, pipeVars, txVars, histVars,
                   pc, attempt, err, ran, result>>

Close ==
    /\ ~closed
    /\ closed' = TRUE
    /\ UNCHANGED <<serverVars, made, up, stateVars, callVars, cmdVars, pipeVars, txVars, histVars,
                   pc, attempt, err, ran, result>>

-----------------------------------------------------------------------------
Init ==
    /\ owner \in [Slots -> Addrs] /\ importing = [s \in Slots |-> NoAddr]
    /\ gone = {} /\ moves = 0
    /\ closed = FALSE /\ made = [a \in Addrs |-> 1] /\ up = [a \in Addrs |-> TRUE]
    /\ \E f \in [Covered -> Addrs] :
         view = [s \in Slots |-> IF s \in Covered THEN <<f[s], 1>> ELSE NoNode]
    /\ reloading = FALSE
    /\ kind \in Kinds /\ slotOf \in [Cmds -> Slots]
    /\ kind = "cmd" => \A i \in Cmds : slotOf[i] = slotOf[1]
    /\ pc = "start" /\ attempt = 0 /\ result = "none"
    /\ err = [i \in Cmds |-> "nil"] /\ ran = [i \in Cmds |-> 0]
    /\ node = NoNode /\ ask = FALSE
    /\ cmdsMap = NoCmds /\ failedCmds = NoCmds /\ pending = {}
    /\ cur = NoNode /\ pos = 0 /\ dirty = FALSE
    /\ snap = [s \in Slots |-> NoNode] /\ todo = {}
    /\ trouble = 0 /\ metClosed = FALSE

-----------------------------------------------------------------------------
(* defaultProcess.                                                         *)

\* The error a command is left with when nothing was read: the pipeline that
\* carries an ASKING does not overwrite the one the command has.
Unread(e) == IF ask THEN err[1] ELSE e

NextAttempt(n) ==
    IF attempt < MaxRedirects
      THEN attempt' = attempt + 1 /\ node' = n /\ UNCHANGED <<pc, result>>
      ELSE Return(err'[1]) /\ UNCHANGED <<attempt, node>>

\* cmdSlotAndNode, when the attempt has no node yet.
CmdNode ==
    /\ kind = "cmd" /\ pc = "start" /\ node = NoNode
    /\ \E n \in SlotMasterNode(view, slotOf[1]) :
         IF n = NoNode
           THEN err' = [err EXCEPT ![1] = "closed"] /\ Return("closed") /\ UNCHANGED node
           ELSE node' = n /\ UNCHANGED <<err, pc, result>>
    /\ UNCHANGED <<serverVars, nodeVars, stateVars, callVars, ask, pipeVars, txVars, histVars,
                   attempt, ran>>

\* ErrClosed: the node is looked up again.
CmdClosed ==
    /\ kind = "cmd" /\ pc = "start" /\ node # NoNode /\ ~IsOpen(node)
    /\ err' = [err EXCEPT ![1] = Unread("closed")]
    /\ metClosed' = TRUE /\ ask' = FALSE
    /\ NextAttempt(NoNode)
    /\ UNCHANGED <<serverVars, nodeVars, stateVars, callVars, pipeVars, txVars, trouble, ran>>

\* A network error (Close makes one under a command in flight), before or
\* after the server has run the command, or a retryable Redis error: on to a
\* random node.
CmdTrouble ==
    /\ kind = "cmd" /\ pc = "start" /\ node # NoNode
    /\ \/ /\ \E S \in LostRuns(Home(node), IF ask THEN <<Asking, 1>> ELSE <<1>>, 1) : Ran(S)
          /\ \E e \in {"net", Unread("net")} : err' = [err EXCEPT ![1] = e]
       \/ /\ IsOpen(node) /\ \E r \in Answers(Home(node), 1, ask) : r.val = "busy"
          /\ err' = [err EXCEPT ![1] = "redis"] /\ UNCHANGED ran
    /\ Trouble /\ ask' = FALSE
    /\ \E n \in RandomNode :
         IF n = NoNode THEN Return(err'[1]) /\ UNCHANGED <<attempt, node>> ELSE NextAttempt(n)
    /\ UNCHANGED <<serverVars, nodeVars, stateVars, callVars, pipeVars, txVars, metClosed>>

\* The command is answered, by its result or an error that ends the call.
CmdReply ==
    /\ kind = "cmd" /\ pc = "start" /\ node # NoNode /\ IsOpen(node)
    /\ \E r \in Answers(Home(node), 1, ask) :
         \/ r.val = "ok" /\ Ran({1}) /\ err' = [err EXCEPT ![1] = "nil"] /\ Return("nil")
         \/ /\ r.val = "error" /\ UNCHANGED ran
            /\ err' = [err EXCEPT ![1] = "redis"] /\ Return("redis")
    /\ ask' = FALSE
    /\ UNCHANGED <<serverVars, nodeVars, stateVars, callVars, node, pipeVars, txVars, histVars,
                   attempt>>

\* Mutant: ask is not remembered for the next attempt.
CmdRedirectNoAsking ==
    /\ kind = "cmd" /\ pc = "start" /\ node # NoNode /\ IsOpen(node)
    /\ \E r \in Answers(Home(node), 1, ask) :
         /\ r.val \in {"moved", "ask"}
         /\ err' = [err EXCEPT ![1] = r.val] /\ ask' = FALSE
         /\ \E n \in Nodes : GetOrCreate(r.to, n) /\ NextAttempt(n)
    /\ UNCHANGED <<serverVars, stateVars, callVars, pipeVars, txVars, histVars, ran>>

\* MOVED or ASK: LazyReload, GetOrCreate, and ASKING first after an ASK.
CmdRedirect ==
    /\ kind = "cmd" /\ pc = "start" /\ node # NoNode /\ IsOpen(node)
    /\ \E r \in Answers(Home(node), 1, ask) :
         /\ r.val \in {"moved", "ask"}
         /\ err' = [err EXCEPT ![1] = r.val] /\ ask' = (r.val = "ask")
         /\ \E n \in Nodes \cup {NoNode} :
              /\ GetOrCreate(r.to, n)
              /\ IF n = NoNode
                   THEN Return(r.val) /\ trouble' = trouble + 1 /\ UNCHANGED <<attempt, node>>
                   ELSE NextAttempt(n) /\ UNCHANGED trouble
    /\ reloading' = TRUE
    /\ UNCHANGED <<serverVars, view, callVars, pipeVars, txVars, metClosed, ran>>

-----------------------------------------------------------------------------
(* defaultProcessPipeline, and the attempts of defaultProcessTxPipeline,   *)
(* which are the same loop over another way to run a batch.                *)

AllCmds == [i \in Cmds |-> i]
SlotCmds(s) == InOrder(AllCmds, {i \in Cmds : slotOf[i] = s})

BeginAttempt(m) ==
    /\ cmdsMap' = m /\ pending' = Busy(m) /\ failedCmds' = NoCmds
    /\ pc' = "pipe"

BeginPipe ==
    /\ kind = "pipe" /\ pc = "start"
    /\ \/ /\ \E m \in MapCmdsByNode(AllCmds) : BeginAttempt(m)
          /\ UNCHANGED <<err, result>>
       \/ /\ Unroutable(AllCmds)
          /\ err' = SetCmdsErr(AllCmds, "closed") /\ Return("closed")
          /\ UNCHANGED <<cmdsMap, pending, failedCmds>>
    /\ UNCHANGED <<serverVars, nodeVars, stateVars, callVars, cmdVars, cur, pos, dirty, txVars,
                   histVars, attempt, ran>>

BeginTx ==
    /\ kind = "tx" /\ pc = "start"
    /\ snap' = view /\ todo' = {slotOf[i] : i \in Cmds}
    /\ pc' = "slots"
    /\ UNCHANGED <<serverVars, nodeVars, stateVars, callVars, cmdVars, pipeVars, histVars,
                   attempt, err, ran, result>>

\* The next slot of a transaction: one MULTI/EXEC on its master.
TxSlot ==
    /\ pc = "slots" /\ todo # {}
    /\ \E s \in todo :
         /\ todo' = todo \ {s}
         /\ \E n \in SlotMasterNode(snap, s) :
              IF n = NoNode
                THEN /\ err' = SetCmdsErr(SlotCmds(s), "closed")
                     /\ UNCHANGED <<cmdsMap, pending, failedCmds, pc, attempt>>
                ELSE /\ BeginAttempt([NoCmds EXCEPT ![n] = SlotCmds(s)])
                     /\ attempt' = 0 /\ UNCHANGED err
    /\ UNCHANGED <<serverVars, nodeVars, stateVars, callVars, cmdVars, cur, pos, dirty, snap, histVars,
                   ran, result>>

TxEnds ==
    /\ pc = "slots" /\ todo = {}
    /\ Return(FirstCmdsErr(err))
    /\ UNCHANGED <<serverVars, nodeVars, stateVars, callVars, cmdVars, pipeVars, txVars, histVars,
                   attempt, err, ran>>

\* The commands of m take the place of what is there for the same node.
RemapCmds(m) == [n \in Nodes |-> IF m[n] # <<>> THEN m[n] ELSE failedCmds[n]]

\* getConn says ErrClosed.
BatchClosed(n) ==
    /\ pc = "pipe" /\ n \in pending /\ ~IsOpen(n)
    /\ \/ /\ \E m \in MapCmdsByNode(cmdsMap[n]) : failedCmds' = RemapCmds(m)
          /\ UNCHANGED err
       \/ /\ Unroutable(cmdsMap[n])
          /\ err' = SetCmdsErr(cmdsMap[n], "closed") /\ UNCHANGED failedCmds
    /\ pending' = pending \ {n}
    /\ metClosed' = TRUE
    /\ UNCHANGED <<serverVars, nodeVars, stateVars, callVars, cmdVars, cmdsMap, cur, pos, dirty, txVars,
                   trouble, pc, attempt, ran, result>>

\* Mutant: the commands are not marked.
BatchUndeliveredSilently(n) ==
    /\ pc = "pipe" /\ n \in pending /\ IsOpen(n)
    /\ pending' = pending \ {n}
    /\ Trouble
    /\ UNCHANGED <<serverVars, nodeVars, stateVars, callVars, cmdVars, cmdsMap, failedCmds, cur, pos,
                   dirty, txVars, metClosed, pc, attempt, err, ran, result>>

\* Another error of getConn, which is final, or a write that breaks off, after
\* which the batch is tried again; the server may have run a part of it, but
\* no EXEC.
BatchUndelivered(n) ==
    /\ pc = "pipe" /\ n \in pending /\ IsOpen(n)
    /\ \/ UNCHANGED <<failedCmds, ran>>
       \/ /\ failedCmds' = [failedCmds EXCEPT ![n] = cmdsMap[n]]
          /\ IF kind = "tx" THEN UNCHANGED ran
             ELSE \E S \in LostRuns(Home(n), cmdsMap[n], 1) : Ran(S)
    /\ err' = SetCmdsErr(cmdsMap[n], "net")
    /\ pending' = pending \ {n}
    /\ Trouble
    /\ UNCHANGED <<serverVars, nodeVars, stateVars, callVars, cmdVars, cmdsMap, cur, pos, dirty, txVars,
                   metClosed, pc, attempt, result>>

BatchWritten(n) ==
    /\ pc = "pipe" /\ n \in pending /\ IsOpen(n)
    /\ cur' = n /\ pos' = 0 /\ dirty' = FALSE
    /\ pending' = pending \ {n}
    /\ pc' = "read"
    /\ UNCHANGED <<serverVars, nodeVars, stateVars, callVars, cmdVars, cmdsMap, failedCmds, txVars,
                   histVars, attempt, err, ran, result>>

\* checkMovedErr: the commands es wait for the node at address a; only MOVED
\* asks for a reload.
CheckMovedErr(r, es) ==
    /\ \E n \in Nodes \cup {NoNode} :
         /\ GetOrCreate(r.to, n)
         /\ failedCmds' = IF n = NoNode THEN failedCmds ELSE [failedCmds EXCEPT ![n] = @ \o es]
         /\ trouble' = IF n = NoNode THEN trouble + 1 ELSE trouble
    /\ reloading' = (reloading \/ r.val = "moved")

Redirected(r, e) == IF r.val = "ask" THEN <<Asking, e>> ELSE <<e>>

\* The replies have been read, or will not come.
EndBatch == pc' = "pipe" /\ cur' = NoNode /\ pos' = 0 /\ dirty' = FALSE

\* The next reply, if there is one.
NextReply ==
    IF pos + 1 < Len(cmdsMap[cur]) THEN pos' = pos + 1 /\ UNCHANGED <<pc, cur, dirty>> ELSE EndBatch

\* Mutant: a redirected command keeps its place in the old batch too.
ReadReplyTwice ==
    LET es == cmdsMap[cur]
        e == es[pos + 1]
    IN
    /\ kind = "pipe" /\ pc = "read" /\ e # Asking
    /\ \E r \in Answers(Home(cur), e, After(es, pos + 1)) :
         /\ failedCmds' = [failedCmds EXCEPT ![cur] = Append(@, e)]
         /\ IF r.val = "ok" THEN Ran({e}) ELSE UNCHANGED ran
    /\ NextReply
    /\ UNCHANGED <<serverVars, nodeVars, stateVars, callVars, cmdVars, cmdsMap, pending, txVars, histVars,
                   err, attempt, result>>

\* pipelineReadCmds: the next reply of a pipeline.
ReadReply ==
    LET es == cmdsMap[cur]
        e == es[pos + 1]
    IN
    /\ kind = "pipe" /\ pc = "read"
    /\ \/ /\ e = Asking
          /\ UNCHANGED <<nodeVars, reloading, failedCmds, trouble, err, ran>>
       \/ /\ e # Asking
          /\ \E r \in Answers(Home(cur), e, After(es, pos + 1)) :
               \/ /\ r.val \in {"ok", "error", "busy"}
                  /\ err' = [err EXCEPT ![e] = IF r.val = "ok" THEN "nil" ELSE "redis"]
                  /\ IF r.val = "ok" THEN Ran({e}) ELSE UNCHANGED ran
                  /\ UNCHANGED <<nodeVars, reloading, failedCmds, trouble>>
               \/ /\ r.val \in {"moved", "ask"}
                  /\ CheckMovedErr(r, Redirected(r, e))
                  /\ err' = [err EXCEPT ![e] = r.val]
                  /\ UNCHANGED ran
    /\ NextReply
    /\ UNCHANGED <<serverVars, view, callVars, cmdVars, cmdsMap, pending, txVars, metClosed, attempt,
                   result>>

\* The connection breaks: only the command being read is told.
ReadLost ==
    LET es == cmdsMap[cur]
        e == es[pos + 1]
    IN
    /\ kind = "pipe" /\ pc = "read"
    /\ \E S \in LostRuns(Home(cur), es, pos + 1) : Ran(S)
    /\ err' = IF e = Asking THEN err ELSE [err EXCEPT ![e] = "net"]
    /\ Trouble
    /\ EndBatch
    /\ UNCHANGED <<serverVars, nodeVars, stateVars, callVars, cmdVars, cmdsMap, failedCmds, pending,
                   txVars, metClosed, attempt, result>>

-----------------------------------------------------------------------------
(* txPipelineProcessCmds.  The errors met while commands are queued go to  *)
(* a scratch StatusCmd; the commands get EXEC's.                           *)

TxQueued ==
    LET es == cmdsMap[cur]
        e == es[pos + 1]
    IN
    /\ kind = "tx" /\ pc = "read" /\ pos < Len(es)
    /\ \/ /\ e = Asking
          /\ UNCHANGED <<nodeVars, reloading, failedCmds, trouble, dirty>>
       \/ /\ e # Asking
          /\ \E r \in Answers(Home(cur), e, FALSE) :
               \/ /\ r.val \in {"ok", "error"} /\ dirty' = (dirty \/ r.val = "error")
                  /\ UNCHANGED <<nodeVars, reloading, failedCmds, trouble>>
               \/ /\ r.val \in {"moved", "ask"} /\ dirty' = TRUE
                  /\ CheckMovedErr(r, Redirected(r, e))
    /\ pos' = pos + 1
    /\ UNCHANGED <<serverVars, view, callVars, cmdVars, cmdsMap, pending, cur, txVars, metClosed, pc,
                   attempt, err, ran, result>>

\* What the server does with EXEC: EXECABORT after a refused command, MOVED
\* or ASK for the whole transaction, TRYAGAIN when some of its keys have
\* migrated, or run it.
ExecAnswer ==
    LET keys == EntriesOf(cmdsMap[cur]) \ {Asking}
        s == slotOf[CHOOSE i \in keys : TRUE]
    IN  IF keys = {} THEN [val |-> "ok", to |-> NoAddr]
        ELSE IF dirty THEN [val |-> "error", to |-> NoAddr]
        ELSE IF owner[s] # Home(cur) THEN [val |-> "moved", to |-> owner[s]]
        ELSE IF keys \subseteq gone THEN [val |-> "ask", to |-> importing[s]]
        ELSE IF keys \cap gone # {} THEN [val |-> "error", to |-> NoAddr]
        ELSE [val |-> "ok", to |-> NoAddr]

\* Each command of es, as checkMovedErr appends it.
AllRedirected(r, es) ==
    IF r.val = "moved" THEN es
    ELSE [k \in 1 .. (2 * Len(es)) |-> IF k % 2 = 1 THEN Asking ELSE es[k \div 2]]

TxExec ==
    LET es == cmdsMap[cur]
        r == ExecAnswer
    IN
    /\ kind = "tx" /\ pc = "read" /\ pos = Len(es)
    /\ \/ /\ r.val = "ok"
          /\ Ran(EntriesOf(es)) /\ err' = [i \in Cmds |-> IF i \in EntriesOf(es) THEN "nil" ELSE err[i]]
          /\ UNCHANGED <<nodeVars, reloading, failedCmds, trouble>>
       \/ /\ r.val = "error" /\ err' = SetCmdsErr(es, "redis")
          /\ UNCHANGED <<nodeVars, reloading, failedCmds, trouble, ran>>
       \/ /\ r.val \in {"moved", "ask"} /\ err' = SetCmdsErr(es, r.val)
          /\ CheckMovedErr(r, AllRedirected(r, es))
          /\ UNCHANGED ran
    /\ EndBatch
    /\ UNCHANGED <<serverVars, view, callVars, cmdVars, cmdsMap, pending, txVars, metClosed, attempt,
                   result>>

\* Mutant: a transaction whose replies are lost is tried again.
TxLostRetried ==
    LET es == cmdsMap[cur] IN
    /\ kind = "tx" /\ pc = "read"
    /\ IF ExecAnswer.val = "ok" THEN Ran(EntriesOf(es)) ELSE UNCHANGED ran
    /\ failedCmds' = [failedCmds EXCEPT ![cur] = es]
    /\ Trouble
    /\ EndBatch
    /\ UNCHANGED <<serverVars, nodeVars, stateVars, callVars, cmdVars, cmdsMap, pending, txVars,
                   metClosed, attempt, err, result>>

\* The connection breaks before EXEC's header, or after it and before the k-th
\* result; the server has everything and may run it.
TxLost ==
    LET es == cmdsMap[cur] IN
    /\ kind = "tx" /\ pc = "read"
    /\ \/ /\ err' = SetCmdsErr(es, "net")
          /\ UNCHANGED ran \/ (ExecAnswer.val = "ok" /\ Ran(EntriesOf(es)))
       \/ /\ pos = Len(es) /\ ExecAnswer.val = "ok" /\ Ran(EntriesOf(es))
          /\ \E k \in DOMAIN es :
               err' = [i \in Cmds |-> IF i = es[k] THEN "net"
                                     ELSE IF i \in EntriesOf(SubSeq(es, 1, k - 1)) THEN "nil"
                                     ELSE err[i]]
    /\ Trouble
    /\ EndBatch
    /\ UNCHANGED <<serverVars, nodeVars, stateVars, callVars, cmdVars, cmdsMap, failedCmds, pending,
                   txVars, metClosed, attempt, result>>

-----------------------------------------------------------------------------

\* All nodes have been visited: the failed commands are the next attempt's.
EndAttempt ==
    /\ pc = "pipe" /\ pending = {}
    /\ IF Busy(failedCmds) = {} \/ attempt = MaxRedirects
         THEN /\ IF kind = "tx" THEN pc' = "slots" /\ UNCHANGED result
                                ELSE Return(FirstCmdsErr(err))
              /\ UNCHANGED <<cmdsMap, pending, failedCmds, attempt>>
         ELSE /\ BeginAttempt(failedCmds)
              /\ attempt' = attempt + 1 /\ UNCHANGED result
    /\ UNCHANGED <<serverVars, nodeVars, stateVars, callVars, cmdVars, cur, pos, dirty, txVars, histVars,
                   err, ran>>

CallStep ==
    \/ CmdNode \/ CmdClosed \/ CmdTrouble \/ CmdReply \/ CmdRedirect
    \/ BeginPipe \/ BeginTx \/ TxSlot \/ TxEnds \/ EndAttempt
    \/ ReadReply \/ ReadLost \/ TxQueued \/ TxExec \/ TxLost
    \/ \E n \in Nodes : BatchClosed(n) \/ BatchUndelivered(n) \/ BatchWritten(n)

\* What happens around the call, of interest until it returns.
Around ==
    \/ \E s \in Slots : FinishMigration(s) \/ \E a \in Addrs : StartMigration(s, a)
    \/ \E i \in Cmds : MigrateKey(i)
    \/ \E a \in Addrs : Collect(a)
    \/ Reload \/ Close

Next ==
    \/ CallStep
    \/ pc # "idle" /\ Around

Spec == Init /\ [][Next]_vars

-----------------------------------------------------------------------------
(* Properties.                                                             *)

\* "Exec always returns list of commands and error of the first failed command
\* if any.": a call that returns no error has run every command of it.
NilMeansRun == result = "nil" => \A i \in InCall : ran[i] > 0

\* The same for every call that has not met a closed node on the pipeline
\* path, whatever was redirected, lost or collected under it.
NilMeansRunOpen == result = "nil" /\ (metClosed => kind = "cmd") => \A i \in InCall : ran[i] > 0

\* Redirections and remapping never run a command twice: only a network error,
\* which hides whether it ran, may lead to that.
RunsOnce == trouble = 0 => \A i \in InCall : ran[i] <= 1

\* A transaction is never run twice, network error or not.
TxRunsOnce == kind = "tx" => \A i \in InCall : ran[i] <= 1

\* A stale slot state costs one redirection and every migration that runs
\* under the call one more: undisturbed, a command or pipeline gives up on a
\* redirection only after as many migrations as MaxRedirects.
RedirectsConverge ==
    kind # "tx" /\ result \in {"moved", "ask"} /\ trouble = 0 /\ ~metClosed => moves >= MaxRedirects
==============================================================================
