---------------------------- MODULE ClusterNodes ----------------------------
(***************************************************************************)
(* The node registry and the slot state of the cluster client             *)
(* (cluster.go): GetOrCreate with its singleflight group, the generations  *)
(* that newClusterState stamps on the nodes it uses, the GC timer each new *)
(* state arms, LazyReload and Close.                                       *)
(*                                                                         *)
(* A step is one critical section of c.mu or of the singleflight group, an *)
(* atomic access, or a network call.  Callers are goroutines that follow a *)
(* redirect or a random address to GetOrCreate; Loaders are the goroutines *)
(* LazyReload starts, the first of which is NewClusterClient's own Load.   *)
(***************************************************************************)
EXTENDS Naturals, FiniteSets

CONSTANTS
    Addrs,      \* addresses of servers
    Seeds,      \* ClusterOptions.Addrs
    Loopback,   \* the addresses isLoopbackAddr holds of
    Nodes,      \* identities of *clusterNode
    NoNode,     \* a nil *clusterNode
    Callers, Loaders,
    First,      \* the loader that stands for NewClusterClient
    MaxLoads    \* bound on the number of states loaded

ASSUME ClusterAssumption ==
    /\ Seeds \subseteq Addrs /\ Seeds # {} /\ Loopback \subseteq Addrs
    /\ NoNode \notin Nodes
    /\ Callers \cap Loaders = {} /\ First \in Loaders
    /\ MaxLoads \in Nat \ {0}

VARIABLES
    closed, allAddrs,
    allNodes,       \* address -> registered node
    clusterAddrs,   \* address -> how often it occurs in c.clusterAddrs
    group,          \* nodeCreateGroup.m: address -> node of the call in flight
    opened,         \* nodes whose Client is open
    home,           \* node -> the address it was created for
    test,           \* node -> outcome of the Test that creates it
    gen,            \* node -> node.generation
    generation,     \* c.generation
    state,          \* the published state: its generation (0: none) and nodes
    lastErr,        \* TRUE once the holder's lastErr is set
    reloading,      \* the holder's reloading flag
    timers,         \* generations whose GC timer has not fired
    collected,      \* nodes a GC has removed and not closed yet
    built,          \* NewClusterClient has returned
    pc, want,       \* where a goroutine is, and the address it asks for
    node,           \* the node it has in hand
    todo,           \* loader -> addresses it has still to visit
    draft           \* loader -> the state it is building

regVars  == <<closed, allAddrs, allNodes, clusterAddrs>>
nodeVars == <<opened, home, test, gen>>
holdVars == <<generation, state, lastErr, reloading, timers, built>>
procVars == <<pc, want, node>>
loadVars == <<todo, draft>>
vars == <<regVars, group, nodeVars, holdVars, collected, procVars, loadVars>>

Procs == Callers \cup Loaders
NoState == [gen |-> 0, nodes |-> {}]
Registered == {allNodes[a] : a \in Addrs} \ {NoNode}

\* c.Addrs(): the addresses known to answer, or else every address ever seen.
CurrentAddrs ==
    LET answering == {a \in Addrs : clusterAddrs[a] > 0}
    IN  IF answering # {} THEN answering ELSE allAddrs

\* An identity nothing refers to, for the next newClusterNode.
Fresh(n) ==
    /\ n \notin opened \cup Registered \cup collected \cup state.nodes
    /\ \A a \in Addrs : group[a] # n
    /\ \A p \in Procs : node[p] # n
    /\ \A l \in Loaders : n \notin draft[l].nodes

Goto(p, at) == pc' = [pc EXCEPT ![p] = at]

Init ==
    /\ closed = FALSE /\ allAddrs = Seeds
    /\ allNodes = [a \in Addrs |-> NoNode]
    /\ clusterAddrs = [a \in Addrs |-> 0]
    /\ group = [a \in Addrs |-> NoNode]
    /\ opened = {} /\ home = [n \in Nodes |-> CHOOSE a \in Seeds : TRUE]
    /\ test = [n \in Nodes |-> "none"] /\ gen = [n \in Nodes |-> 0]
    /\ generation = 0 /\ state = NoState /\ lastErr = FALSE
    /\ reloading = FALSE /\ timers = {} /\ collected = {} /\ built = FALSE
    /\ pc = [p \in Procs |-> IF p = First THEN "addrs" ELSE "idle"]
    /\ want = [p \in Procs |-> CHOOSE a \in Seeds : TRUE]
    /\ node = [p \in Procs |-> NoNode]
    /\ todo = [l \in Loaders |-> {}] /\ draft = [l \in Loaders |-> NoState]

-----------------------------------------------------------------------------
(* GetOrCreate.  "got" and "failed" are its two returns.                   *)

\* A MOVED or ASK reply names any address; Random names a current one.
CallStart(p) ==
    /\ pc[p] = "idle" /\ built
    /\ \E a \in Addrs :
         /\ want' = [want EXCEPT ![p] = a]
         /\ Goto(p, "lookup")
    /\ UNCHANGED <<regVars, group, nodeVars, holdVars, collected, node, loadVars>>

Lookup(p) ==
    /\ pc[p] = "lookup"
    /\ Goto(p, IF closed THEN "failed"
               ELSE IF allNodes[want[p]] # NoNode THEN "got" ELSE "do")
    /\ node' = [node EXCEPT ![p] = IF closed THEN NoNode ELSE allNodes[want[p]]]
    /\ UNCHANGED <<regVars, group, nodeVars, holdVars, collected, want, loadVars>>

\* singleflight: a call for the key is there, in flight or just completed.
DoJoin(p) ==
    /\ pc[p] = "do" /\ group[want[p]] # NoNode
    /\ node' = [node EXCEPT ![p] = group[want[p]]]
    /\ Goto(p, "wait")
    /\ UNCHANGED <<regVars, group, nodeVars, holdVars, collected, want, loadVars>>

\* Mutant: the key is not looked up in g.m.
DoLeadAlways(p) ==
    /\ pc[p] = "do"
    /\ \E n \in Nodes :
         /\ Fresh(n)
         /\ group' = [group EXCEPT ![want[p]] = n]
         /\ opened' = opened \cup {n}
         /\ home' = [home EXCEPT ![n] = want[p]]
         /\ test' = [test EXCEPT ![n] = "running"]
         /\ gen' = [gen EXCEPT ![n] = 0]
         /\ node' = [node EXCEPT ![p] = n]
    /\ Goto(p, "test")
    /\ UNCHANGED <<regVars, holdVars, collected, want, loadVars>>

\* singleflight: no call for the key; newClusterNode, and Test begins.
DoLead(p) ==
    /\ pc[p] = "do" /\ group[want[p]] = NoNode
    /\ \E n \in Nodes :
         /\ Fresh(n)
         /\ group' = [group EXCEPT ![want[p]] = n]
         /\ opened' = opened \cup {n}
         /\ home' = [home EXCEPT ![n] = want[p]]
         /\ test' = [test EXCEPT ![n] = "running"]
         /\ gen' = [gen EXCEPT ![n] = 0]
         /\ node' = [node EXCEPT ![p] = n]
    /\ Goto(p, "test")
    /\ UNCHANGED <<regVars, holdVars, collected, want, loadVars>>

\* Test returns, with or without an error, and wg.Done frees the waiters.
TestEnds(p) ==
    /\ pc[p] = "test"
    /\ \E r \in {"ok", "error"} : test' = [test EXCEPT ![node[p]] = r]
    /\ Goto(p, "forget")
    /\ UNCHANGED <<regVars, group, opened, home, gen, holdVars, collected, want, node, loadVars>>

Forget(p) ==
    /\ pc[p] = "forget"
    /\ group' = [group EXCEPT ![want[p]] = NoNode]
    /\ Goto(p, "register")
    /\ UNCHANGED <<regVars, nodeVars, holdVars, collected, want, node, loadVars>>

WaitEnds(p) ==
    /\ pc[p] = "wait" /\ test[node[p]] # "running"
    /\ Goto(p, "register")
    /\ UNCHANGED <<regVars, group, nodeVars, holdVars, collected, want, node, loadVars>>

\* Mutant: the second node for the address is not closed.
RegisterKeepsSecond(p) ==
    LET a == want[p] IN
    /\ pc[p] = "register"
    /\ IF closed \/ allNodes[a] # NoNode
         THEN node' = [node EXCEPT ![p] = allNodes[a]] /\ UNCHANGED allNodes
         ELSE allNodes' = [allNodes EXCEPT ![a] = node[p]] /\ UNCHANGED node
    /\ Goto(p, IF closed THEN "failed" ELSE "got")
    /\ UNCHANGED <<closed, allAddrs, clusterAddrs, group, nodeVars, holdVars, collected, want,
                   loadVars>>

\* The second critical section of c.mu.  An address that has been registered
\* meanwhile keeps its node, and the node in hand is closed, whoever made it.
Register(p) ==
    LET a == want[p]
        ok == test[node[p]] = "ok"
    IN
    /\ pc[p] = "register"
    /\ \/ /\ closed
          /\ Goto(p, "failed")
          /\ UNCHANGED <<regVars, opened, node>>
       \/ /\ ~closed /\ allNodes[a] # NoNode
          /\ opened' = opened \ {node[p]}
          /\ node' = [node EXCEPT ![p] = allNodes[a]]
          /\ Goto(p, IF ok THEN "got" ELSE "failed")
          /\ UNCHANGED regVars
       \/ /\ ~closed /\ allNodes[a] = NoNode
          /\ allAddrs' = allAddrs \cup {a}
          /\ clusterAddrs' = IF ok THEN [clusterAddrs EXCEPT ![a] = @ + 1] ELSE clusterAddrs
          /\ allNodes' = [allNodes EXCEPT ![a] = node[p]]
          /\ Goto(p, IF ok THEN "got" ELSE "failed")
          /\ UNCHANGED <<closed, opened, node>>
    /\ UNCHANGED <<group, home, test, gen, holdVars, collected, want, loadVars>>

\* A caller sends its command, or reports the error, and is done.
CallEnds(p) ==
    /\ pc[p] \in {"got", "failed"}
    /\ node' = [node EXCEPT ![p] = NoNode]
    /\ Goto(p, "idle")
    /\ UNCHANGED <<regVars, group, nodeVars, holdVars, collected, want, loadVars>>

-----------------------------------------------------------------------------
(* LazyReload, loadState and newClusterState.  draft[l].gen = 0 while the  *)
(* loader looks for a node that answers CLUSTER SLOTS; then it is the      *)
(* generation of the state under construction.                             *)

\* Mutant: the compare-and-swap on reloading is dropped.
LazyReloadAlways(l) ==
    /\ pc[l] = "idle" /\ built /\ generation < MaxLoads
    /\ reloading' = TRUE
    /\ Goto(l, "addrs")
    /\ UNCHANGED <<regVars, group, nodeVars, generation, state, lastErr, timers, built,
                   collected, want, node, loadVars>>

LazyReload(l) ==
    /\ pc[l] = "idle" /\ built /\ ~reloading
    /\ generation < MaxLoads                        \* bound
    /\ reloading' = TRUE
    /\ Goto(l, "addrs")
    /\ UNCHANGED <<regVars, group, nodeVars, generation, state, lastErr, timers, built,
                   collected, want, node, loadVars>>

LoadAddrs(l) ==
    /\ pc[l] = "addrs"
    /\ todo' = [todo EXCEPT ![l] = IF closed THEN {} ELSE CurrentAddrs]
    /\ Goto(l, "next")
    /\ UNCHANGED <<regVars, group, nodeVars, holdVars, collected, want, node, draft>>

\* The next address of either loop goes through GetOrCreate.
LoadNext(l) ==
    /\ pc[l] = "next" /\ todo[l] # {}
    /\ \E a \in todo[l] :
         /\ want' = [want EXCEPT ![l] = a]
         /\ todo' = [todo EXCEPT ![l] = @ \ {a}]
    /\ Goto(l, "lookup")
    /\ UNCHANGED <<regVars, group, nodeVars, holdVars, collected, node, draft>>

\* isLoopbackAddr: a node that calls itself 127.0.0.1 is reached at origin.
SlotAddr(a, origin) == IF origin \notin Loopback /\ a \in Loopback THEN origin ELSE a

\* CLUSTER SLOTS fails (always on a closed client), or answers with the
\* addresses of the cluster and newClusterState begins.
LoadSlots(l) ==
    /\ pc[l] = "got" /\ draft[l].gen = 0
    /\ \/ UNCHANGED <<generation, todo, draft>>
       \/ /\ node[l] \in opened
          /\ generation' = generation + 1
          /\ draft' = [draft EXCEPT ![l] = [gen |-> generation + 1, nodes |-> {}]]
          /\ \E S \in (SUBSET Addrs) \ {{}} :
               todo' = [todo EXCEPT ![l] = {SlotAddr(a, want[l]) : a \in S}]
    /\ node' = [node EXCEPT ![l] = NoNode]
    /\ Goto(l, "next")
    /\ UNCHANGED <<regVars, group, nodeVars, state, lastErr, reloading, timers, built,
                   collected, want>>

\* SetGeneration, which never lowers a generation.
LoadStamp(l) ==
    /\ pc[l] = "got" /\ draft[l].gen > 0
    /\ gen' = [gen EXCEPT ![node[l]] = IF draft[l].gen < @ THEN @ ELSE draft[l].gen]
    /\ draft' = [draft EXCEPT ![l].nodes = @ \cup {node[l]}]
    /\ node' = [node EXCEPT ![l] = NoNode]
    /\ Goto(l, "next")
    /\ UNCHANGED <<regVars, group, opened, home, test, holdVars, collected, want, todo>>

\* A GetOrCreate that fails: loadState tries the next address, newClusterState
\* gives up.
LoadSkip(l) ==
    /\ pc[l] = "failed"
    /\ todo' = [todo EXCEPT ![l] = IF draft[l].gen = 0 THEN @ ELSE {}]
    /\ draft' = [draft EXCEPT ![l] = NoState]
    /\ node' = [node EXCEPT ![l] = NoNode]
    /\ Goto(l, IF draft[l].gen = 0 THEN "next" ELSE "error")
    /\ UNCHANGED <<regVars, group, nodeVars, holdVars, collected, want>>

\* AfterFunc arms the timer; the holder stores the state.
LoadStore(l) ==
    /\ pc[l] = "next" /\ todo[l] = {} /\ draft[l].gen > 0
    /\ timers' = timers \cup {draft[l].gen}
    /\ state' = draft[l]
    /\ draft' = [draft EXCEPT ![l] = NoState]
    /\ Goto(l, "done")
    /\ UNCHANGED <<regVars, group, nodeVars, generation, lastErr, reloading, built, collected,
                   want, node, todo>>

LoadError(l) ==
    /\ pc[l] = "error" \/ (pc[l] = "next" /\ todo[l] = {} /\ draft[l].gen = 0)
    /\ lastErr' = TRUE
    /\ Goto(l, "done")
    /\ UNCHANGED <<regVars, group, nodeVars, generation, state, reloading, timers, built,
                   collected, want, node, loadVars>>

\* The deferred store, after the pause; for First, the constructor returns.
LoadEnds(l) ==
    /\ pc[l] = "done"
    /\ built' = TRUE
    /\ reloading' = FALSE
    /\ Goto(l, "idle")
    /\ UNCHANGED <<regVars, group, nodeVars, generation, state, lastErr, timers, collected,
                   want, node, loadVars>>

-----------------------------------------------------------------------------
(* GC and Close.                                                           *)

\* Mutant: a node stamped with the collector's own generation goes too.
UnusedAtMost(a, g) == allNodes[a] # NoNode /\ gen[allNodes[a]] <= g

Unused(a, g) == allNodes[a] # NoNode /\ gen[allNodes[a]] < g

\* The timer of generation g fires.  remove takes one occurrence away.
GC(g) ==
    /\ g \in timers
    /\ timers' = timers \ {g}
    /\ collected' = collected \cup {allNodes[a] : a \in {b \in Addrs : Unused(b, g)}}
    /\ allNodes' = [a \in Addrs |-> IF Unused(a, g) THEN NoNode ELSE allNodes[a]]
    /\ clusterAddrs' = [a \in Addrs |-> IF Unused(a, g) /\ clusterAddrs[a] > 0
                                          THEN clusterAddrs[a] - 1 ELSE clusterAddrs[a]]
    /\ UNCHANGED <<closed, allAddrs, group, nodeVars, generation, state, lastErr, reloading,
                   built, procVars, loadVars>>

CloseCollected(n) ==
    /\ n \in collected
    /\ collected' = collected \ {n} /\ opened' = opened \ {n}
    /\ UNCHANGED <<regVars, group, home, test, gen, holdVars, procVars, loadVars>>

Close ==
    /\ built /\ ~closed
    /\ closed' = TRUE
    /\ opened' = opened \ Registered
    /\ allNodes' = [a \in Addrs |-> NoNode]
    /\ clusterAddrs' = [a \in Addrs |-> 0]
    /\ UNCHANGED <<allAddrs, group, home, test, gen, holdVars, collected, procVars, loadVars>>

-----------------------------------------------------------------------------
GetOrCreateStep(p) ==
    \/ Lookup(p) \/ DoJoin(p) \/ DoLead(p) \/ TestEnds(p) \/ Forget(p) \/ WaitEnds(p)
    \/ Register(p)

LoadStep(l) ==
    \/ LoadAddrs(l) \/ LoadNext(l) \/ LoadSlots(l) \/ LoadStamp(l) \/ LoadSkip(l)
    \/ LoadStore(l) \/ LoadError(l) \/ LoadEnds(l)

Next ==
    \/ \E p \in Procs : GetOrCreateStep(p)
    \/ \E p \in Callers : CallStart(p) \/ CallEnds(p)
    \/ \E l \in Loaders : LazyReload(l) \/ LoadStep(l)
    \/ \E g \in timers : GC(g)
    \/ \E n \in Nodes : CloseCollected(n)
    \/ Close

Spec == Init /\ [][Next]_vars

-----------------------------------------------------------------------------
(* Properties.                                                             *)

\* singleflight.Do: "only one execution is in-flight for a given key at a
\* time", although a completed call stays in the group until its leader comes
\* back for the lock.
SingleFlight ==
    \A p, q \in Procs : pc[p] = "test" /\ pc[q] = "test" /\ want[p] = want[q] => p = q

\* Until Close, every open client is registered, about to be closed by a GC,
\* or in the hands of a goroutine that will register or close it.
OpenIsOwned ==
    ~closed => \A n \in opened :
        \/ n \in Registered \cup collected
        \/ \E p \in Procs : node[p] = n /\ pc[p] \in {"test", "wait", "forget", "register"}

\* A load that started earlier never replaces the state of a later one.
StateAdvances == [][state'.gen >= state.gen]_vars

\* A GC timer, however late it fires, never removes a node that the current
\* state, or one being loaded, has stamped.
GCKeepsStamped ==
    [][\A a \in Addrs :
          allNodes[a] # NoNode /\ gen[allNodes[a]] > 0 /\ gen[allNodes[a]] >= state.gen /\ ~closed'
            => allNodes'[a] = allNodes[a]]_vars

\* A cluster client that is "safe for concurrent use by multiple goroutines"
\* never registers a node whose client is closed.
RegisteredOpen == Registered \subseteq opened
=============================================================================
