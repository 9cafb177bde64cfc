------------------------- MODULE ClusterNodesProofs -------------------------
(***************************************************************************)
(* The node registry of cluster.go, for any addresses, nodes, goroutines   *)
(* and loads: one Test in flight per address, no client that is open and   *)
(* forgotten, states that never go back, and a GC that spares the nodes    *)
(* that a state uses.                                                      *)
(*                                                                         *)
(* Two things carry the argument.  The singleflight group holds, for every *)
(* leader between its Do and its delete, the node of that leader, so a     *)
(* second leader for the address finds the key taken.  And loads follow    *)
(* one another: NewClusterClient's own ends before the reloading flag can  *)
(* be taken, and the flag admits one at a time, so the generation of a     *)
(* state under construction is the highest there is.                       *)
(***************************************************************************)
EXTENDS ClusterNodes, TLAPS

MaybeNode == Nodes \cup {NoNode}
State == [gen : Nat, nodes : SUBSET Nodes]
Steps == {"idle", "lookup", "do", "test", "forget", "wait", "register", "got", "failed",
          "addrs", "next", "error", "done"}

TypeOK ==
    /\ closed \in BOOLEAN /\ allAddrs \subseteq Addrs
    /\ allNodes \in [Addrs -> MaybeNode] /\ clusterAddrs \in [Addrs -> Nat]
    /\ group \in [Addrs -> MaybeNode]
    /\ opened \subseteq Nodes /\ home \in [Nodes -> Addrs]
    /\ test \in [Nodes -> {"none", "running", "ok", "error"}] /\ gen \in [Nodes -> Nat]
    /\ generation \in Nat /\ state \in State /\ lastErr \in BOOLEAN /\ reloading \in BOOLEAN
    /\ timers \subseteq Nat /\ collected \subseteq Nodes /\ built \in BOOLEAN
    /\ pc \in [Procs -> Steps] /\ want \in [Procs -> Addrs] /\ node \in [Procs -> MaybeNode]
    /\ todo \in [Loaders -> SUBSET Addrs] /\ draft \in [Loaders -> State]

\* A goroutine inside GetOrCreate that has a node has a node in its hands.
InHand ==
    \A p \in Procs : pc[p] \in {"test", "forget", "wait", "register", "got"} => node[p] # NoNode

\* The leader of an address has its node in the group, and there is one.
Leads(p) == pc[p] \in {"test", "forget"}
Flights ==
    /\ \A p \in Procs : Leads(p) => group[want[p]] = node[p]
    /\ \A p, q \in Procs : Leads(p) /\ Leads(q) /\ want[p] = want[q] => p = q

\* One load at a time: the constructor's, then those that the flag admits.
OneLoad ==
    /\ \A l, m \in Loaders : pc[l] # "idle" /\ pc[m] # "idle" => l = m
    /\ \A l \in Loaders : pc[l] # "idle" => reloading \/ ~built

\* The state under construction has the latest generation; timers are of states that
\* have been stored.
Generations ==
    /\ state.gen <= generation
    /\ \A l \in Loaders :
          draft[l].gen # 0 => pc[l] \notin {"idle", "error", "done"} /\ draft[l].gen = generation
    /\ \A g \in timers : g <= state.gen

NodesInv == TypeOK /\ InHand /\ Flights /\ OpenIsOwned /\ OneLoad /\ Generations

-----------------------------------------------------------------------------
\* A goroutine's step that leaves the registry, the clients and the loads alone.
LEMMA ProcType ==
    ASSUME TypeOK, NEW p \in Procs, NEW at \in Steps, Goto(p, at)
    PROVE  /\ pc' \in [Procs -> Steps]
           /\ \A q \in Procs : pc'[q] = IF q = p THEN at ELSE pc[q]
  BY DEF TypeOK, Goto

LEMMA NodeType ==
    ASSUME TypeOK, NEW p \in Procs, NEW n \in MaybeNode, node' = [node EXCEPT ![p] = n]
    PROVE  /\ node' \in [Procs -> MaybeNode]
           /\ \A q \in Procs : node'[q] = IF q = p THEN n ELSE node[q]
  BY DEF TypeOK

\* Loads are not disturbed by a goroutine that goes on with its load, or that is
\* no loader.
LEMMA LoadsKept ==
    ASSUME NodesInv, NEW p \in Procs, NEW at,
           \A q \in Procs : pc'[q] = IF q = p THEN at ELSE pc[q],
           p \in Callers \/ (pc[p] # "idle" /\ at \notin {"idle", "error", "done"}),
           UNCHANGED <<generation, state, reloading, timers, built, draft>>
    PROVE  OneLoad' /\ Generations'
  BY ClusterAssumption DEF NodesInv, OneLoad, Generations, Procs

\* Who leads where does not change.
LEMMA FlightsKept ==
    ASSUME NodesInv, NEW p \in Procs, NEW at,
           \A q \in Procs : pc'[q] = IF q = p THEN at ELSE pc[q],
           \A q \in Procs : q # p => node'[q] = node[q] /\ want'[q] = want[q],
           at \notin {"test", "forget"}, UNCHANGED group
    PROVE  Flights'
  BY DEF NodesInv, Flights, Leads

\* Nothing that is open loses its owner.
Owning == {"test", "wait", "forget", "register"}
LEMMA OwnersKept ==
    ASSUME NodesInv, NEW p \in Procs, NEW at,
           \A q \in Procs : pc'[q] = IF q = p THEN at ELSE pc[q],
           \A q \in Procs : q # p => node'[q] = node[q],
           pc[p] \notin Owning \/ (at \in Owning /\ node'[p] = node[p]),
           UNCHANGED <<closed, opened, allNodes, collected>>
    PROVE  OpenIsOwned'
  <1>1. Registered' = Registered
    BY DEF Registered
  <1> QED BY <1>1 DEF NodesInv, OpenIsOwned, Owning

-----------------------------------------------------------------------------
(* GetOrCreate.                                                            *)

LEMMA CallStartInv == ASSUME NodesInv, NEW p \in Callers, CallStart(p) PROVE NodesInv'
  <1>1. p \in Procs /\ TypeOK
    BY DEF Procs, NodesInv
  <1>2. /\ pc' \in [Procs -> Steps] /\ pc[p] = "idle"
        /\ \A q \in Procs : pc'[q] = IF q = p THEN "lookup" ELSE pc[q]
        /\ \A q \in Procs : q # p => node'[q] = node[q] /\ want'[q] = want[q]
    BY <1>1, ProcType DEF CallStart, Steps, TypeOK
  <1>3. TypeOK'
    BY <1>1, <1>2 DEF CallStart, TypeOK, regVars, nodeVars, holdVars, loadVars
  <1>4. InHand'
    BY <1>1, <1>2 DEF NodesInv, InHand
  <1>5. Flights'
    BY <1>1, <1>2, FlightsKept DEF CallStart
  <1>6. OpenIsOwned'
    BY <1>1, <1>2, OwnersKept DEF CallStart, Owning, regVars, nodeVars
  <1>7. OneLoad' /\ Generations'
    BY <1>1, <1>2, LoadsKept DEF CallStart, holdVars, loadVars
  <1> QED BY <1>3, <1>4, <1>5, <1>6, <1>7 DEF NodesInv

LEMMA LookupInv == ASSUME NodesInv, NEW p \in Procs, Lookup(p) PROVE NodesInv'
  <1> DEFINE at == IF closed THEN "failed" ELSE IF allNodes[want[p]] # NoNode THEN "got" ELSE "do"
             n == IF closed THEN NoNode ELSE allNodes[want[p]]
  <1>1. TypeOK /\ at \in Steps /\ n \in MaybeNode /\ at \in {"failed", "got", "do"}
    BY DEF NodesInv, Steps, TypeOK, MaybeNode
  <1>2. at = "got" => n # NoNode
    OBVIOUS
  <1>3. Goto(p, at) /\ node' = [node EXCEPT ![p] = n] /\ pc[p] = "lookup"
    BY DEF Lookup
  <1> HIDE DEF at, n
  <1>4. /\ pc' \in [Procs -> Steps] /\ node' \in [Procs -> MaybeNode]
        /\ \A q \in Procs : pc'[q] = IF q = p THEN at ELSE pc[q]
        /\ \A q \in Procs : node'[q] = IF q = p THEN n ELSE node[q]
    BY <1>1, <1>3, ProcType, NodeType
  <1>5. TypeOK'
    BY <1>1, <1>4 DEF Lookup, TypeOK, regVars, nodeVars, holdVars, loadVars
  <1>6. InHand'
    BY <1>1, <1>2, <1>4 DEF NodesInv, InHand
  <1>7. Flights'
    BY <1>1, <1>4, FlightsKept DEF Lookup
  <1>8. OpenIsOwned'
    BY <1>3, <1>4, OwnersKept DEF Lookup, Owning, regVars, nodeVars
  <1>9. OneLoad' /\ Generations'
    BY <1>1, <1>3, <1>4, LoadsKept DEF Lookup, holdVars, loadVars
  <1> QED BY <1>5, <1>6, <1>7, <1>8, <1>9 DEF NodesInv

LEMMA DoJoinInv == ASSUME NodesInv, NEW p \in Procs, DoJoin(p) PROVE NodesInv'
  <1>1. /\ TypeOK /\ "wait" \in Steps /\ group[want[p]] \in MaybeNode /\ group[want[p]] # NoNode
        /\ pc[p] = "do"
    BY DEF NodesInv, Steps, TypeOK, DoJoin
  <1>2. /\ pc' \in [Procs -> Steps] /\ node' \in [Procs -> MaybeNode]
        /\ \A q \in Procs : pc'[q] = IF q = p THEN "wait" ELSE pc[q]
        /\ \A q \in Procs : node'[q] = IF q = p THEN group[want[p]] ELSE node[q]
    BY <1>1, ProcType, NodeType DEF DoJoin
  <1>3. TypeOK'
    BY <1>1, <1>2 DEF DoJoin, TypeOK, regVars, nodeVars, holdVars, loadVars
  <1>4. InHand'
    BY <1>1, <1>2 DEF NodesInv, InHand
  <1>5. Flights'
    BY <1>2, FlightsKept DEF DoJoin
  <1>6. OpenIsOwned'
    BY <1>1, <1>2, OwnersKept DEF DoJoin, Owning, regVars, nodeVars
  <1>7. OneLoad' /\ Generations'
    BY <1>1, <1>2, LoadsKept DEF DoJoin, holdVars, loadVars
  <1> QED BY <1>3, <1>4, <1>5, <1>6, <1>7 DEF NodesInv

LEMMA DoLeadInv == ASSUME NodesInv, NEW p \in Procs, DoLead(p) PROVE NodesInv'
  <1>1. PICK n \in Nodes :
            /\ Fresh(n) /\ group' = [group EXCEPT ![want[p]] = n] /\ opened' = opened \cup {n}
            /\ home' = [home EXCEPT ![n] = want[p]] /\ test' = [test EXCEPT ![n] = "running"]
            /\ gen' = [gen EXCEPT ![n] = 0] /\ node' = [node EXCEPT ![p] = n]
    BY DEF DoLead
  <1>2. /\ TypeOK /\ "test" \in Steps /\ n \in MaybeNode /\ n # NoNode /\ pc[p] = "do"
        /\ group[want[p]] = NoNode /\ want[p] \in Addrs /\ UNCHANGED want
    BY ClusterAssumption DEF NodesInv, Steps, TypeOK, DoLead, MaybeNode
  <1>3. /\ pc' \in [Procs -> Steps] /\ node' \in [Procs -> MaybeNode]
        /\ \A q \in Procs : pc'[q] = IF q = p THEN "test" ELSE pc[q]
        /\ \A q \in Procs : node'[q] = IF q = p THEN n ELSE node[q]
    BY <1>1, <1>2, ProcType, NodeType, ZenonT(60) DEF DoLead
  <1>4. TypeOK'
    BY <1>1, <1>2, <1>3 DEF DoLead, TypeOK, regVars, holdVars, loadVars
  <1>5. InHand'
    BY <1>2, <1>3 DEF NodesInv, InHand
  <1>6. Flights'
    <2>1. \A q \in Procs : Leads(q) => want[q] # want[p]
      BY <1>2 DEF NodesInv, Flights, Leads, InHand
    <2>2. \A q \in Procs : Leads(q)' <=> Leads(q) \/ q = p
      BY <1>3 DEF Leads
    <2>3. \A q \in Procs : Leads(q)' => group'[want[q]] = node'[q]
      BY <1>1, <1>2, <1>3, <2>1, <2>2 DEF NodesInv, Flights, TypeOK
    <2> QED BY <1>2, <2>1, <2>2, <2>3 DEF NodesInv, Flights
  <1>7. OpenIsOwned'
    <2>1. Registered' = Registered /\ UNCHANGED <<closed, collected>>
      BY DEF Registered, DoLead, regVars
    <2> QED BY <1>1, <1>2, <1>3, <2>1 DEF NodesInv, OpenIsOwned
  <1>8. OneLoad' /\ Generations'
    BY <1>2, <1>3, LoadsKept DEF DoLead, holdVars, loadVars
  <1> QED BY <1>4, <1>5, <1>6, <1>7, <1>8 DEF NodesInv

LEMMA TestEndsInv == ASSUME NodesInv, NEW p \in Procs, TestEnds(p) PROVE NodesInv'
  <1>1. TypeOK /\ "forget" \in Steps /\ pc[p] = "test" /\ UNCHANGED <<want, node, group>>
    BY DEF NodesInv, Steps, TestEnds
  <1>2. /\ pc' \in [Procs -> Steps]
        /\ \A q \in Procs : pc'[q] = IF q = p THEN "forget" ELSE pc[q]
    BY <1>1, ProcType DEF TestEnds
  <1>3. TypeOK'
    BY <1>1, <1>2 DEF TestEnds, TypeOK, regVars, holdVars, loadVars
  <1>4. InHand'
    BY <1>1, <1>2 DEF NodesInv, InHand
  <1>5. Flights'
    BY <1>1, <1>2 DEF NodesInv, Flights, Leads
  <1>6. OpenIsOwned'
    BY <1>1, <1>2, OwnersKept DEF TestEnds, Owning, regVars
  <1>7. OneLoad' /\ Generations'
    BY <1>1, <1>2, LoadsKept DEF TestEnds, holdVars, loadVars
  <1> QED BY <1>3, <1>4, <1>5, <1>6, <1>7 DEF NodesInv

LEMMA ForgetInv == ASSUME NodesInv, NEW p \in Procs, Forget(p) PROVE NodesInv'
  <1>1. /\ TypeOK /\ "register" \in Steps /\ pc[p] = "forget" /\ UNCHANGED <<want, node>>
        /\ want[p] \in Addrs /\ NoNode \in MaybeNode
    BY DEF NodesInv, Steps, Forget, TypeOK, MaybeNode
  <1>2. /\ pc' \in [Procs -> Steps]
        /\ \A q \in Procs : pc'[q] = IF q = p THEN "register" ELSE pc[q]
    BY <1>1, ProcType DEF Forget
  <1>3. TypeOK'
    BY <1>1, <1>2 DEF Forget, TypeOK, regVars, nodeVars, holdVars, loadVars
  <1>4. InHand'
    BY <1>1, <1>2 DEF NodesInv, InHand
  <1>5. Flights'
    <2>1. \A q \in Procs : Leads(q)' <=> Leads(q) /\ q # p
      BY <1>1, <1>2 DEF Leads
    <2>2. \A q \in Procs : Leads(q) /\ q # p => want[q] # want[p]
      BY <1>1 DEF NodesInv, Flights, Leads
    <2> QED BY <1>1, <2>1, <2>2 DEF NodesInv, Flights, Forget, TypeOK
  <1>6. OpenIsOwned'
    BY <1>1, <1>2, OwnersKept DEF Forget, Owning, regVars, nodeVars
  <1>7. OneLoad' /\ Generations'
    BY <1>1, <1>2, LoadsKept DEF Forget, holdVars, loadVars
  <1> QED BY <1>3, <1>4, <1>5, <1>6, <1>7 DEF NodesInv

LEMMA WaitEndsInv == ASSUME NodesInv, NEW p \in Procs, WaitEnds(p) PROVE NodesInv'
  <1>1. TypeOK /\ "register" \in Steps /\ pc[p] = "wait" /\ UNCHANGED <<want, node, group>>
    BY DEF NodesInv, Steps, WaitEnds
  <1>2. /\ pc' \in [Procs -> Steps]
        /\ \A q \in Procs : pc'[q] = IF q = p THEN "register" ELSE pc[q]
    BY <1>1, ProcType DEF WaitEnds
  <1>3. TypeOK'
    BY <1>1, <1>2 DEF WaitEnds, TypeOK, regVars, nodeVars, holdVars, loadVars
  <1>4. InHand'
    BY <1>1, <1>2 DEF NodesInv, InHand
  <1>5. Flights'
    BY <1>1, <1>2, FlightsKept
  <1>6. OpenIsOwned'
    BY <1>1, <1>2, OwnersKept DEF WaitEnds, Owning, regVars, nodeVars
  <1>7. OneLoad' /\ Generations'
    BY <1>1, <1>2, LoadsKept DEF WaitEnds, holdVars, loadVars
  <1> QED BY <1>3, <1>4, <1>5, <1>6, <1>7 DEF NodesInv

LEMMA RegisterInv == ASSUME NodesInv, NEW p \in Procs, Register(p) PROVE NodesInv'
  <1> DEFINE a == want[p]
  <1>1. /\ TypeOK /\ pc[p] = "register" /\ UNCHANGED <<want, group>> /\ a \in Addrs
        /\ node[p] \in Nodes /\ node[p] # NoNode
    BY ClusterAssumption DEF NodesInv, Register, TypeOK, InHand, MaybeNode
  <1>2. PICK at \in {"failed", "got"} : Goto(p, at)
    BY DEF Register
  <1>3. /\ pc' \in [Procs -> Steps]
        /\ \A q \in Procs : pc'[q] = IF q = p THEN at ELSE pc[q]
    BY <1>1, <1>2, ProcType DEF Steps
  <1>4. /\ node' \in [Procs -> MaybeNode]
        /\ \A q \in Procs : q # p => node'[q] = node[q]
        /\ node'[p] # NoNode
    <2>1. CASE UNCHANGED node
      BY <1>1, <2>1 DEF TypeOK
    <2>2. CASE allNodes[a] # NoNode /\ node' = [node EXCEPT ![p] = allNodes[a]]
      BY <1>1, <2>2, NodeType DEF TypeOK
    <2> QED BY <2>1, <2>2 DEF Register
  <1>5. TypeOK'
    <2>1. /\ allNodes' \in [Addrs -> MaybeNode] /\ allAddrs' \subseteq Addrs /\ closed' \in BOOLEAN
          /\ opened' \subseteq Nodes
      BY <1>1 DEF Register, TypeOK, regVars, MaybeNode
    <2>2. clusterAddrs' \in [Addrs -> Nat]
      BY <1>1 DEF Register, TypeOK, regVars
    <2> QED BY <1>1, <1>3, <1>4, <2>1, <2>2 DEF Register, TypeOK, holdVars, loadVars
  <1>6. InHand'
    BY <1>3, <1>4 DEF NodesInv, InHand
  <1>7. Flights'
    BY <1>1, <1>3, <1>4, FlightsKept
  <1>8. OpenIsOwned'
    <2>1. CASE closed
      BY <2>1 DEF Register, regVars, OpenIsOwned
    <2>2. CASE ~closed /\ allNodes[a] # NoNode
      <3>1. opened' = opened \ {node[p]} /\ Registered' = Registered /\ UNCHANGED <<closed, collected>>
        BY <2>2 DEF Register, regVars, Registered
      <3> QED BY <1>3, <1>4, <2>2, <3>1 DEF NodesInv, OpenIsOwned
    <2>3. CASE ~closed /\ allNodes[a] = NoNode
      <3>1. /\ allNodes' = [allNodes EXCEPT ![a] = node[p]]
            /\ UNCHANGED <<closed, opened, node, collected>>
        BY <2>3 DEF Register
      <3>2. Registered \subseteq Registered' /\ node[p] \in Registered'
        BY <1>1, <2>3, <3>1 DEF Registered, TypeOK
      <3> QED BY <1>3, <2>3, <3>1, <3>2 DEF NodesInv, OpenIsOwned
    <2> QED BY <2>1, <2>2, <2>3
  <1>9. OneLoad' /\ Generations'
    BY <1>1, <1>2, <1>3, LoadsKept DEF Register, holdVars, loadVars
  <1> QED BY <1>5, <1>6, <1>7, <1>8, <1>9 DEF NodesInv

LEMMA CallEndsInv == ASSUME NodesInv, NEW p \in Callers, CallEnds(p) PROVE NodesInv'
  <1>1. /\ TypeOK /\ "idle" \in Steps /\ NoNode \in MaybeNode /\ p \in Procs
        /\ pc[p] \in {"got", "failed"} /\ UNCHANGED <<want, group>>
    BY DEF NodesInv, Steps, MaybeNode, CallEnds, Procs
  <1>2. /\ pc' \in [Procs -> Steps] /\ node' \in [Procs -> MaybeNode]
        /\ \A q \in Procs : pc'[q] = IF q = p THEN "idle" ELSE pc[q]
        /\ \A q \in Procs : node'[q] = IF q = p THEN NoNode ELSE node[q]
    BY <1>1, ProcType, NodeType DEF CallEnds
  <1>3. TypeOK'
    BY <1>1, <1>2 DEF CallEnds, TypeOK, regVars, nodeVars, holdVars, loadVars
  <1>4. InHand'
    BY <1>2 DEF NodesInv, InHand
  <1>5. Flights'
    BY <1>1, <1>2, FlightsKept
  <1>6. OpenIsOwned'
    BY <1>1, <1>2, OwnersKept DEF CallEnds, Owning, regVars, nodeVars
  <1>7. OneLoad' /\ Generations'
    BY <1>1, <1>2, LoadsKept DEF CallEnds, holdVars, loadVars
  <1> QED BY <1>3, <1>4, <1>5, <1>6, <1>7 DEF NodesInv

-----------------------------------------------------------------------------
(* Loads.                                                                  *)

\* A loader's step outside GetOrCreate.
LEMMA LoaderKept ==
    ASSUME NodesInv, NEW l \in Loaders, NEW at \in Steps \ {"test", "forget", "wait", "register", "got"},
           pc[l] \notin Owning, Goto(l, at), node' = node \/ node' = [node EXCEPT ![l] = NoNode],
           \A q \in Procs : q # l => want'[q] = want[q],
           UNCHANGED <<closed, opened, allNodes, collected, group>>
    PROVE  /\ pc' \in [Procs -> Steps] /\ node' \in [Procs -> MaybeNode] /\ l \in Procs
           /\ \A q \in Procs : pc'[q] = IF q = l THEN at ELSE pc[q]
           /\ InHand' /\ Flights' /\ OpenIsOwned'
  <1>1. TypeOK /\ l \in Procs /\ NoNode \in MaybeNode
    BY DEF NodesInv, Procs, MaybeNode
  <1>2. /\ pc' \in [Procs -> Steps]
        /\ \A q \in Procs : pc'[q] = IF q = l THEN at ELSE pc[q]
    BY <1>1, ProcType
  <1>3. node' \in [Procs -> MaybeNode] /\ \A q \in Procs : q # l => node'[q] = node[q]
    BY <1>1, NodeType DEF TypeOK
  <1>4. InHand'
    BY <1>2, <1>3 DEF NodesInv, InHand
  <1>5. Flights'
    BY <1>1, <1>2, <1>3, FlightsKept
  <1>6. OpenIsOwned'
    BY <1>1, <1>2, <1>3, OwnersKept
  <1> QED BY <1>1, <1>2, <1>3, <1>4, <1>5, <1>6

LEMMA LazyReloadInv == ASSUME NodesInv, NEW l \in Loaders, LazyReload(l) PROVE NodesInv'
  <1>1. TypeOK /\ "addrs" \in Steps /\ pc[l] = "idle" /\ built /\ ~reloading
    BY DEF NodesInv, Steps, LazyReload
  <1>2. /\ pc' \in [Procs -> Steps] /\ node' \in [Procs -> MaybeNode] /\ l \in Procs
        /\ \A q \in Procs : pc'[q] = IF q = l THEN "addrs" ELSE pc[q]
        /\ InHand' /\ Flights' /\ OpenIsOwned'
    BY <1>1, LoaderKept DEF LazyReload, Owning, regVars, nodeVars
  <1>3. TypeOK'
    BY <1>1, <1>2 DEF LazyReload, TypeOK, regVars, nodeVars, loadVars
  <1>4. OneLoad'
    BY <1>1, <1>2 DEF LazyReload, NodesInv, OneLoad, Procs
  <1>5. Generations'
    BY <1>1, <1>2 DEF LazyReload, NodesInv, Generations, Procs, loadVars
  <1> QED BY <1>2, <1>3, <1>4, <1>5 DEF NodesInv

LEMMA LoadAddrsInv == ASSUME NodesInv, NEW l \in Loaders, LoadAddrs(l) PROVE NodesInv'
  <1>1. TypeOK /\ "next" \in Steps /\ pc[l] = "addrs"
    BY DEF NodesInv, Steps, LoadAddrs
  <1>2. /\ pc' \in [Procs -> Steps] /\ node' \in [Procs -> MaybeNode] /\ l \in Procs
        /\ \A q \in Procs : pc'[q] = IF q = l THEN "next" ELSE pc[q]
        /\ InHand' /\ Flights' /\ OpenIsOwned'
    BY <1>1, LoaderKept DEF LoadAddrs, Owning, regVars, nodeVars
  <1>3. CurrentAddrs \subseteq Addrs
    BY <1>1 DEF CurrentAddrs, TypeOK
  <1>4. TypeOK'
    BY <1>1, <1>2, <1>3 DEF LoadAddrs, TypeOK, regVars, nodeVars, holdVars
  <1>5. OneLoad' /\ Generations'
    BY <1>1, <1>2, LoadsKept DEF LoadAddrs, holdVars
  <1> QED BY <1>2, <1>4, <1>5 DEF NodesInv

LEMMA LoadNextInv == ASSUME NodesInv, NEW l \in Loaders, LoadNext(l) PROVE NodesInv'
  <1>1. TypeOK /\ "lookup" \in Steps /\ pc[l] = "next" /\ l \in Procs
    BY DEF NodesInv, Steps, LoadNext, Procs
  <1>2. PICK a \in todo[l] : want' = [want EXCEPT ![l] = a] /\ todo' = [todo EXCEPT ![l] = @ \ {a}]
    BY DEF LoadNext
  <1>3. a \in Addrs
    BY <1>1 DEF TypeOK
  <1>4. want' \in [Procs -> Addrs] /\ \A q \in Procs : q # l => want'[q] = want[q]
    BY <1>1, <1>2, <1>3 DEF TypeOK
  <1>5. /\ pc' \in [Procs -> Steps] /\ node' \in [Procs -> MaybeNode]
        /\ \A q \in Procs : pc'[q] = IF q = l THEN "lookup" ELSE pc[q]
        /\ InHand' /\ Flights' /\ OpenIsOwned'
    BY <1>1, <1>4, LoaderKept DEF LoadNext, Owning, regVars, nodeVars
  <1>6. TypeOK'
    BY <1>1, <1>2, <1>4, <1>5 DEF LoadNext, TypeOK, regVars, nodeVars, holdVars
  <1>7. OneLoad' /\ Generations'
    BY <1>1, <1>5, LoadsKept DEF LoadNext, holdVars
  <1> QED BY <1>5, <1>6, <1>7 DEF NodesInv

LEMMA LoadSlotsInv == ASSUME NodesInv, NEW l \in Loaders, LoadSlots(l) PROVE NodesInv'
  <1>1. TypeOK /\ "next" \in Steps /\ pc[l] = "got" /\ l \in Procs /\ want[l] \in Addrs
    BY DEF NodesInv, Steps, LoadSlots, TypeOK, Procs
  <1>2. /\ pc' \in [Procs -> Steps] /\ node' \in [Procs -> MaybeNode]
        /\ \A q \in Procs : pc'[q] = IF q = l THEN "next" ELSE pc[q]
        /\ InHand' /\ Flights' /\ OpenIsOwned'
    BY <1>1, LoaderKept DEF LoadSlots, Owning, regVars, nodeVars
  <1>3. OneLoad'
    BY <1>1, <1>2 DEF LoadSlots, NodesInv, OneLoad, Procs
  <1>4. CASE UNCHANGED <<generation, todo, draft>>
    <2>1. TypeOK'
      BY <1>1, <1>2, <1>4 DEF LoadSlots, TypeOK, regVars, nodeVars
    <2>2. Generations'
      BY <1>1, <1>2, <1>4 DEF LoadSlots, NodesInv, Generations, Procs
    <2> QED BY <1>2, <1>3, <2>1, <2>2 DEF NodesInv
  <1>5. CASE /\ generation' = generation + 1
             /\ draft' = [draft EXCEPT ![l] = [gen |-> generation + 1, nodes |-> {}]]
             /\ \E S \in (SUBSET Addrs) \ {{}} :
                   todo' = [todo EXCEPT ![l] = {SlotAddr(a, want[l]) : a \in S}]
    <2>1. PICK S \in (SUBSET Addrs) \ {{}} :
              todo' = [todo EXCEPT ![l] = {SlotAddr(a, want[l]) : a \in S}]
      BY <1>5
    <2>2. {SlotAddr(a, want[l]) : a \in S} \subseteq Addrs
      BY <1>1 DEF SlotAddr
    <2>3. todo' \in [Loaders -> SUBSET Addrs]
      BY <1>1, <2>1, <2>2 DEF TypeOK
    <2>4. [gen |-> generation + 1, nodes |-> {}] \in State
      BY <1>1 DEF State, TypeOK
    <2>5. generation' \in Nat /\ draft' \in [Loaders -> State]
      BY <1>1, <1>5, <2>4 DEF TypeOK
    <2>6. TypeOK'
      BY <1>1, <1>2, <2>3, <2>5 DEF LoadSlots, TypeOK, regVars, nodeVars
    <2>7. ASSUME NEW m \in Loaders
          PROVE  draft'[m].gen # 0 =>
                    pc'[m] \notin {"idle", "error", "done"} /\ draft'[m].gen = generation'
      <3>1. CASE m = l
        BY <1>1, <1>2, <1>5, <3>1 DEF TypeOK
      <3>2. CASE m # l
        BY <1>1, <1>5, <3>2 DEF TypeOK, NodesInv, Generations, OneLoad
      <3> QED BY <3>1, <3>2
    <2>8. Generations'
      <3>1. state' = state /\ timers' = timers /\ state.gen <= generation' /\ state.gen \in Nat
        BY <1>1, <1>5 DEF LoadSlots, NodesInv, Generations, TypeOK, State
      <3> QED BY <2>7, <3>1 DEF NodesInv, Generations
    <2> QED BY <1>2, <1>3, <2>6, <2>8 DEF NodesInv
  <1> QED BY <1>4, <1>5 DEF LoadSlots

LEMMA LoadStampInv == ASSUME NodesInv, NEW l \in Loaders, LoadStamp(l) PROVE NodesInv'
  <1>1. /\ TypeOK /\ "next" \in Steps /\ pc[l] = "got" /\ l \in Procs /\ node[l] \in Nodes
        /\ draft[l] \in State
    BY DEF NodesInv, Steps, LoadStamp, TypeOK, Procs, InHand, MaybeNode
  <1>2. /\ pc' \in [Procs -> Steps] /\ node' \in [Procs -> MaybeNode]
        /\ \A q \in Procs : pc'[q] = IF q = l THEN "next" ELSE pc[q]
        /\ InHand' /\ Flights' /\ OpenIsOwned'
    BY <1>1, LoaderKept DEF LoadStamp, Owning, regVars
  <1>3. /\ draft' \in [Loaders -> State] /\ gen' \in [Nodes -> Nat]
        /\ \A m \in Loaders : draft'[m].gen = draft[m].gen
    BY <1>1 DEF LoadStamp, TypeOK, State
  <1>4. TypeOK'
    BY <1>1, <1>2, <1>3 DEF LoadStamp, TypeOK, regVars, holdVars
  <1>5. OneLoad'
    BY <1>1, <1>2 DEF LoadStamp, NodesInv, OneLoad, Procs, holdVars
  <1>6. Generations'
    BY <1>2, <1>3 DEF LoadStamp, NodesInv, Generations, Procs, holdVars
  <1> QED BY <1>2, <1>4, <1>5, <1>6 DEF NodesInv

LEMMA LoadSkipInv == ASSUME NodesInv, NEW l \in Loaders, LoadSkip(l) PROVE NodesInv'
  <1> DEFINE at == IF draft[l].gen = 0 THEN "next" ELSE "error"
  <1>1. /\ TypeOK /\ at \in Steps /\ at \in {"next", "error"} /\ pc[l] = "failed" /\ l \in Procs
        /\ NoState \in State
    BY DEF NodesInv, Steps, LoadSkip, Procs, NoState, State
  <1>2. Goto(l, at)
    BY DEF LoadSkip
  <1> HIDE DEF at
  <1>3. /\ pc' \in [Procs -> Steps] /\ node' \in [Procs -> MaybeNode]
        /\ \A q \in Procs : pc'[q] = IF q = l THEN at ELSE pc[q]
        /\ InHand' /\ Flights' /\ OpenIsOwned'
    BY <1>1, <1>2, LoaderKept DEF LoadSkip, Owning, regVars, nodeVars
  <1>4. /\ draft' \in [Loaders -> State] /\ todo' \in [Loaders -> SUBSET Addrs]
        /\ \A m \in Loaders : m # l => draft'[m] = draft[m]
        /\ draft'[l].gen = 0
    BY <1>1 DEF LoadSkip, TypeOK, NoState
  <1>5. TypeOK'
    BY <1>1, <1>3, <1>4 DEF LoadSkip, TypeOK, regVars, nodeVars, holdVars
  <1>6. OneLoad'
    BY <1>1, <1>3 DEF LoadSkip, NodesInv, OneLoad, Procs, holdVars
  <1>7. Generations'
    BY <1>1, <1>3, <1>4 DEF LoadSkip, NodesInv, Generations, Procs, holdVars
  <1> QED BY <1>3, <1>5, <1>6, <1>7 DEF NodesInv

LEMMA LoadStoreInv == ASSUME NodesInv, NEW l \in Loaders, LoadStore(l)
    PROVE  NodesInv' /\ state'.gen >= state.gen
  <1>1. /\ TypeOK /\ "done" \in Steps /\ pc[l] = "next" /\ l \in Procs /\ NoState \in State
        /\ draft[l] \in State
    BY DEF NodesInv, Steps, LoadStore, Procs, NoState, State, TypeOK
  <1>2. /\ pc' \in [Procs -> Steps] /\ node' \in [Procs -> MaybeNode]
        /\ \A q \in Procs : pc'[q] = IF q = l THEN "done" ELSE pc[q]
        /\ InHand' /\ Flights' /\ OpenIsOwned'
    BY <1>1, LoaderKept DEF LoadStore, Owning, regVars, nodeVars
  <1>3. /\ draft' \in [Loaders -> State] /\ draft'[l].gen = 0
        /\ \A m \in Loaders : m # l => draft'[m] = draft[m]
    BY <1>1 DEF LoadStore, TypeOK, NoState
  <1>4. /\ state' = draft[l] /\ state'.gen = generation /\ generation' = generation
        /\ timers' = timers \cup {generation} /\ generation \in Nat
        /\ state.gen \in Nat /\ state.gen <= generation
    BY <1>1 DEF LoadStore, NodesInv, Generations, TypeOK, State
  <1>5. TypeOK'
    BY <1>1, <1>2, <1>3, <1>4 DEF LoadStore, TypeOK, regVars, nodeVars
  <1>6. OneLoad'
    BY <1>1, <1>2 DEF LoadStore, NodesInv, OneLoad, Procs
  <1>7. Generations'
    <2>1. \A g \in timers' : g <= state'.gen
      <3>1. ASSUME NEW g \in timers PROVE g \in Nat /\ g <= state.gen
        BY <1>1 DEF NodesInv, Generations, TypeOK
      <3>2. ASSUME NEW g \in timers PROVE g <= generation
        BY <1>4, <3>1
      <3> QED BY <1>4, <3>2
    <2> QED BY <1>1, <1>2, <1>3, <1>4, <2>1 DEF NodesInv, Generations, Procs
  <1> QED BY <1>2, <1>4, <1>5, <1>6, <1>7 DEF NodesInv

LEMMA LoadErrorInv == ASSUME NodesInv, NEW l \in Loaders, LoadError(l) PROVE NodesInv'
  <1>1. TypeOK /\ "done" \in Steps /\ pc[l] \in {"error", "next"} /\ l \in Procs
    BY DEF NodesInv, Steps, LoadError, Procs
  <1>2. /\ pc' \in [Procs -> Steps] /\ node' \in [Procs -> MaybeNode]
        /\ \A q \in Procs : pc'[q] = IF q = l THEN "done" ELSE pc[q]
        /\ InHand' /\ Flights' /\ OpenIsOwned'
    BY <1>1, LoaderKept DEF LoadError, Owning, regVars, nodeVars
  <1>3. TypeOK'
    BY <1>1, <1>2 DEF LoadError, TypeOK, regVars, nodeVars, loadVars
  <1>4. OneLoad'
    BY <1>1, <1>2 DEF LoadError, NodesInv, OneLoad, Procs
  <1>5. draft[l].gen = 0
    BY DEF LoadError, NodesInv, Generations
  <1>6. Generations'
    BY <1>1, <1>2, <1>5 DEF LoadError, NodesInv, Generations, Procs, loadVars
  <1> QED BY <1>2, <1>3, <1>4, <1>6 DEF NodesInv

LEMMA LoadEndsInv == ASSUME NodesInv, NEW l \in Loaders, LoadEnds(l) PROVE NodesInv'
  <1>1. TypeOK /\ "idle" \in Steps /\ pc[l] = "done" /\ l \in Procs
    BY DEF NodesInv, Steps, LoadEnds, Procs
  <1>2. /\ pc' \in [Procs -> Steps] /\ node' \in [Procs -> MaybeNode]
        /\ \A q \in Procs : pc'[q] = IF q = l THEN "idle" ELSE pc[q]
        /\ InHand' /\ Flights' /\ OpenIsOwned'
    BY <1>1, LoaderKept DEF LoadEnds, Owning, regVars, nodeVars
  <1>3. TypeOK'
    BY <1>1, <1>2 DEF LoadEnds, TypeOK, regVars, nodeVars, loadVars
  <1>4. OneLoad'
    BY <1>1, <1>2 DEF LoadEnds, NodesInv, OneLoad, Procs
  <1>5. Generations'
    BY <1>1, <1>2 DEF LoadEnds, NodesInv, Generations, Procs, loadVars
  <1> QED BY <1>2, <1>3, <1>4, <1>5 DEF NodesInv

-----------------------------------------------------------------------------
(* GC and Close.                                                           *)

LEMMA GCInv == ASSUME NodesInv, NEW g \in timers, GC(g)
    PROVE  /\ NodesInv'
           /\ \A a \in Addrs : allNodes[a] # NoNode /\ gen[allNodes[a]] >= state.gen
                                  => allNodes'[a] = allNodes[a]
  <1>1. TypeOK /\ UNCHANGED <<closed, group, procVars, opened, gen, state>> /\ NoNode \in MaybeNode
    BY DEF NodesInv, GC, nodeVars, MaybeNode
  <1>2. /\ allNodes' = [a \in Addrs |-> IF Unused(a, g) THEN NoNode ELSE allNodes[a]]
        /\ collected' = collected \cup {allNodes[a] : a \in {b \in Addrs : Unused(b, g)}}
    BY DEF GC
  <1>3. allNodes' \in [Addrs -> MaybeNode] /\ collected' \subseteq Nodes
    BY <1>1, <1>2 DEF TypeOK, MaybeNode, Unused
  <1>4. clusterAddrs' \in [Addrs -> Nat]
    BY <1>1 DEF GC, TypeOK
  <1>5. TypeOK'
    BY <1>1, <1>3, <1>4 DEF GC, TypeOK, procVars, nodeVars, loadVars
  <1>6. InHand' /\ Flights'
    BY <1>1 DEF NodesInv, InHand, Flights, Leads, procVars
  <1>7. OpenIsOwned'
    <2>1. Registered \cup collected \subseteq Registered' \cup collected'
      BY <1>1, <1>2 DEF Registered, TypeOK
    <2> QED BY <1>1, <2>1 DEF NodesInv, OpenIsOwned, procVars
  <1>8. OneLoad' /\ Generations'
    BY <1>1 DEF NodesInv, OneLoad, Generations, GC, procVars, loadVars
  <1>9. ASSUME NEW a \in Addrs, allNodes[a] # NoNode, gen[allNodes[a]] >= state.gen
        PROVE  allNodes'[a] = allNodes[a]
    <2>1. gen[allNodes[a]] \in Nat /\ state.gen \in Nat /\ g \in Nat
      BY <1>1, <1>9 DEF TypeOK, MaybeNode, State
    <2>2. g <= state.gen
      BY DEF NodesInv, Generations
    <2>3. ~Unused(a, g)
      BY <1>9, <2>1, <2>2 DEF Unused
    <2> QED BY <1>2, <2>3
  <1> QED BY <1>5, <1>6, <1>7, <1>8, <1>9 DEF NodesInv

LEMMA CloseCollectedInv == ASSUME NodesInv, NEW n \in Nodes, CloseCollected(n) PROVE NodesInv'
  <1>1. /\ TypeOK /\ UNCHANGED <<regVars, group, procVars, holdVars, loadVars>>
        /\ collected' = collected \ {n} /\ opened' = opened \ {n}
    BY DEF NodesInv, CloseCollected
  <1>2. TypeOK'
    BY <1>1 DEF CloseCollected, TypeOK, regVars, procVars, holdVars, loadVars
  <1>3. InHand' /\ Flights' /\ OneLoad' /\ Generations'
    BY <1>1 DEF NodesInv, InHand, Flights, Leads, OneLoad, Generations, procVars, holdVars, loadVars
  <1>4. OpenIsOwned'
    BY <1>1 DEF NodesInv, OpenIsOwned, Registered, regVars, procVars
  <1> QED BY <1>2, <1>3, <1>4 DEF NodesInv

LEMMA CloseInv == ASSUME NodesInv, Close PROVE NodesInv'
  <1>1. TypeOK /\ UNCHANGED <<group, procVars, holdVars, loadVars>> /\ closed' = TRUE
    BY DEF NodesInv, Close
  <1>2. allNodes' \in [Addrs -> MaybeNode] /\ clusterAddrs' \in [Addrs -> Nat]
    BY DEF Close, MaybeNode
  <1>3. TypeOK'
    BY <1>1, <1>2 DEF Close, TypeOK, procVars, holdVars, loadVars
  <1>4. InHand' /\ Flights' /\ OneLoad' /\ Generations'
    BY <1>1 DEF NodesInv, InHand, Flights, Leads, OneLoad, Generations, procVars, holdVars, loadVars
  <1>5. OpenIsOwned'
    BY <1>1 DEF OpenIsOwned
  <1> QED BY <1>3, <1>4, <1>5 DEF NodesInv

-----------------------------------------------------------------------------
LEMMA StutterInv == ASSUME NodesInv, UNCHANGED vars PROVE NodesInv'
  BY DEF NodesInv, TypeOK, InHand, Flights, Leads, OpenIsOwned, Registered, OneLoad, Generations,
         vars, regVars, nodeVars, holdVars, procVars, loadVars

LEMMA InitInv == Init => NodesInv
  <1> SUFFICES ASSUME Init PROVE NodesInv
    OBVIOUS
  <1>1. (CHOOSE a \in Seeds : TRUE) \in Addrs /\ NoState \in State
    BY ClusterAssumption DEF NoState, State
  <1>2. TypeOK
    BY <1>1, ClusterAssumption DEF Init, TypeOK, MaybeNode, Steps
  <1>3. InHand /\ Flights /\ OpenIsOwned /\ OneLoad
    BY DEF Init, InHand, Flights, Leads, OpenIsOwned, OneLoad, Procs
  <1>4. Generations
    BY DEF Init, Generations, NoState
  <1> QED BY <1>2, <1>3, <1>4 DEF NodesInv

LEMMA GetOrCreateInv == ASSUME NodesInv, NEW p \in Procs, GetOrCreateStep(p) PROVE NodesInv'
  BY LookupInv, DoJoinInv, DoLeadInv, TestEndsInv, ForgetInv, WaitEndsInv, RegisterInv
     DEF GetOrCreateStep

LEMMA LoadInv == ASSUME NodesInv, NEW l \in Loaders, LoadStep(l) PROVE NodesInv'
  BY LoadAddrsInv, LoadNextInv, LoadSlotsInv, LoadStampInv, LoadSkipInv, LoadStoreInv,
     LoadErrorInv, LoadEndsInv DEF LoadStep

LEMMA NextInv == NodesInv /\ [Next]_vars => NodesInv'
  BY GetOrCreateInv, CallStartInv, CallEndsInv, LazyReloadInv, LoadInv, GCInv, CloseCollectedInv,
     CloseInv, StutterInv DEF Next

LEMMA SpecInv == Spec => []NodesInv
  BY InitInv, NextInv, PTL DEF Spec

\* However many goroutines ask for an address, one Test of it is in flight at a time.
THEOREM SpecSingleFlight == Spec => []SingleFlight
  <1>1. NodesInv => SingleFlight
    BY DEF NodesInv, Flights, Leads, SingleFlight
  <1> QED BY <1>1, SpecInv, PTL

\* No client leaks: until Close, an open one is registered, is being closed by a GC, or
\* is in the hands of a goroutine on its way to the second critical section of c.mu.
THEOREM SpecOpenIsOwned == Spec => []OpenIsOwned
  <1>1. NodesInv => OpenIsOwned
    BY DEF NodesInv
  <1> QED BY <1>1, SpecInv, PTL

\* The published state never goes back to an earlier generation.
THEOREM SpecStateAdvances == Spec => StateAdvances
  <1>1. NodesInv /\ [Next]_vars => [state'.gen >= state.gen]_vars
    <2> SUFFICES ASSUME NodesInv, Next PROVE state'.gen >= state.gen
      OBVIOUS
    <2>1. state.gen \in Nat
      BY DEF NodesInv, TypeOK, State
    <2>2. CASE \E l \in Loaders : LoadStore(l)
      BY <2>2, LoadStoreInv
    <2>3. CASE UNCHANGED state
      BY <2>1, <2>3
    <2>4. CASE \E p \in Procs : GetOrCreateStep(p)
      BY <2>3, <2>4 DEF GetOrCreateStep, Lookup, DoJoin, DoLead, TestEnds, Forget, WaitEnds,
         Register, holdVars
    <2>5. CASE \E p \in Callers : CallStart(p) \/ CallEnds(p)
      BY <2>3, <2>5 DEF CallStart, CallEnds, holdVars
    <2>6. CASE \E l \in Loaders : LazyReload(l) \/ LoadStep(l)
      BY <2>2, <2>3, <2>6 DEF LazyReload, LoadStep, LoadAddrs, LoadNext, LoadSlots, LoadStamp,
         LoadSkip, LoadError, LoadEnds, holdVars
    <2>7. CASE (\E g \in timers : GC(g)) \/ (\E n \in Nodes : CloseCollected(n)) \/ Close
      BY <2>3, <2>7 DEF GC, CloseCollected, Close, holdVars
    <2> QED BY <2>4, <2>5, <2>6, <2>7 DEF Next
  <1> QED BY <1>1, SpecInv, PTL DEF Spec, StateAdvances

\* A GC spares every node that the current state or a state being loaded has stamped,
\* and no other step but Close takes a node from its address.
THEOREM SpecGCKeepsStamped == Spec => GCKeepsStamped
  <1> DEFINE Keeps == \A a \in Addrs :
          allNodes[a] # NoNode /\ gen[allNodes[a]] > 0 /\ gen[allNodes[a]] >= state.gen /\ ~closed'
            => allNodes'[a] = allNodes[a]
  <1>1. NodesInv /\ [Next]_vars => [Keeps]_vars
    <2> SUFFICES ASSUME NodesInv, Next PROVE Keeps
      OBVIOUS
    <2>1. CASE UNCHANGED allNodes
      BY <2>1
    <2>2. CASE \E p \in Procs : Register(p)
      BY <2>2 DEF Register, regVars, NodesInv, TypeOK
    <2>3. CASE \E g \in timers : GC(g)
      BY <2>3, GCInv
    <2>4. CASE Close
      BY <2>4 DEF Close
    <2>5. CASE \E p \in Procs : GetOrCreateStep(p)
      BY <2>1, <2>2, <2>5 DEF GetOrCreateStep, Lookup, DoJoin, DoLead, TestEnds, Forget, WaitEnds,
         regVars
    <2>6. CASE \E p \in Callers : CallStart(p) \/ CallEnds(p)
      BY <2>1, <2>6 DEF CallStart, CallEnds, regVars
    <2>7. CASE \E l \in Loaders : LazyReload(l) \/ LoadStep(l)
      BY <2>1, <2>7 DEF LazyReload, LoadStep, LoadAddrs, LoadNext, LoadSlots, LoadStamp,
         LoadSkip, LoadStore, LoadError, LoadEnds, regVars
    <2>8. CASE \E n \in Nodes : CloseCollected(n)
      BY <2>1, <2>8 DEF CloseCollected, regVars
    <2> QED BY <2>3, <2>4, <2>5, <2>6, <2>7, <2>8 DEF Next
  <1> QED BY <1>1, SpecInv, PTL DEF Spec, GCKeepsStamped
=============================================================================
