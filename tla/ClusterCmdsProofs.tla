------------------------- MODULE ClusterCmdsProofs -------------------------
(***************************************************************************)
(* Proofs about the calls of the cluster client, for any number of nodes,  *)
(* slots, commands, redirections and migrations.                           *)
(*                                                                         *)
(* The argument is about where a command is while the call goes on: in a   *)
(* batch that has still to be sent, among the replies still to be read, or *)
(* in the batch of a node for the next attempt, and never in two of them.  *)
(* A command that has run is in none, and one that is in none and has not  *)
(* run has an error.                                                       *)
(***************************************************************************)
EXTENDS ClusterCmds, SequenceTheorems, FiniteSetTheorems, TLAPS

-----------------------------------------------------------------------------
(* Batches.                                                                *)

Ent(es) == EntriesOf(es) \ {Asking}
Once(es) == \A j, k \in DOMAIN es : es[j] = es[k] /\ es[j] # Asking => j = k
AllOf(m) == UNION {Ent(m[n]) : n \in Nodes}
Apart(m) ==
    /\ \A n \in Nodes : Once(m[n])
    /\ \A n1, n2 \in Nodes : n1 # n2 => Ent(m[n1]) \cap Ent(m[n2]) = {}

\* The commands of the nodes to visit, of the batch being read, and those of
\* it whose reply has not been read.
Waiting == UNION {Ent(cmdsMap[n]) : n \in pending}
Reading == IF pc = "read" THEN Ent(cmdsMap[cur]) ELSE {}
Unanswered == IF pc = "read" THEN {cmdsMap[cur][k] : k \in (pos + 1) .. Len(cmdsMap[cur])} \ {Asking}
                         ELSE {}

-----------------------------------------------------------------------------
(* Types, and the control that the handlers rely on.                       *)

Errs == {"nil", "closed", "net", "redis", "moved", "ask"}
Entries == 0 .. Batch

ServerTypes ==
    /\ owner \in [Slots -> Addrs] /\ importing \in [Slots -> Addrs \cup {NoAddr}]
    /\ moves \in Nat
    /\ \A s \in Slots : importing[s] # NoAddr => importing[s] # owner[s] /\ moves >= 1
    /\ \A i \in gone : i \in Cmds /\ importing[slotOf[i]] # NoAddr

NodeTypes ==
    /\ made \in [Addrs -> 1 .. MaxNodes]
    /\ view \in [Slots -> Nodes \cup {NoNode}] /\ snap \in [Slots -> Nodes \cup {NoNode}]

CallTypes ==
    /\ kind \in {"cmd", "pipe", "tx"} /\ slotOf \in [Cmds -> Slots]
    /\ err \in [Cmds -> Errs] /\ ran \in [Cmds -> Nat]
    /\ attempt \in Nat /\ trouble \in Nat /\ metClosed \in BOOLEAN
    /\ node \in Nodes \cup {NoNode} /\ ask \in BOOLEAN
    /\ cmdsMap \in [Nodes -> Seq(Entries)] /\ failedCmds \in [Nodes -> Seq(Entries)]
    /\ pending \in SUBSET Nodes /\ pos \in Nat /\ dirty \in BOOLEAN
    /\ todo \in SUBSET Slots

Control ==
    /\ pc \in {"start", "slots", "pipe", "read", "idle"}
    /\ pc = "slots" => kind = "tx"
    /\ pc \in {"pipe", "read"} => kind # "cmd"
    /\ pc = "read" => /\ cur \in Nodes \ pending
                      /\ pos <= Len(cmdsMap[cur]) /\ (kind = "pipe" => pos < Len(cmdsMap[cur]))
    /\ \A n \in pending : cmdsMap[n] # <<>>
    /\ pc \notin {"pipe", "read"} => pending = {}
    /\ pc = "start" => cmdsMap = NoCmds /\ failedCmds = NoCmds
    /\ pc # "idle" => result = "none"

-----------------------------------------------------------------------------
(* Where the commands are.                                                 *)

Places ==
    /\ Apart(cmdsMap) /\ Apart(failedCmds)
    /\ (Waiting \cup Unanswered) \cap AllOf(failedCmds) = {}
    /\ kind = "tx" /\ ~dirty => Reading \cap AllOf(failedCmds) = {}
    /\ kind = "tx" => \A i \in AllOf(cmdsMap) \cup AllOf(failedCmds) : slotOf[i] \notin todo

\* Command i may still run.
MayRun(i) ==
    \/ pc = "start"
    \/ i \in Waiting \cup Unanswered \cup AllOf(failedCmds)
    \/ kind = "tx" /\ (i \in Reading \/ slotOf[i] \in todo)

\* Nothing is run twice.
RunInv ==
    kind = "tx" \/ trouble = 0 => \A i \in Cmds : ran[i] <= 1 /\ (MayRun(i) => ran[i] = 0)

-----------------------------------------------------------------------------
(* What an error that is not there means.                                  *)

\* Some command has an error and will not be sent again.
GivenUp == \E i \in Cmds : err[i] # "nil" /\ i \notin Waiting \cup Unanswered \cup AllOf(failedCmds)

PipeNil ==
    /\ \A i \in AllOf(failedCmds) : err[i] # "nil"
    /\ \/ \A n \in Nodes : Asking \notin EntriesOf(cmdsMap[n])
       \/ \A i \in Waiting \cup Unanswered : err[i] # "nil"
    /\ GivenUp \/ \A i \in Cmds : err[i] = "nil" => ran[i] > 0 \/ i \in Waiting \cup Unanswered

TxNil ==
    \A i \in Cmds : err[i] = "nil" => ran[i] > 0 \/ slotOf[i] \in todo \/ i \in Waiting \cup Reading

NilInv ==
    /\ kind = "cmd" /\ ask => err[1] # "nil"
    /\ ~metClosed /\ kind = "pipe" /\ pc \in {"pipe", "read"} => PipeNil
    /\ ~metClosed /\ kind = "tx" /\ pc \in {"slots", "pipe", "read"} => TxNil

-----------------------------------------------------------------------------
(* Redirections.                                                           *)

\* How many redirections command i can meet at node n before another
\* migration begins.
Left(i, n, asking) ==
    LET s == slotOf[i]
    IN  IF asking /\ n # NoNode /\ importing[s] = Home(n) THEN 0
        ELSE (IF n # NoNode /\ owner[s] = Home(n) THEN 0 ELSE 1)
             + (IF importing[s] = NoAddr THEN 0 ELSE 1)

\* They fit into what the attempts a have left, from the k-th entry of a batch on.
Fits(es, n, from, a) ==
    \A k \in DOMAIN es : k >= from /\ es[k] # Asking => a + Left(es[k], n, After(es, k)) <= moves + 1

CmdFits == attempt + Left(1, node, ask) <= moves + 1
PipeFits ==
    /\ \A n \in pending : Fits(cmdsMap[n], n, 1, attempt)
    /\ pc = "read" => Fits(cmdsMap[cur], cur, pos + 1, attempt)
    /\ \A n \in Nodes : Fits(failedCmds[n], n, 1, attempt + 1)
    /\ \A i \in Cmds : err[i] \in {"moved", "ask"} => i \in Waiting \cup Unanswered \cup AllOf(failedCmds)

RedirectInv ==
    trouble = 0 /\ ~metClosed =>
        /\ kind = "cmd" /\ pc = "start" => CmdFits
        /\ kind = "pipe" /\ pc \in {"pipe", "read"} => PipeFits
        /\ kind = "pipe" /\ pc = "start" => attempt = 0 /\ \A i \in Cmds : err[i] = "nil"

ClusterInv ==
    /\ ServerTypes /\ NodeTypes /\ CallTypes /\ Control
    /\ Places /\ RunInv
    /\ NilInv /\ NilMeansRunOpen
    /\ RedirectInv /\ RedirectsConverge

-----------------------------------------------------------------------------
(* Sequences.                                                              *)

LEMMA FunSeq == ASSUME NEW S, NEW n \in Nat, NEW f \in [1 .. n -> S]
                PROVE  f \in Seq(S) /\ Len(f) = n
  OBVIOUS

LEMMA SeqFun == ASSUME NEW S, NEW es \in Seq(S)
                PROVE  /\ Len(es) \in Nat /\ DOMAIN es = 1 .. Len(es) /\ es \in [1 .. Len(es) -> S]
                       /\ \A k \in 1 .. Len(es) : es[k] \in S
  OBVIOUS

\* Every place from 1 to the number of elements is the rank of one element.
LEMMA Ranks ==
    ASSUME NEW N \in Nat, NEW at \in SUBSET (1 .. N)
    PROVE  LET rank(i) == Cardinality({j \in at : j <= i})
           IN  /\ Cardinality(at) \in Nat
               /\ \A i \in at : rank(i) \in 1 .. Cardinality(at)
               /\ \A i, j \in at : rank(i) = rank(j) => i = j
               /\ \A k \in 1 .. Cardinality(at) : \E i \in at : rank(i) = k
  <1> DEFINE rank(i) == Cardinality({j \in at : j <= i})
             C == Cardinality(at)
             f == [i \in at |-> rank(i)]
  <1>1. IsFiniteSet(at) /\ C \in Nat
    <2>1. IsFiniteSet(1 .. N)
      BY FS_Interval
    <2>2. IsFiniteSet(at)
      BY <2>1, FS_Subset
    <2> QED BY <2>2, FS_CardinalityType
  <1>2. ASSUME NEW i \in at PROVE IsFiniteSet({j \in at : j <= i}) /\ rank(i) \in 1 .. C
    <2> DEFINE B == {j \in at : j <= i}
    <2>1. B \in SUBSET at /\ i \in B
      OBVIOUS
    <2> HIDE DEF B
    <2>2. IsFiniteSet(B) /\ Cardinality(B) <= C /\ Cardinality(B) \in Nat
      BY <1>1, <2>1, FS_Subset, FS_CardinalityType
    <2>3. Cardinality(B) # 0
      BY <2>1, <2>2, FS_EmptySet
    <2>4. Cardinality(B) \in 1 .. C
      BY <1>1, <2>2, <2>3
    <2> QED BY <2>2, <2>4 DEF B
  <1>3. ASSUME NEW i \in at, NEW j \in at, i < j PROVE rank(i) # rank(j)
    <2> DEFINE A == {h \in at : h <= i}  B == {h \in at : h <= j}
    <2>0. i \in Nat /\ j \in Nat /\ at \subseteq Nat
      OBVIOUS
    <2>1. A \in SUBSET B /\ j \in B /\ j \notin A
      <3>1. \A h \in at : h <= i => h <= j
        BY <1>3, <2>0
      <3>2. ~(j <= i) /\ j <= j
        BY <1>3, <2>0
      <3> QED BY <3>1, <3>2
    <2>2. IsFiniteSet(B)
      BY <1>2
    <2> HIDE DEF A, B
    <2>3. Cardinality(A) # Cardinality(B)
      BY <2>1, <2>2, FS_Subset
    <2> QED BY <2>3 DEF A, B
  <1>4. \A i, j \in at : rank(i) = rank(j) => i = j
    BY <1>3
  <1>5. \A k \in 1 .. C : \E i \in at : rank(i) = k
    <2> HIDE DEF rank, C
    <2>0. f \in [at -> 1 .. C] /\ \A i, j \in at : f[i] = f[j] => i = j
      BY <1>2, <1>4
    <2>1. f \in Injection(at, 1 .. C)
      BY <2>0, Zenon DEF Injection, IsInjective
    <2>2. IsFiniteSet(1 .. C) /\ Cardinality(1 .. C) = C
      BY <1>1, FS_Interval
    <2>3. f \in Surjection(at, 1 .. C)
      BY <2>1, <2>2, FS_Injection DEF C
    <2> QED BY <2>3 DEF Surjection
  <1> QED BY <1>1, <1>2, <1>4, <1>5

\* The entries at some positions, in their order, are these and no others, once
\* each.
LEMMA InOrderIs ==
    ASSUME NEW S, NEW es \in Seq(S), NEW at \in SUBSET (1 .. Len(es))
    PROVE  /\ InOrder(es, at) \in Seq(S)
           /\ EntriesOf(InOrder(es, at)) = {es[i] : i \in at}
           /\ Once(es) => Once(InOrder(es, at))
  <1> DEFINE rank(i) == Cardinality({j \in at : j <= i})
             nth(k) == CHOOSE i \in at : rank(i) = k
             C == Cardinality(at)
             r == InOrder(es, at)
  <1>0. Len(es) \in Nat /\ DOMAIN es = 1 .. Len(es) /\ \A k \in 1 .. Len(es) : es[k] \in S
    BY SeqFun
  <1>1. /\ C \in Nat /\ \A i \in at : rank(i) \in 1 .. C
        /\ \A i, j \in at : rank(i) = rank(j) => i = j
        /\ \A k \in 1 .. C : \E i \in at : rank(i) = k
    BY <1>0, Ranks
  <1>2. r = [k \in 1 .. C |-> es[nth(k)]]
    BY DEF InOrder
  <1> HIDE DEF C, r, rank
  <1>3. \A k \in 1 .. C : nth(k) \in at /\ rank(nth(k)) = k
    BY <1>1
  <1>4. \A i \in at : nth(rank(i)) = i
    BY <1>1, <1>3
  <1> HIDE DEF nth
  <1>5. \A k \in 1 .. C : es[nth(k)] \in S
    BY <1>0, <1>3
  <1>6. r \in [1 .. C -> S]
    BY <1>2, <1>5
  <1>7. r \in Seq(S) /\ DOMAIN r = 1 .. C
    BY <1>1, <1>6, FunSeq
  <1>8. EntriesOf(r) = {es[i] : i \in at}
    BY <1>1, <1>2, <1>3, <1>4, <1>7 DEF EntriesOf
  <1>9. Once(es) => Once(r)
    <2> SUFFICES ASSUME Once(es), NEW j \in 1 .. C, NEW k \in 1 .. C, r[j] = r[k], r[j] # Asking
                 PROVE  j = k
      BY <1>7 DEF Once
    <2>1. es[nth(j)] = es[nth(k)] /\ es[nth(j)] # Asking /\ nth(j) \in DOMAIN es /\ nth(k) \in DOMAIN es
      BY <1>0, <1>2, <1>3
    <2>2. nth(j) = nth(k)
      BY <2>1 DEF Once
    <2> QED BY <1>3, <2>2
  <1> QED BY <1>7, <1>8, <1>9 DEF r

\* What one sequence followed by another holds.
LEMMA CatIs ==
    ASSUME NEW S, NEW s \in Seq(S), NEW t \in Seq(S)
    PROVE  /\ s \o t \in Seq(S) /\ Ent(s \o t) = Ent(s) \cup Ent(t)
           /\ Once(s) /\ Once(t) /\ Ent(s) \cap Ent(t) = {} => Once(s \o t)
  <1> DEFINE u == s \o t  m == Len(s)  n == Len(t)
  <1>1. /\ u \in Seq(S) /\ m \in Nat /\ n \in Nat /\ DOMAIN u = 1 .. (m + n)
        /\ DOMAIN s = 1 .. m /\ DOMAIN t = 1 .. n
        /\ \A k \in 1 .. (m + n) : u[k] = IF k <= m THEN s[k] ELSE t[k - m]
    OBVIOUS
  <1> HIDE DEF u, m, n
  <1>2. \A k \in 1 .. (m + n) : IF k <= m THEN k \in 1 .. m ELSE k - m \in 1 .. n
    BY <1>1
  <1>3. \A k \in 1 .. m : k \in 1 .. (m + n) /\ u[k] = s[k]
    BY <1>1
  <1>4. \A k \in 1 .. n : m + k \in 1 .. (m + n) /\ u[m + k] = t[k]
    BY <1>1
  <1>5. EntriesOf(u) = EntriesOf(s) \cup EntriesOf(t)
    <2>1. ASSUME NEW x \in EntriesOf(u) PROVE x \in EntriesOf(s) \cup EntriesOf(t)
      <3>1. PICK k \in 1 .. (m + n) : x = u[k]
        BY <1>1, <2>1 DEF EntriesOf
      <3> QED BY <1>1, <1>2, <3>1 DEF EntriesOf
    <2>2. ASSUME NEW k \in 1 .. m PROVE s[k] \in EntriesOf(u)
      BY <1>1, <1>3, <2>2 DEF EntriesOf
    <2>3. ASSUME NEW k \in 1 .. n PROVE t[k] \in EntriesOf(u)
      BY <1>1, <1>4, <2>3 DEF EntriesOf
    <2> QED BY <1>1, <2>1, <2>2, <2>3 DEF EntriesOf
  <1>6. ASSUME Once(s), Once(t), Ent(s) \cap Ent(t) = {},
               NEW j \in 1 .. (m + n), NEW k \in 1 .. (m + n), u[j] = u[k], u[j] # Asking
        PROVE  j = k
    <2>1. CASE j <= m /\ k <= m
      BY <1>1, <1>2, <1>6, <2>1 DEF Once
    <2>2. CASE ~(j <= m) /\ ~(k <= m)
      <3>1. j - m \in 1 .. n /\ k - m \in 1 .. n /\ t[j - m] = t[k - m] /\ t[j - m] # Asking
        BY <1>1, <1>2, <1>6, <2>2
      <3>2. j - m = k - m
        BY <1>1, <1>6, <3>1 DEF Once
      <3> QED BY <1>1, <3>2
    <2>3. ASSUME NEW a \in 1 .. (m + n), NEW b \in 1 .. (m + n), a <= m, ~(b <= m), u[a] = u[b],
                 u[a] # Asking
          PROVE  FALSE
      <3>1. s[a] = t[b - m] /\ a \in DOMAIN s /\ b - m \in DOMAIN t /\ s[a] # Asking
        BY <1>1, <1>2, <2>3
      <3>2. s[a] \in Ent(s) /\ t[b - m] \in Ent(t)
        BY <3>1 DEF Ent, EntriesOf
      <3> QED BY <1>6, <3>1, <3>2
    <2> QED BY <1>6, <2>1, <2>2, <2>3
  <1>7. Once(s) /\ Once(t) /\ Ent(s) \cap Ent(t) = {} => Once(u)
    BY <1>1, <1>6 DEF Once
  <1> QED BY <1>1, <1>5, <1>7 DEF u, Ent

-----------------------------------------------------------------------------
(* The batches that the model makes.                                       *)

LEMMA Numbers == /\ Batch \in Nat /\ Batch >= 1 /\ 1 \in Cmds /\ MaxRedirects \in Nat /\ MaxNodes \in Nat
                 /\ MaxNodes >= 1 /\ NoNode \notin Nodes /\ NoAddr \notin Addrs
                 /\ Asking \in Entries /\ Asking \notin Cmds /\ Cmds = Entries \ {Asking}
  BY ClusterCmdsAssumption DEF Cmds, Nodes, Entries, Asking

LEMMA EntCmds == ASSUME NEW es \in Seq(Entries) PROVE Ent(es) \subseteq Cmds
  <1>1. \A k \in DOMAIN es : es[k] \in Entries
    BY SeqFun
  <1> QED BY <1>1, Numbers DEF Ent, EntriesOf

LEMMA AllCmdsIs == AllCmds \in Seq(Entries) /\ Len(AllCmds) = Batch /\ DOMAIN AllCmds = Cmds
                   /\ Ent(AllCmds) = Cmds /\ Once(AllCmds) /\ \A i \in Cmds : AllCmds[i] = i
  <1>1. AllCmds \in [1 .. Batch -> Entries]
    BY Numbers DEF AllCmds, Cmds
  <1>2. AllCmds \in Seq(Entries) /\ Len(AllCmds) = Batch
    BY <1>1, Numbers, FunSeq
  <1>3. DOMAIN AllCmds = Cmds /\ \A i \in Cmds : AllCmds[i] = i
    BY DEF AllCmds
  <1> QED BY <1>2, <1>3, Numbers DEF Once, Ent, EntriesOf

LEMMA SlotCmdsIs == ASSUME NEW s
    PROVE  /\ SlotCmds(s) \in Seq(Entries) /\ Once(SlotCmds(s))
           /\ Ent(SlotCmds(s)) = {i \in Cmds : slotOf[i] = s}
  <1> DEFINE at == {i \in Cmds : slotOf[i] = s}
  <1>1. at \in SUBSET (1 .. Len(AllCmds)) /\ {AllCmds[i] : i \in at} = at /\ Asking \notin at
    BY AllCmdsIs, Numbers DEF Cmds
  <1>2. SlotCmds(s) = InOrder(AllCmds, at)
    BY DEF SlotCmds
  <1> HIDE DEF at
  <1>3. SlotCmds(s) \in Seq(Entries) /\ Once(SlotCmds(s)) /\ EntriesOf(SlotCmds(s)) = at
    <2>1. AllCmds \in Seq(Entries) /\ Once(AllCmds)
      BY AllCmdsIs
    <2> HIDE DEF AllCmds
    <2>2. /\ InOrder(AllCmds, at) \in Seq(Entries) /\ Once(InOrder(AllCmds, at))
          /\ EntriesOf(InOrder(AllCmds, at)) = {AllCmds[i] : i \in at}
      BY <1>1, <2>1, InOrderIs
    <2> QED BY <1>1, <1>2, <2>2
  <1> QED BY <1>1, <1>3 DEF Ent, at

\* mapCmdsByNode deals the commands of a batch out to the nodes.
LEMMA MapIs == ASSUME NEW es \in Seq(Entries), NEW m \in MapCmdsByNode(es)
    PROVE  /\ m \in [Nodes -> Seq(Entries)] /\ AllOf(m) = Ent(es)
           /\ Once(es) => Apart(m)
           /\ \A n \in Nodes : EntriesOf(m[n]) \subseteq EntriesOf(es)
  <1>1. PICK f \in [DOMAIN es -> Nodes] :
           m = [n \in Nodes |-> InOrder(es, {i \in DOMAIN es : f[i] = n})]
    BY DEF MapCmdsByNode
  <1> DEFINE at(n) == {i \in DOMAIN es : f[i] = n}
  <1>2. Len(es) \in Nat /\ DOMAIN es = 1 .. Len(es)
    BY SeqFun
  <1>3. ASSUME NEW n \in Nodes
        PROVE  /\ m[n] \in Seq(Entries) /\ EntriesOf(m[n]) = {es[i] : i \in at(n)}
               /\ Once(es) => Once(m[n])
    <2>1. at(n) \in SUBSET (1 .. Len(es)) /\ m[n] = InOrder(es, at(n))
      BY <1>1, <1>2
    <2> HIDE DEF at
    <2> QED BY <2>1, InOrderIs
  <1>4. m \in [Nodes -> Seq(Entries)]
    BY <1>1, <1>3
  <1>5. ASSUME NEW n \in Nodes PROVE EntriesOf(m[n]) \subseteq EntriesOf(es)
    <2>1. {es[i] : i \in at(n)} \subseteq EntriesOf(es)
      BY DEF EntriesOf
    <2> QED BY <1>3, <2>1
  <1>6. ASSUME NEW x \in Ent(es) PROVE x \in AllOf(m)
    <2>1. PICK i \in DOMAIN es : es[i] = x
      BY <1>6 DEF Ent, EntriesOf
    <2>2. f[i] \in Nodes /\ i \in at(f[i])
      BY <2>1
    <2>3. x \in EntriesOf(m[f[i]])
      BY <1>3, <2>1, <2>2
    <2> QED BY <1>6, <2>2, <2>3 DEF AllOf, Ent
  <1>7. AllOf(m) = Ent(es)
    BY <1>5, <1>6 DEF AllOf, Ent
  <1>8. ASSUME Once(es), NEW n1 \in Nodes, NEW n2 \in Nodes, NEW x \in Ent(m[n1]) \cap Ent(m[n2])
        PROVE  n1 = n2
    <2>1. /\ x # Asking
          /\ \E i \in at(n1) : x = es[i]
          /\ \E i \in at(n2) : x = es[i]
      <3>1. x # Asking /\ x \in EntriesOf(m[n1]) /\ x \in EntriesOf(m[n2])
        BY <1>8 DEF Ent
      <3> HIDE DEF at
      <3> QED BY <1>3, <3>1
    <2>2. PICK i \in at(n1), j \in at(n2) : x = es[i] /\ x = es[j]
      BY <2>1
    <2>3. i = j
      BY <1>8, <2>1, <2>2 DEF Once
    <2> QED BY <2>2, <2>3
  <1>9. Once(es) => Apart(m)
    BY <1>3, <1>8 DEF Apart
  <1> QED BY <1>4, <1>5, <1>7, <1>9

LEMMA NoCmdsIs == NoCmds \in [Nodes -> Seq(Entries)] /\ AllOf(NoCmds) = {} /\ Apart(NoCmds)
  <1>1. <<>> \in Seq(Entries) /\ DOMAIN <<>> = {}
    OBVIOUS
  <1>2. Ent(<<>>) = {} /\ Once(<<>>)
    BY <1>1 DEF Ent, EntriesOf, Once
  <1> QED BY <1>1, <1>2 DEF NoCmds, AllOf, Apart

\* One batch for one node.
LEMMA OneBatchIs == ASSUME NEW n \in Nodes, NEW es \in Seq(Entries), Once(es)
    PROVE  LET m == [NoCmds EXCEPT ![n] = es]
           IN  m \in [Nodes -> Seq(Entries)] /\ AllOf(m) = Ent(es) /\ Apart(m)
  <1> DEFINE m == [NoCmds EXCEPT ![n] = es]
  <1>1. m \in [Nodes -> Seq(Entries)] /\ m[n] = es
        /\ \A d \in Nodes \ {n} : m[d] = NoCmds[d]
    BY NoCmdsIs
  <1>2. \A d \in Nodes \ {n} : Ent(m[d]) = {} /\ Once(m[d])
    BY <1>1, NoCmdsIs DEF AllOf, Apart
  <1> HIDE DEF m
  <1>3. AllOf(m) = Ent(es) /\ Apart(m)
    BY <1>1, <1>2 DEF AllOf, Apart
  <1> QED BY <1>1, <1>3 DEF m

\* BeginAttempt visits the nodes that have a command, so every command waits.
LEMMA Begun == ASSUME NEW m \in [Nodes -> Seq(Entries)], BeginAttempt(m)
    PROVE  Waiting' = AllOf(m) /\ pending' \subseteq Nodes /\ \A n \in pending' : m[n] # <<>>
  <1>1. cmdsMap' = m /\ pending' = {n \in Nodes : m[n] # <<>>}
    BY DEF BeginAttempt, Busy
  <1>2. Ent(<<>>) = {}
    BY DEF Ent, EntriesOf
  <1>3. AllOf(m) = UNION {Ent(m[n]) : n \in pending'}
    BY <1>1, <1>2 DEF AllOf
  <1> QED BY <1>1, <1>3 DEF Waiting

\* What checkMovedErr appends to the batch of a node.
LEMMA RedirectedIs == ASSUME NEW r, NEW e \in Cmds
    PROVE  LET t == Redirected(r, e)
           IN  t \in Seq(Entries) /\ Ent(t) = {e} /\ Once(t)
  <1>1. e \in Entries /\ Asking \in Entries /\ e # Asking
    BY Numbers
  <1>2. CASE r.val = "ask"
    <2> DEFINE t == <<Asking, e>>
    <2>1. t \in Seq(Entries) /\ DOMAIN t = {1, 2} /\ t[1] = Asking /\ t[2] = e
      BY <1>1
    <2> HIDE DEF t
    <2>2. Ent(t) = {e} /\ Once(t)
      BY <1>1, <2>1 DEF Ent, EntriesOf, Once
    <2> QED BY <1>2, <2>1, <2>2 DEF Redirected, t
  <1>3. CASE r.val # "ask"
    <2> DEFINE t == <<e>>
    <2>1. t \in Seq(Entries) /\ DOMAIN t = {1} /\ t[1] = e
      BY <1>1
    <2> HIDE DEF t
    <2>2. Ent(t) = {e} /\ Once(t)
      BY <1>1, <2>1 DEF Ent, EntriesOf, Once
    <2> QED BY <1>3, <2>1, <2>2 DEF Redirected, t
  <1> QED BY <1>2, <1>3

LEMMA Halves == \A k, n \in Nat : /\ k % 2 # 1 /\ k \in 1 .. (2 * n) => k \div 2 \in 1 .. n /\ 2 * (k \div 2) = k
                                  /\ k \in 1 .. n => 2 * k \in 1 .. (2 * n) /\ (2 * k) % 2 # 1 /\ (2 * k) \div 2 = k
  OBVIOUS

LEMMA AllRedirectedIs == ASSUME NEW r, NEW es \in Seq(Entries)
    PROVE  LET t == AllRedirected(r, es)
           IN  t \in Seq(Entries) /\ Ent(t) = Ent(es) /\ (Once(es) => Once(t))
  <1>1. CASE r.val = "moved"
    BY <1>1 DEF AllRedirected
  <1>2. CASE r.val # "moved"
    <2> DEFINE n == Len(es)
               t == [k \in 1 .. (2 * n) |-> IF k % 2 = 1 THEN Asking ELSE es[k \div 2]]
    <2>1. n \in Nat /\ 2 * n \in Nat /\ DOMAIN es = 1 .. n /\ \A k \in 1 .. n : es[k] \in Entries
      BY SeqFun
    <2> HIDE DEF n
    <2>2. ASSUME NEW k \in 1 .. (2 * n) PROVE t[k] \in Entries
      BY <2>1, Halves, Numbers
    <2>3. t \in Seq(Entries) /\ DOMAIN t = 1 .. (2 * n)
      BY <2>1, <2>2, FunSeq
    <2>4. ASSUME NEW k \in 1 .. (2 * n), t[k] # Asking
          PROVE  k \div 2 \in 1 .. n /\ 2 * (k \div 2) = k /\ t[k] = es[k \div 2]
      BY <2>1, <2>4, Halves
    <2>5. ASSUME NEW k \in 1 .. n PROVE 2 * k \in 1 .. (2 * n) /\ t[2 * k] = es[k]
      BY <2>1, Halves
    <2> HIDE DEF t
    <2>6. Ent(t) = Ent(es)
      <3>1. ASSUME NEW x \in Ent(t) PROVE x \in Ent(es)
        BY <2>1, <2>3, <2>4, <3>1 DEF Ent, EntriesOf
      <3>2. ASSUME NEW x \in Ent(es) PROVE x \in Ent(t)
        BY <2>1, <2>3, <2>5, <3>2 DEF Ent, EntriesOf
      <3> QED BY <3>1, <3>2
    <2>7. ASSUME Once(es), NEW j \in 1 .. (2 * n), NEW k \in 1 .. (2 * n), t[j] = t[k], t[j] # Asking
          PROVE  j = k
      <3>1. es[j \div 2] = es[k \div 2] /\ es[j \div 2] # Asking /\ j \div 2 \in DOMAIN es /\ k \div 2 \in DOMAIN es
            /\ 2 * (j \div 2) = j /\ 2 * (k \div 2) = k
        BY <2>1, <2>4, <2>7
      <3>2. j \div 2 = k \div 2
        BY <2>7, <3>1 DEF Once
      <3> QED BY <3>1, <3>2
    <2>8. Once(es) => Once(t)
      BY <2>3, <2>7 DEF Once
    <2> QED BY <1>2, <2>3, <2>6, <2>8 DEF AllRedirected, t, n
  <1> QED BY <1>1, <1>2

-----------------------------------------------------------------------------
(* The batches of the next attempt.                                        *)

\* Commands appended to the batch of a node.
LEMMA AddFailed ==
    ASSUME NEW g \in [Nodes -> Seq(Entries)], Apart(g), NEW n \in Nodes, NEW t \in Seq(Entries), Once(t),
           Ent(t) \cap AllOf(g) = {}
    PROVE  LET h == [g EXCEPT ![n] = @ \o t]
           IN  h \in [Nodes -> Seq(Entries)] /\ Apart(h) /\ AllOf(h) = AllOf(g) \cup Ent(t)
  <1> DEFINE h == [g EXCEPT ![n] = @ \o t]
  <1>1. Once(g[n]) /\ g[n] \in Seq(Entries) /\ Ent(g[n]) \cap Ent(t) = {}
    BY DEF Apart, AllOf
  <1>2. h[n] = g[n] \o t /\ \A d \in Nodes \ {n} : h[d] = g[d]
    OBVIOUS
  <1>3. h[n] \in Seq(Entries) /\ Ent(h[n]) = Ent(g[n]) \cup Ent(t) /\ Once(h[n])
    BY <1>1, <1>2, CatIs
  <1>4. h \in [Nodes -> Seq(Entries)]
    BY <1>2, <1>3
  <1> HIDE DEF h
  <1>5. AllOf(h) = AllOf(g) \cup Ent(t)
    BY <1>2, <1>3 DEF AllOf
  <1>6. \A d \in Nodes \ {n} : Ent(h[d]) \cap Ent(t) = {} /\ Ent(h[d]) \cap Ent(g[n]) = {}
    BY <1>2 DEF AllOf, Apart
  <1>7. Apart(h)
    BY <1>2, <1>3, <1>6 DEF Apart
  <1> QED BY <1>4, <1>5, <1>7 DEF h

\* Batches that take the place of others.
LEMMA ReplaceFailed ==
    ASSUME NEW g \in [Nodes -> Seq(Entries)], Apart(g), NEW m \in [Nodes -> Seq(Entries)], Apart(m),
           AllOf(m) \cap AllOf(g) = {}, NEW h, DOMAIN h = Nodes,
           h = [n \in Nodes |-> h[n]], \A n \in Nodes : h[n] = m[n] \/ h[n] = g[n]
    PROVE  h \in [Nodes -> Seq(Entries)] /\ Apart(h) /\ AllOf(h) \subseteq AllOf(g) \cup AllOf(m)
  <1>1. h \in [Nodes -> Seq(Entries)]
    OBVIOUS
  <1>2. AllOf(h) \subseteq AllOf(g) \cup AllOf(m)
    BY DEF AllOf
  <1>3. \A n1, n2 \in Nodes : Ent(m[n1]) \cap Ent(g[n2]) = {}
    <2>1. \A n \in Nodes : Ent(m[n]) \subseteq AllOf(m) /\ Ent(g[n]) \subseteq AllOf(g)
      BY DEF AllOf
    <2> QED BY <2>1
  <1>4. Apart(h)
    <2>1. ASSUME NEW n \in Nodes PROVE Once(h[n])
      BY DEF Apart
    <2>2. ASSUME NEW n1 \in Nodes, NEW n2 \in Nodes, n1 # n2 PROVE Ent(h[n1]) \cap Ent(h[n2]) = {}
      <3>1. /\ Ent(m[n1]) \cap Ent(m[n2]) = {} /\ Ent(g[n1]) \cap Ent(g[n2]) = {}
            /\ Ent(m[n1]) \cap Ent(g[n2]) = {} /\ Ent(m[n2]) \cap Ent(g[n1]) = {}
        BY <1>3, <2>2 DEF Apart
      <3>2. /\ h[n1] = m[n1] \/ h[n1] = g[n1]
            /\ h[n2] = m[n2] \/ h[n2] = g[n2]
        OBVIOUS
      <3> QED BY <3>1, <3>2
    <2> QED BY <2>1, <2>2 DEF Apart
  <1> QED BY <1>1, <1>2, <1>4

-----------------------------------------------------------------------------
(* Errors.                                                                 *)

\* The error a call returns is that of its first command that has one.
LEMMA FirstErr == ASSUME NEW f \in [Cmds -> Errs]
    PROVE  /\ FirstCmdsErr(f) = "nil" => \A i \in InCall : f[i] = "nil"
           /\ FirstCmdsErr(f) # "nil" => \E i \in InCall : f[i] = FirstCmdsErr(f)
  <1> SUFFICES ASSUME NEW x \in InCall, f[x] # "nil"
               PROVE  FirstCmdsErr(f) # "nil" /\ \E i \in InCall : f[i] = FirstCmdsErr(f)
    BY DEF FirstCmdsErr
  <1> DEFINE T == {i \in InCall : f[i] # "nil"}
             F(i) == f[i] # "nil" /\ \A j \in InCall : j < i => f[j] = "nil"
  <1>1. Batch \in Nat /\ InCall \subseteq 1 .. Batch
    BY Numbers DEF InCall, Cmds
  <1>2. \E i \in InCall : F(i)
    <2>1. T \in SUBSET (1 .. Batch) /\ x \in T
      BY <1>1
    <2> HIDE DEF T
    <2>2. IsFiniteSet(T)
      <3>1. IsFiniteSet(1 .. Batch)
        BY <1>1, FS_Interval
      <3> QED BY <2>1, <3>1, FS_Subset
    <2>3. Cardinality(T) # 0 /\ Cardinality(T) \in Nat
      BY <2>1, <2>2, FS_EmptySet, FS_CardinalityType
    <2>4. PICK i \in T : Cardinality({j \in T : j <= i}) = 1
      <3>1. 1 \in 1 .. Cardinality(T)
        BY <2>3
      <3> QED BY <1>1, <2>1, <3>1, Ranks
    <2>5. ASSUME NEW j \in T, j < i PROVE FALSE
      <3> DEFINE B == {h \in T : h <= i}
      <3>1. i \in B /\ j \in B /\ i # j /\ B \in SUBSET T
        BY <1>1, <2>1, <2>5
      <3>2. Cardinality(B) = 1
        BY <2>4
      <3> HIDE DEF B
      <3>3. \E y : B = {y}
        BY <2>2, <3>1, <3>2, FS_Subset, FS_Singleton
      <3> QED BY <3>1, <3>3
    <2> QED BY <2>5 DEF T
  <1>3. FirstCmdsErr(f) = f[CHOOSE i \in InCall : F(i)]
    BY DEF FirstCmdsErr
  <1> DEFINE m == CHOOSE i \in InCall : F(i)
  <1>4. m \in InCall /\ F(m)
    BY <1>2
  <1> HIDE DEF m
  <1> QED BY <1>3, <1>4 DEF m

LEMMA SetErr ==
    ASSUME NEW es \in Seq(Entries), NEW e \in Errs \ {"nil"}, err \in [Cmds -> Errs]
    PROVE  LET g == SetCmdsErr(es, e)
           IN  /\ g \in [Cmds -> Errs]
               /\ \A i \in Cmds : /\ g[i] = err[i] \/ g[i] = e
                                  /\ err[i] # "nil" => g[i] = err[i]
                                  /\ i \in Ent(es) => g[i] # "nil"
                                  /\ i \notin Ent(es) => g[i] = err[i]
  <1>1. \A i \in Cmds : i \in EntriesOf(es) <=> i \in Ent(es)
    BY Numbers DEF Ent
  <1> QED BY <1>1 DEF SetCmdsErr

-----------------------------------------------------------------------------
(* The registry and the slot state.                                        *)

LEMMA Known == ASSUME NodeTypes, NEW s \in Slots
    PROVE  SlotMasterNode(view, s) \subseteq Nodes \cup {NoNode}
           /\ SlotMasterNode(snap, s) \subseteq Nodes \cup {NoNode}
           /\ RandomNode \subseteq Nodes \cup {NoNode}
  BY DEF NodeTypes, SlotMasterNode, RandomNode, Nodes

LEMMA GotNode == ASSUME NodeTypes, NEW a \in Addrs, NEW n \in Nodes \cup {NoNode}, GetOrCreate(a, n),
                        UNCHANGED <<view, snap>>
    PROVE  NodeTypes' /\ (n # NoNode => n \in Nodes /\ Home(n) = a)
  <1>1. made' \in [Addrs -> 1 .. MaxNodes]
    BY Numbers DEF NodeTypes, GetOrCreate, nodeVars
  <1>2. n # NoNode => Home(n) = a
    BY DEF GetOrCreate, Home
  <1> QED BY <1>1, <1>2 DEF NodeTypes

LEMMA CheckedMoved ==
    ASSUME NodeTypes, NEW r, r.to \in Addrs, NEW es, CheckMovedErr(r, es), UNCHANGED <<view, snap>>
    PROVE  /\ NodeTypes'
           /\ \/ UNCHANGED failedCmds /\ trouble' = trouble + 1
              \/ /\ UNCHANGED trouble
                 /\ \E n \in Nodes : Home(n) = r.to /\ failedCmds' = [failedCmds EXCEPT ![n] = @ \o es]
  <1>1. PICK n \in Nodes \cup {NoNode} :
           /\ GetOrCreate(r.to, n)
           /\ failedCmds' = IF n = NoNode THEN failedCmds ELSE [failedCmds EXCEPT ![n] = @ \o es]
           /\ trouble' = IF n = NoNode THEN trouble + 1 ELSE trouble
    BY DEF CheckMovedErr
  <1>2. NodeTypes' /\ (n # NoNode => n \in Nodes /\ Home(n) = r.to)
    BY <1>1, GotNode
  <1> QED BY <1>1, <1>2

\* A redirection names an address.
LEMMA AnswerIs == ASSUME ServerTypes, CallTypes, NEW i \in Cmds, NEW a, NEW b, NEW r \in Answers(a, i, b)
    PROVE  /\ r.val \in {"ok", "error", "busy", "moved", "ask"}
           /\ r.val \in {"moved", "ask"} => r.to \in Addrs
           /\ r.val = "moved" => owner[slotOf[i]] # a /\ r.to = owner[slotOf[i]]
                                 /\ ~(b /\ importing[slotOf[i]] = a)
           /\ r.val = "ask" => owner[slotOf[i]] = a /\ r.to = importing[slotOf[i]]
  <1>1. slotOf[i] \in Slots
    BY DEF CallTypes
  <1>2. owner[slotOf[i]] \in Addrs /\ importing[slotOf[i]] \in Addrs \cup {NoAddr}
        /\ (i \in gone => importing[slotOf[i]] \in Addrs)
    BY <1>1 DEF ServerTypes
  <1> QED BY <1>2 DEF Answers

-----------------------------------------------------------------------------
(* What happens around the call.                                           *)

callSide == <<callVars, cmdVars, pipeVars, txVars, histVars, pc, attempt, err, ran, result>>

USE DEF serverVars, nodeVars, stateVars, callVars, cmdVars, pipeVars, txVars, histVars

LEMMA LeftNat == \A i, n, b : Left(i, n, b) \in 0 .. 2
  BY DEF Left

\* A migration that begins may cost one more redirection, and nothing else costs any.
LEMMA AroundInv ==
    ASSUME ClusterInv, pc # "idle", UNCHANGED callSide, ServerTypes', NodeTypes',
           \A i \in Cmds, n \in Nodes \cup {NoNode}, b \in BOOLEAN :
              Left(i, n, b)' + moves <= Left(i, n, b) + moves'
    PROVE  ClusterInv'
  <1>1. CallTypes' /\ Control' /\ Places' /\ RunInv' /\ NilInv'
    <2>1. UNCHANGED <<Waiting, Reading, Unanswered, pc, kind, todo, ran, failedCmds, cmdsMap, dirty>>
      BY DEF callSide, Waiting, Reading, Unanswered
    <2>2. CallTypes' /\ Control'
      BY DEF ClusterInv, callSide, CallTypes, Control
    <2>3. Places' /\ RunInv'
      BY <2>1 DEF ClusterInv, callSide, Places, RunInv, MayRun
    <2>4. NilInv'
      BY <2>1 DEF ClusterInv, callSide, NilInv, PipeNil, TxNil, GivenUp
    <2> QED BY <2>2, <2>3, <2>4
  <1>2. NilMeansRunOpen' /\ RedirectsConverge'
    BY DEF ClusterInv, callSide, Control, NilMeansRunOpen, RedirectsConverge
  <1>3. moves \in Nat /\ moves' \in Nat /\ attempt \in Nat
    BY DEF ClusterInv, ServerTypes, CallTypes
  <1>4. ASSUME NEW es \in Seq(Entries), NEW n \in Nodes, NEW from, NEW a \in Nat, Fits(es, n, from, a)
        PROVE  Fits(es, n, from, a)'
    <2> SUFFICES ASSUME NEW k \in DOMAIN es, k >= from, es[k] # Asking
                 PROVE  a + Left(es[k], n, After(es, k))' <= moves' + 1
      BY DEF Fits, After
    <2>1. es[k] \in Cmds /\ After(es, k) \in BOOLEAN
      BY SeqFun, Numbers DEF After
    <2>2. a + Left(es[k], n, After(es, k)) <= moves + 1
      BY <1>4 DEF Fits
    <2>3. Left(es[k], n, After(es, k))' + moves <= Left(es[k], n, After(es, k)) + moves'
      <3>1. PICK i \in Cmds, b \in BOOLEAN : i = es[k] /\ b = After(es, k)
        BY <2>1
      <3>2. Left(es[k], n, After(es, k))' = Left(i, n, b)'
        BY <3>1 DEF Left, After
      <3>3. Left(i, n, b)' + moves <= Left(i, n, b) + moves'
        BY <3>1
      <3> QED BY <3>1, <3>2, <3>3
    <2>4. Left(es[k], n, After(es, k))' \in Nat /\ Left(es[k], n, After(es, k)) \in Nat
      BY LeftNat DEF Left
    <2> QED BY <1>3, <2>2, <2>3, <2>4
  <1>5. RedirectInv'
    <2> SUFFICES ASSUME trouble = 0, ~metClosed
                 PROVE  /\ kind = "cmd" /\ pc = "start" => CmdFits'
                        /\ kind = "pipe" /\ pc \in {"pipe", "read"} => PipeFits'
                        /\ kind = "pipe" /\ pc = "start" => attempt = 0 /\ \A i \in Cmds : err[i] = "nil"
      BY DEF RedirectInv, callSide
    <2>1. ASSUME kind = "cmd", pc = "start" PROVE CmdFits'
      <3>1. CmdFits /\ 1 \in Cmds /\ ask \in BOOLEAN
        BY <2>1, Numbers DEF ClusterInv, RedirectInv, CallTypes
      <3>2. UNCHANGED <<attempt, node, ask>>
        BY DEF callSide
      <3>3. Left(1, node, ask)' + moves <= Left(1, node, ask) + moves'
        <4>1. PICK n \in Nodes \cup {NoNode}, b \in BOOLEAN : n = node /\ b = ask
          BY DEF ClusterInv, CallTypes
        <4>2. Left(1, node, ask)' = Left(1, n, b)'
          BY <3>2, <4>1 DEF Left
        <4>3. Left(1, n, b)' + moves <= Left(1, n, b) + moves'
          BY <3>1
        <4> QED BY <4>1, <4>2, <4>3
      <3>4. Left(1, node, ask)' \in Nat /\ Left(1, node, ask) \in Nat
        BY LeftNat DEF Left
      <3> QED BY <1>3, <3>1, <3>2, <3>3, <3>4 DEF CmdFits
    <2>2. ASSUME kind = "pipe", pc \in {"pipe", "read"} PROVE PipeFits'
      <3>1. PipeFits /\ CallTypes /\ Control
        BY <2>2 DEF ClusterInv, RedirectInv
      <3>2. UNCHANGED <<Waiting, Unanswered, pc, failedCmds, cmdsMap, pending, cur, pos, err, attempt>>
        BY DEF callSide, Waiting, Unanswered
      <3>3. \A n \in Nodes : cmdsMap[n] \in Seq(Entries) /\ failedCmds[n] \in Seq(Entries)
        BY <3>1 DEF CallTypes
      <3>4. \A n \in pending : Fits(cmdsMap[n], n, 1, attempt)'
        BY <1>3, <1>4, <3>1, <3>2, <3>3 DEF PipeFits, CallTypes, Fits
      <3>5. pc = "read" => Fits(cmdsMap[cur], cur, pos + 1, attempt)'
        BY <1>3, <1>4, <3>1, <3>2, <3>3 DEF PipeFits, Control, Fits
      <3>6. \A n \in Nodes : Fits(failedCmds[n], n, 1, attempt + 1)'
        BY <1>3, <1>4, <3>1, <3>2, <3>3 DEF PipeFits, Fits
      <3> QED BY <3>1, <3>2, <3>4, <3>5, <3>6 DEF PipeFits
    <2> QED BY <2>1, <2>2 DEF ClusterInv, RedirectInv
  <1> QED BY <1>1, <1>2, <1>5 DEF ClusterInv

LEMMA StartMigrationInv ==
    ASSUME ClusterInv, pc # "idle", NEW s \in Slots, NEW a \in Addrs, StartMigration(s, a)
    PROVE  ClusterInv'
  <1>1. /\ importing[s] = NoAddr /\ owner[s] # a /\ importing' = [importing EXCEPT ![s] = a]
        /\ moves' = moves + 1 /\ UNCHANGED <<owner, gone, nodeVars, stateVars, slotOf, snap, callSide>>
    BY DEF StartMigration, callSide
  <1>2. ServerTypes /\ CallTypes /\ NodeTypes /\ moves \in Nat
    BY DEF ClusterInv, ServerTypes
  <1>3. ServerTypes'
    BY <1>1, <1>2, Numbers DEF ServerTypes, CallTypes
  <1>4. ASSUME NEW i \in Cmds, NEW n \in Nodes \cup {NoNode}, NEW b \in BOOLEAN
        PROVE  Left(i, n, b)' + moves <= Left(i, n, b) + moves'
    <2>1. slotOf[i] \in Slots /\ importing \in [Slots -> Addrs \cup {NoAddr}]
      BY <1>2 DEF CallTypes, ServerTypes
    <2>2. CASE slotOf[i] = s
      <3>1. n # NoNode => Home(n) \in Addrs
        BY DEF Nodes, Home
      <3> QED BY <1>1, <1>2, <2>1, <2>2, <3>1, Numbers DEF Left
    <2>3. CASE slotOf[i] # s
      <3>1. importing'[slotOf[i]] = importing[slotOf[i]]
        BY <1>1, <2>1, <2>3
      <3>2. Left(i, n, b)' = Left(i, n, b)
        BY <1>1, <3>1 DEF Left
      <3> QED BY <1>1, <1>2, <3>2, LeftNat
    <2> QED BY <2>2, <2>3
  <1>5. NodeTypes'
    BY <1>1, <1>2 DEF NodeTypes
  <1> QED BY <1>1, <1>3, <1>4, <1>5, AroundInv

LEMMA FinishMigrationInv ==
    ASSUME ClusterInv, pc # "idle", NEW s \in Slots, FinishMigration(s)
    PROVE  ClusterInv'
  <1>1. /\ importing[s] # NoAddr /\ importing' = [importing EXCEPT ![s] = NoAddr]
        /\ owner' = [owner EXCEPT ![s] = importing[s]] /\ gone' = {i \in gone : slotOf[i] # s}
        /\ UNCHANGED <<moves, nodeVars, stateVars, slotOf, snap, callSide>>
    BY DEF FinishMigration, callSide
  <1>2. ServerTypes /\ CallTypes /\ NodeTypes /\ moves \in Nat
    BY DEF ClusterInv, ServerTypes
  <1>3. ServerTypes'
    BY <1>1, <1>2, Numbers DEF ServerTypes, CallTypes
  <1>4. ASSUME NEW i \in Cmds, NEW n \in Nodes \cup {NoNode}, NEW b \in BOOLEAN
        PROVE  Left(i, n, b)' + moves <= Left(i, n, b) + moves'
    <2>1. /\ slotOf[i] \in Slots /\ importing \in [Slots -> Addrs \cup {NoAddr}]
          /\ owner \in [Slots -> Addrs] /\ importing[s] # owner[s] /\ importing[s] \in Addrs
      BY <1>1, <1>2 DEF CallTypes, ServerTypes
    <2>2. CASE slotOf[i] = s
      <3>1. n # NoNode => Home(n) \in Addrs
        BY DEF Nodes, Home
      <3> QED BY <1>1, <1>2, <2>1, <2>2, <3>1, Numbers DEF Left
    <2>3. CASE slotOf[i] # s
      <3>1. importing'[slotOf[i]] = importing[slotOf[i]] /\ owner'[slotOf[i]] = owner[slotOf[i]]
        BY <1>1, <2>1, <2>3
      <3>2. Left(i, n, b)' = Left(i, n, b)
        BY <1>1, <3>1 DEF Left
      <3> QED BY <1>1, <1>2, <3>2, LeftNat
    <2> QED BY <2>2, <2>3
  <1>5. NodeTypes'
    BY <1>1, <1>2 DEF NodeTypes
  <1> QED BY <1>1, <1>3, <1>4, <1>5, AroundInv

\* The key of a command, the nodes and the slot state.
LEMMA OtherInv ==
    ASSUME ClusterInv, pc # "idle",
           (\E i \in Cmds : MigrateKey(i)) \/ (\E a \in Addrs : Collect(a)) \/ Reload \/ Close
    PROVE  ClusterInv'
  <1>1. ServerTypes /\ CallTypes /\ NodeTypes /\ moves \in Nat
    BY DEF ClusterInv, ServerTypes
  <1>2. /\ UNCHANGED <<owner, importing, moves, callSide, slotOf, snap>>
    BY DEF MigrateKey, Collect, Reload, Close, callSide
  <1>3. ServerTypes'
    <2>1. gone' = gone \/ \E i \in Cmds : importing[slotOf[i]] # NoAddr /\ gone' = gone \cup {i}
      BY DEF MigrateKey, Collect, Reload, Close
    <2> QED BY <1>1, <1>2, <2>1 DEF ServerTypes
  <1>4. NodeTypes'
    <2>1. CASE UNCHANGED <<made, view>>
      BY <1>1, <1>2, <2>1 DEF NodeTypes
    <2>2. CASE Reload /\ ~UNCHANGED <<made, view>>
      <3>1. /\ \A a \in Masters : up[a] \/ made[a] < MaxNodes
            /\ made' = [a \in Addrs |-> IF a \in Masters /\ ~up[a] THEN made[a] + 1 ELSE made[a]]
            /\ view' = [s \in Slots |-> IF s \in Covered THEN <<owner[s], made'[owner[s]]>> ELSE NoNode]
        BY <2>2 DEF Reload
      <3>2. made' \in [Addrs -> 1 .. MaxNodes]
        BY <1>1, <3>1, Numbers DEF NodeTypes
      <3>3. view' \in [Slots -> Nodes \cup {NoNode}]
        BY <1>1, <3>1, <3>2 DEF ServerTypes, Nodes
      <3> QED BY <1>1, <1>2, <3>2, <3>3 DEF NodeTypes
    <2> QED BY <2>1, <2>2 DEF MigrateKey, Collect, Reload, Close
  <1>5. ASSUME NEW i \in Cmds, NEW n \in Nodes \cup {NoNode}, NEW b \in BOOLEAN
        PROVE  Left(i, n, b)' + moves <= Left(i, n, b) + moves'
    <2>1. Left(i, n, b)' = Left(i, n, b)
      BY <1>2 DEF Left
    <2> QED BY <1>1, <1>2, <2>1, LeftNat
  <1> QED BY <1>2, <1>3, <1>4, <1>5, AroundInv

-----------------------------------------------------------------------------
(* A single command.                                                       *)

LEMMA CmdStepInv ==
    ASSUME ClusterInv, kind = "cmd", pc = "start", UNCHANGED <<serverVars, callVars, pipeVars, txVars>>,
           NodeTypes', err' \in [Cmds -> Errs], ran' \in [Cmds -> Nat], attempt' \in Nat,
           trouble' \in Nat, metClosed' \in BOOLEAN, node' \in Nodes \cup {NoNode}, ask' \in BOOLEAN,
           (pc' = "start" /\ result' = result) \/ pc' = "idle",
           trouble' = 0 => /\ trouble = 0
                           /\ \A i \in Cmds : ran'[i] = ran[i] \/ (pc' = "idle" /\ ran'[i] = ran[i] + 1),
           ask' => err'[1] # "nil",
           pc' = "idle" /\ result' = "nil" => ran'[1] > 0,
           trouble' = 0 /\ ~metClosed' /\ pc' = "start" => CmdFits',
           trouble' = 0 /\ ~metClosed' /\ pc' = "idle" /\ result' \in {"moved", "ask"}
              => moves >= MaxRedirects
    PROVE  ClusterInv'
  <1>1. ServerTypes /\ CallTypes /\ Control /\ Places /\ RunInv
    BY DEF ClusterInv
  <1>2. ServerTypes'
    BY <1>1 DEF ServerTypes
  <1>3. CallTypes'
    BY <1>1 DEF CallTypes
  <1>4. pending = {} /\ cmdsMap = NoCmds /\ failedCmds = NoCmds /\ pc' \notin {"pipe", "read", "slots"}
    BY <1>1 DEF Control
  <1>5. Control'
    BY <1>1, <1>4 DEF Control
  <1>6. Waiting' = {} /\ Unanswered' = {} /\ Reading' = {} /\ AllOf(failedCmds') = {}
    BY <1>4, NoCmdsIs DEF Waiting, Unanswered, Reading
  <1>7. Places'
    BY <1>1, <1>6 DEF Places
  <1>8. RunInv'
    <2> SUFFICES ASSUME trouble' = 0, NEW i \in Cmds PROVE ran'[i] <= 1 /\ (MayRun(i)' => ran'[i] = 0)
      BY DEF RunInv
    <2>1. ran[i] = 0
      BY <1>1 DEF RunInv, MayRun
    <2>2. MayRun(i)' => pc' = "start"
      BY <1>6 DEF MayRun
    <2> QED BY <2>1, <2>2
  <1>9. NilInv' /\ NilMeansRunOpen'
    BY <1>1 DEF NilInv, NilMeansRunOpen, InCall, Control
  <1>10. RedirectInv' /\ RedirectsConverge'
    BY <1>1 DEF RedirectInv, RedirectsConverge, Control
  <1> QED BY <1>2, <1>3, <1>5, <1>7, <1>8, <1>9, <1>10 DEF ClusterInv

LEMMA LeftBound == ASSUME ServerTypes, CallTypes, NEW i \in Cmds, NEW n, NEW b
    PROVE  Left(i, n, b) <= moves + 1 /\ moves \in Nat
  BY DEF ServerTypes, CallTypes, Left

LEMMA CmdNodeInv == ASSUME ClusterInv, CmdNode PROVE ClusterInv'
  <1>1. /\ ServerTypes /\ NodeTypes /\ CallTypes /\ Control /\ RedirectInv /\ NilInv
        /\ 1 \in Cmds /\ slotOf[1] \in Slots
    BY Numbers DEF ClusterInv, CallTypes
  <1>2. /\ kind = "cmd" /\ pc = "start" /\ node = NoNode
        /\ UNCHANGED <<serverVars, nodeVars, stateVars, callVars, ask, pipeVars, txVars, histVars,
                       attempt, ran>>
    BY DEF CmdNode
  <1>3. PICK n \in SlotMasterNode(view, slotOf[1]) :
           IF n = NoNode
           THEN err' = [err EXCEPT ![1] = "closed"] /\ Return("closed") /\ UNCHANGED node
           ELSE node' = n /\ UNCHANGED <<err, pc, result>>
    BY DEF CmdNode
  <1>4. n \in Nodes \cup {NoNode}
    BY <1>1, <1>3, Known
  <1>5. NodeTypes' /\ err' \in [Cmds -> Errs] /\ node' \in Nodes \cup {NoNode}
    BY <1>1, <1>2, <1>3, <1>4 DEF NodeTypes, CallTypes, Errs
  <1>6. (pc' = "start" /\ result' = result /\ err' = err) \/ (pc' = "idle" /\ result' = "closed" /\ err'[1] = "closed")
    BY <1>1, <1>2, <1>3 DEF Return, CallTypes
  <1>7. trouble = 0 /\ ~metClosed /\ pc' = "start" => CmdFits'
    <2> SUFFICES ASSUME trouble = 0, ~metClosed PROVE CmdFits'
      OBVIOUS
    <2>1. attempt + Left(1, node, ask) <= moves + 1
      BY <1>1, <1>2 DEF RedirectInv, CmdFits
    <2>2. UNCHANGED <<owner, importing, slotOf, ask, attempt, moves>>
      BY <1>2
    <2>3. Left(1, node, ask)' <= Left(1, node, ask)
      BY <1>2, <2>2 DEF Left
    <2>4. attempt \in Nat /\ moves \in Nat /\ Left(1, node, ask) \in Nat /\ Left(1, node, ask)' \in Nat
      BY <1>1, LeftNat DEF CallTypes, ServerTypes, Left
    <2> QED BY <2>1, <2>2, <2>3, <2>4 DEF CmdFits
  <1>8. ask => err[1] # "nil"
    BY <1>1, <1>2 DEF NilInv
  <1> QED BY <1>1, <1>2, <1>5, <1>6, <1>7, <1>8, CmdStepInv DEF CallTypes

\* What another attempt, or the end of the last one, does.
LEMMA NextAttemptIs == ASSUME CallTypes, NEW n \in Nodes \cup {NoNode}, NextAttempt(n)
    PROVE  /\ attempt' \in Nat /\ node' \in Nodes \cup {NoNode}
           /\ \/ pc' = pc /\ result' = result /\ attempt < MaxRedirects /\ attempt' = attempt + 1 /\ node' = n
              \/ pc' = "idle" /\ result' = err'[1] /\ ~(attempt < MaxRedirects)
  BY DEF CallTypes, NextAttempt, Return

LEMMA CmdClosedInv == ASSUME ClusterInv, CmdClosed PROVE ClusterInv'
  <1>1. /\ NodeTypes /\ CallTypes /\ NilInv /\ 1 \in Cmds
    BY Numbers DEF ClusterInv
  <1>2. /\ kind = "cmd" /\ pc = "start" /\ err' = [err EXCEPT ![1] = Unread("closed")] /\ metClosed' = TRUE
        /\ ask' = FALSE /\ NextAttempt(NoNode)
        /\ UNCHANGED <<serverVars, nodeVars, stateVars, callVars, pipeVars, txVars, trouble, ran>>
    BY DEF CmdClosed
  <1>3. Unread("closed") \in Errs /\ Unread("closed") # "nil"
    BY <1>1, <1>2 DEF Unread, NilInv, CallTypes, Errs
  <1>4. err' \in [Cmds -> Errs] /\ err'[1] # "nil" /\ NodeTypes'
    BY <1>1, <1>2, <1>3 DEF CallTypes, NodeTypes
  <1> QED BY <1>1, <1>2, <1>4, NextAttemptIs, CmdStepInv DEF CallTypes

LEMMA RanIs == ASSUME NEW S, CallTypes, Ran(S)
    PROVE  /\ ran' \in [Cmds -> Nat]
           /\ \A i \in Cmds : ran'[i] = IF i \in S THEN ran[i] + 1 ELSE ran[i]
  BY DEF CallTypes, Ran

LEMMA CmdTroubleInv == ASSUME ClusterInv, CmdTrouble PROVE ClusterInv'
  <1>1. /\ NodeTypes /\ CallTypes /\ NilInv /\ 1 \in Cmds /\ slotOf[1] \in Slots
    BY Numbers DEF ClusterInv, CallTypes
  <1>2. /\ kind = "cmd" /\ pc = "start" /\ ask' = FALSE /\ trouble' = trouble + 1
        /\ UNCHANGED <<serverVars, nodeVars, stateVars, callVars, pipeVars, txVars, metClosed>>
    BY DEF CmdTrouble, Trouble
  <1>3. Unread("net") \in Errs /\ Unread("net") # "nil"
    BY <1>1, <1>2 DEF Unread, NilInv, CallTypes, Errs
  <1>4. /\ ran' \in [Cmds -> Nat]
        /\ \E e \in Errs \ {"nil"} : err' = [err EXCEPT ![1] = e]
    <2>1. CASE /\ \E S \in LostRuns(Home(node), IF ask THEN <<Asking, 1>> ELSE <<1>>, 1) : Ran(S)
               /\ \E e \in {"net", Unread("net")} : err' = [err EXCEPT ![1] = e]
      <3>1. ran' \in [Cmds -> Nat]
        BY <1>1, <2>1, RanIs
      <3> QED BY <1>3, <2>1, <3>1 DEF Errs
    <2>2. CASE err' = [err EXCEPT ![1] = "redis"] /\ UNCHANGED ran
      BY <1>1, <2>2 DEF CallTypes, Errs
    <2> QED BY <2>1, <2>2 DEF CmdTrouble
  <1>5. err' \in [Cmds -> Errs] /\ err'[1] # "nil" /\ NodeTypes'
    BY <1>1, <1>2, <1>4 DEF CallTypes, NodeTypes
  <1>6. PICK n \in RandomNode :
           IF n = NoNode THEN Return(err'[1]) /\ UNCHANGED <<attempt, node>> ELSE NextAttempt(n)
    BY DEF CmdTrouble
  <1>7. n \in Nodes \cup {NoNode}
    BY <1>1, <1>6, Known
  <1>8. /\ attempt' \in Nat /\ node' \in Nodes \cup {NoNode}
        /\ (pc' = "start" /\ result' = result) \/ (pc' = "idle" /\ result' = err'[1])
    <2>1. CASE n = NoNode
      BY <1>1, <1>6, <2>1 DEF Return, CallTypes
    <2>2. CASE n # NoNode
      BY <1>1, <1>2, <1>6, <1>7, <2>2, NextAttemptIs
    <2> QED BY <2>1, <2>2
  <1>9. trouble' \in Nat /\ trouble' # 0
    BY <1>1, <1>2 DEF CallTypes
  <1> QED BY <1>1, <1>2, <1>4, <1>5, <1>8, <1>9, CmdStepInv DEF CallTypes

LEMMA CmdReplyInv == ASSUME ClusterInv, CmdReply PROVE ClusterInv'
  <1>1. /\ NodeTypes /\ CallTypes /\ 1 \in Cmds
    BY Numbers DEF ClusterInv
  <1>2. /\ kind = "cmd" /\ pc = "start" /\ ask' = FALSE /\ pc' = "idle"
        /\ UNCHANGED <<serverVars, nodeVars, stateVars, callVars, node, pipeVars, txVars, histVars,
                       attempt>>
        /\ \/ Ran({1}) /\ err' = [err EXCEPT ![1] = "nil"] /\ result' = "nil"
           \/ UNCHANGED ran /\ err' = [err EXCEPT ![1] = "redis"] /\ result' = "redis"
    BY DEF CmdReply, Return
  <1>3. err' \in [Cmds -> Errs] /\ NodeTypes'
    BY <1>1, <1>2 DEF CallTypes, NodeTypes, Errs
  <1>4. /\ ran' \in [Cmds -> Nat] /\ \A i \in Cmds : ran'[i] = ran[i] \/ ran'[i] = ran[i] + 1
        /\ (result' = "nil" => ran'[1] > 0) /\ result' \notin {"moved", "ask"}
    <2>1. CASE Ran({1}) /\ result' = "nil"
      <3>1. /\ ran' \in [Cmds -> Nat]
            /\ \A i \in Cmds : ran'[i] = IF i \in {1} THEN ran[i] + 1 ELSE ran[i]
        BY <1>1, <2>1, RanIs
      <3> QED BY <1>1, <2>1, <3>1 DEF CallTypes
    <2>2. CASE UNCHANGED ran /\ result' = "redis"
      BY <1>1, <2>2 DEF CallTypes
    <2> QED BY <1>2, <2>1, <2>2
  <1> QED BY <1>1, <1>2, <1>3, <1>4, CmdStepInv DEF CallTypes

\* A redirection uses one of those that were left.
LEMMA LeftLess ==
    ASSUME ServerTypes, CallTypes, NEW i \in Cmds, NEW n \in Nodes, NEW b \in BOOLEAN,
           NEW r \in Answers(Home(n), i, b), r.val \in {"moved", "ask"}, NEW d \in Nodes, Home(d) = r.to
    PROVE  Left(i, d, r.val = "ask") + 1 <= Left(i, n, b)
  <1> DEFINE s == slotOf[i]
  <1>1. /\ n # NoNode /\ d # NoNode /\ s \in Slots
        /\ owner[s] \in Addrs /\ importing[s] \in Addrs \cup {NoAddr}
    BY Numbers DEF CallTypes, ServerTypes
  <1>2. CASE r.val = "moved"
    <2>1. owner[s] # Home(n) /\ Home(d) = owner[s] /\ ~(b /\ importing[s] = Home(n))
      BY <1>2, AnswerIs
    <2> QED BY <1>1, <1>2, <2>1 DEF Left
  <1>3. CASE r.val = "ask"
    <2>1. owner[s] = Home(n) /\ Home(d) = importing[s] /\ importing[s] # NoAddr
      BY <1>1, <1>3, AnswerIs, Numbers
    <2>2. importing[s] # owner[s]
      BY <1>1, <2>1 DEF ServerTypes
    <2> QED BY <1>1, <1>3, <2>1, <2>2 DEF Left
  <1> QED BY <1>2, <1>3

LEMMA CmdRedirectInv == ASSUME ClusterInv, CmdRedirect PROVE ClusterInv'
  <1>1. /\ ServerTypes /\ NodeTypes /\ CallTypes /\ Control /\ RedirectInv /\ 1 \in Cmds
    BY Numbers DEF ClusterInv
  <1>2. /\ kind = "cmd" /\ pc = "start" /\ node # NoNode
        /\ UNCHANGED <<serverVars, view, callVars, pipeVars, txVars, metClosed, ran>>
    BY DEF CmdRedirect
  <1>3. PICK r \in Answers(Home(node), 1, ask) :
           /\ r.val \in {"moved", "ask"}
           /\ err' = [err EXCEPT ![1] = r.val] /\ ask' = (r.val = "ask")
           /\ \E n \in Nodes \cup {NoNode} :
                /\ GetOrCreate(r.to, n)
                /\ IF n = NoNode
                   THEN Return(r.val) /\ trouble' = trouble + 1 /\ UNCHANGED <<attempt, node>>
                   ELSE NextAttempt(n) /\ UNCHANGED trouble
    BY DEF CmdRedirect
  <1>4. PICK n \in Nodes \cup {NoNode} :
                /\ GetOrCreate(r.to, n)
                /\ IF n = NoNode
                   THEN Return(r.val) /\ trouble' = trouble + 1 /\ UNCHANGED <<attempt, node>>
                   ELSE NextAttempt(n) /\ UNCHANGED trouble
    BY <1>3
  <1>5. r.to \in Addrs
    BY <1>1, <1>3, AnswerIs
  <1>6. NodeTypes' /\ (n # NoNode => n \in Nodes /\ Home(n) = r.to)
    BY <1>1, <1>2, <1>4, <1>5, GotNode
  <1>7. err' \in [Cmds -> Errs] /\ err'[1] = r.val /\ err'[1] # "nil"
    BY <1>1, <1>3 DEF CallTypes, Errs
  <1>8. ask' \in BOOLEAN
    BY <1>3
  <1>9. CASE n = NoNode
    <2>1. trouble' \in Nat /\ trouble' # 0 /\ pc' = "idle" /\ result' = r.val /\ result' # "nil"
      BY <1>1, <1>3, <1>4, <1>9 DEF CallTypes, Return
    <2> QED BY <1>1, <1>2, <1>4, <1>6, <1>7, <1>8, <1>9, <2>1, CmdStepInv DEF CallTypes
  <1>10. CASE n # NoNode
    <2>1. NextAttempt(n) /\ UNCHANGED trouble
      BY <1>4, <1>10
    <2>2. /\ attempt' \in Nat /\ node' \in Nodes \cup {NoNode}
          /\ \/ pc' = pc /\ result' = result /\ attempt < MaxRedirects /\ attempt' = attempt + 1 /\ node' = n
             \/ pc' = "idle" /\ result' = err'[1] /\ ~(attempt < MaxRedirects)
      BY <1>1, <2>1, NextAttemptIs
    <2>3. node \in Nodes /\ ask \in BOOLEAN /\ attempt \in Nat /\ moves \in Nat
      BY <1>1, <1>2 DEF CallTypes, ServerTypes
    <2>4. Left(1, n, r.val = "ask") + 1 <= Left(1, node, ask)
      BY <1>1, <1>3, <1>6, <1>10, <2>3, LeftLess
    <2>5. Left(1, n, r.val = "ask") \in Nat /\ Left(1, node, ask) \in Nat
      BY LeftNat
    <2>6. trouble = 0 /\ ~metClosed =>
             attempt + Left(1, node, ask) <= moves + 1
      BY <1>1, <1>2 DEF RedirectInv, CmdFits
    <2>7. trouble' = 0 /\ ~metClosed' /\ pc' = "start" => CmdFits'
      <3> SUFFICES ASSUME trouble = 0, ~metClosed, pc' = "start" PROVE CmdFits'
        BY <1>2, <2>1
      <3>1. attempt' = attempt + 1 /\ node' = n /\ ask' = (r.val = "ask")
        BY <1>3, <2>2
      <3>2. Left(1, node, ask)' = Left(1, n, r.val = "ask")
        BY <1>2, <3>1 DEF Left
      <3>3. (attempt + 1) + Left(1, n, r.val = "ask") <= moves + 1
        BY <2>3, <2>4, <2>5, <2>6
      <3> QED BY <1>2, <3>1, <3>2, <3>3 DEF CmdFits
    <2>8. trouble' = 0 /\ ~metClosed' /\ pc' = "idle" => moves >= MaxRedirects
      BY <1>2, <2>1, <2>2, <2>3, <2>4, <2>5, <2>6, Numbers
    <2> QED BY <1>1, <1>2, <1>6, <1>7, <1>8, <2>1, <2>2, <2>7, <2>8, CmdStepInv DEF CallTypes
  <1> QED BY <1>9, <1>10

-----------------------------------------------------------------------------
(* The steps of a pipeline or a transaction.                               *)

\* The entries still to be read are of the batch being read, and this is of
\* none of the nodes still to visit.
LEMMA Sets == ASSUME CallTypes, Control, Places
    PROVE  /\ Waiting \subseteq AllOf(cmdsMap) /\ Reading \subseteq AllOf(cmdsMap)
           /\ AllOf(cmdsMap) \subseteq Cmds /\ AllOf(failedCmds) \subseteq Cmds
           /\ Unanswered \subseteq Reading /\ Reading \cap Waiting = {}
  <1>1. pending \subseteq Nodes /\ \A n \in Nodes : cmdsMap[n] \in Seq(Entries) /\ failedCmds[n] \in Seq(Entries)
    BY DEF CallTypes
  <1>2. AllOf(cmdsMap) \subseteq Cmds /\ AllOf(failedCmds) \subseteq Cmds
    BY <1>1, EntCmds DEF AllOf
  <1>3. Waiting \subseteq AllOf(cmdsMap)
    BY <1>1 DEF Waiting, AllOf
  <1>4. CASE pc # "read"
    BY <1>2, <1>3, <1>4 DEF Reading, Unanswered
  <1>5. CASE pc = "read"
    <2>1. cur \in Nodes \ pending /\ Reading = Ent(cmdsMap[cur])
      BY <1>5 DEF Control, Reading
    <2>2. Reading \subseteq AllOf(cmdsMap)
      BY <2>1 DEF AllOf
    <2>3. \A n \in pending : Ent(cmdsMap[n]) \cap Ent(cmdsMap[cur]) = {}
      BY <1>1, <2>1 DEF Places, Apart
    <2>4. Reading \cap Waiting = {}
      BY <2>1, <2>3 DEF Waiting
    <2>5. Unanswered \subseteq Reading
      <3>1. DOMAIN cmdsMap[cur] = 1 .. Len(cmdsMap[cur]) /\ Len(cmdsMap[cur]) \in Nat /\ pos \in Nat
        BY <1>1, <2>1, SeqFun DEF CallTypes
      <3>2. (pos + 1) .. Len(cmdsMap[cur]) \subseteq DOMAIN cmdsMap[cur]
        BY <3>1
      <3> QED BY <1>5, <2>1, <3>2 DEF Unanswered, Ent, EntriesOf
    <2> QED BY <1>2, <1>3, <2>2, <2>4, <2>5
  <1> QED BY <1>4, <1>5

\* The next node of the attempt.
LEMMA VisitSets ==
    ASSUME CallTypes, Control, Places, pc = "pipe", NEW n \in pending, UNCHANGED cmdsMap,
           pending' = pending \ {n}
    PROVE  /\ n \in Nodes /\ cmdsMap[n] \in Seq(Entries) /\ cmdsMap[n] # <<>>
           /\ Waiting = Waiting' \cup Ent(cmdsMap[n]) /\ Waiting' \cap Ent(cmdsMap[n]) = {}
           /\ Unanswered = {} /\ Reading = {}
  <1>1. n \in Nodes /\ pending \subseteq Nodes /\ cmdsMap[n] \in Seq(Entries) /\ cmdsMap[n] # <<>>
    BY DEF CallTypes, Control
  <1>2. \A d \in pending' : Ent(cmdsMap[d]) \cap Ent(cmdsMap[n]) = {}
    BY <1>1 DEF Places, Apart
  <1>3. Waiting = Waiting' \cup Ent(cmdsMap[n]) /\ Waiting' \cap Ent(cmdsMap[n]) = {}
    BY <1>2 DEF Waiting
  <1> QED BY <1>1, <1>3 DEF Unanswered, Reading

\* The entry at the place that is read.
LEMMA EntryIs ==
    ASSUME CallTypes, Control, Places, pc = "read", pos < Len(cmdsMap[cur])
    PROVE  LET e == cmdsMap[cur][pos + 1]
           IN  /\ cur \in Nodes /\ pos + 1 \in DOMAIN cmdsMap[cur] /\ e \in Entries
               /\ {cmdsMap[cur][k] : k \in (pos + 2) .. Len(cmdsMap[cur])} \ {Asking} = Unanswered \ {e}
               /\ e # Asking => e \in Unanswered /\ e \in Cmds
               /\ e = Asking => Asking \in EntriesOf(cmdsMap[cur])
  <1> DEFINE es == cmdsMap[cur]  e == es[pos + 1]  n == Len(es)
             rest == {es[k] : k \in (pos + 2) .. n} \ {Asking}
  <1>1. cur \in Nodes /\ es \in Seq(Entries) /\ pos \in Nat /\ Once(es)
    BY DEF Control, CallTypes, Places, Apart
  <1>2. n \in Nat /\ DOMAIN es = 1 .. n /\ \A k \in 1 .. n : es[k] \in Entries
    BY <1>1, SeqFun
  <1>3. /\ pos + 1 \in 1 .. n /\ pos + 1 \in (pos + 1) .. n
        /\ \A k \in (pos + 2) .. n : k \in (pos + 1) .. n /\ k \in 1 .. n /\ k # pos + 1
        /\ \A k \in (pos + 1) .. n : k = pos + 1 \/ k \in (pos + 2) .. n
    BY <1>1, <1>2
  <1>4. Unanswered = {es[k] : k \in (pos + 1) .. n} \ {Asking}
    BY DEF Unanswered
  <1>5. \A k \in 1 .. n : es[k] = e /\ e # Asking => k = pos + 1
    BY <1>1, <1>2, <1>3 DEF Once
  <1> HIDE DEF es, n
  <1>6. rest = Unanswered \ {e}
    <2>1. ASSUME NEW x \in rest PROVE x \in Unanswered \ {e}
      BY <1>3, <1>4, <1>5, <2>1
    <2>2. ASSUME NEW x \in Unanswered \ {e} PROVE x \in rest
      <3>1. PICK k \in (pos + 1) .. n : x = es[k]
        BY <1>4, <2>2
      <3>2. k \in (pos + 2) .. n
        <4>1. x # e
          BY <2>2
        <4>2. k # pos + 1
          BY <3>1, <4>1 DEF es
        <4> QED BY <1>1, <1>2, <1>3, <4>2
      <3>3. x # Asking
        BY <1>4, <2>2
      <3> QED BY <3>1, <3>2, <3>3
    <2> QED BY <2>1, <2>2
  <1>7. e # Asking => e \in Unanswered /\ e \in Cmds
    BY <1>2, <1>3, <1>4, Numbers
  <1>8. e = Asking => Asking \in EntriesOf(es)
    BY <1>2, <1>3 DEF EntriesOf
  <1> QED BY <1>1, <1>2, <1>3, <1>6, <1>7, <1>8 DEF es, n

\* A reply of a pipeline is read.
LEMMA NextReplySets ==
    ASSUME CallTypes, Control, Places, kind = "pipe", pc = "read", NextReply, UNCHANGED cmdsMap
    PROVE  /\ Unanswered' = Unanswered \ {cmdsMap[cur][pos + 1]}
           /\ \/ pc' = "read" /\ cur' = cur /\ pos' = pos + 1 /\ pos + 1 < Len(cmdsMap[cur])
              \/ pc' = "pipe"
           /\ pos' \in Nat /\ dirty' \in BOOLEAN
  <1> DEFINE es == cmdsMap[cur]  e == es[pos + 1]
  <1>1. pos < Len(es) /\ pos \in Nat /\ Len(es) \in Nat
    <2>1. es \in Seq(Entries)
      BY DEF Control, CallTypes
    <2> QED BY <2>1, SeqFun DEF Control, CallTypes
  <1>2. {es[k] : k \in (pos + 2) .. Len(es)} \ {Asking} = Unanswered \ {e}
    BY <1>1, EntryIs
  <1>3. dirty' \in BOOLEAN /\ pos' \in Nat
    <2>1. dirty \in BOOLEAN
      BY DEF CallTypes
    <2>2. dirty' = dirty \/ dirty' = FALSE
      BY DEF NextReply, EndBatch
    <2>3. pos' \in Nat
      BY <1>1 DEF NextReply, EndBatch
    <2> QED BY <2>1, <2>2, <2>3, Zenon
  <1>4. CASE pos + 1 < Len(es)
    <2>1. pos' = pos + 1 /\ UNCHANGED <<pc, cur>>
      BY <1>4 DEF NextReply
    <2>2. Unanswered' = {es[k] : k \in ((pos + 1) + 1) .. Len(es)} \ {Asking}
      BY <2>1 DEF Unanswered
    <2>3. (pos + 1) + 1 = pos + 2
      BY <1>1
    <2> QED BY <1>2, <1>3, <1>4, <2>1, <2>2, <2>3
  <1>5. CASE ~(pos + 1 < Len(es))
    <2>1. pc' = "pipe"
      BY <1>5 DEF NextReply, EndBatch
    <2>2. (pos + 2) .. Len(es) = {}
      BY <1>1, <1>5
    <2>3. Unanswered' = {}
      BY <2>1 DEF Unanswered
    <2> QED BY <1>2, <1>3, <2>1, <2>2, <2>3
  <1> QED BY <1>4, <1>5

\* What a step must do to the commands for none to run twice.
LEMMA RunKeeps ==
    ASSUME CallTypes, RunInv, UNCHANGED kind, trouble' = 0 => trouble = 0,
           kind = "tx" \/ trouble' = 0 =>
              \A i \in Cmds : /\ MayRun(i)' => MayRun(i)
                              /\ \/ ran'[i] = ran[i]
                                 \/ ran'[i] = ran[i] + 1 /\ MayRun(i) /\ ~MayRun(i)'
    PROVE  RunInv'
  <1> SUFFICES ASSUME kind = "tx" \/ trouble' = 0, NEW i \in Cmds
               PROVE  ran'[i] <= 1 /\ (MayRun(i)' => ran'[i] = 0)
    BY DEF RunInv
  <1>1. ran[i] <= 1 /\ (MayRun(i) => ran[i] = 0) /\ ran[i] \in Nat
    BY DEF RunInv, CallTypes
  <1> QED BY <1>1

\* A step after which the call goes on.
LEMMA GoesOn ==
    ASSUME ClusterInv, UNCHANGED <<serverVars, callVars>>, kind # "cmd", pc' # "idle", UNCHANGED result,
           NodeTypes', CallTypes', Control', Places', RunInv',
           ~metClosed' /\ kind = "pipe" /\ pc' \in {"pipe", "read"} => PipeNil',
           ~metClosed' /\ kind = "tx" /\ pc' \in {"slots", "pipe", "read"} => TxNil',
           trouble' = 0 /\ ~metClosed' /\ kind = "pipe" => PipeFits' /\ pc' \in {"pipe", "read"}
    PROVE  ClusterInv'
  <1>1. ServerTypes'
    BY DEF ClusterInv, ServerTypes
  <1>2. result' = "none"
    BY DEF Control
  <1>3. NilInv' /\ RedirectInv'
    BY DEF NilInv, RedirectInv
  <1>4. NilMeansRunOpen' /\ RedirectsConverge'
    BY <1>2 DEF NilMeansRunOpen, RedirectsConverge
  <1> QED BY <1>1, <1>3, <1>4 DEF ClusterInv

\* A step that returns.
LEMMA EndsInv ==
    ASSUME ClusterInv, kind # "cmd", pc # "read", pc # "idle", pending = {}, pc' = "idle",
           UNCHANGED <<serverVars, nodeVars, stateVars, callVars, cmdVars, pipeVars, txVars, histVars,
                       attempt, ran>>,
           err' \in [Cmds -> Errs], NilMeansRunOpen', RedirectsConverge'
    PROVE  ClusterInv'
  <1>1. ServerTypes /\ NodeTypes /\ CallTypes /\ Control /\ Places /\ RunInv
    BY DEF ClusterInv
  <1>2. ServerTypes' /\ NodeTypes' /\ CallTypes'
    BY <1>1 DEF ServerTypes, NodeTypes, CallTypes
  <1>3. Control'
    BY <1>1 DEF Control
  <1>4. Waiting' = Waiting /\ Unanswered' = {} /\ Reading' = {} /\ Unanswered = {} /\ Reading = {}
    BY DEF Waiting, Unanswered, Reading
  <1>5. Places'
    BY <1>1, <1>4 DEF Places
  <1>6. RunInv'
    <2>1. \A i \in Cmds : MayRun(i)' => MayRun(i)
      BY <1>4 DEF MayRun
    <2> QED BY <1>1, <2>1, RunKeeps
  <1>7. NilInv' /\ RedirectInv'
    BY DEF NilInv, RedirectInv
  <1> QED BY <1>2, <1>3, <1>5, <1>6, <1>7 DEF ClusterInv

\* The redirections left, at the end of a step that no migration is part of.
LEMMA FitsNext ==
    ASSUME UNCHANGED <<owner, importing, slotOf, moves>>,
           \A n \in pending' : Fits(cmdsMap'[n], n, 1, attempt'),
           pc' = "read" => Fits(cmdsMap'[cur'], cur', pos' + 1, attempt'),
           \A n \in Nodes : Fits(failedCmds'[n], n, 1, attempt' + 1),
           \A i \in Cmds : err'[i] \in {"moved", "ask"}
                              => i \in Waiting' \cup Unanswered' \cup AllOf(failedCmds')
    PROVE  PipeFits'
  <1>1. \A n \in pending' : Fits(cmdsMap[n], n, 1, attempt)'
    BY DEF Fits, Left, After
  <1>2. (pc = "read" => Fits(cmdsMap[cur], cur, pos + 1, attempt))'
    BY DEF Fits, Left, After
  <1>3. \A n \in Nodes : Fits(failedCmds[n], n, 1, attempt + 1)'
    BY DEF Fits, Left, After
  <1> QED BY <1>1, <1>2, <1>3 DEF PipeFits

LEMMA FitsNone == \A n, from, a : Fits(<<>>, n, from, a)
  BY DEF Fits

\* ASKING never costs a redirection.
LEMMA AskingLess == \A i, n, b : Left(i, n, TRUE) <= Left(i, n, b)
  BY DEF Left

\* A redirected command at the end of a batch.
LEMMA FitsCat ==
    ASSUME ServerTypes, NEW s \in Seq(Entries), NEW n \in Nodes, NEW a \in Nat, Fits(s, n, 1, a),
           NEW r, NEW e \in Cmds, a + Left(e, n, r.val = "ask") <= moves + 1
    PROVE  Fits(s \o Redirected(r, e), n, 1, a)
  <1> DEFINE t == Redirected(r, e)  u == s \o t
  <1>0. e # Asking /\ moves \in Nat
    BY Numbers DEF ServerTypes
  <1>1. t \in Seq(Entries)
    BY RedirectedIs
  <1>2. /\ Len(s) \in Nat /\ DOMAIN s = 1 .. Len(s) /\ DOMAIN u = 1 .. (Len(s) + Len(t))
        /\ Len(t) \in Nat
        /\ \A k \in 1 .. (Len(s) + Len(t)) : u[k] = IF k <= Len(s) THEN s[k] ELSE t[k - Len(s)]
    BY <1>1
  <1>3. /\ r.val = "ask" => Len(t) = 2 /\ t[1] = Asking /\ t[2] = e
        /\ r.val # "ask" => Len(t) = 1 /\ t[1] = e
    BY DEF Redirected
  <1> HIDE DEF t, u
  <1> SUFFICES ASSUME NEW k \in DOMAIN u, u[k] # Asking
               PROVE  a + Left(u[k], n, After(u, k)) <= moves + 1
    BY DEF Fits, u, t
  <1>4. CASE k <= Len(s)
    <2>1. k \in DOMAIN s /\ u[k] = s[k] /\ k >= 1
      BY <1>2, <1>4
    <2>2. k > 1 => u[k - 1] = s[k - 1]
      BY <1>2, <1>4
    <2>3. After(u, k) = After(s, k)
      BY <2>2 DEF After
    <2>4. a + Left(s[k], n, After(s, k)) <= moves + 1
      BY <2>1 DEF Fits
    <2> QED BY <2>1, <2>3, <2>4
  <1>5. CASE ~(k <= Len(s))
    <2>1. u[k] = e /\ (r.val = "ask" => After(u, k))
      <3>1. CASE r.val = "ask"
        <4>1. k - Len(s) = 2 /\ u[k] = e
          <5>1. k \in 1 .. (Len(s) + Len(t)) /\ Len(t) = 2
            BY <1>2, <1>3, <3>1
          <5>2. k - Len(s) = 1 \/ k - Len(s) = 2
            BY <1>2, <1>5, <5>1
          <5>3. u[k] = t[k - Len(s)]
            BY <1>2, <1>5, <5>1
          <5>4. t[1] = Asking /\ t[2] = e
            BY <1>3, <3>1
          <5>5. k - Len(s) # 1
            BY <5>3, <5>4
          <5> QED BY <5>2, <5>3, <5>4, <5>5
        <4>2. k - 1 \in 1 .. (Len(s) + Len(t)) /\ ~(k - 1 <= Len(s)) /\ (k - 1) - Len(s) = 1 /\ k > 1
          BY <1>2, <1>3, <3>1, <4>1
        <4> QED BY <1>2, <1>3, <3>1, <4>1, <4>2 DEF After
      <3>2. CASE r.val # "ask"
        BY <1>2, <1>3, <1>5, <3>2
      <3> QED BY <3>1, <3>2
    <2>2. Left(e, n, After(u, k)) <= Left(e, n, r.val = "ask")
      <3>1. After(u, k) \in BOOLEAN /\ (r.val = "ask") \in BOOLEAN
        BY DEF After
      <3>2. CASE After(u, k)
        BY <3>1, <3>2, AskingLess
      <3>3. CASE ~After(u, k)
        <4>1. After(u, k) = (r.val = "ask")
          BY <2>1, <3>1, <3>3
        <4> QED BY <4>1, LeftNat
      <3> QED BY <3>2, <3>3
    <2>3. Left(e, n, After(u, k)) \in Nat /\ Left(e, n, r.val = "ask") \in Nat
      BY LeftNat
    <2> QED BY <1>0, <2>1, <2>2, <2>3
  <1> QED BY <1>4, <1>5

LEMMA BeginPipeInv == ASSUME ClusterInv, BeginPipe PROVE ClusterInv'
  <1>1. /\ ServerTypes /\ NodeTypes /\ CallTypes /\ Control /\ Places /\ RunInv /\ RedirectInv
        /\ moves \in Nat
    BY DEF ClusterInv, ServerTypes
  <1>2. /\ kind = "pipe" /\ pc = "start"
        /\ UNCHANGED <<serverVars, nodeVars, stateVars, callVars, cmdVars, cur, pos, dirty, txVars,
                       histVars, attempt, ran>>
    BY DEF BeginPipe
  <1>3. pending = {} /\ cmdsMap = NoCmds /\ failedCmds = NoCmds /\ result = "none"
    BY <1>1, <1>2 DEF Control
  <1>4. NodeTypes'
    BY <1>1, <1>2 DEF NodeTypes
  <1>5. AllCmds \in Seq(Entries) /\ Ent(AllCmds) = Cmds /\ Once(AllCmds) /\ EntriesOf(AllCmds) = Cmds
    BY AllCmdsIs DEF EntriesOf
  <1> HIDE DEF AllCmds
  <1>6. CASE (\E m \in MapCmdsByNode(AllCmds) : BeginAttempt(m)) /\ UNCHANGED <<err, result>>
    <2>1. PICK m \in MapCmdsByNode(AllCmds) : BeginAttempt(m)
      BY <1>6
    <2>2. /\ m \in [Nodes -> Seq(Entries)] /\ AllOf(m) = Cmds /\ Apart(m)
          /\ \A n \in Nodes : EntriesOf(m[n]) \subseteq Cmds
      BY <1>5, MapIs
    <2>3. Waiting' = Cmds /\ pending' \subseteq Nodes /\ \A n \in pending' : m[n] # <<>>
      BY <2>1, <2>2, Begun
    <2>4. cmdsMap' = m /\ failedCmds' = NoCmds /\ pc' = "pipe" /\ Unanswered' = {} /\ Reading' = {}
      BY <2>1 DEF BeginAttempt, Unanswered, Reading
    <2>5. CallTypes'
      BY <1>1, <1>2, <1>6, <2>2, <2>3, <2>4, NoCmdsIs DEF CallTypes
    <2>6. Control'
      BY <1>1, <1>2, <1>6, <2>3, <2>4 DEF Control
    <2>7. Places'
      BY <1>2, <2>2, <2>3, <2>4, NoCmdsIs DEF Places
    <2>8. RunInv'
      <3>1. \A i \in Cmds : MayRun(i)
        BY <1>2 DEF MayRun
      <3> QED BY <1>1, <1>2, <3>1, RunKeeps
    <2>9. PipeNil'
      <3>1. \A n \in Nodes : Asking \notin EntriesOf(cmdsMap'[n])
        BY <2>2, <2>4, Numbers
      <3> QED BY <2>3, <2>4, <3>1, NoCmdsIs DEF PipeNil
    <2>10. ASSUME trouble' = 0, ~metClosed' PROVE PipeFits'
      <3>1. attempt = 0 /\ \A i \in Cmds : err'[i] = "nil"
        BY <1>1, <1>2, <1>6, <2>10 DEF RedirectInv
      <3>2. ASSUME NEW n \in Nodes PROVE Fits(m[n], n, 1, 0)
        <4> SUFFICES ASSUME NEW k \in DOMAIN m[n], m[n][k] # Asking
                     PROVE  0 + Left(m[n][k], n, After(m[n], k)) <= moves + 1
          BY DEF Fits
        <4>1. m[n][k] \in Cmds
          BY <2>2 DEF EntriesOf
        <4> QED BY <1>1, <4>1, LeftBound, LeftNat
      <3>3. \A n \in Nodes : Fits(failedCmds'[n], n, 1, attempt' + 1)
        BY <2>4, FitsNone DEF NoCmds
      <3> QED BY <1>2, <2>3, <2>4, <3>1, <3>2, <3>3, FitsNext
    <2> QED BY <1>2, <1>4, <1>6, <2>4, <2>5, <2>6, <2>7, <2>8, <2>9, <2>10, GoesOn
  <1>7. CASE /\ err' = SetCmdsErr(AllCmds, "closed") /\ Return("closed")
             /\ UNCHANGED <<cmdsMap, pending, failedCmds>>
    <2>1. err' \in [Cmds -> Errs]
      BY <1>1, <1>5, <1>7, SetErr DEF CallTypes, Errs
    <2>2. pc' = "idle" /\ result' = "closed"
      BY <1>7 DEF Return
    <2>3. NilMeansRunOpen' /\ RedirectsConverge'
      BY <2>2 DEF NilMeansRunOpen, RedirectsConverge
    <2> QED BY <1>2, <1>3, <1>7, <2>1, <2>2, <2>3, EndsInv
  <1> QED BY <1>6, <1>7 DEF BeginPipe

LEMMA BatchClosedInv == ASSUME ClusterInv, NEW n \in Nodes, BatchClosed(n) PROVE ClusterInv'
  <1>1. /\ ServerTypes /\ NodeTypes /\ CallTypes /\ Control /\ Places /\ RunInv
    BY DEF ClusterInv
  <1>2. /\ pc = "pipe" /\ n \in pending /\ pending' = pending \ {n} /\ metClosed' = TRUE
        /\ UNCHANGED <<serverVars, nodeVars, stateVars, callVars, cmdVars, cmdsMap, cur, pos, dirty,
                       txVars, trouble, pc, attempt, ran, result>>
    BY DEF BatchClosed
  <1>3. kind # "cmd" /\ NodeTypes'
    BY <1>1, <1>2 DEF Control, NodeTypes
  <1>4. /\ cmdsMap[n] \in Seq(Entries)
        /\ Waiting = Waiting' \cup Ent(cmdsMap[n]) /\ Waiting' \cap Ent(cmdsMap[n]) = {}
        /\ Unanswered' = {} /\ Reading' = {}
    BY <1>1, <1>2, VisitSets DEF Unanswered, Reading
  <1>5. Waiting \subseteq AllOf(cmdsMap) /\ Waiting \cap AllOf(failedCmds) = {} /\ Once(cmdsMap[n])
    BY <1>1, Sets DEF Places, Apart
  <1>6. /\ failedCmds' \in [Nodes -> Seq(Entries)] /\ Apart(failedCmds')
        /\ AllOf(failedCmds') \subseteq AllOf(failedCmds) \cup Ent(cmdsMap[n])
        /\ err' \in [Cmds -> Errs]
    <2>1. CASE (\E m \in MapCmdsByNode(cmdsMap[n]) : failedCmds' = RemapCmds(m)) /\ UNCHANGED err
      <3>1. PICK m \in MapCmdsByNode(cmdsMap[n]) : failedCmds' = RemapCmds(m)
        BY <2>1
      <3>2. m \in [Nodes -> Seq(Entries)] /\ AllOf(m) = Ent(cmdsMap[n]) /\ Apart(m)
        BY <1>4, <1>5, MapIs
      <3>3. AllOf(m) \cap AllOf(failedCmds) = {}
        BY <1>4, <1>5, <3>2
      <3>4. failedCmds \in [Nodes -> Seq(Entries)] /\ Apart(failedCmds)
        BY <1>1 DEF CallTypes, Places
      <3> DEFINE h == failedCmds'
      <3>5. DOMAIN h = Nodes /\ h = [d \in Nodes |-> h[d]]
            /\ \A d \in Nodes : h[d] = m[d] \/ h[d] = failedCmds[d]
        BY <3>1 DEF RemapCmds
      <3> HIDE DEF h
      <3>6. /\ h \in [Nodes -> Seq(Entries)] /\ Apart(h)
            /\ AllOf(h) \subseteq AllOf(failedCmds) \cup AllOf(m)
        BY <3>2, <3>3, <3>4, <3>5, ReplaceFailed
      <3> QED BY <1>1, <2>1, <3>2, <3>6 DEF h, CallTypes
    <2>2. CASE err' = SetCmdsErr(cmdsMap[n], "closed") /\ UNCHANGED failedCmds
      <3>1. err' \in [Cmds -> Errs]
        BY <1>1, <1>4, <2>2, SetErr DEF CallTypes, Errs
      <3> QED BY <1>1, <2>2, <3>1 DEF CallTypes, Places
    <2> QED BY <2>1, <2>2 DEF BatchClosed
  <1>7. CallTypes'
    BY <1>1, <1>2, <1>6 DEF CallTypes
  <1>8. Control'
    BY <1>1, <1>2 DEF Control
  <1>9. Places'
    <2>1. (Waiting' \cup Unanswered') \cap AllOf(failedCmds') = {}
      BY <1>4, <1>5, <1>6
    <2>2. AllOf(cmdsMap') \cup AllOf(failedCmds') \subseteq AllOf(cmdsMap) \cup AllOf(failedCmds)
      BY <1>2, <1>4, <1>5, <1>6
    <2> QED BY <1>1, <1>2, <1>4, <1>6, <2>1, <2>2 DEF Places
  <1>10. RunInv'
    <2>1. \A i \in Cmds : MayRun(i)' => MayRun(i)
      BY <1>2, <1>4, <1>6 DEF MayRun
    <2> QED BY <1>1, <1>2, <2>1, RunKeeps
  <1> QED BY <1>2, <1>3, <1>7, <1>8, <1>9, <1>10, GoesOn

LEMMA BatchUndeliveredInv == ASSUME ClusterInv, NEW n \in Nodes, BatchUndelivered(n) PROVE ClusterInv'
  <1>1. /\ ServerTypes /\ NodeTypes /\ CallTypes /\ Control /\ Places /\ RunInv /\ NilInv
    BY DEF ClusterInv
  <1>2. /\ pc = "pipe" /\ n \in pending /\ pending' = pending \ {n} /\ trouble' = trouble + 1
        /\ err' = SetCmdsErr(cmdsMap[n], "net")
        /\ UNCHANGED <<serverVars, nodeVars, stateVars, callVars, cmdVars, cmdsMap, cur, pos, dirty,
                       txVars, metClosed, pc, attempt, result>>
    BY DEF BatchUndelivered, Trouble
  <1>3. kind \in {"pipe", "tx"} /\ NodeTypes' /\ trouble' \in Nat /\ trouble' # 0
    BY <1>1, <1>2 DEF Control, NodeTypes, CallTypes
  <1>4. /\ cmdsMap[n] \in Seq(Entries)
        /\ Waiting = Waiting' \cup Ent(cmdsMap[n]) /\ Waiting' \cap Ent(cmdsMap[n]) = {}
        /\ Unanswered' = {} /\ Reading' = {} /\ Unanswered = {} /\ Reading = {}
    BY <1>1, <1>2, VisitSets DEF Unanswered, Reading
  <1>5. Waiting \subseteq AllOf(cmdsMap) /\ Waiting \cap AllOf(failedCmds) = {} /\ Once(cmdsMap[n])
        /\ Waiting \subseteq Cmds /\ AllOf(failedCmds) \subseteq Cmds
    BY <1>1, Sets DEF Places, Apart
  <1>6. /\ failedCmds' \in [Nodes -> Seq(Entries)] /\ Apart(failedCmds')
        /\ AllOf(failedCmds') \subseteq AllOf(failedCmds) \cup Ent(cmdsMap[n])
    <2> DEFINE g == failedCmds  h == failedCmds'  m == [NoCmds EXCEPT ![n] = cmdsMap[n]]
    <2>0. g \in [Nodes -> Seq(Entries)] /\ Apart(g)
      BY <1>1 DEF CallTypes, Places
    <2>1. CASE UNCHANGED failedCmds
      BY <2>0, <2>1
    <2>2. CASE failedCmds' = [failedCmds EXCEPT ![n] = cmdsMap[n]]
      <3>1. m \in [Nodes -> Seq(Entries)] /\ AllOf(m) = Ent(cmdsMap[n]) /\ Apart(m)
        BY <1>4, <1>5, OneBatchIs
      <3>2. m[n] = cmdsMap[n]
        BY DEF NoCmds
      <3>3. DOMAIN h = Nodes /\ h = [d \in Nodes |-> h[d]]
            /\ \A d \in Nodes : h[d] = m[d] \/ h[d] = g[d]
        BY <2>0, <2>2, <3>2
      <3>4. AllOf(m) \cap AllOf(g) = {}
        BY <1>4, <1>5, <3>1
      <3> HIDE DEF g, h, m
      <3>5. /\ h \in [Nodes -> Seq(Entries)] /\ Apart(h)
            /\ AllOf(h) \subseteq AllOf(g) \cup AllOf(m)
        BY <2>0, <3>1, <3>3, <3>4, ReplaceFailed
      <3> QED BY <3>1, <3>5 DEF g, h
    <2> QED BY <2>1, <2>2 DEF BatchUndelivered
  <1>7. /\ ran' \in [Cmds -> Nat] /\ \A i \in Cmds : ran[i] > 0 => ran'[i] > 0
        /\ kind = "tx" => ran' = ran
    <2>1. CASE UNCHANGED ran
      BY <1>1, <2>1 DEF CallTypes
    <2>2. CASE kind # "tx" /\ \E S \in LostRuns(Home(n), cmdsMap[n], 1) : Ran(S)
      <3>1. /\ ran' \in [Cmds -> Nat] /\ \A i \in Cmds : ran'[i] = ran[i] + 1 \/ ran'[i] = ran[i]
        BY <1>1, <2>2, RanIs
      <3>2. \A i \in Cmds : ran[i] \in Nat
        BY <1>1 DEF CallTypes
      <3>3. \A i \in Cmds : ran[i] > 0 => ran'[i] > 0
        BY <3>1, <3>2
      <3> QED BY <2>2, <3>1, <3>3
    <2> QED BY <2>1, <2>2 DEF BatchUndelivered
  <1>8. /\ err' \in [Cmds -> Errs]
        /\ \A i \in Cmds : /\ err[i] # "nil" => err'[i] # "nil"
                           /\ i \in Ent(cmdsMap[n]) => err'[i] # "nil"
    BY <1>1, <1>2, <1>4, SetErr DEF CallTypes, Errs
  <1>9. CallTypes'
    BY <1>1, <1>2, <1>3, <1>6, <1>7, <1>8 DEF CallTypes
  <1>10. Control'
    BY <1>1, <1>2 DEF Control
  <1>11. Places'
    <2>1. (Waiting' \cup Unanswered') \cap AllOf(failedCmds') = {}
      BY <1>4, <1>5, <1>6
    <2>2. AllOf(cmdsMap') \cup AllOf(failedCmds') \subseteq AllOf(cmdsMap) \cup AllOf(failedCmds)
      BY <1>2, <1>4, <1>5, <1>6
    <2> QED BY <1>1, <1>2, <1>4, <1>6, <2>1, <2>2 DEF Places
  <1>12. RunInv'
    <2>1. \A i \in Cmds : MayRun(i)' => MayRun(i)
      BY <1>2, <1>4, <1>6 DEF MayRun
    <2> QED BY <1>1, <1>2, <1>3, <1>7, <2>1, RunKeeps
  <1>13. ASSUME ~metClosed, kind = "pipe" PROVE PipeNil'
    <2>1. PipeNil
      BY <1>1, <1>2, <1>13 DEF NilInv
    <2>2. \A i \in AllOf(failedCmds') : err'[i] # "nil"
      BY <1>4, <1>5, <1>6, <1>8, <2>1 DEF PipeNil
    <2>3. \/ \A d \in Nodes : Asking \notin EntriesOf(cmdsMap'[d])
          \/ \A i \in Waiting' \cup Unanswered' : err'[i] # "nil"
      BY <1>2, <1>4, <1>5, <1>8, <2>1 DEF PipeNil
    <2>4. GivenUp => GivenUp'
      BY <1>4, <1>6, <1>8 DEF GivenUp
    <2>5. (\A i \in Cmds : err[i] = "nil" => ran[i] > 0 \/ i \in Waiting \cup Unanswered)
             => \A i \in Cmds : err'[i] = "nil" => ran'[i] > 0 \/ i \in Waiting' \cup Unanswered'
      BY <1>4, <1>7, <1>8
    <2> QED BY <2>1, <2>2, <2>3, <2>4, <2>5 DEF PipeNil
  <1>14. ASSUME ~metClosed, kind = "tx" PROVE TxNil'
    <2>1. TxNil
      BY <1>1, <1>2, <1>14 DEF NilInv
    <2> QED BY <1>2, <1>4, <1>7, <1>8, <2>1 DEF TxNil
  <1> QED BY <1>2, <1>3, <1>9, <1>10, <1>11, <1>12, <1>13, <1>14, GoesOn

LEMMA BatchWrittenInv == ASSUME ClusterInv, NEW n \in Nodes, BatchWritten(n) PROVE ClusterInv'
  <1>1. /\ ServerTypes /\ NodeTypes /\ CallTypes /\ Control /\ Places /\ RunInv /\ NilInv /\ RedirectInv
    BY DEF ClusterInv
  <1>2. /\ pc = "pipe" /\ n \in pending /\ pending' = pending \ {n}
        /\ cur' = n /\ pos' = 0 /\ dirty' = FALSE /\ pc' = "read"
        /\ UNCHANGED <<serverVars, nodeVars, stateVars, callVars, cmdVars, cmdsMap, failedCmds, txVars,
                       histVars, attempt, err, ran, result>>
    BY DEF BatchWritten
  <1>3. kind \in {"pipe", "tx"} /\ NodeTypes'
    BY <1>1, <1>2 DEF Control, NodeTypes, CallTypes
  <1>4. /\ cmdsMap[n] \in Seq(Entries) /\ cmdsMap[n] # <<>>
        /\ Waiting = Waiting' \cup Ent(cmdsMap[n]) /\ Waiting' \cap Ent(cmdsMap[n]) = {}
        /\ Unanswered = {} /\ Reading = {}
    BY <1>1, <1>2, VisitSets
  <1>5. Reading' = Ent(cmdsMap[n]) /\ Unanswered' = Ent(cmdsMap[n])
    <2>1. DOMAIN cmdsMap[n] = (0 + 1) .. Len(cmdsMap[n])
      BY <1>4, SeqFun
    <2>2. Unanswered' = {cmdsMap[n][k] : k \in (0 + 1) .. Len(cmdsMap[n])} \ {Asking}
      BY <1>2 DEF Unanswered
    <2> QED BY <1>2, <2>1, <2>2 DEF Reading, Ent, EntriesOf
  <1>6. CallTypes'
    BY <1>1, <1>2 DEF CallTypes
  <1>7. Control'
    <2>1. 0 < Len(cmdsMap[n]) /\ 0 <= Len(cmdsMap[n])
      BY <1>4
    <2> QED BY <1>1, <1>2, <2>1 DEF Control
  <1>8. Places'
    BY <1>1, <1>2, <1>4, <1>5 DEF Places
  <1>9. RunInv'
    <2>1. \A i \in Cmds : MayRun(i)' => MayRun(i)
      BY <1>2, <1>4, <1>5 DEF MayRun
    <2> QED BY <1>1, <1>2, <2>1, RunKeeps
  <1>10. ASSUME ~metClosed, kind = "pipe" PROVE PipeNil'
    <2>1. PipeNil
      BY <1>1, <1>2, <1>10 DEF NilInv
    <2>2. Waiting' \cup Unanswered' = Waiting \cup Unanswered
      BY <1>4, <1>5
    <2> QED BY <1>2, <2>1, <2>2 DEF PipeNil, GivenUp
  <1>11. ASSUME ~metClosed, kind = "tx" PROVE TxNil'
    <2>1. TxNil
      BY <1>1, <1>2, <1>11 DEF NilInv
    <2> QED BY <1>2, <1>4, <1>5, <2>1 DEF TxNil
  <1>12. ASSUME trouble = 0, ~metClosed, kind = "pipe" PROVE PipeFits'
    <2>1. PipeFits
      BY <1>1, <1>2, <1>12 DEF RedirectInv
    <2>2. Waiting' \cup Unanswered' = Waiting \cup Unanswered
      BY <1>4, <1>5
    <2>3. /\ \A d \in pending' : Fits(cmdsMap[d], d, 1, attempt)
          /\ Fits(cmdsMap[n], n, 1, attempt)
      BY <1>2, <2>1 DEF PipeFits
    <2>4. pc' = "read" => Fits(cmdsMap'[cur'], cur', pos' + 1, attempt')
      <3>1. 0 + 1 = 1
        OBVIOUS
      <3> QED BY <1>2, <2>3, <3>1
    <2>5. \A i \in Cmds : err'[i] \in {"moved", "ask"}
                              => i \in Waiting' \cup Unanswered' \cup AllOf(failedCmds')
      BY <1>2, <2>1, <2>2 DEF PipeFits
    <2>6. \A d \in Nodes : Fits(failedCmds'[d], d, 1, attempt' + 1)
      BY <1>2, <2>1 DEF PipeFits
    <2> QED BY <1>2, <2>3, <2>4, <2>5, <2>6, FitsNext
  <1> QED BY <1>2, <1>3, <1>6, <1>7, <1>8, <1>9, <1>10, <1>11, <1>12, GoesOn

\* What the reply to a pipelined command leaves, whatever it says.
LEMMA ReadReplyIs ==
    ASSUME ClusterInv, ReadReply
    PROVE  LET es == cmdsMap[cur]
               e == es[pos + 1]
           IN  /\ cur \in Nodes /\ pos + 1 \in DOMAIN es /\ e \in Entries
               /\ Waiting' = Waiting /\ Unanswered' = Unanswered \ {e}
               /\ e = Asking => Asking \in EntriesOf(es)
               /\ e # Asking => e \in Cmds /\ e \in Unanswered /\ e \notin Waiting /\ e \notin AllOf(failedCmds)
               /\ \/ pc' = "read" /\ cur' = cur /\ pos' = pos + 1 /\ pos + 1 < Len(es)
                  \/ pc' = "pipe"
               /\ pos' \in Nat /\ dirty' \in BOOLEAN
               /\ kind = "pipe" /\ pc = "read"
               /\ UNCHANGED <<serverVars, view, callVars, cmdVars, cmdsMap, pending, txVars, metClosed,
                              attempt, result>>
  <1>1. CallTypes /\ Control /\ Places
    BY DEF ClusterInv
  <1>2. /\ kind = "pipe" /\ pc = "read" /\ NextReply
        /\ UNCHANGED <<serverVars, view, callVars, cmdVars, cmdsMap, pending, txVars, metClosed, attempt,
                       result>>
    BY DEF ReadReply
  <1>3. pos < Len(cmdsMap[cur])
    BY <1>1, <1>2 DEF Control
  <1>4. Waiting' = Waiting
    BY <1>2 DEF Waiting
  <1> DEFINE es == cmdsMap[cur]  e == es[pos + 1]
  <1>5. /\ cur \in Nodes /\ pos + 1 \in DOMAIN es /\ e \in Entries
        /\ e # Asking => e \in Unanswered /\ e \in Cmds
        /\ e = Asking => Asking \in EntriesOf(es)
    BY <1>1, <1>2, <1>3, EntryIs
  <1>6. /\ Unanswered' = Unanswered \ {e}
        /\ \/ pc' = "read" /\ cur' = cur /\ pos' = pos + 1 /\ pos + 1 < Len(es)
           \/ pc' = "pipe"
        /\ pos' \in Nat /\ dirty' \in BOOLEAN
    BY <1>1, <1>2, NextReplySets
  <1>7. \A i \in Unanswered : i \notin Waiting /\ i \notin AllOf(failedCmds)
    BY <1>1, Sets DEF Places
  <1> QED BY <1>2, <1>4, <1>5, <1>6, <1>7

\* A reply is read: what is left to show.
LEMMA ReadReplyStep ==
    ASSUME ClusterInv, ReadReply, NodeTypes', trouble' \in Nat, trouble' = 0 => trouble = 0,
           failedCmds' \in [Nodes -> Seq(Entries)], Apart(failedCmds'),
           NEW F, AllOf(failedCmds') = AllOf(failedCmds) \cup F,
           F \subseteq {cmdsMap[cur][pos + 1]} \ {Asking},
           err' \in [Cmds -> Errs], ran' \in [Cmds -> Nat],
           LET e == cmdsMap[cur][pos + 1]
           IN  /\ \A i \in Cmds : i # e => err'[i] = err[i] /\ ran'[i] = ran[i]
               /\ e # Asking => /\ ran'[e] = ran[e] \/ (ran'[e] = ran[e] + 1 /\ F = {})
                                /\ err'[e] = "nil" => ran'[e] > 0
                                /\ F # {} => err'[e] # "nil"
                                /\ trouble' = 0 /\ err'[e] \in {"moved", "ask"} => e \in F,
           trouble' = 0 /\ ~metClosed => \A n \in Nodes : Fits(failedCmds'[n], n, 1, attempt + 1)
    PROVE  ClusterInv'
  <1> DEFINE es == cmdsMap[cur]  e == es[pos + 1]
  <1>1. /\ ServerTypes /\ NodeTypes /\ CallTypes /\ Control /\ Places /\ RunInv /\ NilInv /\ RedirectInv
    BY DEF ClusterInv
  <1>2. /\ cur \in Nodes /\ pos + 1 \in DOMAIN es /\ e \in Entries
        /\ Waiting' = Waiting /\ Unanswered' = Unanswered \ {e}
        /\ e = Asking => Asking \in EntriesOf(es)
        /\ e # Asking => e \in Cmds /\ e \in Unanswered /\ e \notin Waiting /\ e \notin AllOf(failedCmds)
        /\ \/ pc' = "read" /\ cur' = cur /\ pos' = pos + 1 /\ pos + 1 < Len(es)
           \/ pc' = "pipe"
        /\ pos' \in Nat /\ dirty' \in BOOLEAN
        /\ kind = "pipe" /\ pc = "read"
        /\ UNCHANGED <<serverVars, view, callVars, cmdVars, cmdsMap, pending, txVars, metClosed,
                       attempt, result>>
    BY ReadReplyIs
  <1> HIDE DEF e, es
  <1>3. /\ \A i \in Cmds : i # e => err'[i] = err[i] /\ ran'[i] = ran[i]
        /\ e # Asking => /\ ran'[e] = ran[e] \/ (ran'[e] = ran[e] + 1 /\ F = {})
                         /\ err'[e] = "nil" => ran'[e] > 0
                         /\ F # {} => err'[e] # "nil"
                         /\ trouble' = 0 /\ err'[e] \in {"moved", "ask"} => e \in F
        /\ F \subseteq {e} \ {Asking}
    BY DEF e, es
  <1>4. cur' \in Nodes \/ pc' = "pipe"
    BY <1>2
  <1>5. CallTypes'
    BY <1>1, <1>2 DEF CallTypes
  <1>6. Control'
    <2>1. cur \notin pending /\ pos + 1 <= Len(es) /\ (pc' = "read" => cur' = cur /\ pos' = pos + 1 /\ pos + 1 < Len(es))
      <3>1. es \in Seq(Entries)
        BY <1>1, <1>2 DEF CallTypes, es
      <3>2. pos + 1 <= Len(es)
        BY <1>2, <3>1, SeqFun
      <3> QED BY <1>1, <1>2, <3>2 DEF Control
    <2> QED BY <1>1, <1>2, <2>1 DEF Control, es
  <1>7. Places'
    <2>1. (Waiting' \cup Unanswered') \cap AllOf(failedCmds') = {}
      BY <1>1, <1>2, <1>3 DEF Places
    <2> QED BY <1>1, <1>2, <2>1 DEF Places
  <1>8. \A i \in Cmds \ {e} : i \in Waiting' \cup Unanswered' \cup AllOf(failedCmds')
                                <=> i \in Waiting \cup Unanswered \cup AllOf(failedCmds)
    BY <1>2, <1>3
  <1>9. RunInv'
    <2>1. \A i \in Cmds : i # e => (MayRun(i)' => MayRun(i)) /\ ran'[i] = ran[i]
      BY <1>2, <1>3, <1>8 DEF MayRun
    <2>2. ASSUME NEW i \in Cmds, i = e
          PROVE  /\ MayRun(i)
                 /\ ran'[i] = ran[i] \/ (ran'[i] = ran[i] + 1 /\ ~MayRun(i)')
      <3>0. e # Asking
        BY <2>2, Numbers
      <3>1. ASSUME F = {} PROVE ~MayRun(i)'
        <4>1. i \notin Waiting' /\ i \notin Unanswered' /\ i \notin AllOf(failedCmds')
          BY <1>2, <2>2, <3>0, <3>1
        <4>2. pc' # "start" /\ kind' # "tx"
          BY <1>2
        <4> QED BY <4>1, <4>2 DEF MayRun
      <3>2. MayRun(i)
        BY <1>2, <2>2, <3>0 DEF MayRun
      <3> QED BY <1>3, <2>2, <3>0, <3>1, <3>2
    <2>3. \A i \in Cmds : /\ MayRun(i)' => MayRun(i)
                          /\ \/ ran'[i] = ran[i]
                             \/ ran'[i] = ran[i] + 1 /\ MayRun(i) /\ ~MayRun(i)'
      <3> TAKE i \in Cmds
      <3>1. CASE i = e
        BY <2>2, <3>1
      <3>2. CASE i # e
        BY <2>1, <3>2
      <3> QED BY <3>1, <3>2
    <2>4. UNCHANGED kind
      BY <1>2
    <2>5. CallTypes /\ RunInv /\ (trouble' = 0 => trouble = 0)
      BY <1>1
    <2> QED BY <2>3, <2>4, <2>5, RunKeeps
  <1>10. ASSUME ~metClosed PROVE PipeNil'
    <2>1. PipeNil
      BY <1>1, <1>2, <1>10 DEF NilInv
    <2>2. \A i \in AllOf(failedCmds') : err'[i] # "nil"
      <3>1. AllOf(failedCmds) \subseteq Cmds
        BY <1>1, Sets
      <3>2. ASSUME NEW i \in AllOf(failedCmds) PROVE err'[i] # "nil"
        <4>1. CASE i = e
          BY <1>2, <3>1, <4>1, Numbers
        <4>2. CASE i # e
          BY <1>3, <2>1, <3>1, <4>2 DEF PipeNil
        <4> QED BY <4>1, <4>2
      <3> QED BY <1>3, <3>2
    <2>3. \/ \A n \in Nodes : Asking \notin EntriesOf(cmdsMap'[n])
          \/ \A i \in Waiting' \cup Unanswered' : err'[i] # "nil"
      <3>1. \A i \in Waiting' \cup Unanswered' : i \in Cmds /\ i # e /\ i \in Waiting \cup Unanswered
        BY <1>1, <1>2, Sets, Numbers
      <3>2. \A i \in Waiting' \cup Unanswered' : err'[i] = err[i] /\ i \in Waiting \cup Unanswered
        BY <1>3, <3>1
      <3> QED BY <1>2, <2>1, <3>2 DEF PipeNil
    <2>4. ASSUME GivenUp PROVE GivenUp'
      <3>1. PICK i \in Cmds : err[i] # "nil" /\ i \notin Waiting \cup Unanswered \cup AllOf(failedCmds)
        BY <2>4 DEF GivenUp
      <3>2. i # e
        BY <1>2, <3>1, Numbers
      <3> QED BY <1>3, <1>8, <3>1, <3>2 DEF GivenUp
    <2>5. ASSUME NEW i \in Cmds, err'[i] = "nil",
                 \A j \in Cmds : err[j] = "nil" => ran[j] > 0 \/ j \in Waiting \cup Unanswered
          PROVE  ran'[i] > 0 \/ i \in Waiting' \cup Unanswered'
      BY <1>2, <1>3, <2>5, Numbers
    <2> QED BY <2>1, <2>2, <2>3, <2>4, <2>5 DEF PipeNil
  <1>11. ASSUME trouble' = 0, ~metClosed PROVE PipeFits'
    <2>1. PipeFits
      BY <1>1, <1>2, <1>11 DEF RedirectInv
    <2>2. ASSUME NEW i \in Cmds, err'[i] \in {"moved", "ask"}
          PROVE  i \in Waiting' \cup Unanswered' \cup AllOf(failedCmds')
      <3>1. CASE i = e
        BY <1>3, <1>11, <2>2, <3>1, Numbers
      <3>2. CASE i # e
        BY <1>3, <1>8, <2>1, <2>2, <3>2 DEF PipeFits
      <3> QED BY <3>1, <3>2
    <2>3. pc' = "read" => Fits(cmdsMap'[cur'], cur', pos' + 1, attempt')
      <3> SUFFICES ASSUME pc' = "read" PROVE Fits(es, cur, pos' + 1, attempt)
        BY <1>2 DEF es
      <3>1. pos' = pos + 1 /\ pos \in Nat
        BY <1>1, <1>2 DEF CallTypes
      <3>2. Fits(es, cur, pos + 1, attempt)
        BY <1>2, <2>1 DEF PipeFits, es
      <3>3. \A k \in DOMAIN es : k >= pos' + 1 => k >= pos + 1
        <4>1. es \in Seq(Entries)
          BY <1>1, <1>2 DEF CallTypes, es
        <4>2. DOMAIN es = 1 .. Len(es) /\ Len(es) \in Nat
          BY <4>1, SeqFun
        <4> QED BY <3>1, <4>2
      <3> QED BY <3>2, <3>3 DEF Fits
    <2>4. \A n \in pending' : Fits(cmdsMap'[n], n, 1, attempt')
      BY <1>2, <2>1 DEF PipeFits
    <2>5. \A n \in Nodes : Fits(failedCmds'[n], n, 1, attempt' + 1)
      BY <1>2, <1>11
    <2> QED BY <1>2, <2>2, <2>3, <2>4, <2>5, FitsNext
  <1> QED BY <1>2, <1>5, <1>6, <1>7, <1>9, <1>10, <1>11, GoesOn

LEMMA ReadReplyInv == ASSUME ClusterInv, ReadReply PROVE ClusterInv'
  <1> DEFINE es == cmdsMap[cur]  e == es[pos + 1]
  <1>1. /\ ServerTypes /\ NodeTypes /\ CallTypes /\ Control /\ Places /\ RedirectInv
    BY DEF ClusterInv
  <1>2. /\ cur \in Nodes /\ pos + 1 \in DOMAIN es /\ e \in Entries
        /\ e # Asking => e \in Cmds /\ e \notin AllOf(failedCmds)
        /\ kind = "pipe" /\ pc = "read" /\ UNCHANGED <<view, snap>>
    BY ReadReplyIs
  <1>3. failedCmds \in [Nodes -> Seq(Entries)] /\ Apart(failedCmds) /\ err \in [Cmds -> Errs]
        /\ ran \in [Cmds -> Nat] /\ trouble \in Nat /\ attempt \in Nat /\ moves \in Nat
    BY <1>1 DEF CallTypes, Places, ServerTypes
  <1>4. trouble = 0 /\ ~metClosed =>
           /\ \A n \in Nodes : Fits(failedCmds[n], n, 1, attempt + 1)
           /\ e # Asking => attempt + Left(e, cur, After(es, pos + 1)) <= moves + 1
    <2> SUFFICES ASSUME trouble = 0, ~metClosed
                 PROVE  /\ \A n \in Nodes : Fits(failedCmds[n], n, 1, attempt + 1)
                        /\ e # Asking => attempt + Left(e, cur, After(es, pos + 1)) <= moves + 1
      OBVIOUS
    <2>1. PipeFits
      BY <1>1, <1>2 DEF RedirectInv
    <2>2. Fits(es, cur, pos + 1, attempt)
      BY <1>2, <2>1 DEF PipeFits
    <2>3. pos + 1 >= pos + 1
      BY <1>1 DEF CallTypes
    <2> QED BY <1>2, <2>1, <2>2, <2>3 DEF PipeFits, Fits
  <1>5. CASE e = Asking /\ UNCHANGED <<nodeVars, reloading, failedCmds, trouble, err, ran>>
    <2>1. NodeTypes'
      BY <1>1, <1>2, <1>5 DEF NodeTypes
    <2> DEFINE F == {}
    <2>2. AllOf(failedCmds') = AllOf(failedCmds) \cup F /\ F \subseteq {e} \ {Asking}
      BY <1>5
    <2> QED BY <1>3, <1>4, <1>5, <2>1, <2>2, ReadReplyStep
  <1>6. ASSUME e # Asking, NEW r \in Answers(Home(cur), e, After(es, pos + 1)),
               r.val \in {"ok", "error", "busy"},
               err' = [err EXCEPT ![e] = IF r.val = "ok" THEN "nil" ELSE "redis"],
               IF r.val = "ok" THEN Ran({e}) ELSE UNCHANGED ran,
               UNCHANGED <<nodeVars, reloading, failedCmds, trouble>>
        PROVE  ClusterInv'
    <2>1. NodeTypes'
      BY <1>1, <1>2, <1>6 DEF NodeTypes
    <2> DEFINE F == {}
    <2>2. AllOf(failedCmds') = AllOf(failedCmds) \cup F /\ F \subseteq {e} \ {Asking}
      BY <1>6
    <2>3. e \in Cmds
      BY <1>2, <1>6
    <2> HIDE DEF e, F
    <2>4. /\ err' \in [Cmds -> Errs] /\ \A i \in Cmds : i # e => err'[i] = err[i]
          /\ err'[e] = IF r.val = "ok" THEN "nil" ELSE "redis"
      BY <1>3, <1>6, <2>3 DEF Errs
    <2>5. /\ ran' \in [Cmds -> Nat] /\ \A i \in Cmds : i # e => ran'[i] = ran[i]
          /\ ran'[e] = ran[e] \/ ran'[e] = ran[e] + 1
          /\ r.val = "ok" => ran'[e] > 0
      <3>1. CASE r.val = "ok"
        <4>1. Ran({e})
          BY <1>6, <3>1
        <4>2. /\ ran' \in [Cmds -> Nat]
              /\ \A i \in Cmds : ran'[i] = IF i \in {e} THEN ran[i] + 1 ELSE ran[i]
          BY <1>1, <4>1, RanIs
        <4> QED BY <1>3, <2>3, <4>2
      <3>2. CASE r.val # "ok"
        BY <1>3, <1>6, <3>2
      <3> QED BY <3>1, <3>2
    <2>6. F = {}
      BY DEF F
    <2>7. err'[e] = "nil" => r.val = "ok"
      BY <2>4
    <2>8. err'[e] \notin {"moved", "ask"}
      BY <2>4
    <2>9. failedCmds' = failedCmds /\ trouble' = trouble
      BY <1>6
    <2> QED BY <1>3, <1>4, <2>1, <2>2, <2>4, <2>5, <2>6, <2>7, <2>8, <2>9, ReadReplyStep DEF e
  <1>7. ASSUME e # Asking, NEW r \in Answers(Home(cur), e, After(es, pos + 1)),
               r.val \in {"moved", "ask"}, CheckMovedErr(r, Redirected(r, e)),
               err' = [err EXCEPT ![e] = r.val], UNCHANGED ran
        PROVE  ClusterInv'
    <2> DEFINE b == After(es, pos + 1)  t == Redirected(r, e)
    <2>1. e \in Cmds /\ b \in BOOLEAN /\ e \notin AllOf(failedCmds)
      BY <1>2, <1>7 DEF After
    <2>2. r.to \in Addrs
      BY <1>1, <1>7, <2>1, AnswerIs
    <2>3. /\ NodeTypes'
          /\ \/ UNCHANGED failedCmds /\ trouble' = trouble + 1
             \/ /\ UNCHANGED trouble
                /\ \E n \in Nodes : Home(n) = r.to /\ failedCmds' = [failedCmds EXCEPT ![n] = @ \o t]
      BY <1>1, <1>2, <1>7, <2>2, CheckedMoved
    <2>4. /\ err' \in [Cmds -> Errs] /\ \A i \in Cmds : i # e => err'[i] = err[i]
          /\ err'[e] = r.val /\ err'[e] # "nil"
      <3> HIDE DEF e
      <3> QED BY <1>3, <1>7, <2>1 DEF Errs
    <2>5. CASE UNCHANGED failedCmds /\ trouble' = trouble + 1
      <3> DEFINE F == {}
      <3>1. AllOf(failedCmds') = AllOf(failedCmds) \cup F /\ F \subseteq {e} \ {Asking} /\ F = {}
        BY <2>5
      <3>2. trouble' \in Nat /\ trouble' # 0
        BY <1>3, <2>5
      <3> HIDE DEF F, e, b, t
      <3>3. /\ \A i \in Cmds : i # e => err'[i] = err[i] /\ ran'[i] = ran[i]
            /\ ran'[e] = ran[e] /\ ran' \in [Cmds -> Nat]
            /\ failedCmds' \in [Nodes -> Seq(Entries)] /\ Apart(failedCmds')
        BY <1>3, <1>7, <2>4, <2>5
      <3> QED BY <2>3, <2>4, <3>1, <3>2, <3>3, ReadReplyStep DEF e
    <2>6. ASSUME NEW n \in Nodes, Home(n) = r.to, failedCmds' = [failedCmds EXCEPT ![n] = @ \o t],
                 UNCHANGED trouble
          PROVE  ClusterInv'
      <3>1. t \in Seq(Entries) /\ Ent(t) = {e} /\ Once(t)
        BY <2>1, RedirectedIs
      <3>2. Ent(t) \cap AllOf(failedCmds) = {}
        BY <2>1, <3>1
      <3> DEFINE F == {e}
      <3>3. /\ failedCmds' \in [Nodes -> Seq(Entries)] /\ Apart(failedCmds')
            /\ AllOf(failedCmds') = AllOf(failedCmds) \cup F
        <4> HIDE DEF t, e
        <4>1. LET h == [failedCmds EXCEPT ![n] = @ \o t]
              IN  h \in [Nodes -> Seq(Entries)] /\ Apart(h) /\ AllOf(h) = AllOf(failedCmds) \cup Ent(t)
          BY <1>3, <3>1, <3>2, AddFailed
        <4> QED BY <2>6, <3>1, <4>1
      <3>4. ASSUME trouble = 0, ~metClosed, NEW d \in Nodes PROVE Fits(failedCmds'[d], d, 1, attempt + 1)
        <4>1. Fits(failedCmds[d], d, 1, attempt + 1)
          BY <1>4, <3>4
        <4>2. CASE d # n
          BY <1>3, <2>6, <4>1, <4>2
        <4>3. CASE d = n
          <5>1. failedCmds'[d] = failedCmds[d] \o t
            BY <1>3, <2>6, <4>3
          <5>2. Left(e, d, r.val = "ask") + 1 <= Left(e, cur, b)
            BY <1>1, <1>2, <1>7, <2>1, <2>6, <4>3, LeftLess
          <5>3. attempt + Left(e, cur, b) <= moves + 1
            BY <1>4, <1>7, <3>4
          <5>4. (attempt + 1) + Left(e, d, r.val = "ask") <= moves + 1
            <6> HIDE DEF e, b
            <6>1. Left(e, d, r.val = "ask") \in Nat /\ Left(e, cur, b) \in Nat
              BY LeftNat
            <6> QED BY <1>3, <5>2, <5>3, <6>1
          <5>5. failedCmds[d] \in Seq(Entries) /\ attempt + 1 \in Nat
            BY <1>3
          <5>6. Fits(failedCmds[d] \o Redirected(r, e), d, 1, attempt + 1)
            <6> HIDE DEF e
            <6> QED BY <1>1, <2>1, <4>1, <5>4, <5>5, FitsCat
          <5> QED BY <5>1, <5>6
        <4> QED BY <4>2, <4>3
      <3>5. F \subseteq {e} \ {Asking} /\ e \in F
        BY <1>7
      <3> HIDE DEF F, e, b, t
      <3>6. /\ \A i \in Cmds : i # e => err'[i] = err[i] /\ ran'[i] = ran[i]
            /\ ran'[e] = ran[e] /\ ran' \in [Cmds -> Nat] /\ trouble' = trouble
        BY <1>3, <1>7, <2>4, <2>6
      <3>7. /\ \A i \in Cmds : i # e => err'[i] = err[i] /\ ran'[i] = ran[i]
            /\ e # Asking => /\ ran'[e] = ran[e] \/ (ran'[e] = ran[e] + 1 /\ F = {})
                             /\ err'[e] = "nil" => ran'[e] > 0
                             /\ F # {} => err'[e] # "nil"
                             /\ trouble' = 0 /\ err'[e] \in {"moved", "ask"} => e \in F
        BY <2>4, <3>5, <3>6
      <3>8. trouble' = 0 /\ ~metClosed => \A d \in Nodes : Fits(failedCmds'[d], d, 1, attempt + 1)
        BY <3>4, <3>6
      <3>9. trouble' \in Nat /\ (trouble' = 0 => trouble = 0)
        BY <1>3, <3>6
      <3>10. err' \in [Cmds -> Errs] /\ ran' \in [Cmds -> Nat]
        BY <2>4, <3>6
      <3> QED BY <2>3, <3>3, <3>5, <3>7, <3>8, <3>9, <3>10, ReadReplyStep DEF e
    <2> QED BY <2>3, <2>5, <2>6
  <1> QED BY <1>5, <1>6, <1>7 DEF ReadReply

\* The commands whose replies are lost with a connection.
LEMMA ReadLostInv == ASSUME ClusterInv, ReadLost PROVE ClusterInv'
  <1> DEFINE es == cmdsMap[cur]  e == es[pos + 1]
  <1>1. /\ ServerTypes /\ NodeTypes /\ CallTypes /\ Control /\ Places /\ RunInv /\ NilInv
    BY DEF ClusterInv
  <1>2. /\ kind = "pipe" /\ pc = "read" /\ trouble' = trouble + 1
        /\ pc' = "pipe" /\ cur' = NoNode /\ pos' = 0 /\ dirty' = FALSE
        /\ err' = IF e = Asking THEN err ELSE [err EXCEPT ![e] = "net"]
        /\ UNCHANGED <<serverVars, nodeVars, stateVars, callVars, cmdVars, cmdsMap, failedCmds, pending,
                       txVars, metClosed, attempt, result>>
    BY DEF ReadLost, Trouble, EndBatch
  <1>3. PICK S \in LostRuns(Home(cur), es, pos + 1) : Ran(S)
    BY DEF ReadLost
  <1>4. NodeTypes' /\ trouble' \in Nat /\ trouble' # 0
    BY <1>1, <1>2 DEF NodeTypes, CallTypes
  <1>5. Waiting' = Waiting /\ Unanswered' = {} /\ Reading' = {}
    BY <1>2 DEF Waiting, Unanswered, Reading
  <1>6. /\ cur \in Nodes /\ e \in Entries
        /\ e # Asking => e \in Cmds /\ e \notin Waiting /\ e \notin AllOf(failedCmds)
        /\ e = Asking => Asking \in EntriesOf(es)
    <2>1. pos < Len(es)
      BY <1>1, <1>2 DEF Control
    <2>2. /\ cur \in Nodes /\ e \in Entries
          /\ e # Asking => e \in Unanswered /\ e \in Cmds
          /\ e = Asking => Asking \in EntriesOf(es)
      BY <1>1, <1>2, <2>1, EntryIs
    <2>3. \A i \in Unanswered : i \notin Waiting /\ i \notin AllOf(failedCmds)
      BY <1>1, Sets DEF Places
    <2> QED BY <2>2, <2>3
  <1>7. /\ ran' \in [Cmds -> Nat] /\ \A i \in Cmds : ran[i] > 0 => ran'[i] > 0
    <2>1. /\ ran' \in [Cmds -> Nat] /\ \A i \in Cmds : ran'[i] = ran[i] + 1 \/ ran'[i] = ran[i]
      BY <1>1, <1>3, RanIs
    <2>2. \A i \in Cmds : ran[i] \in Nat
      BY <1>1 DEF CallTypes
    <2> QED BY <2>1, <2>2
  <1> HIDE DEF e, es
  <1>8. /\ err' \in [Cmds -> Errs]
        /\ \A i \in Cmds : /\ err[i] # "nil" => err'[i] # "nil"
                           /\ i # e => err'[i] = err[i]
                           /\ i = e => err'[i] = "net"
    <2>1. err \in [Cmds -> Errs] /\ "net" \in Errs /\ Asking \notin Cmds
      BY <1>1, Numbers DEF CallTypes, Errs
    <2>2. CASE e = Asking
      BY <1>2, <2>1, <2>2
    <2>3. CASE e # Asking
      BY <1>2, <1>6, <2>1, <2>3
    <2> QED BY <2>2, <2>3
  <1>9. CallTypes'
    BY <1>1, <1>2, <1>4, <1>7, <1>8 DEF CallTypes
  <1>10. Control'
    BY <1>1, <1>2 DEF Control
  <1>11. Places'
    BY <1>1, <1>2, <1>5 DEF Places
  <1>12. RunInv'
    BY <1>2, <1>4 DEF RunInv
  <1>13. ASSUME ~metClosed PROVE PipeNil'
    <2>1. PipeNil
      BY <1>1, <1>2, <1>13 DEF NilInv
    <2>2. AllOf(failedCmds) \subseteq Cmds /\ Waiting \subseteq Cmds
      BY <1>1, Sets
    <2>3. \A i \in AllOf(failedCmds') : err'[i] # "nil"
      BY <1>2, <1>8, <2>1, <2>2 DEF PipeNil
    <2>4. \/ \A n \in Nodes : Asking \notin EntriesOf(cmdsMap'[n])
          \/ \A i \in Waiting' \cup Unanswered' : err'[i] # "nil"
      BY <1>2, <1>5, <1>8, <2>1, <2>2 DEF PipeNil
    <2>5. GivenUp => GivenUp'
      BY <1>2, <1>5, <1>8 DEF GivenUp
    <2>6. CASE e # Asking
      <3>1. GivenUp'
        BY <1>2, <1>5, <1>6, <1>8, <2>6 DEF GivenUp
      <3> QED BY <2>3, <2>4, <3>1 DEF PipeNil
    <2>7. CASE e = Asking
      <3>1. \A i \in Waiting \cup Unanswered : err[i] # "nil"
        BY <1>6, <2>1, <2>7 DEF PipeNil, es
      <3>2. (\A i \in Cmds : err[i] = "nil" => ran[i] > 0 \/ i \in Waiting \cup Unanswered)
               => \A i \in Cmds : err'[i] = "nil" => ran'[i] > 0 \/ i \in Waiting' \cup Unanswered'
        BY <1>7, <1>8, <3>1
      <3> QED BY <2>1, <2>3, <2>4, <2>5, <3>2 DEF PipeNil
    <2> QED BY <2>6, <2>7
  <1> QED BY <1>2, <1>4, <1>9, <1>10, <1>11, <1>12, <1>13, GoesOn

\* The failed commands become the next attempt's, or the call, or the slot of a
\* transaction, ends.
LEMMA EndAttemptInv == ASSUME ClusterInv, EndAttempt PROVE ClusterInv'
  <1>1. /\ ServerTypes /\ NodeTypes /\ CallTypes /\ Control /\ Places /\ RunInv /\ NilInv /\ RedirectInv
    BY DEF ClusterInv
  <1>2. /\ pc = "pipe" /\ pending = {}
        /\ UNCHANGED <<serverVars, nodeVars, stateVars, callVars, cmdVars, cur, pos, dirty, txVars, histVars,
                       err, ran>>
    BY DEF EndAttempt
  <1>3. kind \in {"pipe", "tx"} /\ NodeTypes'
    BY <1>1, <1>2 DEF Control, NodeTypes, CallTypes
  <1>4. Waiting = {} /\ Unanswered = {} /\ Reading = {}
    BY <1>2 DEF Waiting, Unanswered, Reading
  <1>5. /\ failedCmds \in [Nodes -> Seq(Entries)] /\ Apart(failedCmds) /\ AllOf(failedCmds) \subseteq Cmds
        /\ err \in [Cmds -> Errs] /\ ran \in [Cmds -> Nat] /\ attempt \in Nat /\ moves \in Nat
    BY <1>1, Sets DEF CallTypes, Places, ServerTypes
  <1>6. ~metClosed /\ kind = "pipe" =>
           /\ \A i \in AllOf(failedCmds) : err[i] # "nil"
           /\ \/ \E i \in Cmds : err[i] # "nil" /\ i \notin AllOf(failedCmds)
              \/ \A i \in Cmds : err[i] = "nil" => ran[i] > 0
    BY <1>1, <1>2, <1>4 DEF NilInv, PipeNil, GivenUp
  <1>7. trouble = 0 /\ ~metClosed /\ kind = "pipe" =>
           /\ \A n \in Nodes : Fits(failedCmds[n], n, 1, attempt + 1)
           /\ \A i \in Cmds : err[i] \in {"moved", "ask"} => i \in AllOf(failedCmds)
    BY <1>1, <1>2, <1>4 DEF RedirectInv, PipeFits
  <1>8. CASE /\ Busy(failedCmds) = {} \/ attempt = MaxRedirects
             /\ kind = "tx" /\ pc' = "slots" /\ UNCHANGED result
             /\ UNCHANGED <<cmdsMap, pending, failedCmds, attempt>>
    <2>1. Waiting' = {} /\ Unanswered' = {} /\ Reading' = {}
      BY <1>2, <1>8 DEF Waiting, Unanswered, Reading
    <2>2. CallTypes'
      BY <1>1, <1>2, <1>8 DEF CallTypes
    <2>3. Control'
      BY <1>1, <1>2, <1>8 DEF Control
    <2>4. Places'
      BY <1>1, <1>2, <1>8, <2>1 DEF Places
    <2>5. RunInv'
      <3>1. \A i \in Cmds : MayRun(i)' => MayRun(i)
        BY <1>2, <1>8, <2>1 DEF MayRun
      <3> QED BY <1>1, <1>2, <3>1, RunKeeps
    <2>6. ~metClosed => TxNil'
      BY <1>1, <1>2, <1>4, <1>8, <2>1 DEF NilInv, TxNil
    <2> QED BY <1>2, <1>3, <1>8, <2>2, <2>3, <2>4, <2>5, <2>6, GoesOn
  <1>9. CASE /\ Busy(failedCmds) = {} \/ attempt = MaxRedirects
             /\ kind # "tx" /\ Return(FirstCmdsErr(err))
             /\ UNCHANGED <<cmdsMap, pending, failedCmds, attempt>>
    <2>1. pc' = "idle" /\ result' = FirstCmdsErr(err) /\ kind = "pipe" /\ InCall = Cmds /\ InCall' = Cmds
      BY <1>2, <1>3, <1>9 DEF Return, InCall
    <2>2. NilMeansRunOpen'
      <3> SUFFICES ASSUME result' = "nil", ~metClosed, NEW i \in Cmds PROVE ran[i] > 0
        BY <1>2, <2>1 DEF NilMeansRunOpen
      <3>1. \A j \in Cmds : err[j] = "nil"
        BY <1>5, <2>1, FirstErr
      <3> QED BY <1>6, <2>1, <3>1
    <2>3. RedirectsConverge'
      <3> SUFFICES ASSUME result' \in {"moved", "ask"}, trouble = 0, ~metClosed PROVE moves >= MaxRedirects
        BY <1>2 DEF RedirectsConverge
      <3>1. PICK i \in Cmds : err[i] \in {"moved", "ask"}
        BY <1>5, <2>1, FirstErr
      <3>2. i \in AllOf(failedCmds)
        BY <1>7, <2>1, <3>1
      <3>3. PICK n \in Nodes : i \in Ent(failedCmds[n])
        BY <3>2 DEF AllOf
      <3>4. PICK k \in DOMAIN failedCmds[n] : failedCmds[n][k] = i
        BY <3>3 DEF Ent, EntriesOf
      <3>5. failedCmds[n] # <<>> /\ k >= 1
        <4>1. failedCmds[n] \in Seq(Entries)
          BY <1>5
        <4>2. DOMAIN failedCmds[n] = 1 .. Len(failedCmds[n]) /\ Len(failedCmds[n]) \in Nat
          BY <4>1, SeqFun
        <4> QED BY <3>4, <4>2
      <3>6. attempt = MaxRedirects
        BY <1>9, <3>5 DEF Busy
      <3>7. i # Asking
        BY Numbers
      <3>8. (attempt + 1) + Left(i, n, After(failedCmds[n], k)) <= moves + 1
        BY <1>7, <2>1, <3>4, <3>5, <3>7 DEF Fits
      <3>9. Left(i, n, After(failedCmds[n], k)) \in Nat
        BY LeftNat
      <3> QED BY <1>5, <3>6, <3>8, <3>9
    <2> QED BY <1>2, <1>5, <1>9, <2>1, <2>2, <2>3, EndsInv
  <1>10. CASE BeginAttempt(failedCmds) /\ attempt' = attempt + 1 /\ UNCHANGED result
    <2>1. Waiting' = AllOf(failedCmds) /\ pending' \subseteq Nodes /\ \A n \in pending' : failedCmds[n] # <<>>
      BY <1>5, <1>10, Begun
    <2>2. cmdsMap' = failedCmds /\ failedCmds' = NoCmds /\ pc' = "pipe" /\ Unanswered' = {} /\ Reading' = {}
      BY <1>10 DEF BeginAttempt, Unanswered, Reading
    <2>3. CallTypes'
      BY <1>1, <1>2, <1>10, <2>1, <2>2, NoCmdsIs DEF CallTypes
    <2>4. Control'
      BY <1>1, <1>2, <1>10, <2>1, <2>2 DEF Control
    <2>5. Places'
      BY <1>1, <1>2, <1>5, <2>1, <2>2, NoCmdsIs DEF Places
    <2>6. RunInv'
      <3>1. \A i \in Cmds : MayRun(i)' => MayRun(i)
        BY <1>2, <2>1, <2>2, NoCmdsIs DEF MayRun
      <3> QED BY <1>1, <1>2, <3>1, RunKeeps
    <2>7. ASSUME ~metClosed, kind = "pipe" PROVE PipeNil'
      BY <1>2, <1>5, <1>6, <2>1, <2>2, <2>7, NoCmdsIs DEF PipeNil, GivenUp
    <2>8. ASSUME ~metClosed, kind = "tx" PROVE TxNil'
      BY <1>1, <1>2, <1>4, <2>8 DEF NilInv, TxNil
    <2>9. ASSUME trouble = 0, ~metClosed, kind = "pipe" PROVE PipeFits'
      <3>1. \A n \in pending' : Fits(cmdsMap'[n], n, 1, attempt')
        BY <1>7, <1>10, <2>1, <2>2, <2>9
      <3>2. \A n \in Nodes : Fits(failedCmds'[n], n, 1, attempt' + 1)
        BY <2>2, FitsNone DEF NoCmds
      <3>3. \A i \in Cmds : err'[i] \in {"moved", "ask"} => i \in Waiting'
        BY <1>2, <1>7, <2>1, <2>9
      <3> QED BY <1>2, <2>2, <3>1, <3>2, <3>3, FitsNext
    <2> QED BY <1>2, <1>3, <1>10, <2>2, <2>3, <2>4, <2>5, <2>6, <2>7, <2>8, <2>9, GoesOn
  <1> QED BY <1>8, <1>9, <1>10 DEF EndAttempt

-----------------------------------------------------------------------------
(* The steps that only a transaction has.                                  *)

LEMMA BeginTxInv == ASSUME ClusterInv, BeginTx PROVE ClusterInv'
  <1>1. /\ ServerTypes /\ NodeTypes /\ CallTypes /\ Control /\ Places /\ RunInv
    BY DEF ClusterInv
  <1>2. /\ kind = "tx" /\ pc = "start" /\ pc' = "slots"
        /\ snap' = view /\ todo' = {slotOf[i] : i \in Cmds}
        /\ UNCHANGED <<serverVars, nodeVars, stateVars, callVars, cmdVars, pipeVars, histVars,
                       attempt, err, ran, result>>
    BY DEF BeginTx
  <1>3. NodeTypes' /\ cmdsMap' = NoCmds /\ failedCmds' = NoCmds /\ pending' = {}
    BY <1>1, <1>2 DEF NodeTypes, Control
  <1>4. Waiting' = {} /\ Unanswered' = {} /\ Reading' = {}
    BY <1>2, <1>3 DEF Waiting, Unanswered, Reading
  <1>5. CallTypes'
    BY <1>1, <1>2 DEF CallTypes
  <1>6. Control'
    BY <1>1, <1>2 DEF Control
  <1>7. Places'
    BY <1>3, <1>4, NoCmdsIs DEF Places
  <1>8. RunInv'
    <2>1. \A i \in Cmds : MayRun(i)
      BY <1>2 DEF MayRun
    <2> QED BY <1>1, <1>2, <2>1, RunKeeps
  <1>9. TxNil'
    BY <1>2 DEF TxNil
  <1> QED BY <1>2, <1>3, <1>5, <1>6, <1>7, <1>8, <1>9, GoesOn

LEMMA TxSlotInv == ASSUME ClusterInv, TxSlot PROVE ClusterInv'
  <1>1. /\ ServerTypes /\ NodeTypes /\ CallTypes /\ Control /\ Places /\ RunInv /\ NilInv
    BY DEF ClusterInv
  <1>2. /\ pc = "slots" /\ kind = "tx" /\ pending = {}
        /\ UNCHANGED <<serverVars, nodeVars, stateVars, callVars, cmdVars, cur, pos, dirty, snap,
                       histVars, ran, result>>
    BY <1>1 DEF TxSlot, Control
  <1>3. PICK s \in todo :
         /\ todo' = todo \ {s}
         /\ \E n \in SlotMasterNode(snap, s) :
              IF n = NoNode
                THEN /\ err' = SetCmdsErr(SlotCmds(s), "closed")
                     /\ UNCHANGED <<cmdsMap, pending, failedCmds, pc, attempt>>
                ELSE /\ BeginAttempt([NoCmds EXCEPT ![n] = SlotCmds(s)])
                     /\ attempt' = 0 /\ UNCHANGED err
    BY DEF TxSlot
  <1>4. PICK n \in SlotMasterNode(snap, s) :
              IF n = NoNode
                THEN /\ err' = SetCmdsErr(SlotCmds(s), "closed")
                     /\ UNCHANGED <<cmdsMap, pending, failedCmds, pc, attempt>>
                ELSE /\ BeginAttempt([NoCmds EXCEPT ![n] = SlotCmds(s)])
                     /\ attempt' = 0 /\ UNCHANGED err
    BY <1>3
  <1>5. NodeTypes' /\ s \in Slots /\ n \in Nodes \cup {NoNode}
    <2>1. s \in Slots
      BY <1>1 DEF CallTypes
    <2> QED BY <1>1, <1>2, <1>4, <2>1, Known DEF NodeTypes
  <1>6. /\ SlotCmds(s) \in Seq(Entries) /\ Once(SlotCmds(s))
        /\ Ent(SlotCmds(s)) = {i \in Cmds : slotOf[i] = s}
    BY SlotCmdsIs
  <1>7. Waiting = {} /\ Unanswered = {} /\ Reading = {}
    BY <1>2 DEF Waiting, Unanswered, Reading
  <1>8. ~metClosed => \A i \in Cmds : err[i] = "nil" => ran[i] > 0 \/ slotOf[i] \in todo
    BY <1>1, <1>2, <1>7 DEF NilInv, TxNil
  <1>9. CASE n = NoNode
    <2>1. /\ err' = SetCmdsErr(SlotCmds(s), "closed")
          /\ UNCHANGED <<cmdsMap, pending, failedCmds, pc, attempt>>
      BY <1>4, <1>9
    <2>2. Waiting' = {} /\ Unanswered' = {} /\ Reading' = {}
      BY <1>2, <2>1 DEF Waiting, Unanswered, Reading
    <2>3. /\ err' \in [Cmds -> Errs]
          /\ \A i \in Cmds : err'[i] = "nil" => err[i] = "nil" /\ i \notin Ent(SlotCmds(s))
      BY <1>1, <1>6, <2>1, SetErr DEF CallTypes, Errs
    <2>4. CallTypes'
      BY <1>1, <1>2, <1>3, <2>1, <2>3 DEF CallTypes
    <2>5. Control'
      BY <1>1, <1>2, <2>1 DEF Control
    <2>6. Places'
      BY <1>1, <1>2, <1>3, <2>1, <2>2 DEF Places
    <2>7. RunInv'
      <3>1. \A i \in Cmds : MayRun(i)' => MayRun(i)
        BY <1>2, <1>3, <2>1, <2>2 DEF MayRun
      <3> QED BY <1>1, <1>2, <3>1, RunKeeps
    <2>8. ~metClosed => TxNil'
      BY <1>2, <1>3, <1>6, <1>8, <2>3 DEF TxNil
    <2> QED BY <1>2, <1>5, <2>1, <2>4, <2>5, <2>6, <2>7, <2>8, GoesOn
  <1>10. CASE n # NoNode
    <2> DEFINE m == [NoCmds EXCEPT ![n] = SlotCmds(s)]
    <2>1. BeginAttempt(m) /\ attempt' = 0 /\ UNCHANGED err
      BY <1>4, <1>10
    <2>2. m \in [Nodes -> Seq(Entries)] /\ AllOf(m) = Ent(SlotCmds(s)) /\ Apart(m)
      BY <1>5, <1>6, <1>10, OneBatchIs
    <2> HIDE DEF m
    <2>3. Waiting' = AllOf(m) /\ pending' \subseteq Nodes /\ \A d \in pending' : m[d] # <<>>
      BY <2>1, <2>2, Begun
    <2>4. cmdsMap' = m /\ failedCmds' = NoCmds /\ pc' = "pipe" /\ Unanswered' = {} /\ Reading' = {}
      BY <2>1 DEF BeginAttempt, Unanswered, Reading
    <2>5. CallTypes'
      BY <1>1, <1>2, <1>3, <2>1, <2>2, <2>3, <2>4, NoCmdsIs DEF CallTypes
    <2>6. Control'
      BY <1>1, <1>2, <2>3, <2>4 DEF Control
    <2>7. Places'
      BY <1>2, <1>3, <1>6, <2>2, <2>3, <2>4, NoCmdsIs DEF Places
    <2>8. RunInv'
      <3>1. \A i \in Cmds : MayRun(i)' => MayRun(i)
        BY <1>2, <1>3, <1>6, <2>2, <2>3, <2>4, NoCmdsIs DEF MayRun
      <3> QED BY <1>1, <1>2, <3>1, RunKeeps
    <2>9. ~metClosed => TxNil'
      BY <1>2, <1>3, <1>6, <1>8, <2>1, <2>2, <2>3 DEF TxNil
    <2> QED BY <1>2, <1>5, <2>4, <2>5, <2>6, <2>7, <2>8, <2>9, GoesOn
  <1> QED BY <1>9, <1>10

LEMMA TxEndsInv == ASSUME ClusterInv, TxEnds PROVE ClusterInv'
  <1>1. CallTypes /\ Control /\ NilInv
    BY DEF ClusterInv
  <1>2. /\ pc = "slots" /\ kind = "tx" /\ todo = {} /\ pending = {}
        /\ pc' = "idle" /\ result' = FirstCmdsErr(err)
        /\ UNCHANGED <<serverVars, nodeVars, stateVars, callVars, cmdVars, pipeVars, txVars, histVars,
                       attempt, err, ran>>
    BY <1>1 DEF TxEnds, Return, Control
  <1>3. InCall = Cmds /\ InCall' = Cmds /\ Waiting = {} /\ Reading = {}
    BY <1>2 DEF InCall, Waiting, Reading
  <1>4. NilMeansRunOpen'
    <2> SUFFICES ASSUME result' = "nil", ~metClosed, NEW i \in Cmds PROVE ran[i] > 0
      BY <1>2, <1>3 DEF NilMeansRunOpen
    <2>1. err[i] = "nil"
      BY <1>1, <1>2, <1>3, FirstErr DEF CallTypes
    <2> QED BY <1>1, <1>2, <1>3, <2>1 DEF NilInv, TxNil
  <1>5. RedirectsConverge'
    BY <1>2 DEF RedirectsConverge
  <1>6. err' \in [Cmds -> Errs]
    BY <1>1, <1>2 DEF CallTypes
  <1> QED BY <1>2, <1>4, <1>5, <1>6, EndsInv

LEMMA TxQueuedInv == ASSUME ClusterInv, TxQueued PROVE ClusterInv'
  <1> DEFINE es == cmdsMap[cur]  e == es[pos + 1]
  <1>1. /\ ServerTypes /\ NodeTypes /\ CallTypes /\ Control /\ Places /\ RunInv /\ NilInv
    BY DEF ClusterInv
  <1>2. /\ kind = "tx" /\ pc = "read" /\ pos < Len(es) /\ pos' = pos + 1
        /\ UNCHANGED <<serverVars, view, callVars, cmdVars, cmdsMap, pending, cur, txVars, metClosed, pc,
                       attempt, err, ran, result>>
    BY DEF TxQueued
  <1>3. /\ cur \in Nodes /\ e \in Entries
        /\ {es[k] : k \in (pos + 2) .. Len(es)} \ {Asking} = Unanswered \ {e}
        /\ e # Asking => e \in Unanswered /\ e \in Cmds
    BY <1>1, <1>2, EntryIs
  <1>4. Waiting' = Waiting /\ Unanswered' = Unanswered \ {e} /\ Reading' = Reading
    <2>1. Waiting' = Waiting /\ Reading' = Reading
      BY <1>2 DEF Waiting, Reading
    <2>2. Unanswered' = {es[k] : k \in ((pos + 1) + 1) .. Len(es)} \ {Asking}
      BY <1>2 DEF Unanswered
    <2>3. (pos + 1) + 1 = pos + 2 /\ pos \in Nat
      BY <1>1 DEF CallTypes
    <2> QED BY <1>3, <2>1, <2>2, <2>3
  <1>5. /\ Waiting \subseteq AllOf(cmdsMap) /\ Reading \subseteq AllOf(cmdsMap)
        /\ Unanswered \subseteq Reading /\ Reading \cap Waiting = {}
    BY <1>1, Sets
  <1>6. /\ failedCmds \in [Nodes -> Seq(Entries)] /\ Apart(failedCmds) /\ trouble \in Nat
        /\ dirty \in BOOLEAN /\ Unanswered \cap AllOf(failedCmds) = {}
    BY <1>1 DEF CallTypes, Places
  <1> DEFINE F == AllOf(failedCmds') \ AllOf(failedCmds)
  <1> DEFINE Queued ==
               /\ NodeTypes' /\ trouble' \in Nat /\ (trouble' = 0 => trouble = 0)
               /\ failedCmds' \in [Nodes -> Seq(Entries)] /\ Apart(failedCmds') /\ dirty' \in BOOLEAN
               /\ F \subseteq {e} \cap Reading
               /\ ~dirty' => F = {} /\ ~dirty
  <1>7. Queued
    <2>1. ASSUME UNCHANGED <<nodeVars, failedCmds, trouble>>, dirty' \in BOOLEAN, ~dirty' => ~dirty
          PROVE  Queued
      <3>1. NodeTypes'
        BY <1>1, <1>2, <2>1 DEF NodeTypes
      <3>2. F = {}
        BY <2>1
      <3> HIDE DEF F, e, es
      <3> QED BY <1>6, <2>1, <3>1, <3>2
    <2>2. ASSUME e # Asking, NEW r \in Answers(Home(cur), e, FALSE), r.val \in {"moved", "ask"},
                 dirty' = TRUE, CheckMovedErr(r, Redirected(r, e))
          PROVE  Queued
      <3>1. r.to \in Addrs
        BY <1>1, <1>3, <2>2, AnswerIs
      <3>2. /\ NodeTypes'
            /\ \/ UNCHANGED failedCmds /\ trouble' = trouble + 1
               \/ /\ UNCHANGED trouble
                  /\ \E n \in Nodes : Home(n) = r.to /\ failedCmds' = [failedCmds EXCEPT ![n] = @ \o Redirected(r, e)]
        BY <1>1, <1>2, <2>2, <3>1, CheckedMoved
      <3>3. CASE UNCHANGED failedCmds /\ trouble' = trouble + 1
        <4>1. F = {}
          BY <3>3
        <4> HIDE DEF F, e, es
        <4> QED BY <1>6, <2>2, <3>2, <3>3, <4>1
      <3>4. ASSUME NEW n \in Nodes, failedCmds' = [failedCmds EXCEPT ![n] = @ \o Redirected(r, e)],
                   UNCHANGED trouble
            PROVE  Queued
        <4> DEFINE t == Redirected(r, e)
        <4>1. t \in Seq(Entries) /\ Ent(t) = {e} /\ Once(t) /\ e \in Reading
          BY <1>3, <1>5, <2>2, RedirectedIs
        <4>2. Ent(t) \cap AllOf(failedCmds) = {}
          BY <1>3, <1>6, <2>2, <4>1
        <4> HIDE DEF t, e, es
        <4>3. LET h == [failedCmds EXCEPT ![n] = @ \o t]
              IN  h \in [Nodes -> Seq(Entries)] /\ Apart(h) /\ AllOf(h) = AllOf(failedCmds) \cup Ent(t)
          BY <1>6, <4>1, <4>2, AddFailed
        <4>4. failedCmds' \in [Nodes -> Seq(Entries)] /\ Apart(failedCmds')
              /\ AllOf(failedCmds') = AllOf(failedCmds) \cup {e}
          BY <3>4, <4>1, <4>3 DEF t
        <4>5. F \subseteq {e} \cap Reading
          BY <4>1, <4>4
        <4> QED BY <1>6, <2>2, <3>2, <3>4, <4>4, <4>5
      <3> QED BY <3>2, <3>3, <3>4
    <2>3. CASE e = Asking /\ UNCHANGED <<nodeVars, reloading, failedCmds, trouble, dirty>>
      BY <1>6, <2>1, <2>3
    <2>4. ASSUME e # Asking, NEW r \in Answers(Home(cur), e, FALSE),
                 dirty' = (dirty \/ r.val = "error"), UNCHANGED <<nodeVars, reloading, failedCmds, trouble>>
          PROVE  Queued
      <3>1. dirty' \in BOOLEAN /\ (~dirty' => ~dirty)
        BY <1>6, <2>4
      <3> QED BY <2>1, <2>4, <3>1
    <2> QED BY <2>2, <2>3, <2>4 DEF TxQueued
  <1> HIDE DEF e, es
  <1>8. AllOf(failedCmds') \subseteq AllOf(failedCmds) \cup F
    OBVIOUS
  <1> HIDE DEF F
  <1>9. CallTypes'
    <2>1. pos' \in Nat
      BY <1>1, <1>2 DEF CallTypes
    <2> QED BY <1>1, <1>2, <1>7, <2>1 DEF CallTypes
  <1>10. Control'
    <2>1. pos + 1 <= Len(es)
      <3>1. es \in Seq(Entries) /\ pos \in Nat
        BY <1>1, <1>3 DEF CallTypes, es
      <3> QED BY <1>2, <3>1, SeqFun
    <2> QED BY <1>1, <1>2, <2>1 DEF Control, es
  <1>11. Places'
    <2>1. (Waiting' \cup Unanswered') \cap AllOf(failedCmds') = {}
      BY <1>1, <1>4, <1>5, <1>7, <1>8 DEF Places
    <2>2. kind' = "tx" /\ ~dirty' => Reading' \cap AllOf(failedCmds') = {}
      BY <1>1, <1>2, <1>4, <1>7, <1>8 DEF Places
    <2>3. AllOf(cmdsMap') \cup AllOf(failedCmds') \subseteq AllOf(cmdsMap) \cup AllOf(failedCmds)
      BY <1>2, <1>5, <1>7, <1>8
    <2> QED BY <1>1, <1>2, <1>7, <2>1, <2>2, <2>3 DEF Places
  <1>12. RunInv'
    <2>1. \A i \in Cmds : MayRun(i)' => MayRun(i)
      BY <1>2, <1>4, <1>7, <1>8 DEF MayRun
    <2> QED BY <1>1, <1>2, <1>7, <2>1, RunKeeps
  <1>13. ~metClosed => TxNil'
    BY <1>1, <1>2, <1>4 DEF NilInv, TxNil
  <1> QED BY <1>2, <1>7, <1>9, <1>10, <1>11, <1>12, <1>13, GoesOn

\* EXEC runs, or is redirected, only if nothing was refused or redirected while
\* the commands were queued.
LEMMA ExecIs ==
    ASSUME ClusterInv, kind = "tx", pc = "read"
    PROVE  /\ ExecAnswer.val \in {"ok", "moved", "ask"} => Reading \cap AllOf(failedCmds) = {}
           /\ ExecAnswer.val \in {"moved", "ask"} => ExecAnswer.to \in Addrs
  <1> DEFINE keys == EntriesOf(cmdsMap[cur]) \ {Asking}
             s == slotOf[CHOOSE i \in keys : TRUE]
  <1>1. ServerTypes /\ CallTypes /\ Control /\ Places
    BY DEF ClusterInv
  <1>2. Reading = keys
    BY DEF Reading, Ent
  <1>3. ExecAnswer = IF keys = {} THEN [val |-> "ok", to |-> NoAddr]
                     ELSE IF dirty THEN [val |-> "error", to |-> NoAddr]
                     ELSE IF owner[s] # Home(cur) THEN [val |-> "moved", to |-> owner[s]]
                     ELSE IF keys \subseteq gone THEN [val |-> "ask", to |-> importing[s]]
                     ELSE IF keys \cap gone # {} THEN [val |-> "error", to |-> NoAddr]
                     ELSE [val |-> "ok", to |-> NoAddr]
    BY DEF ExecAnswer
  <1>4. keys \subseteq Cmds
    BY <1>1, <1>2, Sets
  <1>5. keys # {} => (CHOOSE i \in keys : TRUE) \in keys
    OBVIOUS
  <1> DEFINE c == CHOOSE i \in keys : TRUE
  <1>6. keys # {} => /\ s = slotOf[c] /\ c \in Cmds /\ s \in Slots /\ owner[s] \in Addrs
                     /\ keys \subseteq gone => importing[s] \in Addrs
    <2> SUFFICES ASSUME keys # {}
                 PROVE  /\ s = slotOf[c] /\ c \in Cmds /\ s \in Slots /\ owner[s] \in Addrs
                        /\ keys \subseteq gone => importing[s] \in Addrs
      OBVIOUS
    <2>1. c \in keys /\ c \in Cmds /\ s = slotOf[c]
      BY <1>4, <1>5
    <2> HIDE DEF c, s, keys
    <2>2. s \in Slots
      BY <1>1, <2>1 DEF CallTypes
    <2> QED BY <1>1, <2>1, <2>2 DEF ServerTypes
  <1>7. kind = "tx" /\ ~dirty => Reading \cap AllOf(failedCmds) = {}
    BY <1>1 DEF Places
  <1> HIDE DEF keys, s, c
  <1>8. ExecAnswer.val \in {"ok", "moved", "ask"} => keys = {} \/ ~dirty
    BY <1>3
  <1>9. ExecAnswer.val \in {"moved", "ask"} => ExecAnswer.to \in Addrs
    BY <1>3, <1>6
  <1> QED BY <1>2, <1>7, <1>8, <1>9

\* The end of a batch of a transaction: what is left to show.
LEMMA TxBatchEnds ==
    ASSUME ClusterInv, kind = "tx", pc = "read", EndBatch, NodeTypes', trouble' \in Nat,
           trouble' = 0 => trouble = 0,
           UNCHANGED <<serverVars, view, callVars, cmdVars, cmdsMap, pending, txVars, metClosed, attempt,
                       result>>,
           failedCmds' \in [Nodes -> Seq(Entries)], Apart(failedCmds'),
           AllOf(failedCmds') \subseteq AllOf(failedCmds) \cup Reading,
           err' \in [Cmds -> Errs], ran' \in [Cmds -> Nat],
           \/ UNCHANGED ran
           \/ /\ Reading \cap AllOf(failedCmds') = {}
              /\ \A i \in Cmds : ran'[i] = IF i \in Reading THEN ran[i] + 1 ELSE ran[i],
           \A i \in Cmds : err'[i] = "nil" => IF i \in Reading THEN ran'[i] > 0 ELSE err[i] = "nil"
    PROVE  ClusterInv'
  <1>1. /\ ServerTypes /\ NodeTypes /\ CallTypes /\ Control /\ Places /\ RunInv /\ NilInv
    BY DEF ClusterInv
  <1>2. pc' = "pipe" /\ cur' = NoNode /\ pos' = 0 /\ dirty' = FALSE
    BY DEF EndBatch
  <1>3. Waiting' = Waiting /\ Unanswered' = {} /\ Reading' = {}
    BY <1>2 DEF Waiting, Unanswered, Reading
  <1>4. /\ Waiting \subseteq AllOf(cmdsMap) /\ Reading \subseteq AllOf(cmdsMap)
        /\ Reading \cap Waiting = {}
    BY <1>1, Sets
  <1>5. CallTypes'
    BY <1>1, <1>2 DEF CallTypes
  <1>6. Control'
    BY <1>1, <1>2 DEF Control
  <1>7. Places'
    <2>1. (Waiting' \cup Unanswered') \cap AllOf(failedCmds') = {}
      BY <1>1, <1>3, <1>4 DEF Places
    <2>2. AllOf(cmdsMap') \cup AllOf(failedCmds') \subseteq AllOf(cmdsMap) \cup AllOf(failedCmds)
      BY <1>4
    <2> QED BY <1>1, <1>3, <2>1, <2>2 DEF Places
  <1>8. RunInv'
    <2>1. \A i \in Cmds : MayRun(i)' => MayRun(i)
      BY <1>2, <1>3 DEF MayRun
    <2>2. ASSUME NEW i \in Cmds, i \in Reading, Reading \cap AllOf(failedCmds') = {}
          PROVE  MayRun(i) /\ ~MayRun(i)'
      <3>1. slotOf[i] \notin todo
        BY <1>1, <1>4, <2>2 DEF Places
      <3>2. i \notin Waiting' /\ i \notin Unanswered' /\ i \notin Reading' /\ i \notin AllOf(failedCmds')
        BY <1>3, <1>4, <2>2
      <3>3. ~MayRun(i)'
        BY <1>2, <3>1, <3>2 DEF MayRun
      <3> QED BY <2>2, <3>3 DEF MayRun
    <2>3. \A i \in Cmds : \/ ran'[i] = ran[i]
                          \/ ran'[i] = ran[i] + 1 /\ MayRun(i) /\ ~MayRun(i)'
      <3>1. CASE UNCHANGED ran
        BY <3>1
      <3>2. CASE /\ Reading \cap AllOf(failedCmds') = {}
                 /\ \A i \in Cmds : ran'[i] = IF i \in Reading THEN ran[i] + 1 ELSE ran[i]
        BY <2>2, <3>2
      <3> QED BY <3>1, <3>2
    <2> QED BY <1>1, <2>1, <2>3, RunKeeps
  <1>9. ~metClosed => TxNil'
    <2> SUFFICES ASSUME ~metClosed, NEW i \in Cmds, err'[i] = "nil"
                 PROVE  ran'[i] > 0 \/ slotOf[i] \in todo \/ i \in Waiting
      BY <1>3 DEF TxNil
    <2>1. TxNil
      BY <1>1 DEF NilInv
    <2>2. CASE i \in Reading
      BY <2>2
    <2>3. CASE i \notin Reading
      <3>1. err[i] = "nil"
        BY <2>3
      <3>2. ran[i] > 0 \/ slotOf[i] \in todo \/ i \in Waiting
        BY <2>1, <2>3, <3>1 DEF TxNil
      <3>3. ran'[i] = ran[i]
        BY <2>3
      <3> QED BY <3>2, <3>3
    <2> QED BY <2>2, <2>3
  <1> QED BY <1>2, <1>5, <1>6, <1>7, <1>8, <1>9, GoesOn

\* The commands that EXEC runs are those being read.
LEMMA RanBatch == ASSUME CallTypes, Control, pc = "read", Ran(EntriesOf(cmdsMap[cur]))
    PROVE  /\ ran' \in [Cmds -> Nat]
           /\ \A i \in Cmds : ran'[i] = IF i \in Reading THEN ran[i] + 1 ELSE ran[i]
           /\ \A i \in Reading \cap Cmds : ran'[i] > 0
  <1>1. /\ ran' \in [Cmds -> Nat]
        /\ \A i \in Cmds : ran'[i] = IF i \in EntriesOf(cmdsMap[cur]) THEN ran[i] + 1 ELSE ran[i]
    BY RanIs
  <1>2. \A i \in Cmds : i \in Reading <=> i \in EntriesOf(cmdsMap[cur])
    BY Numbers DEF Reading, Ent
  <1>3. \A i \in Cmds : ran'[i] = IF i \in Reading THEN ran[i] + 1 ELSE ran[i]
    BY <1>1, <1>2
  <1>4. \A i \in Cmds : ran[i] \in Nat
    BY DEF CallTypes
  <1> QED BY <1>1, <1>3, <1>4

LEMMA TxExecInv == ASSUME ClusterInv, TxExec PROVE ClusterInv'
  <1> DEFINE es == cmdsMap[cur]  r == ExecAnswer
  <1>1. /\ NodeTypes /\ CallTypes /\ Control /\ Places
    BY DEF ClusterInv
  <1>2. /\ kind = "tx" /\ pc = "read" /\ EndBatch
        /\ UNCHANGED <<serverVars, view, callVars, cmdVars, cmdsMap, pending, txVars, metClosed, attempt,
                       result>>
    BY DEF TxExec
  <1>3. /\ r.val \in {"ok", "moved", "ask"} => Reading \cap AllOf(failedCmds) = {}
        /\ r.val \in {"moved", "ask"} => r.to \in Addrs
    BY <1>2, ExecIs
  <1>4. /\ failedCmds \in [Nodes -> Seq(Entries)] /\ Apart(failedCmds) /\ err \in [Cmds -> Errs]
        /\ ran \in [Cmds -> Nat] /\ trouble \in Nat
        /\ es \in Seq(Entries) /\ Once(es) /\ Reading = Ent(es) /\ Reading \subseteq Cmds
    <2>1. cur \in Nodes
      BY <1>1, <1>2 DEF Control
    <2> QED BY <1>1, <1>2, <2>1, Sets DEF CallTypes, Places, Apart, Reading
  <1> HIDE DEF r
  <1>5. CASE /\ r.val = "ok"
             /\ Ran(EntriesOf(es)) /\ err' = [i \in Cmds |-> IF i \in EntriesOf(es) THEN "nil" ELSE err[i]]
             /\ UNCHANGED <<nodeVars, reloading, failedCmds, trouble>>
    <2>1. /\ ran' \in [Cmds -> Nat]
          /\ \A i \in Cmds : ran'[i] = IF i \in Reading THEN ran[i] + 1 ELSE ran[i]
          /\ \A i \in Reading \cap Cmds : ran'[i] > 0
      BY <1>1, <1>2, <1>5, RanBatch
    <2>2. \A i \in Cmds : i \in Reading <=> i \in EntriesOf(es)
      BY <1>4, Numbers DEF Ent
    <2>3. err' \in [Cmds -> Errs]
      BY <1>4, <1>5 DEF Errs
    <2>4. \A i \in Cmds : err'[i] = "nil" => IF i \in Reading THEN ran'[i] > 0 ELSE err[i] = "nil"
      BY <1>5, <2>1, <2>2
    <2>5. NodeTypes'
      BY <1>1, <1>2, <1>5 DEF NodeTypes
    <2>6. Reading \cap AllOf(failedCmds') = {} /\ failedCmds' = failedCmds /\ trouble' = trouble
      BY <1>3, <1>5
    <2> QED BY <1>2, <1>4, <2>1, <2>3, <2>4, <2>5, <2>6, TxBatchEnds
  <1>6. CASE /\ r.val = "error" /\ err' = SetCmdsErr(es, "redis")
             /\ UNCHANGED <<nodeVars, reloading, failedCmds, trouble, ran>>
    <2>1. /\ err' \in [Cmds -> Errs]
          /\ \A i \in Cmds : err'[i] = "nil" => IF i \in Reading THEN ran'[i] > 0 ELSE err[i] = "nil"
      BY <1>4, <1>6, SetErr DEF Errs
    <2>2. NodeTypes'
      BY <1>1, <1>2, <1>6 DEF NodeTypes
    <2>3. failedCmds' = failedCmds /\ trouble' = trouble /\ ran' = ran
      BY <1>6
    <2> QED BY <1>2, <1>4, <2>1, <2>2, <2>3, TxBatchEnds
  <1>7. CASE /\ r.val \in {"moved", "ask"} /\ err' = SetCmdsErr(es, r.val)
             /\ CheckMovedErr(r, AllRedirected(r, es))
             /\ UNCHANGED ran
    <2> DEFINE t == AllRedirected(r, es)
    <2>1. /\ err' \in [Cmds -> Errs]
          /\ \A i \in Cmds : err'[i] = "nil" => IF i \in Reading THEN ran'[i] > 0 ELSE err[i] = "nil"
      BY <1>4, <1>7, SetErr DEF Errs
    <2>2. /\ NodeTypes'
          /\ \/ UNCHANGED failedCmds /\ trouble' = trouble + 1
             \/ /\ UNCHANGED trouble
                /\ \E n \in Nodes : Home(n) = r.to /\ failedCmds' = [failedCmds EXCEPT ![n] = @ \o t]
      BY <1>1, <1>2, <1>3, <1>7, CheckedMoved
    <2>3. t \in Seq(Entries) /\ Ent(t) = Reading /\ Once(t)
      BY <1>4, AllRedirectedIs
    <2> HIDE DEF t
    <2>4. Ent(t) \cap AllOf(failedCmds) = {}
      BY <1>3, <1>7, <2>3
    <2>5. /\ trouble' \in Nat /\ (trouble' = 0 => trouble = 0)
          /\ failedCmds' \in [Nodes -> Seq(Entries)] /\ Apart(failedCmds')
          /\ AllOf(failedCmds') \subseteq AllOf(failedCmds) \cup Reading
      <3>1. CASE UNCHANGED failedCmds /\ trouble' = trouble + 1
        BY <1>4, <3>1
      <3>2. ASSUME NEW n \in Nodes, failedCmds' = [failedCmds EXCEPT ![n] = @ \o t]
            PROVE  /\ failedCmds' \in [Nodes -> Seq(Entries)] /\ Apart(failedCmds')
                   /\ AllOf(failedCmds') \subseteq AllOf(failedCmds) \cup Reading
        <4>1. LET h == [failedCmds EXCEPT ![n] = @ \o t]
              IN  h \in [Nodes -> Seq(Entries)] /\ Apart(h) /\ AllOf(h) = AllOf(failedCmds) \cup Ent(t)
          BY <1>4, <2>3, <2>4, AddFailed
        <4> QED BY <2>3, <3>2, <4>1
      <3> QED BY <1>4, <2>2, <3>1, <3>2
    <2>6. UNCHANGED ran
      BY <1>7
    <2> QED BY <1>2, <1>4, <2>1, <2>2, <2>5, <2>6, TxBatchEnds
  <1> QED BY <1>5, <1>6, <1>7 DEF TxExec, r

LEMMA TxLostInv == ASSUME ClusterInv, TxLost PROVE ClusterInv'
  <1> DEFINE es == cmdsMap[cur]
  <1>1. /\ NodeTypes /\ CallTypes /\ Control /\ Places
    BY DEF ClusterInv
  <1>2. /\ kind = "tx" /\ pc = "read" /\ EndBatch /\ trouble' = trouble + 1
        /\ UNCHANGED <<serverVars, nodeVars, stateVars, callVars, cmdVars, cmdsMap, failedCmds, pending,
                       txVars, metClosed, attempt, result>>
    BY DEF TxLost, Trouble
  <1>3. /\ failedCmds' \in [Nodes -> Seq(Entries)] /\ Apart(failedCmds') /\ err \in [Cmds -> Errs]
        /\ ran \in [Cmds -> Nat] /\ trouble' \in Nat /\ trouble' # 0
        /\ es \in Seq(Entries) /\ Reading = Ent(es) /\ Reading \subseteq Cmds
    <2>1. cur \in Nodes
      BY <1>1, <1>2 DEF Control
    <2> QED BY <1>1, <1>2, <2>1, Sets DEF CallTypes, Places, Reading
  <1>4. NodeTypes' /\ UNCHANGED view
    BY <1>1, <1>2 DEF NodeTypes
  <1>5. ASSUME ExecAnswer.val = "ok", Ran(EntriesOf(es))
        PROVE  /\ ran' \in [Cmds -> Nat] /\ Reading \cap AllOf(failedCmds') = {}
               /\ \A i \in Cmds : ran'[i] = IF i \in Reading THEN ran[i] + 1 ELSE ran[i]
               /\ \A i \in Reading \cap Cmds : ran'[i] > 0
    <2>1. Reading \cap AllOf(failedCmds') = {}
      BY <1>2, <1>5, ExecIs
    <2> QED BY <1>1, <1>2, <1>5, <2>1, RanBatch
  <1>6. CASE /\ err' = SetCmdsErr(es, "net")
             /\ UNCHANGED ran \/ (ExecAnswer.val = "ok" /\ Ran(EntriesOf(es)))
    <2>1. /\ err' \in [Cmds -> Errs]
          /\ \A i \in Cmds : err'[i] = "nil" => IF i \in Reading THEN ran'[i] > 0 ELSE err[i] = "nil"
      BY <1>3, <1>6, SetErr DEF Errs
    <2>2. CASE UNCHANGED ran
      BY <1>2, <1>3, <1>4, <2>1, <2>2, TxBatchEnds
    <2>3. CASE ExecAnswer.val = "ok" /\ Ran(EntriesOf(es))
      BY <1>2, <1>3, <1>4, <1>5, <2>1, <2>3, TxBatchEnds
    <2> QED BY <1>6, <2>2, <2>3
  <1>7. ASSUME ExecAnswer.val = "ok", Ran(EntriesOf(es)), NEW k \in DOMAIN es,
               err' = [i \in Cmds |-> IF i = es[k] THEN "net"
                                      ELSE IF i \in EntriesOf(SubSeq(es, 1, k - 1)) THEN "nil"
                                      ELSE err[i]]
        PROVE  ClusterInv'
    <2>1. err' \in [Cmds -> Errs]
      BY <1>3, <1>7 DEF Errs
    <2>2. ASSUME NEW x \in EntriesOf(SubSeq(es, 1, k - 1)) PROVE x \in EntriesOf(es)
      <3>1. Len(es) \in Nat /\ DOMAIN es = 1 .. Len(es) /\ k \in 1 .. Len(es)
        BY <1>3, <1>7, SeqFun
      <3>2. \A j \in DOMAIN SubSeq(es, 1, k - 1) : j \in DOMAIN es /\ SubSeq(es, 1, k - 1)[j] = es[j]
        BY <1>3, <3>1
      <3> QED BY <2>2, <3>2 DEF EntriesOf
    <2>3. \A i \in Cmds : i \in EntriesOf(es) => i \in Reading
      BY <1>3, Numbers DEF Ent
    <2>4. \A i \in Cmds : err'[i] = "nil" => IF i \in Reading THEN ran'[i] > 0 ELSE err[i] = "nil"
      <3> TAKE i \in Cmds
      <3>1. CASE i \in Reading
        BY <1>5, <1>7, <3>1
      <3>2. CASE i \notin Reading
        <4>1. i \notin EntriesOf(SubSeq(es, 1, k - 1)) /\ i # es[k]
          <5>1. i \notin EntriesOf(es)
            BY <2>3, <3>2
          <5> QED BY <1>7, <2>2, <5>1 DEF EntriesOf
        <4> QED BY <1>7, <3>2, <4>1
      <3> QED BY <3>1, <3>2
    <2> QED BY <1>2, <1>3, <1>4, <1>5, <1>7, <2>1, <2>4, TxBatchEnds
  <1> QED BY <1>6, <1>7 DEF TxLost

-----------------------------------------------------------------------------
(* The invariant, and what follows from it.                                *)

LEMMA InitInv == Init => ClusterInv
  <1> SUFFICES ASSUME Init PROVE ClusterInv
    OBVIOUS
  <1>1. /\ owner \in [Slots -> Addrs] /\ importing = [s \in Slots |-> NoAddr]
        /\ gone = {} /\ moves = 0 /\ made = [a \in Addrs |-> 1]
        /\ kind \in Kinds /\ slotOf \in [Cmds -> Slots]
        /\ pc = "start" /\ attempt = 0 /\ result = "none"
        /\ err = [i \in Cmds |-> "nil"] /\ ran = [i \in Cmds |-> 0]
        /\ node = NoNode /\ ask = FALSE
        /\ cmdsMap = NoCmds /\ failedCmds = NoCmds /\ pending = {}
        /\ pos = 0 /\ dirty = FALSE
        /\ snap = [s \in Slots |-> NoNode] /\ todo = {}
        /\ trouble = 0 /\ metClosed = FALSE
    BY DEF Init
  <1>2. PICK f \in [Covered -> Addrs] :
           view = [s \in Slots |-> IF s \in Covered THEN <<f[s], 1>> ELSE NoNode]
    BY DEF Init
  <1>3. ServerTypes
    BY <1>1 DEF ServerTypes
  <1>4. NodeTypes
    <2>1. 1 \in 1 .. MaxNodes
      BY Numbers
    <2>2. view \in [Slots -> Nodes \cup {NoNode}]
      BY <1>2, <2>1 DEF Nodes
    <2> QED BY <1>1, <2>1, <2>2 DEF NodeTypes
  <1>5. CallTypes
    <2>1. kind \in {"cmd", "pipe", "tx"}
      BY <1>1, ClusterCmdsAssumption
    <2> QED BY <1>1, <2>1, NoCmdsIs DEF CallTypes, Errs
  <1>6. Control
    BY <1>1 DEF Control
  <1>7. Waiting = {} /\ Unanswered = {} /\ Reading = {}
    BY <1>1 DEF Waiting, Unanswered, Reading
  <1>8. Places
    BY <1>1, <1>7, NoCmdsIs DEF Places
  <1>9. RunInv
    BY <1>1 DEF RunInv
  <1>10. NilInv /\ NilMeansRunOpen /\ RedirectsConverge
    BY <1>1 DEF NilInv, NilMeansRunOpen, RedirectsConverge
  <1>11. RedirectInv
    <2>1. attempt + Left(1, node, ask) <= moves + 1
      BY <1>1, <1>3, <1>5, Numbers, LeftBound, LeftNat
    <2> QED BY <1>1, <2>1 DEF RedirectInv, CmdFits
  <1> QED BY <1>3, <1>4, <1>5, <1>6, <1>8, <1>9, <1>10, <1>11 DEF ClusterInv

LEMMA StutterInv == ASSUME ClusterInv, UNCHANGED vars PROVE ClusterInv'
  <1>1. UNCHANGED <<owner, importing, gone, moves, made, view, kind, slotOf, node, ask, cmdsMap, failedCmds,
                    pending, cur, pos, dirty, snap, todo, trouble, metClosed, pc, attempt, err, ran, result>>
    BY DEF vars
  <1>2. UNCHANGED <<Waiting, Reading, Unanswered>>
    BY <1>1 DEF Waiting, Reading, Unanswered
  <1>3. ServerTypes' /\ NodeTypes' /\ CallTypes' /\ Control'
    BY <1>1 DEF ClusterInv, ServerTypes, NodeTypes, CallTypes, Control
  <1>4. Places' /\ RunInv' /\ NilInv'
    BY <1>1, <1>2 DEF ClusterInv, Places, RunInv, MayRun, NilInv, PipeNil, TxNil, GivenUp
  <1>5. NilMeansRunOpen' /\ RedirectsConverge'
    BY <1>1 DEF ClusterInv, NilMeansRunOpen, RedirectsConverge, InCall
  <1>6. RedirectInv'
    <2>1. CmdFits => CmdFits'
      BY <1>1 DEF CmdFits, Left
    <2>2. ASSUME PipeFits PROVE PipeFits'
      BY <1>1, <1>2, <2>2, FitsNext DEF PipeFits
    <2> QED BY <1>1, <2>1, <2>2 DEF ClusterInv, RedirectInv
  <1> QED BY <1>3, <1>4, <1>5, <1>6 DEF ClusterInv

LEMMA NextInv == ClusterInv /\ [Next]_vars => ClusterInv'
  <1> SUFFICES ASSUME ClusterInv, [Next]_vars PROVE ClusterInv'
    OBVIOUS
  <1>1. CASE CmdNode \/ CmdClosed \/ CmdTrouble \/ CmdReply \/ CmdRedirect
    BY <1>1, CmdNodeInv, CmdClosedInv, CmdTroubleInv, CmdReplyInv, CmdRedirectInv
  <1>2. CASE BeginPipe \/ BeginTx \/ TxSlot \/ TxEnds \/ EndAttempt
    BY <1>2, BeginPipeInv, BeginTxInv, TxSlotInv, TxEndsInv, EndAttemptInv
  <1>3. CASE ReadReply \/ ReadLost \/ TxQueued \/ TxExec \/ TxLost
    BY <1>3, ReadReplyInv, ReadLostInv, TxQueuedInv, TxExecInv, TxLostInv
  <1>4. CASE \E n \in Nodes : BatchClosed(n) \/ BatchUndelivered(n) \/ BatchWritten(n)
    BY <1>4, BatchClosedInv, BatchUndeliveredInv, BatchWrittenInv
  <1>5. CASE pc # "idle" /\ Around
    BY <1>5, StartMigrationInv, FinishMigrationInv, OtherInv DEF Around
  <1>6. CASE UNCHANGED vars
    BY <1>6, StutterInv
  <1> QED BY <1>1, <1>2, <1>3, <1>4, <1>5, <1>6 DEF Next, CallStep

\* Where the commands of a call are, and what their errors mean, at every step
\* of cluster.go's defaultProcess, defaultProcessPipeline and
\* defaultProcessTxPipeline.
THEOREM SpecInv == Spec => []ClusterInv
  BY InitInv, NextInv, PTL DEF Spec

\* A call that returns no error has run every command of it, whatever was
\* redirected, lost or collected under it, unless a pipeline met a closed node.
THEOREM SpecNilMeansRunOpen == Spec => []NilMeansRunOpen
  <1>1. ClusterInv => NilMeansRunOpen
    BY DEF ClusterInv
  <1> QED BY <1>1, SpecInv, PTL

\* Redirections and remapping never run a command twice.
THEOREM SpecRunsOnce == Spec => []RunsOnce
  <1>1. ClusterInv => RunsOnce
    <2>1. InCall \subseteq Cmds
      BY Numbers DEF InCall
    <2> QED BY <2>1 DEF ClusterInv, RunInv, RunsOnce
  <1> QED BY <1>1, SpecInv, PTL

\* A transaction is never run twice, network error or not.
THEOREM SpecTxRunsOnce == Spec => []TxRunsOnce
  <1>1. ClusterInv => TxRunsOnce
    <2>1. InCall \subseteq Cmds
      BY Numbers DEF InCall
    <2> QED BY <2>1 DEF ClusterInv, RunInv, TxRunsOnce
  <1> QED BY <1>1, SpecInv, PTL

\* A call that nothing but migrations disturbs gives up on a redirection only
\* after as many migrations as it may be redirected (MaxRedirects).
THEOREM SpecRedirectsConverge == Spec => []RedirectsConverge
  <1>1. ClusterInv => RedirectsConverge
    BY DEF ClusterInv
  <1> QED BY <1>1, SpecInv, PTL
=============================================================================
