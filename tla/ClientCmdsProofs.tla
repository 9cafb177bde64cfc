------------------------- MODULE ClientCmdsProofs -------------------------
(***************************************************************************)
(* Every reply is read by the attempt that asked for it, commands run as   *)
(* often as the retries allow, and no error means that all of them ran:    *)
(* for any number of users, connections and retries and for batches of any *)
(* length, as long as the server does not refuse MULTI.                    *)
(*                                                                         *)
(* A connection is lent to one user and goes back only when nothing is     *)
(* under way on it, so what is under way on a connection belongs to one    *)
(* attempt.  The invariant places it: how many replies the attempt has     *)
(* read, how many wait and which requests are left add up to the attempt's *)
(* requests.  What a dropped connection still delivers is counted by the   *)
(* attempt it belongs to.                                                  *)
(***************************************************************************)
EXTENDS ClientCmds, SequenceTheorems, FiniteSetTheorems, TLAPS

Errs == {"nil", "net", "pool", "bad", "redis", "txfailed"}
Vals == {"ok", "error", "loading", "queued", "array", "nil"}
Ids == Users \X Nat \X Nat
Request == [id : Ids, what : Nat]
Answer == [id : Ids, val : Vals]

TypeOK ==
    /\ idle \subseteq open /\ open \subseteq Conns
    /\ req \in [Conns -> Seq(Request)] /\ rep \in [Conns -> Seq(Answer)]
    /\ multi \in [Conns -> Seq(Nat)]
    /\ execs \in [Users -> [1 .. Batch -> Nat]]
    /\ pc \in [Users -> {"idle", "get", "write", "read"}]
    /\ calls \in [Users -> Nat] /\ attempt \in [Users -> 0 .. MaxRetries]
    /\ DOMAIN kind = Users
    /\ \A u \in Users : pc[u] # "idle" => kind[u] \in {"cmd", "blocking", "pipe", "tx"}
    /\ cn \in [Users -> Conns \cup {NoConn}] /\ pos \in [Users -> Nat]
    /\ err \in [Users -> [1 .. Batch -> Errs]]
    /\ result \in [Users -> Errs \cup {"none"}]
    /\ mixed \in BOOLEAN

-----------------------------------------------------------------------------
\* Who has which connection.
Lent ==
    /\ \A u \in Users : pc[u] \in {"write", "read"} <=> cn[u] # NoConn
    /\ \A u \in Users : cn[u] # NoConn => cn[u] \in open \ idle
    /\ \A u, v \in Users : cn[u] = cn[v] /\ cn[u] # NoConn => u = v

Clean(c) == req[c] = <<>> /\ rep[c] = <<>> /\ multi[c] = <<>>
Ready ==
    /\ \A c \in idle : Clean(c)
    /\ \A u \in Users : pc[u] = "write" => Clean(cn[u]) /\ pos[u] = 0

\* The requests left on a connection are consecutive ones of one attempt.
Id(u) == <<u, calls[u], attempt[u]>>
Row(c) ==
    \A k \in 1 .. Len(req[c]) :
        req[c][k] = [id |-> req[c][1].id, what |-> req[c][1].what + (k - 1)]

\* The attempt was made, and if it is one of the user's current call it is not
\* one that is still to be written.
Asked(c) ==
    LET id == req[c][1].id IN
    req[c] # <<>> =>
        /\ id[2] <= calls[id[1]]
        /\ id[2] = calls[id[1]] =>
              id[3] < attempt[id[1]] \/ (id[3] = attempt[id[1]] /\ pc[id[1]] \in {"idle", "read"})

\* No attempt has requests on two connections.
OneHome ==
    /\ \A c, d \in Conns : req[c] # <<>> /\ req[d] # <<>> /\ req[c][1].id = req[d][1].id => c = d
    /\ \A u \in Users, c \in Conns :
          pc[u] = "read" /\ req[c] # <<>> /\ req[c][1].id = Id(u) => c = cn[u]

\* What is left of an attempt of u's current call, in and out of a transaction.
Of(c, u) == req[c] # <<>> /\ req[c][1].id[1] = u /\ req[c][1].id[2] = calls[u]
Queue(c) ==
    LET w == req[c][1].what IN
    \A u \in Users : Of(c, u) =>
        IF kind[u] = "tx"
        THEN /\ w + Len(req[c]) <= Batch + 2
             /\ Len(multi[c]) = w /\ \A k \in 2 .. w : multi[c][k] = k - 1
        ELSE multi[c] = <<>> /\ w >= 1 /\ w + Len(req[c]) <= Size(kind[u]) + 1

\* A transaction or a blocking command that may yet run has not run and is of
\* the last attempt.
Runs(c, u) ==
    Of(c, u) /\ \/ kind[u] = "blocking"
                \/ kind[u] = "tx" /\ req[c][1].what + Len(req[c]) = Batch + 2
Once(c) ==
    \A u \in Users : Runs(c, u) =>
        /\ req[c][1].id[3] = attempt[u] /\ pc[u] \in {"idle", "read"}
        /\ \A i \in 1 .. Batch : execs[u][i] = 0

ConnInv(c) == Row(c) /\ Asked(c) /\ Queue(c) /\ Once(c)

-----------------------------------------------------------------------------
\* How many replies the server has given to the attempt that u is reading.
Served(u) == pos[u] + Len(rep[cn[u]])

\* Where the attempt is: its replies are its own, and what is left follows them.
Stream(u) ==
    LET c == cn[u]
        n == Size(kind[u])
    IN  /\ \A k \in 1 .. Len(rep[c]) : rep[c][k].id = Id(u)
        /\ req[c] # <<>> => req[c][1].id = Id(u)
        /\ IF kind[u] = "tx"
           THEN /\ pos[u] < 2 * n + 2
                /\ pos[u] = 0 /\ rep[c] # <<>> => rep[c][1].val = "ok"
                /\ \/ /\ Served(u) <= n + 1 /\ Len(req[c]) = n + 2 - Served(u)
                      /\ req[c][1].what = Served(u)
                   \/ /\ Served(u) = n + 2 /\ req[c] = <<>> /\ multi[c] = <<>>
                      /\ pos[u] <= n + 1 /\ rep[c][n + 2 - pos[u]].val = "nil"
                   \/ /\ Served(u) = 2 * n + 2 /\ req[c] = <<>> /\ multi[c] = <<>>
                      /\ pos[u] <= n + 1 => rep[c][n + 2 - pos[u]].val = "array"
                      /\ \A i \in 1 .. n : execs[u][i] > 0
           ELSE /\ pos[u] < n /\ Served(u) + Len(req[c]) = n
                /\ req[c] # <<>> => req[c][1].what = Served(u) + 1
                /\ multi[c] = <<>>
                /\ kind[u] # "pipe" => pos[u] = 0
                /\ \A k \in 1 .. Len(rep[c]) : rep[c][k].val \in {"ok", "error", "loading"}
                /\ \A k \in 1 .. Len(rep[c]) :
                      rep[c][k].val = "ok" => execs[u][pos[u] + k] > 0
                /\ kind[u] = "blocking" /\ rep[c] # <<>> /\ rep[c][1].val = "loading" =>
                      \A i \in 1 .. Batch : execs[u][i] = 0
                /\ \A i \in 1 .. pos[u] : err[u][i] = "nil" => execs[u][i] > 0

\* The attempts of the current call that may still run command i.
Left(u, i) ==
    {a \in 0 .. attempt[u] : \E c \in Conns : \E k \in 1 .. Len(req[c]) :
        req[c][k] = [id |-> <<u, calls[u], a>>, what |-> i]}
Made(u) == attempt[u] + (IF pc[u] \in {"get", "write"} THEN 0 ELSE 1)

Count(u) ==
    \A i \in 1 .. Batch :
        IF kind[u] \in {"tx", "blocking"}
        THEN execs[u][i] <= 1 /\ (pc[u] \in {"get", "write"} => execs[u][i] = 0)
        ELSE execs[u][i] + Cardinality(Left(u, i)) <= Made(u)

UserInv(u) == (pc[u] = "read" => Stream(u)) /\ Count(u)

ClientInv ==
    /\ TypeOK /\ Lent /\ Ready /\ OneHome
    /\ \A c \in Conns : ConnInv(c)
    /\ \A u \in Users : UserInv(u)
    /\ OwnReplies /\ NoErrorMeansRun

-----------------------------------------------------------------------------
(* Sequences.                                                              *)

LEMMA FunSeq == ASSUME NEW S, NEW n \in Nat, NEW f \in [1 .. n -> S]
                PROVE  f \in Seq(S) /\ Len(f) = n
  <1>1. f \in Seq(S)
    BY SeqDef
  <1>2. Len(f) \in Nat /\ DOMAIN f = 1 .. Len(f)
    BY <1>1, LenProperties
  <1>3. 1 .. Len(f) = 1 .. n
    BY <1>2
  <1> QED BY <1>1, <1>2, <1>3

LEMMA Cut == ASSUME NEW S, NEW s \in Seq(S), s # <<>>
    PROVE  /\ Len(s) \in Nat /\ Len(s) >= 1 /\ Head(s) = s[1] /\ s[1] \in S
           /\ Tail(s) \in Seq(S) /\ Len(Tail(s)) = Len(s) - 1
           /\ \A k \in 1 .. (Len(s) - 1) : Tail(s)[k] = s[k + 1]
  <1>1. Len(s) \in Nat /\ Len(s) >= 1
    BY EmptySeq
  <1>2. s[1] \in S /\ Head(s) = s[1]
    BY <1>1, ElementOfSeq
  <1>3. Tail(s) \in Seq(S) /\ Len(Tail(s)) = Len(s) - 1
    BY <1>1, HeadTailProperties
  <1>4. \A k \in 1 .. (Len(s) - 1) : Tail(s)[k] = s[k + 1]
    BY <1>1, HeadTailProperties
  <1> QED BY <1>1, <1>2, <1>3, <1>4

LEMMA Empty == ASSUME NEW S, NEW s \in Seq(S) PROVE Len(s) \in Nat /\ (s = <<>> <=> Len(s) = 0)
  BY EmptySeq, LenProperties

LEMMA CatLen == ASSUME NEW S, NEW s \in Seq(S), NEW t \in Seq(S)
    PROVE  s \o t \in Seq(S) /\ Len(s \o t) = Len(s) + Len(t)
  BY ConcatProperties

LEMMA CatLeft == ASSUME NEW S, NEW s \in Seq(S), NEW t \in Seq(S), NEW k \in 1 .. Len(s)
    PROVE  (s \o t)[k] = s[k]
  BY ConcatProperties, LenProperties

LEMMA CatRight == ASSUME NEW S, NEW s \in Seq(S), NEW t \in Seq(S), NEW k \in 1 .. Len(t)
    PROVE  (s \o t)[Len(s) + k] = t[k]
  BY ConcatProperties, LenProperties

LEMMA Prefix == ASSUME NEW S, NEW s \in Seq(S), NEW k \in 0 .. Len(s)
    PROVE  /\ SubSeq(s, 1, k) \in Seq(S) /\ Len(SubSeq(s, 1, k)) = k
           /\ \A j \in 1 .. k : SubSeq(s, 1, k)[j] = s[j]
  <1>1. Len(s) \in Nat
    BY LenProperties
  <1>2. \A i \in 1 .. k : s[i] \in S
    BY <1>1, ElementOfSeq
  <1>3. /\ SubSeq(s, 1, k) \in Seq(S)
        /\ Len(SubSeq(s, 1, k)) = IF 1 <= k THEN k - 1 + 1 ELSE 0
        /\ \A i \in 1 .. k - 1 + 1 : SubSeq(s, 1, k)[i] = s[1 + i - 1]
    BY <1>1, <1>2, SubSeqProperties
  <1> QED BY <1>1, <1>3

-----------------------------------------------------------------------------
(* Errors.                                                                 *)

\* The first of them exists.
LEMMA LeastIndex == ASSUME NEW T \in SUBSET Nat, T # {}
                    PROVE  \E i \in T : \A j \in T : i <= j
  <1> DEFINE U == {1 .. i : i \in T}
             R == StrictSubsetOrdering(Nat)
  <1>1. U \subseteq FiniteSubsetsOf(Nat)
    <2>1. ASSUME NEW i \in T PROVE IsFiniteSet(1 .. i)
      BY FS_Interval
    <2>2. ASSUME NEW i \in T PROVE 1 .. i \subseteq Nat
      OBVIOUS
    <2>3. ASSUME NEW i \in T PROVE 1 .. i \in FiniteSubsetsOf(Nat)
      BY <2>1, <2>2, Zenon DEF FiniteSubsetsOf
    <2> QED BY <2>3
  <1>2. \E x \in U : \A y \in U : ~(<<y, x>> \in R)
    <2>1. U # {}
      OBVIOUS
    <2>2. IsWellFoundedOn(R, FiniteSubsetsOf(Nat))
      BY FS_StrictSubsetOrderingWellFounded
    <2> HIDE DEF U, R
    <2> QED BY <1>1, <2>1, <2>2, WFMin
  <1>3. PICK i \in T : \A j \in T : ~(<<1 .. j, 1 .. i>> \in R)
    BY <1>2
  <1>4. ASSUME NEW j \in T, j < i PROVE <<1 .. j, 1 .. i>> \in R
    BY <1>4 DEF StrictSubsetOrdering
  <1>5. \A j \in T : ~(j < i)
    BY <1>3, <1>4
  <1>6. T \subseteq Nat
    OBVIOUS
  <1> HIDE DEF U, R
  <1> QED BY <1>5, <1>6

LEMMA FirstErr == ASSUME NEW f \in [1 .. Batch -> Errs]
    PROVE  /\ FirstCmdsErr(f) \in Errs
           /\ FirstCmdsErr(f) = "nil" => \A i \in 1 .. Batch : f[i] = "nil"
  <1> SUFFICES ASSUME NEW k \in 1 .. Batch, f[k] # "nil"
               PROVE  FirstCmdsErr(f) \in Errs \ {"nil"}
    BY DEF FirstCmdsErr, Errs
  <1>0. Batch \in Nat
    BY ClientAssumption
  <1> DEFINE T == {i \in 1 .. Batch : f[i] # "nil"}
             F(i) == f[i] # "nil" /\ \A j \in 1 .. (i - 1) : f[j] = "nil"
  <1>1. \E i \in 1 .. Batch : F(i)
    <2>1. T \in SUBSET Nat /\ T # {}
      BY <1>0
    <2>2. \E i \in T : \A j \in T : i <= j
      <3> HIDE DEF T
      <3> QED BY <2>1, LeastIndex
    <2>3. PICK i \in T : \A j \in T : i <= j
      BY <2>2
    <2> QED BY <1>0, <2>3
  <1>2. FirstCmdsErr(f) = f[CHOOSE i \in 1 .. Batch : F(i)]
    BY DEF FirstCmdsErr
  <1> DEFINE m == CHOOSE i \in 1 .. Batch : F(i)
  <1>3. m \in 1 .. Batch /\ F(m)
    BY <1>1
  <1> HIDE DEF m
  <1> QED BY <1>2, <1>3 DEF m

-----------------------------------------------------------------------------
(* What an attempt writes.                                                 *)

LEMMA Numbers == /\ Batch \in Nat /\ Batch >= 1 /\ MaxRetries \in Nat /\ NoConn \notin Conns
                 /\ \A k : Size(k) \in 1 .. Batch /\ (k = "tx" => Size(k) = Batch)
                           /\ (k \notin {"tx", "pipe"} => Size(k) = 1)
  BY ClientAssumption DEF Size

LEMMA Numbered ==
    ASSUME NEW m \in Seq(Nat), NEW t \in Seq(Nat), NEW e \in Seq(Nat),
           NEW n \in Nat, NEW q, q = (m \o t) \o e
    PROVE  /\ Len(m) = 1 /\ m[1] = 0 /\ Len(e) = 1 /\ e[1] = n + 1
           /\ Len(t) = n /\ \A k \in 1 .. n : t[k] = k
           => q \in Seq(Nat) /\ Len(q) = n + 2 /\ \A k \in 1 .. (n + 2) : q[k] = k - 1
  <1>0. PICK p : p = m \o t
    OBVIOUS
  <1>1. p \in Seq(Nat) /\ Len(p) = Len(m) + Len(t)
    BY <1>0, CatLen, Zenon
  <1>2. \A k \in 1 .. Len(m) : p[k] = m[k]
    BY <1>0, CatLeft, Zenon
  <1>3. \A k \in 1 .. Len(t) : p[Len(m) + k] = t[k]
    BY <1>0, CatRight, Zenon
  <1>4. q \in Seq(Nat) /\ Len(q) = Len(p) + Len(e)
    BY <1>0, <1>1, CatLen, Zenon
  <1>5. \A k \in 1 .. Len(p) : q[k] = p[k]
    BY <1>0, <1>1, CatLeft, Zenon
  <1>6. \A k \in 1 .. Len(e) : q[Len(p) + k] = e[k]
    BY <1>0, <1>1, CatRight, Zenon
  <1> SUFFICES ASSUME Len(m) = 1, m[1] = 0, Len(e) = 1, e[1] = n + 1,
                      Len(t) = n, \A k \in 1 .. n : t[k] = k, NEW k \in 1 .. (n + 2)
               PROVE  q[k] = k - 1
    BY <1>1, <1>4, SMTT(60)
  <1>7. CASE k = 1
    BY <1>1, <1>2, <1>5, <1>7
  <1>8. CASE k \in 2 .. (n + 1)
    <2>1. k - 1 \in 1 .. Len(t) /\ k = Len(m) + (k - 1) /\ k \in 1 .. Len(p)
      BY <1>1, <1>8
    <2> QED BY <1>3, <1>5, <2>1
  <1>9. CASE k = n + 2
    <2>1. 1 \in 1 .. Len(e) /\ k = Len(p) + 1
      BY <1>1, <1>9
    <2>2. q[Len(p) + 1] = e[1]
      BY <1>6, <2>1
    <2> QED BY <1>9, <2>1, <2>2, SMTT(60)
  <1>10. k = 1 \/ k \in 2 .. (n + 1) \/ k = n + 2
    OBVIOUS
  <1> QED BY <1>7, <1>8, <1>9, <1>10

LEMMA RequestsOf ==
    ASSUME TypeOK, NEW u \in Users, pc[u] # "idle"
    PROVE  LET n == IF kind[u] = "tx" THEN Batch + 2 ELSE Size(kind[u])
               w(k) == IF kind[u] = "tx" THEN k - 1 ELSE k
           IN  /\ Requests(u) \in Seq(Request) /\ Len(Requests(u)) = n
               /\ \A k \in 1 .. n : Requests(u)[k] = [id |-> Id(u), what |-> w(k)]
  <1> DEFINE s == Size(kind[u])
             id == <<u, calls[u], attempt[u]>>
             nums == [i \in 1 .. s |-> i]
             what == IF kind[u] = "tx" THEN <<Multi>> \o nums \o <<Exec>> ELSE nums
             n == IF kind[u] = "tx" THEN Batch + 2 ELSE s
             w(k) == IF kind[u] = "tx" THEN k - 1 ELSE k
  <1>1. s \in 1 .. Batch /\ (kind[u] = "tx" => s = Batch) /\ Batch \in Nat /\ n \in Nat
    BY Numbers
  <1>2. id \in Ids
    BY Numbers DEF TypeOK, Ids
  <1>3. nums \in Seq(Nat) /\ Len(nums) = s
    BY <1>1, FunSeq
  <1>4. what \in Seq(Nat) /\ Len(what) = n /\ \A k \in 1 .. n : what[k] = w(k)
    <2>1. CASE kind[u] # "tx"
      BY <1>1, <1>3, <2>1
    <2>2. CASE kind[u] = "tx"
      <3>1. PICK m \in Seq(Nat) : m = <<Multi>> /\ Len(m) = 1 /\ m[1] = 0
        <4>1. <<Multi>> \in Seq(Nat) /\ Len(<<Multi>>) = 1 /\ <<Multi>>[1] = 0
          BY DEF Multi
        <4> QED BY <4>1
      <3>2. PICK e \in Seq(Nat) : e = <<Exec>> /\ Len(e) = 1 /\ e[1] = Batch + 1
        <4>1. <<Exec>> \in Seq(Nat) /\ Len(<<Exec>>) = 1 /\ <<Exec>>[1] = Batch + 1
          BY <1>1 DEF Exec
        <4> QED BY <4>1
      <3>3. PICK t \in Seq(Nat) : t = nums /\ Len(t) = Batch /\ \A k \in 1 .. Batch : t[k] = k
        BY <1>1, <1>3, <2>2
      <3>4. what = (m \o t) \o e
        BY <2>2, <3>1, <3>2, <3>3
      <3> HIDE DEF what
      <3>5. /\ what \in Seq(Nat) /\ Len(what) = Batch + 2
            /\ \A k \in 1 .. (Batch + 2) : what[k] = k - 1
        BY <1>1, <3>1, <3>2, <3>3, <3>4, Numbered
      <3> QED BY <2>2, <3>5
    <2> QED BY <2>1, <2>2
  <1> DEFINE r == [i \in 1 .. Len(what) |-> [id |-> id, what |-> what[i]]]
  <1>5. Requests(u) = r
    BY DEF Requests
  <1> HIDE DEF what, id
  <1>6. r \in [1 .. n -> Request]
    BY <1>1, <1>2, <1>4, ElementOfSeq DEF Request
  <1>7. r \in Seq(Request) /\ Len(r) = n
    BY <1>1, <1>6, FunSeq
  <1>8. \A k \in 1 .. n : r[k] = [id |-> id, what |-> w(k)]
    BY <1>4
  <1> QED BY <1>5, <1>7, <1>8 DEF id, Id

-----------------------------------------------------------------------------
(* Steps that leave what is under way alone.                               *)

\* The user goes on with its attempt, or to the next one.
Goes(u) ==
    /\ \A v \in Users \ {u} : pc'[v] = pc[v] /\ attempt'[v] = attempt[v]
    /\ \/ /\ attempt'[u] = attempt[u]
          /\ pc[u] \in {"idle", "read"} => pc'[u] \in {"idle", "read"}
       \/ /\ attempt'[u] = attempt[u] + 1 /\ pc'[u] = "get"
          /\ kind[u] \in {"tx", "blocking"} =>
                /\ \A i \in 1 .. Batch : execs[u][i] = 0
                /\ \A c \in Conns : ~Runs(c, u)

LEMMA ConnKept ==
    ASSUME ClientInv, NEW u \in Users, Goes(u), UNCHANGED <<execs, calls, kind>>,
           NEW c \in Conns, req'[c] = req[c], multi'[c] = multi[c]
    PROVE  ConnInv(c)'
  <1>0. ConnInv(c) /\ TypeOK
    BY DEF ClientInv
  <1> DEFINE id == req[c][1].id
  <1>1. req[c] # <<>> => id \in Ids /\ id[1] \in Users /\ id[3] \in Nat
    <2>1. req[c] \in Seq(Request)
      BY <1>0 DEF TypeOK
    <2>2. req[c] # <<>> => req[c][1] \in Request
      BY <2>1, Cut
    <2> QED BY <2>2 DEF Request, Ids
  <1>2. attempt[u] \in Nat
    BY <1>0, Numbers DEF TypeOK
  <1>3. Row(c)' /\ Queue(c)'
    BY <1>0 DEF ConnInv, Row, Queue, Of
  <1>4. Asked(c)'
    <2> SUFFICES ASSUME req[c] # <<>>
                 PROVE  /\ id[2] <= calls[id[1]]
                        /\ id[2] = calls[id[1]] =>
                              \/ id[3] < attempt'[id[1]]
                              \/ id[3] = attempt'[id[1]] /\ pc'[id[1]] \in {"idle", "read"}
      BY DEF Asked
    <2>1. CASE id[1] # u
      BY <1>0, <1>1, <2>1 DEF ConnInv, Asked, Goes
    <2>2. CASE id[1] = u
      BY <1>0, <1>1, <1>2, <2>2 DEF ConnInv, Asked, Goes
    <2> QED BY <2>1, <2>2
  <1>5. Once(c)'
    <2> SUFFICES ASSUME NEW v \in Users, Runs(c, v)'
                 PROVE  /\ req[c][1].id[3] = attempt'[v] /\ pc'[v] \in {"idle", "read"}
                        /\ \A i \in 1 .. Batch : execs[v][i] = 0
      BY DEF Once
    <2>1. Runs(c, v)
      BY DEF Runs, Of
    <2>2. /\ req[c][1].id[3] = attempt[v] /\ pc[v] \in {"idle", "read"}
          /\ \A i \in 1 .. Batch : execs[v][i] = 0
      BY <1>0, <2>1 DEF ConnInv, Once
    <2>3. CASE v # u
      BY <2>2, <2>3 DEF Goes
    <2>4. CASE v = u
      <3>1. kind[u] \in {"tx", "blocking"}
        BY <2>1, <2>4 DEF Runs
      <3> QED BY <2>1, <2>2, <2>4, <3>1 DEF Goes
    <2> QED BY <2>3, <2>4
  <1> QED BY <1>3, <1>4, <1>5 DEF ConnInv

LEMMA UserMoves ==
    ASSUME ClientInv, NEW u \in Users, Goes(u), UNCHANGED <<req, multi, execs, calls, kind>>
    PROVE  (\A c \in Conns : ConnInv(c)') /\ \A v \in Users : Count(v)'
  <1>1. ASSUME NEW c \in Conns PROVE ConnInv(c)'
    BY ConnKept
  <1>2. ASSUME NEW v \in Users PROVE Count(v)'
    <2>0. Count(v) /\ TypeOK /\ attempt[v] \in Nat
      BY Numbers, SMTT(60) DEF ClientInv, UserInv, TypeOK
    <2>1. CASE v # u
      <3>1. pc'[v] = pc[v] /\ attempt'[v] = attempt[v]
        BY <2>1 DEF Goes
      <3>2. ASSUME NEW i PROVE Left(v, i)' = Left(v, i)
        BY <3>1 DEF Left
      <3> QED BY <2>0, <3>1, <3>2 DEF Count, Made
    <2>2. CASE v = u
      <3>1. ASSUME NEW i \in 1 .. Batch PROVE Left(u, i)' = Left(u, i)
        <4>1. CASE attempt'[u] = attempt[u]
          BY <4>1 DEF Left
        <4>2. CASE attempt'[u] = attempt[u] + 1
          <5>1. ASSUME NEW c \in Conns, NEW k \in 1 .. Len(req[c]),
                       req[c][k] = [id |-> <<u, calls[u], attempt[u] + 1>>, what |-> i]
                PROVE  FALSE
            <6>1. req[c] # <<>> /\ req[c][k].id = req[c][1].id
              <7>1. req[c] # <<>>
                BY <2>0, <5>1, Empty DEF TypeOK
              <7>2. Row(c)
                BY DEF ClientInv, ConnInv
              <7>3. req[c][k] = [id |-> req[c][1].id, what |-> req[c][1].what + (k - 1)]
                BY <7>2 DEF Row
              <7> QED BY <7>1, <7>3
            <6>2. req[c][1].id = <<u, calls[u], attempt[u] + 1>>
              BY <5>1, <6>1
            <6>3. Asked(c)
              BY DEF ClientInv, ConnInv
            <6> QED BY <2>0, <2>2, <6>1, <6>2, <6>3 DEF Asked
          <5>2. 0 .. attempt'[u] = 0 .. attempt[u] \cup {attempt[u] + 1}
            BY <2>0, <2>2, <4>2
          <5> QED BY <5>1, <5>2 DEF Left
        <4> QED BY <4>1, <4>2 DEF Goes
      <3>2. ASSUME NEW i \in 1 .. Batch PROVE Cardinality(Left(u, i)) \in Nat
        <4>1. IsFiniteSet(0 .. attempt[u])
          BY <2>0, <2>2, FS_Interval
        <4>2. Left(u, i) \subseteq 0 .. attempt[u]
          BY DEF Left
        <4> QED BY <4>1, <4>2, FS_Subset, FS_CardinalityType
      <3>3. Made(u) \in Nat /\ Made(u)' \in Nat /\ Made(u) <= Made(u)'
        BY <2>0, <2>2 DEF Made, TypeOK, Goes
      <3>4. \A i \in 1 .. Batch : execs[u][i] \in Nat
        BY <2>0 DEF TypeOK
      <3>5. CASE kind[u] \in {"tx", "blocking"}
        BY <2>0, <2>2, <3>5 DEF Count, TypeOK, Goes
      <3>6. CASE kind[u] \notin {"tx", "blocking"}
        <4> SUFFICES ASSUME NEW i \in 1 .. Batch
                     PROVE  execs[u][i] + Cardinality(Left(u, i)') <= Made(u)'
          BY <2>2, <3>6 DEF Count
        <4>1. execs[u][i] + Cardinality(Left(u, i)) <= Made(u)
          BY <2>0, <2>2, <3>6 DEF Count
        <4> QED BY <3>1, <3>2, <3>3, <3>4, <4>1
      <3> QED BY <3>5, <3>6
    <2> QED BY <2>1, <2>2
  <1> QED BY <1>1, <1>2

-----------------------------------------------------------------------------
(* Writing.                                                                *)

LEMMA Typed == ASSUME ClientInv, NEW c \in Conns
    PROVE  /\ req[c] \in Seq(Request) /\ rep[c] \in Seq(Answer) /\ multi[c] \in Seq(Nat)
           /\ Len(req[c]) \in Nat /\ Len(rep[c]) \in Nat /\ Len(multi[c]) \in Nat
           /\ req[c] = <<>> <=> Len(req[c]) = 0
           /\ rep[c] = <<>> <=> Len(rep[c]) = 0
           /\ multi[c] = <<>> <=> Len(multi[c]) = 0
           /\ req[c] # <<>> => req[c][1] \in Request
  <1>1. req[c] \in Seq(Request) /\ rep[c] \in Seq(Answer) /\ multi[c] \in Seq(Nat)
    BY DEF ClientInv, TypeOK
  <1>2. Len(req[c]) \in Nat /\ (req[c] = <<>> <=> Len(req[c]) = 0)
    BY <1>1, Empty
  <1>3. Len(rep[c]) \in Nat /\ (rep[c] = <<>> <=> Len(rep[c]) = 0)
    BY <1>1, Empty
  <1>4. Len(multi[c]) \in Nat /\ (multi[c] = <<>> <=> Len(multi[c]) = 0)
    BY <1>1, Empty
  <1>5. req[c] # <<>> => req[c][1] \in Request
    BY <1>1, Cut
  <1> QED BY <1>1, <1>2, <1>3, <1>4, <1>5

LEMMA Users1 == ASSUME ClientInv, NEW u \in Users
    PROVE  /\ attempt[u] \in Nat /\ attempt[u] <= MaxRetries /\ calls[u] \in Nat /\ pos[u] \in Nat
           /\ pc[u] \in {"idle", "get", "write", "read"} /\ Id(u) \in Ids
           /\ execs[u] \in [1 .. Batch -> Nat] /\ err[u] \in [1 .. Batch -> Errs]
           /\ pc[u] # "idle" => kind[u] \in {"cmd", "blocking", "pipe", "tx"}
           /\ pc[u] \in {"write", "read"} => cn[u] \in Conns /\ cn[u] \in open /\ cn[u] \notin idle
  <1>1. TypeOK /\ Lent
    BY DEF ClientInv
  <1>2. attempt[u] \in Nat /\ attempt[u] <= MaxRetries /\ calls[u] \in Nat
    BY <1>1, Numbers DEF TypeOK
  <1>3. pc[u] \in {"write", "read"} => cn[u] \in Conns /\ cn[u] \in open /\ cn[u] \notin idle
    BY <1>1 DEF TypeOK, Lent
  <1> QED BY <1>1, <1>2, <1>3 DEF TypeOK, Id, Ids

\* Before it is written, nothing of an attempt is anywhere.
LEMMA NotYet == ASSUME ClientInv, NEW u \in Users, pc[u] = "write", NEW d \in Conns, req[d] # <<>>
    PROVE  req[d][1].id # Id(u)
  <1>1. Asked(d) /\ attempt[u] \in Nat
    BY Users1 DEF ClientInv, ConnInv
  <1> QED BY <1>1 DEF Asked, Id

\* How many requests an attempt writes, and which.
Whole(u) == IF kind[u] = "tx" THEN Batch + 2 ELSE Size(kind[u])
Number(u, k) == IF kind[u] = "tx" THEN k - 1 ELSE k

\* The first requests of an attempt have gone out, on a connection that was clean.
Sends(u, new) ==
    /\ pc[u] = "write" /\ Goes(u)
    /\ new \in Seq(Request) /\ Len(new) <= Whole(u)
    /\ \A k \in 1 .. Len(new) : new[k] = [id |-> Id(u), what |-> Number(u, k)]
    /\ req' = [req EXCEPT ![cn[u]] = new]
    /\ UNCHANGED <<multi, execs, calls, kind>>
    /\ \/ pc'[u] = "read" /\ attempt'[u] = attempt[u]
       \/ Len(new) < Whole(u) /\ pc'[u] = "idle" /\ attempt'[u] = attempt[u]
       \/ Len(new) < Whole(u) /\ pc'[u] = "get" /\ attempt'[u] = attempt[u] + 1

LEMMA SendsConn == ASSUME ClientInv, NEW u \in Users, NEW new, Sends(u, new), NEW d \in Conns
                   PROVE  ConnInv(d)'
  <1> DEFINE c == cn[u]
  <1>1. /\ c \in Conns /\ Clean(c) /\ attempt[u] \in Nat /\ calls[u] \in Nat
        /\ kind[u] \in {"cmd", "blocking", "pipe", "tx"}
    BY Users1 DEF ClientInv, Ready, Sends
  <1>2. /\ DOMAIN req = Conns /\ req'[c] = new /\ multi' = multi /\ execs' = execs
        /\ calls' = calls /\ kind' = kind
    BY <1>1 DEF ClientInv, TypeOK, Sends
  <1>3. CASE d # c
    BY <1>2, <1>3, ConnKept DEF Sends
  <1>4. CASE d = c
    <2>1. Len(new) \in Nat /\ (new = <<>> <=> Len(new) = 0)
      BY Empty DEF Sends
    <2>3. \A k \in 1 .. Len(new) : new[k] = [id |-> Id(u), what |-> Number(u, k)]
      BY DEF Sends
    <2>2. new # <<>> => new[1].id = Id(u) /\ new[1].what = Number(u, 1)
      <3>1. new # <<>> => 1 \in 1 .. Len(new)
        BY <2>1
      <3>2. new # <<>> => new[1] = [id |-> Id(u), what |-> Number(u, 1)]
        BY <2>3, <3>1
      <3> QED BY <3>2
    <2>4. Row(d)'
      <3> SUFFICES ASSUME NEW k \in 1 .. Len(new)
                   PROVE  new[k] = [id |-> new[1].id, what |-> new[1].what + (k - 1)]
        BY <1>2, <1>4 DEF Row
      <3>1. new # <<>> /\ k \in Nat
        BY <2>1
      <3>2. Number(u, 1) + (k - 1) = Number(u, k)
        BY <3>1 DEF Number
      <3> QED BY <2>2, <2>3, <3>1, <3>2
    <2>5. Asked(d)'
      BY <1>1, <1>2, <1>4, <2>2 DEF Asked, Id, Sends
    <2>6. ASSUME NEW v \in Users, Of(d, v)' PROVE v = u /\ new # <<>>
      BY <1>2, <1>4, <2>2, <2>6 DEF Of, Id
    <2>7. Queue(d)'
      <3> SUFFICES ASSUME Of(d, u)'
                   PROVE  LET w == new[1].what IN
                          IF kind[u] = "tx"
                          THEN /\ w + Len(new) <= Batch + 2
                               /\ Len(multi[c]) = w /\ \A k \in 2 .. w : multi[c][k] = k - 1
                          ELSE multi[c] = <<>> /\ w >= 1 /\ w + Len(new) <= Size(kind[u]) + 1
        BY <1>2, <1>4, <2>6 DEF Queue
      <3>1. new # <<>> /\ Len(new) <= Whole(u)
        BY <2>6 DEF Sends
      <3>2. multi[c] = <<>> /\ Len(multi[c]) = 0
        BY <1>1 DEF Clean
      <3>3. CASE kind[u] = "tx"
        BY <2>1, <2>2, <3>1, <3>2, <3>3, Numbers DEF Whole, Number
      <3>4. CASE kind[u] # "tx"
        BY <2>1, <2>2, <3>1, <3>2, <3>4, Numbers DEF Whole, Number
      <3> QED BY <3>3, <3>4
    <2>8. Once(d)'
      <3> SUFFICES ASSUME Runs(d, u)'
                   PROVE  /\ new[1].id[3] = attempt'[u] /\ pc'[u] \in {"idle", "read"}
                          /\ \A i \in 1 .. Batch : execs[u][i] = 0
        BY <1>2, <1>4, <2>6 DEF Once, Runs
      <3>1. new # <<>> /\ kind[u] \in {"tx", "blocking"}
        BY <1>2, <2>6 DEF Runs
      <3>2. \A i \in 1 .. Batch : execs[u][i] = 0
        BY <3>1 DEF ClientInv, UserInv, Count, Sends
      <3>3. Len(new) = Whole(u)
        <4>1. CASE kind[u] = "tx"
          <5>1. new[1].what + Len(new) = Batch + 2
            BY <1>2, <1>4, <4>1 DEF Runs
          <5> QED BY <2>1, <2>2, <3>1, <4>1, <5>1 DEF Whole, Number
        <4>2. CASE kind[u] = "blocking"
          BY <2>1, <3>1, <4>2, Numbers DEF Whole, Sends
        <4> QED BY <3>1, <4>1, <4>2
      <3>4. pc'[u] = "read" /\ attempt'[u] = attempt[u]
        BY <2>1, <3>3 DEF Sends
      <3> QED BY <2>2, <3>1, <3>2, <3>4 DEF Id
    <2> QED BY <2>4, <2>5, <2>7, <2>8 DEF ConnInv
  <1> QED BY <1>3, <1>4

LEMMA LeftFinite == ASSUME ClientInv, NEW u \in Users, NEW i
    PROVE  IsFiniteSet(Left(u, i)) /\ Cardinality(Left(u, i)) \in Nat
  <1>1. IsFiniteSet(0 .. attempt[u])
    BY Users1, FS_Interval
  <1>2. Left(u, i) \subseteq 0 .. attempt[u]
    BY DEF Left
  <1> QED BY <1>1, <1>2, FS_Subset, FS_CardinalityType

LEMMA SendsCount == ASSUME ClientInv, NEW u \in Users, NEW new, Sends(u, new), NEW v \in Users
                    PROVE  Count(v)'
  <1> DEFINE c == cn[u]
  <1>1. /\ c \in Conns /\ Clean(c) /\ attempt[u] \in Nat /\ calls[u] \in Nat
        /\ \A i \in 1 .. Batch : execs[v][i] \in Nat
    BY Users1 DEF ClientInv, Ready, Sends
  <1>2. /\ req'[c] = new /\ \A d \in Conns \ {c} : req'[d] = req[d]
        /\ execs' = execs /\ calls' = calls /\ kind' = kind
    BY <1>1 DEF ClientInv, TypeOK, Sends
  <1>3. \A k \in 1 .. Len(new) : new[k] = [id |-> Id(u), what |-> Number(u, k)]
    BY DEF Sends
  <1>4. Count(v)
    BY DEF ClientInv, UserInv
  <1>5. CASE v # u
    <2>1. pc'[v] = pc[v] /\ attempt'[v] = attempt[v]
      BY <1>5 DEF Sends, Goes
    <2>2. ASSUME NEW i PROVE Left(v, i)' = Left(v, i)
      <3>1. \A k \in 1 .. Len(new) : \A a : new[k] # [id |-> <<v, calls[v], a>>, what |-> i]
        <4> SUFFICES ASSUME NEW k \in 1 .. Len(new), NEW a,
                            new[k] = [id |-> <<v, calls[v], a>>, what |-> i]
                     PROVE  FALSE
          OBVIOUS
        <4>1. new[k].id = <<v, calls[v], a>> /\ new[k] = [id |-> Id(u), what |-> Number(u, k)]
          BY <1>3
        <4>2. new[k].id = Id(u)
          BY <4>1
        <4> QED BY <1>5, <4>1, <4>2 DEF Id
      <3>2. Len(req[c]) = 0
        BY <1>1 DEF Clean
      <3> QED BY <1>1, <1>2, <2>1, <3>1, <3>2, SMTT(60) DEF Left
    <2> QED BY <1>2, <1>4, <2>1, <2>2 DEF Count, Made
  <1>6. CASE v = u /\ kind[u] \in {"tx", "blocking"}
    BY <1>2, <1>4, <1>6 DEF Count, Sends
  <1>7. CASE v = u /\ kind[u] \notin {"tx", "blocking"}
    <2> SUFFICES ASSUME NEW i \in 1 .. Batch
                 PROVE  execs[u][i] + Cardinality(Left(u, i)') <= Made(u)'
      BY <1>2, <1>7 DEF Count
    <2>1. execs[u][i] + Cardinality(Left(u, i)) <= Made(u)
      BY <1>4, <1>7 DEF Count
    <2>2. Made(u)' = Made(u) + 1 /\ Made(u) \in Nat
      BY <1>1 DEF Made, Sends
    <2>3. Left(u, i)' \subseteq Left(u, i) \cup {attempt[u]}
      <3> SUFFICES ASSUME NEW a \in 0 .. attempt'[u], NEW d \in Conns, NEW k \in 1 .. Len(req'[d]),
                          req'[d][k] = [id |-> <<u, calls[u], a>>, what |-> i]
                   PROVE  a = attempt[u] \/ a \in Left(u, i)
        BY <1>2 DEF Left
      <3>1. CASE d = c
        <4>1. new[k].id = <<u, calls[u], a>> /\ new[k] = [id |-> Id(u), what |-> Number(u, k)]
          BY <1>2, <1>3, <3>1
        <4>2. new[k].id = Id(u)
          BY <4>1
        <4> QED BY <4>1, <4>2 DEF Id
      <3>2. CASE d # c
        <4>1. req[d][k] = [id |-> <<u, calls[u], a>>, what |-> i] /\ k \in 1 .. Len(req[d])
          BY <1>2, <3>2
        <4>2. a <= attempt[u]
          <5>1. Row(d) /\ Asked(d) /\ req[d] # <<>>
            BY <4>1, Typed DEF ClientInv, ConnInv
          <5>2. req[d][k] = [id |-> req[d][1].id, what |-> req[d][1].what + (k - 1)]
            BY <4>1, <5>1 DEF Row
          <5>3. req[d][1].id = <<u, calls[u], a>>
            BY <4>1, <5>2
          <5> QED BY <1>1, <5>1, <5>3 DEF Asked
        <4> QED BY <1>1, <4>1, <4>2 DEF Left, Sends
      <3> QED BY <3>1, <3>2
    <2>4. IsFiniteSet(Left(u, i)) /\ Cardinality(Left(u, i)) \in Nat
      BY LeftFinite
    <2>5. /\ IsFiniteSet(Left(u, i) \cup {attempt[u]})
          /\ Cardinality(Left(u, i) \cup {attempt[u]}) <= Cardinality(Left(u, i)) + 1
          /\ Cardinality(Left(u, i) \cup {attempt[u]}) \in Nat
      <3>1. /\ IsFiniteSet(Left(u, i) \cup {attempt[u]})
            /\ Cardinality(Left(u, i) \cup {attempt[u]}) =
                  IF attempt[u] \in Left(u, i) THEN Cardinality(Left(u, i))
                  ELSE Cardinality(Left(u, i)) + 1
        BY <2>4, FS_AddElement
      <3> QED BY <2>4, <3>1
    <2>6. /\ IsFiniteSet(Left(u, i)')
          /\ Cardinality(Left(u, i)') <= Cardinality(Left(u, i) \cup {attempt[u]})
      BY <2>3, <2>5, FS_Subset
    <2>7. Cardinality(Left(u, i)') \in Nat
      BY <2>6, FS_CardinalityType
    <2> QED BY <1>1, <1>7, <2>1, <2>2, <2>4, <2>5, <2>6, <2>7
  <1> QED BY <1>5, <1>6, <1>7

LEMMA SendsHome ==
    ASSUME ClientInv, NEW u \in Users, NEW new, Sends(u, new), pc'[u] = "read" => cn' = cn,
           \A v \in Users \ {u} : cn'[v] = cn[v]
    PROVE  OneHome'
  <1> DEFINE c == cn[u]
  <1>1. c \in Conns /\ Clean(c) /\ \A d \in Conns : req[d] \in Seq(Request)
    BY Users1, Typed DEF ClientInv, Ready, Sends
  <1>2. req'[c] = new /\ (\A d \in Conns \ {c} : req'[d] = req[d]) /\ calls' = calls
    BY <1>1 DEF ClientInv, TypeOK, Sends
  <1>3. new # <<>> => new[1].id = Id(u)
    <2>1. Len(new) \in Nat /\ (new = <<>> <=> Len(new) = 0)
      BY Empty DEF Sends
    <2>2. new # <<>> => 1 \in 1 .. Len(new)
      BY <2>1
    <2>3. new # <<>> => new[1] = [id |-> Id(u), what |-> Number(u, 1)]
      BY <2>2 DEF Sends
    <2> QED BY <2>3
  <1>4. \A d \in Conns : req[d] # <<>> => req[d][1].id # Id(u)
    BY NotYet DEF Sends
  <1>5. OneHome
    BY DEF ClientInv
  <1>6. ASSUME NEW d \in Conns, NEW e \in Conns, req'[d] # <<>>, req'[e] # <<>>,
               req'[d][1].id = req'[e][1].id
        PROVE  d = e
    BY <1>2, <1>3, <1>4, <1>5, <1>6 DEF OneHome
  <1>7. ASSUME NEW v \in Users, NEW d \in Conns, pc'[v] = "read", req'[d] # <<>>,
               req'[d][1].id = Id(v)'
        PROVE  d = cn'[v]
    <2>1. CASE v = u
      <3>1. attempt'[u] = attempt[u] /\ cn' = cn
        BY <1>7, <2>1 DEF Sends
      <3>2. Id(u)' = Id(u)
        BY <1>2, <3>1 DEF Id
      <3> QED BY <1>2, <1>4, <1>7, <2>1, <3>1, <3>2
    <2>2. CASE v # u
      <3>1. pc[v] = "read" /\ attempt'[v] = attempt[v] /\ cn'[v] = cn[v]
        BY <1>7, <2>2 DEF Sends, Goes
      <3>2. Id(v)' = Id(v) /\ Id(v) # Id(u)
        BY <1>2, <2>2, <3>1 DEF Id
      <3>3. d # c
        BY <1>2, <1>3, <1>7, <3>2
      <3> QED BY <1>2, <1>5, <1>7, <3>1, <3>2, <3>3 DEF OneHome
    <2> QED BY <2>1, <2>2
  <1> QED BY <1>6, <1>7 DEF OneHome

\* What u reads from stays as it is, and nothing of its call is undone.
LEMMA StreamKept ==
    ASSUME NEW u \in Users, Stream(u), TypeOK, TypeOK', cn[u] \in Conns,
           UNCHANGED <<cn[u], pos[u], err[u], kind[u], calls[u], attempt[u]>>,
           UNCHANGED <<req[cn[u]], rep[cn[u]], multi[cn[u]]>>,
           \A i \in 1 .. Batch : execs'[u][i] >= execs[u][i],
           kind[u] = "blocking" => execs'[u] = execs[u]
    PROVE  Stream(u)'
  <1> DEFINE c == cn[u]
             n == Size(kind[u])
  <1>1. Id(u)' = Id(u) /\ Served(u)' = Served(u)
    BY DEF Id, Served
  <1>2. n \in 1 .. Batch /\ Batch \in Nat /\ pos[u] \in Nat
    BY Numbers DEF TypeOK
  <1>3. \A i \in 1 .. Batch : execs[u][i] \in Nat /\ execs'[u][i] \in Nat
    <2>1. execs \in [Users -> [1 .. Batch -> Nat]] /\ execs' \in [Users -> [1 .. Batch -> Nat]]
      BY DEF TypeOK
    <2> QED BY <2>1
  <1>4. \A i \in 1 .. Batch : execs[u][i] > 0 => execs'[u][i] > 0
    BY <1>3
  <1>5. CASE kind[u] = "tx"
    BY <1>1, <1>2, <1>4, <1>5 DEF Stream
  <1>6. CASE kind[u] # "tx"
    <2>1. Len(rep[c]) \in Nat /\ Len(req[c]) \in Nat
      BY Empty DEF TypeOK
    <2>2. pos[u] < n /\ pos[u] + Len(rep[c]) + Len(req[c]) = n
      BY <1>6 DEF Stream, Served
    <2>3. \A k \in 1 .. Len(rep[c]) : pos[u] + k \in 1 .. Batch
      BY <1>2, <2>1, <2>2
    <2>4. \A i \in 1 .. pos[u] : i \in 1 .. Batch
      BY <1>2, <2>2
    <2>5. \A k \in 1 .. Len(rep[c]) : rep[c][k].val = "ok" => execs'[u][pos[u] + k] > 0
      BY <1>4, <1>6, <2>3 DEF Stream
    <2>6. \A i \in 1 .. pos[u] : err[u][i] = "nil" => execs'[u][i] > 0
      BY <1>4, <1>6, <2>4 DEF Stream
    <2> QED BY <1>1, <1>6, <2>5, <2>6 DEF Stream
  <1> QED BY <1>5, <1>6

-----------------------------------------------------------------------------
(* A step of one user.                                                     *)

\* The others and what they read from are left alone.
Alone(u) ==
    \A v \in Users \ {u} :
        /\ UNCHANGED <<pc[v], cn[v], pos[v], err[v], kind[v], calls[v], attempt[v], execs[v],
                       result[v]>>
        /\ pc[v] = "read" => UNCHANGED <<req[cn[v]], rep[cn[v]], multi[cn[v]]>>

LEMMA UserStepInv ==
    ASSUME ClientInv, NEW u \in Users, Alone(u), TypeOK', Lent', Ready', OneHome',
           \A c \in Conns : ConnInv(c)', \A v \in Users : Count(v)',
           pc'[u] = "read" => Stream(u)', OwnReplies',
           result'[u] = "nil" => \A i \in 1 .. Size(kind'[u]) : execs'[u][i] > 0
    PROVE  ClientInv'
  <1>1. ASSUME NEW v \in Users, v # u, pc'[v] = "read" PROVE Stream(v)'
    <2>1. pc[v] = "read" /\ Stream(v) /\ TypeOK /\ cn[v] \in Conns
      BY <1>1, Users1 DEF Alone, ClientInv, UserInv
    <2>2. /\ UNCHANGED <<cn[v], pos[v], err[v], kind[v], calls[v], attempt[v], execs[v]>>
          /\ UNCHANGED <<req[cn[v]], rep[cn[v]], multi[cn[v]]>>
      BY <1>1, <2>1 DEF Alone
    <2>3. \A i \in 1 .. Batch : execs[v][i] \in Nat
      BY Users1
    <2>4. \A i \in 1 .. Batch : execs'[v][i] >= execs[v][i]
      BY <2>2, <2>3
    <2> QED BY <2>1, <2>2, <2>4, StreamKept
  <1>2. \A v \in Users : UserInv(v)'
    BY <1>1 DEF UserInv
  <1>3. NoErrorMeansRun'
    <2> SUFFICES ASSUME NEW v \in Users, result'[v] = "nil", NEW i \in 1 .. Size(kind'[v])
                 PROVE  execs'[v][i] > 0
      BY DEF NoErrorMeansRun
    <2>1. CASE v = u
      BY <2>1
    <2>2. CASE v # u
      BY <2>2 DEF Alone, ClientInv, NoErrorMeansRun
    <2> QED BY <2>1, <2>2
  <1> QED BY <1>2, <1>3 DEF ClientInv

\* The end of an attempt: the call returns, or goes on to another one.
LEMMA Ends ==
    ASSUME ClientInv, NEW u \in Users, NEW e \in Errs, Retry(u, e) \/ Return(u, e)
    PROVE  /\ pc' \in [Users -> {"idle", "get", "write", "read"}]
           /\ attempt' \in [Users -> 0 .. MaxRetries]
           /\ result' \in [Users -> Errs \cup {"none"}]
           /\ \A v \in Users \ {u} : UNCHANGED <<pc[v], attempt[v], result[v]>>
           /\ \/ pc'[u] = "idle" /\ attempt'[u] = attempt[u] /\ result'[u] = e
              \/ /\ Retry(u, e) /\ pc'[u] = "get" /\ attempt'[u] = attempt[u] + 1
                 /\ result'[u] = result[u]
  <1>1. /\ pc \in [Users -> {"idle", "get", "write", "read"}]
        /\ attempt \in [Users -> 0 .. MaxRetries] /\ MaxRetries \in Nat
        /\ result \in [Users -> Errs \cup {"none"}]
    BY Numbers DEF ClientInv, TypeOK
  <1>2. CASE Return(u, e)
    BY <1>1, <1>2 DEF Return
  <1>3. CASE Retry(u, e) /\ attempt[u] < MaxRetries
    <2>1. /\ attempt' = [attempt EXCEPT ![u] = attempt[u] + 1]
          /\ pc' = [pc EXCEPT ![u] = "get"] /\ result' = result
      BY <1>3 DEF Retry
    <2>2. attempt[u] + 1 \in 0 .. MaxRetries
      BY <1>1, <1>3
    <2> QED BY <1>1, <1>3, <2>1, <2>2
  <1>4. CASE Retry(u, e) /\ ~(attempt[u] < MaxRetries)
    BY <1>1, <1>4 DEF Retry, Return
  <1> QED BY <1>2, <1>3, <1>4

\* A connection is closed.
LEMMA Removed ==
    ASSUME ClientInv, NEW u \in Users, pc[u] \in {"write", "read"}, Remove(u)
    PROVE  /\ open' = open \ {cn[u]} /\ idle' = idle /\ idle' \subseteq open' /\ open' \subseteq Conns
           /\ cn' \in [Users -> Conns \cup {NoConn}] /\ cn'[u] = NoConn
           /\ \A v \in Users \ {u} : cn'[v] = cn[v] /\ (cn[v] # NoConn => cn[v] \in open')
  <1>1. cn \in [Users -> Conns \cup {NoConn}] /\ idle \subseteq open /\ open \subseteq Conns
    BY DEF ClientInv, TypeOK
  <1>2. cn[u] \in Conns /\ cn[u] \notin idle /\ NoConn \notin Conns
    BY Users1, Numbers
  <1>3. \A v \in Users \ {u} : cn[v] # NoConn => cn[v] \in open /\ cn[v] # cn[u]
    BY <1>2 DEF ClientInv, Lent
  <1> QED BY <1>1, <1>2, <1>3 DEF Remove

LEMMA LentStep ==
    ASSUME ClientInv, NEW u \in Users,
           \A v \in Users \ {u} : /\ pc'[v] = pc[v] /\ cn'[v] = cn[v]
                                  /\ cn[v] # NoConn => cn[v] \in open' \ idle',
           pc'[u] \in {"write", "read"} <=> cn'[u] # NoConn,
           cn'[u] # NoConn => /\ cn'[u] \in open' \ idle'
                              /\ \A v \in Users \ {u} : cn[v] # cn'[u]
    PROVE  Lent'
  BY DEF ClientInv, Lent

\* The requests written are those of the attempt, in order.
LEMMA WriteCmdInv == ASSUME ClientInv, NEW u \in Users, WriteCmd(u) PROVE ClientInv'
  <1> DEFINE c == cn[u]
             new == Requests(u)
  <1>1. /\ TypeOK /\ pc[u] = "write" /\ c \in Conns /\ Clean(c) /\ pos[u] = 0
        /\ kind[u] \in {"cmd", "blocking", "pipe", "tx"}
    BY Users1 DEF WriteCmd, ClientInv, Ready
  <1>2. /\ new \in Seq(Request) /\ Len(new) = Whole(u)
        /\ \A k \in 1 .. Whole(u) : new[k] = [id |-> Id(u), what |-> Number(u, k)]
    BY <1>1, RequestsOf DEF Whole, Number
  <1>3. req' = [req EXCEPT ![c] = new]
    <2>1. req[c] \o new = new
      BY <1>1, <1>2, ConcatEmptySeq DEF Clean
    <2> QED BY <2>1 DEF WriteCmd
  <1>4. /\ pc' = [pc EXCEPT ![u] = "read"]
        /\ UNCHANGED <<idle, open, rep, multi, execs, calls, kind, attempt, cn, pos, err, result,
                       mixed>>
    BY DEF WriteCmd, callVars, tryVars
  <1> HIDE DEF new
  <1>5. Whole(u) \in Nat /\ Whole(u) >= 1
    BY Numbers DEF Whole
  <1>6. Goes(u) /\ pc'[u] = "read" /\ attempt'[u] = attempt[u]
    BY <1>1, <1>4 DEF Goes, TypeOK
  <1>7. Sends(u, new)
    BY <1>1, <1>2, <1>3, <1>4, <1>5, <1>6 DEF Sends
  <1>8. OneHome' /\ (\A d \in Conns : ConnInv(d)') /\ \A v \in Users : Count(v)'
    BY <1>4, <1>7, SendsHome, SendsConn, SendsCount
  <1>9. TypeOK'
    BY <1>1, <1>2, <1>3, <1>4 DEF TypeOK
  <1>10. Lent'
    BY <1>1, <1>4, <1>6, Users1 DEF ClientInv, Lent, TypeOK
  <1>11. Ready'
    <2>1. ASSUME NEW d \in idle PROVE Clean(d)'
      BY <1>3, <1>4, Users1, <1>1 DEF ClientInv, Ready, Clean, TypeOK
    <2>2. ASSUME NEW v \in Users, pc'[v] = "write" PROVE Clean(cn[v])' /\ pos'[v] = 0
      <3>1. v # u /\ pc[v] = "write" /\ cn[v] # c /\ cn[v] \in Conns
        BY <1>1, <1>4, <2>2, Users1, Numbers DEF ClientInv, Lent, TypeOK
      <3> QED BY <1>1, <1>3, <1>4, <3>1 DEF ClientInv, Ready, Clean, TypeOK
    <2> QED BY <1>4, <2>1, <2>2 DEF Ready
  <1>12. Stream(u)'
    <2>1. rep'[c] = <<>> /\ Len(rep'[c]) = 0 /\ Served(u)' = 0 /\ cn'[u] = c /\ kind' = kind
      BY <1>1, <1>4 DEF Clean, Served
    <2>2. Id(u)' = Id(u) /\ pos'[u] = 0
      BY <1>1, <1>4 DEF Id
    <2>3. req'[c] = new /\ new # <<>> /\ new[1] = [id |-> Id(u), what |-> Number(u, 1)]
      <3>1. 1 \in 1 .. Whole(u) /\ Len(new) # 0
        BY <1>2, <1>5
      <3>2. new # <<>>
        BY <1>2, <3>1, Empty
      <3> QED BY <1>1, <1>2, <1>3, <3>1, <3>2 DEF TypeOK
    <2>4. new[1].id = Id(u) /\ new[1].what = Number(u, 1)
      BY <2>3
    <2>5. CASE kind[u] = "tx"
      <3>1. Size(kind[u]) = Batch /\ Batch \in Nat /\ Batch >= 1
        BY <2>5, Numbers
      <3> QED BY <1>2, <2>1, <2>2, <2>3, <2>4, <2>5, <3>1 DEF Stream, Whole, Number
    <2>6. CASE kind[u] # "tx"
      <3>1. Size(kind[u]) \in 1 .. Batch /\ multi'[c] = <<>>
        BY <1>1, <1>4, Numbers DEF Clean
      <3> QED BY <1>2, <2>1, <2>2, <2>3, <2>4, <2>6, <3>1 DEF Stream, Whole, Number
    <2> QED BY <2>5, <2>6
  <1>13. Alone(u)
    <2> SUFFICES ASSUME NEW v \in Users \ {u} PROVE
          /\ UNCHANGED <<pc[v], cn[v], pos[v], err[v], kind[v], calls[v], attempt[v], execs[v],
                         result[v]>>
          /\ pc[v] = "read" => UNCHANGED <<req[cn[v]], rep[cn[v]], multi[cn[v]]>>
      BY DEF Alone
    <2>1. pc[v] = "read" => cn[v] # c
      BY <1>1, Users1, Numbers DEF ClientInv, Lent
    <2> QED BY <1>1, <1>3, <1>4, <2>1 DEF TypeOK
  <1>14. OwnReplies' /\ (result'[u] = "nil" => \A i \in 1 .. Size(kind'[u]) : execs'[u][i] > 0)
    BY <1>4 DEF ClientInv, OwnReplies, NoErrorMeansRun
  <1> QED BY <1>8, <1>9, <1>10, <1>11, <1>12, <1>13, <1>14, UserStepInv

LEMMA SetErr == ASSUME ClientInv, NEW u \in Users, NEW e \in Errs
    PROVE  /\ SetCmdsErr(u, e) \in [1 .. Batch -> Errs]
           /\ [NoErrs EXCEPT ![1] = e] \in [1 .. Batch -> Errs]
           /\ e # "nil" => /\ FirstCmdsErr(SetCmdsErr(u, e)) \in Errs \ {"nil"}
                           /\ FirstCmdsErr([NoErrs EXCEPT ![1] = e]) \in Errs \ {"nil"}
  <1>1. SetCmdsErr(u, e) \in [1 .. Batch -> Errs] /\ [NoErrs EXCEPT ![1] = e] \in [1 .. Batch -> Errs]
    BY Users1 DEF SetCmdsErr, NoErrs, Errs
  <1>2. 1 \in 1 .. Batch /\ 1 <= Size(kind[u])
    BY Numbers
  <1>3. e # "nil" => SetCmdsErr(u, e)[1] # "nil" /\ [NoErrs EXCEPT ![1] = e][1] # "nil"
    BY <1>2 DEF SetCmdsErr, NoErrs
  <1> QED BY <1>1, <1>2, <1>3, FirstErr

\* A user whose attempt has written nothing, or not all, and ends.
LEMMA Unwritten == ASSUME ClientInv, NEW u \in Users, pc[u] \in {"get", "write"}, NEW e \in Errs,
                          Retry(u, e) \/ Return(u, e)
                   PROVE  Goes(u)
  <1>1. kind[u] \in {"tx", "blocking"} => \A i \in 1 .. Batch : execs[u][i] = 0
    BY DEF ClientInv, UserInv, Count
  <1>2. \A c \in Conns : ~Runs(c, u)
    BY DEF ClientInv, ConnInv, Once
  <1> QED BY <1>1, <1>2, Ends DEF Goes

LEMMA WriteFailsInv ==
    ASSUME ClientInv, NEW u \in Users, NEW e \in Errs, e # "nil", WriteFails(u, e) PROVE ClientInv'
  <1> DEFINE c == cn[u]
             f == IF kind[u] \in {"pipe", "tx"} THEN SetCmdsErr(u, e) ELSE [NoErrs EXCEPT ![1] = e]
             r == FirstCmdsErr(f)
  <1>1. /\ TypeOK /\ pc[u] = "write" /\ c \in Conns /\ Clean(c) /\ DOMAIN req = Conns
        /\ kind[u] \in {"cmd", "blocking", "pipe", "tx"}
    BY Users1 DEF WriteFails, ClientInv, Ready, TypeOK
  <1>2. f \in [1 .. Batch -> Errs] /\ r \in Errs \ {"nil"}
    BY SetErr
  <1>3. /\ err' = [err EXCEPT ![u] = f] /\ Remove(u)
        /\ UNCHANGED <<rep, multi, execs, calls, kind, pos, mixed>>
    BY DEF WriteFails, callVars
  <1> HIDE DEF f
  <1>4. err'[u] = f /\ err' \in [Users -> [1 .. Batch -> Errs]]
    BY <1>1, <1>2, <1>3 DEF TypeOK
  <1>5. Retry(u, r) \/ Return(u, r)
    BY <1>4 DEF WriteFails
  <1> HIDE DEF r
  <1>6. PICK new : Sends(u, new)
    <2>1. /\ Requests(u) \in Seq(Request) /\ Len(Requests(u)) = Whole(u)
          /\ \A k \in 1 .. Whole(u) : Requests(u)[k] = [id |-> Id(u), what |-> Number(u, k)]
      BY <1>1, RequestsOf DEF Whole, Number
    <2>2. Whole(u) \in Nat /\ Whole(u) >= 1
      BY Numbers DEF Whole
    <2>3. PICK new \in Seq(Request) :
             /\ req' = [req EXCEPT ![c] = new] /\ Len(new) \in Nat /\ Len(new) < Whole(u)
             /\ \A k \in 1 .. Len(new) : new[k] = [id |-> Id(u), what |-> Number(u, k)]
      <3>1. CASE UNCHANGED req
        <4>1. PICK z \in Seq(Request) : z = <<>> /\ Len(z) = 0
          BY EmptySeq
        <4>2. req' = [req EXCEPT ![c] = z]
          BY <1>1, <3>1, <4>1 DEF Clean, TypeOK
        <4>3. Len(z) \in Nat /\ Len(z) < Whole(u) /\ \A k \in 1 .. Len(z) : FALSE
          BY <2>2, <4>1
        <4> QED BY <4>2, <4>3
      <3>2. ASSUME NEW k \in 0 .. (Len(Requests(u)) - 1),
                   req' = [req EXCEPT ![c] = req[c] \o SubSeq(Requests(u), 1, k)]
            PROVE  \E new \in Seq(Request) :
                      /\ req' = [req EXCEPT ![c] = new] /\ Len(new) \in Nat /\ Len(new) < Whole(u)
                      /\ \A j \in 1 .. Len(new) : new[j] = [id |-> Id(u), what |-> Number(u, j)]
        <4> DEFINE new == SubSeq(Requests(u), 1, k)
        <4>1. k \in 0 .. Len(Requests(u)) /\ k \in Nat /\ k < Whole(u)
          BY <2>1, <2>2
        <4>2. new \in Seq(Request) /\ Len(new) = k /\ \A j \in 1 .. k : new[j] = Requests(u)[j]
          BY <2>1, <4>1, Prefix
        <4>3. req[c] \o new = new
          BY <1>1, <4>2, ConcatEmptySeq DEF Clean
        <4>4. req' = [req EXCEPT ![c] = new]
          BY <3>2, <4>3
        <4> HIDE DEF new
        <4>5. \A j \in 1 .. Len(new) : new[j] = [id |-> Id(u), what |-> Number(u, j)]
          BY <2>1, <2>2, <4>1, <4>2
        <4> QED BY <4>1, <4>2, <4>4, <4>5
      <3> QED BY <3>1, <3>2 DEF WriteFails
    <2>4. Goes(u)
      BY <1>1, <1>2, <1>5, Unwritten
    <2>5. \/ pc'[u] = "idle" /\ attempt'[u] = attempt[u]
          \/ pc'[u] = "get" /\ attempt'[u] = attempt[u] + 1
      BY <1>2, <1>5, Ends
    <2>6. Sends(u, new)
      BY <1>1, <1>3, <2>2, <2>3, <2>4, <2>5 DEF Sends
    <2> QED BY <2>6
  <1>7. /\ req' = [req EXCEPT ![c] = new] /\ new \in Seq(Request)
    BY <1>6 DEF Sends
  <1>8. /\ pc' \in [Users -> {"idle", "get", "write", "read"}]
        /\ attempt' \in [Users -> 0 .. MaxRetries]
        /\ result' \in [Users -> Errs \cup {"none"}]
        /\ \A v \in Users \ {u} : UNCHANGED <<pc[v], attempt[v], result[v]>>
        /\ pc'[u] \in {"idle", "get"} /\ result'[u] \in {r, result[u]}
    BY <1>2, <1>5, Ends
  <1>9. /\ open' = open \ {c} /\ idle' = idle /\ idle' \subseteq open' /\ open' \subseteq Conns
        /\ cn' \in [Users -> Conns \cup {NoConn}] /\ cn'[u] = NoConn
        /\ \A v \in Users \ {u} : cn'[v] = cn[v] /\ (cn[v] # NoConn => cn[v] \in open')
    BY <1>1, <1>3, Removed
  <1>10. OneHome' /\ (\A d \in Conns : ConnInv(d)') /\ \A v \in Users : Count(v)'
    BY <1>6, <1>8, <1>9, SendsHome, SendsConn, SendsCount
  <1>11. TypeOK'
    <2>1. req' \in [Conns -> Seq(Request)]
      BY <1>1, <1>7 DEF TypeOK
    <2>2. \A v \in Users : pc'[v] # "idle" => kind'[v] \in {"cmd", "blocking", "pipe", "tx"}
      BY <1>1, <1>3, <1>8 DEF TypeOK
    <2> QED BY <1>1, <1>3, <1>4, <1>8, <1>9, <2>1, <2>2 DEF TypeOK
  <1>12. Lent'
    <2>1. \A v \in Users \ {u} : cn[v] # NoConn => cn[v] \in open' \ idle'
      BY <1>9 DEF ClientInv, Lent
    <2> QED BY <1>8, <1>9, <2>1, LentStep
  <1>13. \A v \in Users \ {u} : pc[v] \in {"read", "write"} => cn[v] # c /\ cn[v] \in Conns
    BY <1>1, Users1, Numbers DEF ClientInv, Lent
  <1>14. Ready'
    <2>1. ASSUME NEW d \in idle PROVE Clean(d)'
      BY <1>1, <1>3, <1>7, <1>9, Users1 DEF ClientInv, Ready, Clean
    <2>2. ASSUME NEW v \in Users, pc'[v] = "write" PROVE Clean(cn[v])' /\ pos'[v] = 0
      <3>1. v # u /\ pc[v] = "write"
        BY <1>8, <2>2
      <3> QED BY <1>1, <1>3, <1>7, <1>9, <1>13, <3>1 DEF ClientInv, Ready, Clean
    <2> QED BY <1>9, <2>1, <2>2 DEF Ready
  <1>15. Alone(u)
    <2> SUFFICES ASSUME NEW v \in Users \ {u} PROVE
          /\ UNCHANGED <<pc[v], cn[v], pos[v], err[v], kind[v], calls[v], attempt[v], execs[v],
                         result[v]>>
          /\ pc[v] = "read" => UNCHANGED <<req[cn[v]], rep[cn[v]], multi[cn[v]]>>
      BY DEF Alone
    <2>1. err'[v] = err[v]
      BY <1>1, <1>3 DEF TypeOK
    <2> QED BY <1>1, <1>3, <1>7, <1>8, <1>9, <1>13, <2>1
  <1>16. OwnReplies' /\ (result'[u] = "nil" => \A i \in 1 .. Size(kind'[u]) : execs'[u][i] > 0)
    BY <1>2, <1>3, <1>8 DEF ClientInv, OwnReplies, NoErrorMeansRun
  <1> QED BY <1>8, <1>10, <1>11, <1>12, <1>14, <1>15, <1>16, UserStepInv

-----------------------------------------------------------------------------
(* Calls, connections and broken reads.                                    *)

LEMMA HomeKept ==
    ASSUME ClientInv, NEW u \in Users, UNCHANGED <<req, calls>>,
           \A v \in Users \ {u} : UNCHANGED <<pc[v], attempt[v], cn[v]>>,
           pc'[u] = "read" => UNCHANGED <<pc[u], attempt[u], cn[u]>>
    PROVE  OneHome'
  <1>1. OneHome
    BY DEF ClientInv
  <1>2. ASSUME NEW v \in Users, pc'[v] = "read"
        PROVE  pc[v] = "read" /\ Id(v)' = Id(v) /\ cn'[v] = cn[v]
    BY <1>2 DEF Id
  <1> QED BY <1>1, <1>2 DEF OneHome

LEMMA StartInv ==
    ASSUME ClientInv, NEW u \in Users, NEW k \in Kinds, Start(u, k) PROVE ClientInv'
  <1>1. /\ TypeOK /\ pc[u] = "idle" /\ calls[u] \in Nat /\ cn[u] = NoConn
        /\ k \in {"cmd", "blocking", "pipe", "tx"}
    BY Users1, ClientAssumption DEF ClientInv, Lent, Start
  <1>2. /\ pc' = [pc EXCEPT ![u] = "get"] /\ calls' = [calls EXCEPT ![u] = calls[u] + 1]
        /\ kind' = [kind EXCEPT ![u] = k] /\ attempt' = [attempt EXCEPT ![u] = 0]
        /\ err' = [err EXCEPT ![u] = NoErrs] /\ result' = [result EXCEPT ![u] = "none"]
        /\ execs' = [execs EXCEPT ![u] = [i \in 1 .. Batch |-> 0]]
        /\ UNCHANGED <<idle, open, req, rep, multi, cn, pos, mixed>>
    BY DEF Start
  <1>3. /\ pc'[u] = "get" /\ calls'[u] = calls[u] + 1 /\ kind'[u] = k /\ attempt'[u] = 0
        /\ result'[u] = "none" /\ \A i \in 1 .. Batch : execs'[u][i] = 0
    BY <1>1, <1>2 DEF TypeOK
  <1>4. \A v \in Users \ {u} : UNCHANGED <<pc[v], cn[v], pos[v], err[v], kind[v], calls[v],
                                           attempt[v], execs[v], result[v]>>
    BY <1>1, <1>2 DEF TypeOK
  <1>5. TypeOK'
    <2>1. pc' \in [Users -> {"idle", "get", "write", "read"}]
      BY <1>1, <1>2 DEF TypeOK
    <2>2. calls' \in [Users -> Nat] /\ attempt' \in [Users -> 0 .. MaxRetries]
      BY <1>1, <1>2, Numbers DEF TypeOK
    <2>3. err' \in [Users -> [1 .. Batch -> Errs]] /\ result' \in [Users -> Errs \cup {"none"}]
      BY <1>1, <1>2 DEF TypeOK, NoErrs, Errs
    <2>4. execs' \in [Users -> [1 .. Batch -> Nat]]
      BY <1>1, <1>2 DEF TypeOK
    <2>5. DOMAIN kind' = Users
      BY <1>1, <1>2 DEF TypeOK
    <2>6. \A v \in Users : pc'[v] # "idle" => kind'[v] \in {"cmd", "blocking", "pipe", "tx"}
      BY <1>1, <1>3, <1>4, ZenonT(60) DEF TypeOK
    <2> QED BY <1>1, <1>2, <2>1, <2>2, <2>3, <2>4, <2>5, <2>6 DEF TypeOK
  <1>6. Lent' /\ Ready'
    BY <1>1, <1>2, <1>3, <1>4 DEF ClientInv, Lent, Ready, Clean
  <1>7. ASSUME NEW c \in Conns, req[c] # <<>>
        PROVE  /\ req[c][1].id[1] \in Users /\ req[c][1].id[2] \in Nat
               /\ req[c][1].id[2] <= calls[req[c][1].id[1]]
    BY <1>7, Typed DEF ClientInv, ConnInv, Asked, Request, Ids
  <1>8. \A c \in Conns : ~Of(c, u)'
    BY <1>1, <1>2, <1>3, <1>7 DEF Of
  <1>9. ASSUME NEW c \in Conns PROVE ConnInv(c)'
    <2>1. ConnInv(c)
      BY DEF ClientInv
    <2>2. Row(c)'
      BY <1>2, <2>1 DEF ConnInv, Row
    <2>3. Asked(c)'
      <3>1. CASE req[c] # <<>> /\ req[c][1].id[1] = u
        BY <1>1, <1>2, <1>3, <1>7, <3>1 DEF Asked
      <3>2. CASE req[c] # <<>> /\ req[c][1].id[1] # u
        BY <1>2, <1>4, <1>7, <2>1, <3>2, SMTT(60) DEF ConnInv, Asked
      <3>3. CASE req[c] = <<>>
        BY <1>2, <3>3 DEF Asked
      <3> QED BY <3>1, <3>2, <3>3
    <2>4. ASSUME NEW v \in Users, Of(c, v)' PROVE v # u /\ Of(c, v)
      BY <1>2, <1>4, <1>8, <2>4 DEF Of
    <2>5. Queue(c)'
      BY <1>2, <1>4, <2>1, <2>4 DEF ConnInv, Queue
    <2>6. Once(c)'
      <3> SUFFICES ASSUME NEW v \in Users, Runs(c, v)'
                   PROVE  /\ req[c][1].id[3] = attempt'[v] /\ pc'[v] \in {"idle", "read"}
                          /\ \A i \in 1 .. Batch : execs'[v][i] = 0
        BY <1>2 DEF Once
      <3>1. v # u /\ Runs(c, v)
        BY <1>2, <1>4, <2>4 DEF Runs
      <3> QED BY <1>4, <2>1, <3>1 DEF ConnInv, Once
    <2> QED BY <2>2, <2>3, <2>5, <2>6 DEF ConnInv
  <1>10. ASSUME NEW v \in Users PROVE Count(v)'
    <2>1. CASE v # u
      <3>1. Left(v, 0)' = Left(v, 0) /\ \A i : Left(v, i)' = Left(v, i)
        BY <1>2, <1>4, <2>1 DEF Left
      <3> QED BY <1>4, <2>1, <3>1 DEF ClientInv, UserInv, Count, Made
    <2>2. CASE v = u
      <3> SUFFICES ASSUME NEW i \in 1 .. Batch PROVE Cardinality(Left(u, i)') = 0
        BY <1>3, <2>2 DEF Count, Made
      <3>1. ASSUME NEW a \in Left(u, i)' PROVE FALSE
        <4>0. PICK c \in Conns : \E j \in 1 .. Len(req[c]) :
                 req[c][j] = [id |-> <<u, calls'[u], a>>, what |-> i]
          BY <1>2, <3>1 DEF Left
        <4>1. PICK j \in 1 .. Len(req[c]) : req[c][j] = [id |-> <<u, calls'[u], a>>, what |-> i]
          BY <4>0
        <4>2. Row(c) /\ req[c] # <<>>
          BY <4>1, Typed DEF ClientInv, ConnInv
        <4>3. req[c][j] = [id |-> req[c][1].id, what |-> req[c][1].what + (j - 1)]
          BY <4>2 DEF Row
        <4>4. req[c][1].id = <<u, calls'[u], a>>
          BY <4>1, <4>3
        <4> QED BY <1>2, <1>8, <4>2, <4>4 DEF Of
      <3> QED BY <3>1, FS_EmptySet
    <2> QED BY <2>1, <2>2
  <1>11. OneHome'
    <2>1. OneHome
      BY DEF ClientInv
    <2>2. ASSUME NEW v \in Users, pc'[v] = "read"
          PROVE  pc[v] = "read" /\ Id(v)' = Id(v) /\ cn'[v] = cn[v]
      BY <1>3, <1>4, <2>2 DEF Id
    <2> QED BY <1>2, <2>1, <2>2 DEF OneHome
  <1>12. Alone(u)
    BY <1>2, <1>4 DEF Alone
  <1> QED BY <1>2, <1>3, <1>5, <1>6, <1>9, <1>10, <1>11, <1>12, UserStepInv
        DEF ClientInv, OwnReplies

\* A connection that is lent is clean.
LEMMA GetConnInv == ASSUME ClientInv, NEW u \in Users, GetConn(u) PROVE ClientInv'
  <1>1. TypeOK /\ pc[u] = "get" /\ cn[u] = NoConn /\ idle \subseteq open /\ open \subseteq Conns
    BY DEF ClientInv, Lent, TypeOK, GetConn
  <1>2. PICK c \in Conns :
          /\ cn' = [cn EXCEPT ![u] = c] /\ idle' = idle \ {c} /\ open' = open \cup {c}
          /\ req[c] = <<>> /\ multi[c] = <<>> /\ rep' = [rep EXCEPT ![c] = <<>>]
          /\ c \in idle \/ c \notin open
    <2>1. CASE \E c \in idle : idle' = idle \ {c} /\ cn' = [cn EXCEPT ![u] = c] /\ UNCHANGED <<open, rep>>
      <3>1. PICK c \in idle : idle' = idle \ {c} /\ cn' = [cn EXCEPT ![u] = c] /\ UNCHANGED <<open, rep>>
        BY <2>1
      <3>2. Clean(c) /\ c \in Conns /\ open' = open \cup {c}
        BY <1>1, <3>1 DEF ClientInv, Ready
      <3>3. rep' = [rep EXCEPT ![c] = <<>>]
        BY <1>1, <3>1, <3>2 DEF Clean, TypeOK
      <3> QED BY <3>1, <3>2, <3>3 DEF Clean
    <2>2. CASE \E c \in Conns \ open : /\ req[c] = <<>> /\ multi[c] = <<>> /\ open' = open \cup {c}
                                       /\ rep' = [rep EXCEPT ![c] = <<>>]
                                       /\ cn' = [cn EXCEPT ![u] = c] /\ UNCHANGED idle
      <3>1. PICK c \in Conns \ open : /\ req[c] = <<>> /\ multi[c] = <<>> /\ open' = open \cup {c}
                                      /\ rep' = [rep EXCEPT ![c] = <<>>]
                                      /\ cn' = [cn EXCEPT ![u] = c] /\ UNCHANGED idle
        BY <2>2
      <3>2. idle' = idle \ {c}
        BY <1>1, <3>1
      <3> QED BY <3>1, <3>2
    <2> QED BY <2>1, <2>2 DEF GetConn
  <1>3. /\ pc' = [pc EXCEPT ![u] = "write"] /\ pos' = [pos EXCEPT ![u] = 0]
        /\ UNCHANGED <<req, multi, execs, calls, kind, attempt, err, result, mixed>>
    BY DEF GetConn, callVars
  <1>4. pc'[u] = "write" /\ pos'[u] = 0 /\ cn'[u] = c /\ rep'[c] = <<>> /\ NoConn \notin Conns
    BY <1>1, <1>2, <1>3, Numbers DEF TypeOK
  <1>5. \A v \in Users \ {u} : UNCHANGED <<pc[v], cn[v], pos[v], err[v], kind[v], calls[v],
                                           attempt[v], execs[v], result[v]>>
    BY <1>1, <1>2, <1>3 DEF TypeOK
  <1>6. \A v \in Users \ {u} : cn[v] # NoConn => cn[v] # c /\ cn[v] \in open' \ idle'
    BY <1>1, <1>2 DEF ClientInv, Lent
  <1>7. Lent'
    BY <1>2, <1>4, <1>5, <1>6, LentStep
  <1>8. Ready'
    <2>1. ASSUME NEW d \in idle' PROVE Clean(d)'
      BY <1>1, <1>2, <1>3, <2>1 DEF ClientInv, Ready, Clean, TypeOK
    <2>2. ASSUME NEW v \in Users, pc'[v] = "write" PROVE Clean(cn[v])' /\ pos'[v] = 0
      <3>1. CASE v = u
        BY <1>2, <1>3, <1>4, <3>1 DEF Clean
      <3>2. CASE v # u
        <4>1. pc[v] = "write" /\ cn'[v] = cn[v] /\ cn[v] # c /\ cn[v] \in Conns /\ pos'[v] = pos[v]
          BY <1>4, <1>5, <1>6, <2>2, <3>2, Users1
        <4> QED BY <1>1, <1>2, <1>3, <4>1 DEF ClientInv, Ready, Clean, TypeOK
      <3> QED BY <3>1, <3>2
    <2> QED BY <2>1, <2>2 DEF Ready
  <1>9. TypeOK'
    <2>1. /\ rep' \in [Conns -> Seq(Answer)] /\ cn' \in [Users -> Conns \cup {NoConn}]
          /\ pos' \in [Users -> Nat] /\ pc' \in [Users -> {"idle", "get", "write", "read"}]
      BY <1>1, <1>2, <1>3 DEF TypeOK
    <2>2. \A v \in Users : pc'[v] # "idle" => kind'[v] \in {"cmd", "blocking", "pipe", "tx"}
      BY <1>1, <1>3, <1>4, <1>5 DEF TypeOK
    <2> QED BY <1>1, <1>2, <1>3, <2>1, <2>2 DEF TypeOK
  <1>10. Goes(u)
    BY <1>1, <1>3, <1>5 DEF Goes
  <1>11. (\A d \in Conns : ConnInv(d)') /\ \A v \in Users : Count(v)'
    BY <1>3, <1>10, UserMoves
  <1>12. OneHome'
    BY <1>3, <1>4, <1>5, HomeKept
  <1>13. Alone(u)
    <2> SUFFICES ASSUME NEW v \in Users \ {u}, pc[v] = "read"
                 PROVE  UNCHANGED <<req[cn[v]], rep[cn[v]], multi[cn[v]]>>
      BY <1>5 DEF Alone
    <2>1. cn[v] \in Conns /\ cn[v] # c /\ cn'[v] = cn[v]
      BY <1>4, <1>5, <1>6, Users1
    <2> QED BY <1>1, <1>2, <1>3, <2>1 DEF TypeOK
  <1>14. OwnReplies' /\ (result'[u] = "nil" => \A i \in 1 .. Size(kind'[u]) : execs'[u][i] > 0)
    BY <1>3 DEF ClientInv, OwnReplies, NoErrorMeansRun
  <1> QED BY <1>4, <1>7, <1>8, <1>9, <1>11, <1>12, <1>13, <1>14, UserStepInv

LEMMA GetConnFailsInv ==
    ASSUME ClientInv, NEW u \in Users, NEW e, GetConnFails(u, e) PROVE ClientInv'
  <1>1. TypeOK /\ pc[u] = "get" /\ cn[u] = NoConn /\ e \in Errs \ {"nil"}
    BY DEF ClientInv, Lent, GetConnFails, Errs
  <1>2. PICK f \in [1 .. Batch -> Errs] : err' = [err EXCEPT ![u] = f]
    BY <1>1, SetErr DEF GetConnFails
  <1>3. Retry(u, e) \/ Return(u, e)
    BY DEF GetConnFails
  <1>4. UNCHANGED <<idle, open, req, rep, multi, execs, calls, kind, cn, pos, mixed>>
    BY DEF GetConnFails, netVars, callVars
  <1>5. /\ pc' \in [Users -> {"idle", "get", "write", "read"}]
        /\ attempt' \in [Users -> 0 .. MaxRetries] /\ result' \in [Users -> Errs \cup {"none"}]
        /\ \A v \in Users \ {u} : UNCHANGED <<pc[v], attempt[v], result[v]>>
        /\ pc'[u] \in {"idle", "get"} /\ result'[u] \in {e, result[u]}
    BY <1>1, <1>3, Ends
  <1>6. \A v \in Users \ {u} : err'[v] = err[v]
    BY <1>1, <1>2 DEF TypeOK
  <1>7. (\A d \in Conns : ConnInv(d)') /\ \A v \in Users : Count(v)'
    BY <1>1, <1>3, <1>4, Unwritten, UserMoves
  <1>8. OneHome'
    BY <1>4, <1>5, HomeKept
  <1>9. TypeOK'
    <2>1. err' \in [Users -> [1 .. Batch -> Errs]]
      BY <1>1, <1>2 DEF TypeOK
    <2>2. \A v \in Users : pc'[v] # "idle" => kind'[v] \in {"cmd", "blocking", "pipe", "tx"}
      BY <1>1, <1>4, <1>5 DEF TypeOK
    <2> QED BY <1>1, <1>4, <1>5, <2>1, <2>2 DEF TypeOK
  <1>10. Lent' /\ Ready'
    BY <1>1, <1>4, <1>5 DEF ClientInv, Lent, Ready, Clean
  <1>11. Alone(u)
    BY <1>4, <1>5, <1>6 DEF Alone
  <1>12. OwnReplies' /\ (result'[u] = "nil" => \A i \in 1 .. Size(kind'[u]) : execs'[u][i] > 0)
    BY <1>1, <1>4, <1>5 DEF ClientInv, OwnReplies, NoErrorMeansRun
  <1> QED BY <1>5, <1>7, <1>8, <1>9, <1>10, <1>11, <1>12, UserStepInv

\* Whatever is on its way on the connection is closed away with it.
LEMMA ReadFailsInv == ASSUME ClientInv, NEW u \in Users, ReadFails(u) PROVE ClientInv'
  <1> DEFINE c == cn[u]
             n == Size(kind[u])
             at == IF kind[u] = "tx" THEN pos[u] - n - 1 ELSE pos[u] + 1
             f == IF at < 1 THEN SetCmdsErr(u, "net") ELSE [err[u] EXCEPT ![at] = "net"]
             r == FirstCmdsErr(f)
  <1>1. /\ TypeOK /\ pc[u] = "read" /\ c \in Conns /\ Stream(u) /\ pos[u] \in Nat
        /\ kind[u] \in {"cmd", "blocking", "pipe", "tx"} /\ err[u] \in [1 .. Batch -> Errs]
    BY Users1 DEF ReadFails, ClientInv, UserInv
  <1>2. n \in 1 .. Batch /\ (kind[u] = "tx" => n = Batch) /\ Batch \in Nat
    BY Numbers
  <1>3. f \in [1 .. Batch -> Errs] /\ r \in Errs \ {"nil"}
    <2>1. "net" \in Errs
      BY DEF Errs
    <2>2. CASE at < 1
      BY <2>1, <2>2, SetErr
    <2>3. CASE ~(at < 1)
      <3>1. at \in 1 .. Batch
        BY <1>1, <1>2, <2>3 DEF Stream
      <3>2. f = [err[u] EXCEPT ![at] = "net"]
        BY <2>3
      <3> HIDE DEF at, f
      <3>3. f \in [1 .. Batch -> Errs] /\ f[at] # "nil"
        BY <1>1, <2>1, <3>1, <3>2
      <3> QED BY <3>1, <3>3, FirstErr
    <2> QED BY <2>2, <2>3
  <1>4. /\ err' = [err EXCEPT ![u] = f] /\ Remove(u)
        /\ UNCHANGED <<req, rep, multi, execs, calls, kind, pos, mixed>>
    BY DEF ReadFails, callVars
  <1> HIDE DEF f
  <1>5. err'[u] = f /\ err' \in [Users -> [1 .. Batch -> Errs]] /\ \A v \in Users \ {u} : err'[v] = err[v]
    BY <1>1, <1>3, <1>4 DEF TypeOK
  <1>6. Return(u, r) \/ (kind[u] \in {"cmd", "pipe"} /\ Retry(u, r))
    BY <1>5 DEF ReadFails, CanRetry
  <1> HIDE DEF r
  <1>7. /\ pc' \in [Users -> {"idle", "get", "write", "read"}]
        /\ attempt' \in [Users -> 0 .. MaxRetries] /\ result' \in [Users -> Errs \cup {"none"}]
        /\ \A v \in Users \ {u} : UNCHANGED <<pc[v], attempt[v], result[v]>>
        /\ pc'[u] \in {"idle", "get"} /\ result'[u] \in {r, result[u]}
    BY <1>3, <1>6, Ends
  <1>8. Goes(u)
    <2>1. CASE Return(u, r)
      <3>1. attempt'[u] = attempt[u] /\ pc'[u] = "idle"
        BY <1>1, <2>1 DEF Return, TypeOK
      <3> QED BY <1>7, <3>1 DEF Goes
    <2>2. CASE kind[u] \in {"cmd", "pipe"}
      <3>1. \/ pc'[u] = "idle" /\ attempt'[u] = attempt[u]
            \/ pc'[u] = "get" /\ attempt'[u] = attempt[u] + 1
        BY <1>3, <1>6, Ends
      <3> QED BY <1>7, <2>2, <3>1 DEF Goes
    <2> QED BY <1>6, <2>1, <2>2
  <1>9. /\ open' = open \ {c} /\ idle' = idle /\ idle' \subseteq open' /\ open' \subseteq Conns
        /\ cn' \in [Users -> Conns \cup {NoConn}] /\ cn'[u] = NoConn
        /\ \A v \in Users \ {u} : cn'[v] = cn[v] /\ (cn[v] # NoConn => cn[v] \in open')
    BY <1>1, <1>4, Removed
  <1>10. (\A d \in Conns : ConnInv(d)') /\ \A v \in Users : Count(v)'
    BY <1>4, <1>8, UserMoves
  <1>11. OneHome'
    BY <1>4, <1>7, <1>9, HomeKept
  <1>12. TypeOK'
    <2>1. \A v \in Users : pc'[v] # "idle" => kind'[v] \in {"cmd", "blocking", "pipe", "tx"}
      BY <1>1, <1>4, <1>7 DEF TypeOK
    <2> QED BY <1>1, <1>4, <1>5, <1>7, <1>9, <2>1 DEF TypeOK
  <1>13. Lent'
    <2>1. \A v \in Users \ {u} : cn[v] # NoConn => cn[v] \in open' \ idle'
      BY <1>9 DEF ClientInv, Lent
    <2> QED BY <1>7, <1>9, <2>1, LentStep
  <1>14. Ready'
    <2>1. ASSUME NEW v \in Users, pc'[v] = "write" PROVE v # u /\ pc[v] = "write" /\ cn'[v] = cn[v]
      BY <1>7, <1>9, <2>1
    <2> QED BY <1>4, <1>9, <2>1 DEF ClientInv, Ready, Clean
  <1>15. Alone(u)
    BY <1>4, <1>5, <1>7, <1>9 DEF Alone
  <1>16. OwnReplies' /\ (result'[u] = "nil" => \A i \in 1 .. Size(kind'[u]) : execs'[u][i] > 0)
    BY <1>3, <1>4, <1>7 DEF ClientInv, OwnReplies, NoErrorMeansRun
  <1> QED BY <1>7, <1>10, <1>11, <1>12, <1>13, <1>14, <1>15, <1>16, UserStepInv

-----------------------------------------------------------------------------
(* Reading.                                                                *)

\* A reply that is taken is the reader's own.
LEMMA Taken == ASSUME ClientInv, NEW u \in Users, Take(u)
    PROVE  /\ pc[u] = "read" /\ cn[u] \in Conns /\ Stream(u)
           /\ rep[cn[u]] # <<>> /\ Len(rep[cn[u]]) >= 1 /\ Head(rep[cn[u]]) = rep[cn[u]][1]
           /\ rep' \in [Conns -> Seq(Answer)] /\ rep'[cn[u]] \in Seq(Answer)
           /\ Len(rep'[cn[u]]) = Len(rep[cn[u]]) - 1
           /\ \A k \in 1 .. (Len(rep[cn[u]]) - 1) : rep'[cn[u]][k] = rep[cn[u]][k + 1]
           /\ \A d \in Conns \ {cn[u]} : rep'[d] = rep[d]
           /\ UNCHANGED <<req, multi, execs, mixed>>
  <1> DEFINE c == cn[u]
  <1>1. pc[u] = "read" /\ c \in Conns /\ Stream(u) /\ rep[c] # <<>> /\ rep \in [Conns -> Seq(Answer)]
    BY Users1 DEF Take, ClientInv, UserInv, TypeOK
  <1>2. /\ Len(rep[c]) \in Nat /\ Len(rep[c]) >= 1 /\ Head(rep[c]) = rep[c][1]
        /\ Tail(rep[c]) \in Seq(Answer) /\ Len(Tail(rep[c])) = Len(rep[c]) - 1
        /\ \A k \in 1 .. (Len(rep[c]) - 1) : Tail(rep[c])[k] = rep[c][k + 1]
    BY <1>1, Cut
  <1>3. rep' = [rep EXCEPT ![c] = Tail(rep[c])] /\ UNCHANGED <<req, multi, execs>>
    BY DEF Take
  <1>4. rep[c][1].id = Id(u)
    <2>1. 1 \in 1 .. Len(rep[c])
      BY <1>2
    <2> QED BY <1>1, <2>1 DEF Stream
  <1>5. mixed' = mixed
    <2>1. mixed = FALSE
      BY DEF ClientInv, OwnReplies, TypeOK
    <2> QED BY <1>2, <1>4, <2>1 DEF Take, Id
  <1>6. rep'[c] = Tail(rep[c]) /\ (\A d \in Conns \ {c} : rep'[d] = rep[d]) /\ rep' \in [Conns -> Seq(Answer)]
    BY <1>1, <1>2, <1>3
  <1> QED BY <1>1, <1>2, <1>3, <1>5, <1>6

\* The attempt ends with its last reply: nothing is left on the connection.
LEMMA ReadEnds ==
    ASSUME ClientInv, NEW u \in Users, Take(u), Put(u, rep'[cn[u]]),
           rep'[cn[u]] = <<>>, req[cn[u]] = <<>>, multi[cn[u]] = <<>>,
           UNCHANGED <<calls, kind>>,
           pos' \in [Users -> Nat], err' \in [Users -> [1 .. Batch -> Errs]],
           \A v \in Users \ {u} : UNCHANGED <<pos[v], err[v]>>,
           NEW e \in Errs,
           Return(u, e) \/ (Retry(u, e) /\ Goes(u)),
           e = "nil" => \A i \in 1 .. Size(kind[u]) : execs[u][i] > 0
    PROVE  ClientInv'
  <1> DEFINE c == cn[u]
  <1>1. /\ TypeOK /\ pc[u] = "read" /\ c \in Conns /\ c \in open /\ c \notin idle
        /\ cn \in [Users -> Conns \cup {NoConn}]
        /\ UNCHANGED <<req, multi, execs, mixed>> /\ rep' \in [Conns -> Seq(Answer)]
        /\ \A d \in Conns \ {c} : rep'[d] = rep[d]
    BY Taken, Users1 DEF ClientInv, TypeOK
  <1>2. idle' = idle \cup {c} /\ open' = open /\ cn' = [cn EXCEPT ![u] = NoConn]
    BY DEF Put
  <1>3. cn'[u] = NoConn /\ \A v \in Users \ {u} : cn'[v] = cn[v]
    BY <1>1, <1>2
  <1>4. /\ pc' \in [Users -> {"idle", "get", "write", "read"}]
        /\ attempt' \in [Users -> 0 .. MaxRetries] /\ result' \in [Users -> Errs \cup {"none"}]
        /\ \A v \in Users \ {u} : UNCHANGED <<pc[v], attempt[v], result[v]>>
        /\ pc'[u] \in {"idle", "get"} /\ result'[u] \in {e, result[u]}
    BY Ends
  <1>5. Goes(u)
    <2>1. CASE Return(u, e)
      <3>1. attempt'[u] = attempt[u] /\ pc'[u] = "idle"
        BY <1>1, <2>1 DEF Return, TypeOK
      <3> QED BY <1>4, <3>1 DEF Goes
    <2> QED BY <2>1
  <1>6. (\A d \in Conns : ConnInv(d)') /\ \A v \in Users : Count(v)'
    BY <1>1, <1>5, UserMoves
  <1>7. OneHome'
    BY <1>1, <1>3, <1>4, HomeKept
  <1>8. TypeOK'
    <2>1. \A v \in Users : pc'[v] # "idle" => kind'[v] \in {"cmd", "blocking", "pipe", "tx"}
      BY <1>1, <1>4 DEF TypeOK
    <2>2. cn' \in [Users -> Conns \cup {NoConn}] /\ idle' \subseteq open'
      BY <1>1, <1>2 DEF TypeOK
    <2> QED BY <1>1, <1>2, <1>4, <2>1, <2>2 DEF TypeOK
  <1>9. \A v \in Users \ {u} : cn[v] # NoConn => cn[v] # c /\ cn[v] \in open' \ idle'
    BY <1>1, <1>2, Numbers DEF ClientInv, Lent
  <1>10. Lent'
    BY <1>3, <1>4, <1>9, LentStep
  <1>11. \A v \in Users \ {u} : pc[v] \in {"read", "write"} => cn[v] # c /\ cn[v] \in Conns
    BY <1>9, Users1, Numbers
  <1>12. Ready'
    <2>1. ASSUME NEW d \in idle' PROVE Clean(d)'
      <3>1. CASE d = c
        BY <1>1, <3>1 DEF Clean
      <3>2. CASE d # c
        <4>1. d \in idle /\ d \in Conns
          BY <1>1, <1>2, <2>1, <3>2 DEF TypeOK
        <4> QED BY <1>1, <3>2, <4>1 DEF ClientInv, Ready, Clean
      <3> QED BY <3>1, <3>2
    <2>2. ASSUME NEW v \in Users, pc'[v] = "write" PROVE Clean(cn[v])' /\ cn'[v] = cn[v] /\ pos'[v] = 0
      <3>1. v # u /\ pc[v] = "write" /\ pos'[v] = pos[v] /\ cn'[v] = cn[v]
        BY <1>3, <1>4, <2>2
      <3>2. Clean(cn[v]) /\ cn[v] # c /\ cn[v] \in Conns /\ pos[v] = 0
        BY <1>11, <3>1 DEF ClientInv, Ready
      <3> QED BY <1>1, <3>1, <3>2 DEF Clean
    <2> QED BY <2>1, <2>2 DEF Ready
  <1>13. Alone(u)
    BY <1>1, <1>3, <1>4, <1>11 DEF Alone
  <1>14. OwnReplies' /\ (result'[u] = "nil" => \A i \in 1 .. Size(kind'[u]) : execs'[u][i] > 0)
    BY <1>1, <1>4 DEF ClientInv, OwnReplies, NoErrorMeansRun
  <1> QED BY <1>4, <1>6, <1>7, <1>8, <1>10, <1>12, <1>13, <1>14, UserStepInv

\* More replies are to come.
LEMMA ReadGoesOn ==
    ASSUME ClientInv, NEW u \in Users, Take(u), pos' = [pos EXCEPT ![u] = pos[u] + 1],
           err' \in [Users -> [1 .. Batch -> Errs]], \A v \in Users \ {u} : err'[v] = err[v],
           UNCHANGED <<idle, open, cn, attempt, pc, result, calls, kind>>, Stream(u)'
    PROVE  ClientInv'
  <1> DEFINE c == cn[u]
  <1>1. /\ TypeOK /\ pc[u] = "read" /\ c \in Conns /\ c \notin idle
        /\ UNCHANGED <<req, multi, execs, mixed>> /\ rep' \in [Conns -> Seq(Answer)]
        /\ \A d \in Conns \ {c} : rep'[d] = rep[d]
    BY Taken, Users1 DEF ClientInv
  <1>2. pos' \in [Users -> Nat] /\ \A v \in Users \ {u} : pos'[v] = pos[v]
    BY <1>1 DEF TypeOK
  <1>3. Goes(u)
    BY DEF Goes
  <1>4. (\A d \in Conns : ConnInv(d)') /\ \A v \in Users : Count(v)'
    BY <1>1, <1>3, UserMoves
  <1>5. OneHome'
    BY <1>1, HomeKept
  <1>6. TypeOK'
    BY <1>1, <1>2 DEF TypeOK
  <1>7. Lent'
    BY DEF ClientInv, Lent
  <1>8. \A v \in Users \ {u} : pc[v] \in {"read", "write"} => cn[v] # c /\ cn[v] \in Conns
    BY <1>1, Users1, Numbers DEF ClientInv, Lent
  <1>9. Ready'
    <2>1. ASSUME NEW d \in idle PROVE Clean(d)'
      BY <1>1 DEF ClientInv, Ready, Clean, TypeOK
    <2>2. ASSUME NEW v \in Users, pc[v] = "write" PROVE Clean(cn[v])' /\ pos'[v] = 0
      <3>1. v # u /\ Clean(cn[v]) /\ cn[v] # c /\ cn[v] \in Conns /\ pos[v] = 0
        BY <1>1, <1>8, <2>2 DEF ClientInv, Ready
      <3> QED BY <1>1, <1>2, <3>1 DEF Clean
    <2> QED BY <2>1, <2>2 DEF Ready
  <1>10. Alone(u)
    BY <1>1, <1>2, <1>8 DEF Alone
  <1>11. OwnReplies' /\ (result'[u] = "nil" => \A i \in 1 .. Size(kind'[u]) : execs'[u][i] > 0)
    BY <1>1 DEF ClientInv, OwnReplies, NoErrorMeansRun
  <1> QED BY <1>4, <1>5, <1>6, <1>7, <1>9, <1>10, <1>11, UserStepInv

LEMMA LastOne == \A p, a, b, m \in Nat :
    /\ a >= 1 /\ p + a + b = m /\ p + 1 = m => a - 1 = 0 /\ b = 0
    /\ p + a = m /\ p + 1 = m => a - 1 = 0
  OBVIOUS

\* A command reads its only reply.
LEMMA ReadCmdInv == ASSUME ClientInv, NEW u \in Users, ReadCmd(u) PROVE ClientInv'
  <1> DEFINE c == cn[u]
             val == rep[c][1].val
             e == ErrOf(val)
  <1>1. /\ Take(u) /\ Put(u, rep'[c]) /\ kind[u] \in {"cmd", "blocking"}
        /\ UNCHANGED <<calls, kind, pos>>
    BY DEF ReadCmd, callVars
  <1>2. /\ pc[u] = "read" /\ c \in Conns /\ Stream(u) /\ rep[c] # <<>> /\ Len(rep[c]) >= 1
        /\ Head(rep[c]) = rep[c][1] /\ rep'[c] \in Seq(Answer) /\ Len(rep'[c]) = Len(rep[c]) - 1
    BY <1>1, Taken
  <1>3. /\ TypeOK /\ pos[u] \in Nat /\ Len(rep[c]) \in Nat /\ Len(req[c]) \in Nat
        /\ err[u] \in [1 .. Batch -> Errs] /\ attempt[u] \in Nat
    BY <1>2, Users1, Typed DEF ClientInv
  <1>4. Size(kind[u]) = 1 /\ 1 \in 1 .. Batch
    BY <1>1, Numbers
  <1>5. /\ pos[u] = 0 /\ Len(rep'[c]) = 0 /\ Len(req[c]) = 0 /\ multi[c] = <<>>
        /\ val \in {"ok", "error", "loading"} /\ (val = "ok" => execs[u][1] > 0)
        /\ kind[u] = "blocking" /\ val = "loading" => \A i \in 1 .. Batch : execs[u][i] = 0
    <2>1. pos[u] = 0 /\ pos[u] + Len(rep[c]) + Len(req[c]) = 1
      BY <1>1, <1>2, <1>4 DEF Stream, Served
    <2>2. 1 \in 1 .. Len(rep[c]) /\ pos[u] + 1 = 1
      BY <1>2, <1>3, <2>1
    <2>3. \A k \in 1 .. Len(rep[c]) : /\ rep[c][k].val \in {"ok", "error", "loading"}
                                      /\ rep[c][k].val = "ok" => execs[u][pos[u] + k] > 0
      BY <1>1, <1>2 DEF Stream
    <2>4. val \in {"ok", "error", "loading"} /\ (val = "ok" => execs[u][pos[u] + 1] > 0)
      BY <2>2, <2>3
    <2>5. multi[c] = <<>> /\ (kind[u] = "blocking" /\ val = "loading" =>
                                \A i \in 1 .. Batch : execs[u][i] = 0)
      BY <1>1, <1>2 DEF Stream
    <2>6. /\ Len(rep[c]) \in Nat /\ Len(rep[c]) >= 1 /\ Len(req[c]) \in Nat
          /\ Len(rep'[c]) = Len(rep[c]) - 1
      BY <1>2, <1>3
    <2>7. Len(rep[c]) - 1 = 0 /\ Len(req[c]) = 0
      <3>1. pos[u] + 1 = 1 /\ 1 \in Nat /\ pos[u] \in Nat
        BY <2>1
      <3> QED BY <2>1, <2>6, <3>1, LastOne, ZenonT(60)
    <2>8. Len(rep'[c]) = 0
      BY <2>6, <2>7
    <2> HIDE DEF val
    <2> QED BY <2>1, <2>2, <2>4, <2>5, <2>7, <2>8
  <1>6. rep'[c] = <<>> /\ req[c] = <<>>
    BY <1>2, <1>5, Empty, Typed
  <1>7. /\ err' = [err EXCEPT ![u] = [err[u] EXCEPT ![1] = e]] /\ e \in Errs
        /\ IF val = "loading" THEN Retry(u, e) ELSE Return(u, e)
    <2>1. e \in Errs /\ (val = "loading" => e = "redis")
      BY DEF ErrOf, Errs
    <2> QED BY <1>2, <2>1 DEF ReadCmd
  <1>8. /\ err' \in [Users -> [1 .. Batch -> Errs]] /\ pos' \in [Users -> Nat]
        /\ \A v \in Users \ {u} : UNCHANGED <<pos[v], err[v]>>
    <2>1. [err[u] EXCEPT ![1] = e] \in [1 .. Batch -> Errs]
      BY <1>3, <1>4, <1>7
    <2> QED BY <1>1, <1>3, <1>7, <2>1 DEF TypeOK
  <1>9. Return(u, e) \/ (Retry(u, e) /\ Goes(u))
    <2>1. CASE val # "loading"
      BY <1>7, <2>1
    <2>2. CASE val = "loading"
      <3>1. Retry(u, e)
        BY <1>7, <2>2
      <3>2. ASSUME kind[u] \in {"tx", "blocking"}
            PROVE  (\A i \in 1 .. Batch : execs[u][i] = 0) /\ \A d \in Conns : ~Runs(d, u)
        <4>1. ASSUME NEW d \in Conns, Runs(d, u) PROVE FALSE
          <5>1. req[d] # <<>> /\ req[d][1].id[1] = u /\ req[d][1].id[2] = calls[u]
            BY <4>1 DEF Runs, Of
          <5>2. req[d][1].id[3] = attempt[u]
            BY <4>1 DEF ClientInv, ConnInv, Once
          <5>3. req[d][1].id \in Ids
            BY <5>1, Typed DEF Request
          <5>4. req[d][1].id = Id(u)
            BY <5>1, <5>2, <5>3 DEF Id, Ids
          <5>5. d = c
            BY <1>2, <5>1, <5>4 DEF ClientInv, OneHome
          <5> QED BY <1>6, <5>1, <5>5
        <4> QED BY <1>1, <1>5, <2>2, <3>2, <4>1
      <3> QED BY <1>2, <1>7, <3>1, <3>2, Ends DEF Goes
    <2> QED BY <2>1, <2>2
  <1>10. e = "nil" => \A i \in 1 .. Size(kind[u]) : execs[u][i] > 0
    BY <1>4, <1>5 DEF ErrOf
  <1> HIDE DEF e, val
  <1> QED BY <1>1, <1>5, <1>6, <1>7, <1>8, <1>9, <1>10, ReadEnds

\* A pipeline reads one of its replies, or a transaction one of those after EXEC's header.
LEMMA ReadBatchInv == ASSUME ClientInv, NEW u \in Users, ReadBatch(u) PROVE ClientInv'
  <1> DEFINE c == cn[u]
             n == Size(kind[u])
             skip == IF kind[u] = "tx" THEN n + 2 ELSE 0
             at == pos[u] - skip + 1
             val == rep[c][1].val
             f == [err[u] EXCEPT ![at] = ErrOf(val)]
  <1>1. /\ Take(u) /\ kind[u] \in {"pipe", "tx"} /\ pos[u] >= skip
        /\ pos' = [pos EXCEPT ![u] = pos[u] + 1] /\ UNCHANGED <<calls, kind>>
    BY DEF ReadBatch, callVars
  <1>2. /\ pc[u] = "read" /\ c \in Conns /\ Stream(u) /\ rep[c] # <<>> /\ Len(rep[c]) >= 1
        /\ Head(rep[c]) = rep[c][1] /\ rep'[c] \in Seq(Answer) /\ Len(rep'[c]) = Len(rep[c]) - 1
        /\ \A k \in 1 .. (Len(rep[c]) - 1) : rep'[c][k] = rep[c][k + 1]
        /\ UNCHANGED <<req, multi, execs>>
    BY <1>1, Taken
  <1>3. /\ TypeOK /\ pos[u] \in Nat /\ Len(rep[c]) \in Nat /\ Len(req[c]) \in Nat
        /\ err[u] \in [1 .. Batch -> Errs] /\ (req[c] = <<>> <=> Len(req[c]) = 0)
    BY <1>2, Users1, Typed DEF ClientInv
  <1>4. n \in 1 .. Batch /\ Batch \in Nat
    BY Numbers
  <1>5. kind[u] = "tx" => /\ pos[u] < 2 * n + 2 /\ pos[u] + Len(rep[c]) = 2 * n + 2
                          /\ req[c] = <<>> /\ multi[c] = <<>> /\ \A i \in 1 .. n : execs[u][i] > 0
    <2> SUFFICES ASSUME kind[u] = "tx"
                 PROVE  /\ pos[u] < 2 * n + 2 /\ pos[u] + Len(rep[c]) = 2 * n + 2
                        /\ req[c] = <<>> /\ multi[c] = <<>> /\ \A i \in 1 .. n : execs[u][i] > 0
      OBVIOUS
    <2>1. Served(u) = pos[u] + Len(rep[c]) /\ Served(u) > n + 2
      BY <1>1, <1>2, <1>3, <1>4 DEF Served
    <2>2. ~(Served(u) <= n + 1) /\ Served(u) # n + 2
      BY <1>3, <1>4, <2>1
    <2> HIDE DEF n
    <2> QED BY <1>2, <2>1, <2>2 DEF Stream, n
  <1>6. kind[u] # "tx" => /\ pos[u] < n /\ pos[u] + Len(rep[c]) + Len(req[c]) = n /\ multi[c] = <<>>
    BY <1>1, <1>2 DEF Stream, Served
  <1>7. at \in 1 .. n
    BY <1>1, <1>3, <1>4, <1>5, <1>6, SMTT(60)
  <1>8. ErrOf(val) \in Errs /\ f \in [1 .. Batch -> Errs]
    <2>1. ErrOf(val) \in Errs
      BY DEF ErrOf, Errs
    <2>2. at \in 1 .. Batch
      BY <1>4, <1>7
    <2> HIDE DEF at
    <2> QED BY <1>3, <2>1, <2>2
  <1>9. err' = [err EXCEPT ![u] = f]
    BY <1>2 DEF ReadBatch
  <1>10. kind[u] # "tx" => /\ at = pos[u] + 1
                           /\ val \in {"ok", "error", "loading"}
                           /\ ErrOf(val) = "nil" => execs[u][at] > 0
                           /\ \A i \in 1 .. pos[u] : err[u][i] = "nil" => execs[u][i] > 0
    <2> SUFFICES ASSUME kind[u] # "tx"
                 PROVE  /\ at = pos[u] + 1 /\ val \in {"ok", "error", "loading"}
                        /\ val = "ok" => execs[u][at] > 0
                        /\ \A i \in 1 .. pos[u] : err[u][i] = "nil" => execs[u][i] > 0
      BY DEF ErrOf
    <2>1. at = pos[u] + 1 /\ 1 \in 1 .. Len(rep[c])
      BY <1>2, <1>3
    <2>2. \A k \in 1 .. Len(rep[c]) : /\ rep[c][k].val \in {"ok", "error", "loading"}
                                      /\ rep[c][k].val = "ok" => execs[u][pos[u] + k] > 0
      BY <1>2 DEF Stream
    <2>3. val \in {"ok", "error", "loading"} /\ (val = "ok" => execs[u][pos[u] + 1] > 0)
      BY <2>1, <2>2
    <2>4. \A i \in 1 .. pos[u] : err[u][i] = "nil" => execs[u][i] > 0
      BY <1>2 DEF Stream
    <2> HIDE DEF val, at
    <2> QED BY <2>1, <2>3, <2>4
  <1>11. ASSUME kind[u] # "tx", NEW i \in 1 .. (pos[u] + 1), f[i] = "nil" PROVE execs[u][i] > 0
    <2>1. CASE i = pos[u] + 1
      <3>1. i = at /\ i \in 1 .. Batch
        BY <1>4, <1>7, <1>10, <1>11, <2>1
      <3>2. f[i] = ErrOf(val)
        BY <1>3, <3>1
      <3> HIDE DEF f, at
      <3> QED BY <1>10, <1>11, <3>1, <3>2
    <2>2. CASE i # pos[u] + 1
      <3>1. i \in 1 .. pos[u] /\ i # at
        BY <1>3, <1>10, <1>11, <2>2
      <3>2. f[i] = err[u][i]
        BY <3>1, <1>3, <1>4, <1>6, <1>11
      <3> HIDE DEF f, at
      <3> QED BY <1>10, <1>11, <3>1, <3>2
    <2> QED BY <2>1, <2>2
  <1> HIDE DEF f
  <1>12. /\ err' \in [Users -> [1 .. Batch -> Errs]] /\ pos' \in [Users -> Nat] /\ err'[u] = f
         /\ pos'[u] = pos[u] + 1 /\ \A v \in Users \ {u} : UNCHANGED <<pos[v], err[v]>>
    BY <1>1, <1>3, <1>8, <1>9 DEF TypeOK
  <1>13. CASE at = n
    <2> DEFINE e == FirstCmdsErr(f)
    <2>1. Put(u, rep'[c]) /\ Return(u, e)
      BY <1>12, <1>13 DEF ReadBatch
    <2>2. e \in Errs /\ (e = "nil" => \A i \in 1 .. Batch : f[i] = "nil")
      BY <1>8, FirstErr
    <2>3. Len(rep'[c]) = 0 /\ Len(req[c]) = 0
      <3>0. /\ pos[u] \in Nat /\ Len(rep[c]) \in Nat /\ Len(rep[c]) >= 1 /\ Len(req[c]) \in Nat
            /\ n \in Nat /\ Len(rep'[c]) = Len(rep[c]) - 1
        BY <1>2, <1>3, <1>4
      <3>1. CASE kind[u] = "tx"
        <4>1. pos[u] - (n + 2) + 1 = n
          BY <1>13, <3>1
        <4>2. pos[u] + Len(rep[c]) = 2 * n + 2 /\ Len(req[c]) = 0
          BY <1>3, <1>5, <3>1
        <4> HIDE DEF n
        <4>3. pos[u] + 1 = 2 * n + 2 /\ 2 * n + 2 \in Nat
          BY <3>0, <4>1
        <4>4. Len(rep[c]) - 1 = 0
          BY <3>0, <4>2, <4>3, LastOne, ZenonT(60)
        <4> QED BY <3>0, <4>2, <4>4
      <3>2. CASE kind[u] # "tx"
        <4>1. pos[u] - 0 + 1 = n
          BY <1>13, <3>2
        <4>2. pos[u] + Len(rep[c]) + Len(req[c]) = n
          BY <1>6, <3>2
        <4> HIDE DEF n
        <4>3. pos[u] + 1 = n
          BY <3>0, <4>1
        <4>4. Len(rep[c]) - 1 = 0 /\ Len(req[c]) = 0
          BY <3>0, <4>2, <4>3, LastOne, ZenonT(60)
        <4> QED BY <3>0, <4>4
      <3> QED BY <3>1, <3>2
    <2>4. rep'[c] = <<>> /\ req[c] = <<>> /\ multi[c] = <<>>
      BY <1>2, <1>3, <1>5, <1>6, <2>3, Empty
    <2>5. e = "nil" => \A i \in 1 .. n : execs[u][i] > 0
      <3>1. CASE kind[u] = "tx"
        BY <1>5, <3>1
      <3>2. CASE kind[u] # "tx"
        <4>1. pos[u] + 1 = n /\ \A i \in 1 .. n : i \in 1 .. Batch
          BY <1>4, <1>10, <1>13, <3>2
        <4> HIDE DEF e, n
        <4> QED BY <1>11, <2>2, <3>2, <4>1
      <3> QED BY <3>1, <3>2
    <2> HIDE DEF e
    <2> QED BY <1>1, <1>12, <2>1, <2>2, <2>4, <2>5, ReadEnds
  <1>14. CASE at # n
    <2>1. UNCHANGED <<idle, open, cn, attempt, pc, result>>
      BY <1>14 DEF ReadBatch
    <2>2. /\ Id(u)' = Id(u) /\ Served(u)' = Served(u) /\ cn'[u] = c /\ req'[c] = req[c]
          /\ multi'[c] = multi[c] /\ kind' = kind /\ execs' = execs /\ Served(u) = pos[u] + Len(rep[c])
      <3>1. Served(u)' = pos'[u] + Len(rep'[c]) /\ Served(u) = pos[u] + Len(rep[c])
        BY <2>1 DEF Served
      <3>0. pos[u] \in Nat /\ Len(rep[c]) \in Nat /\ Len(rep'[c]) = Len(rep[c]) - 1 /\ pos'[u] = pos[u] + 1
        BY <1>2, <1>3, <1>12
      <3>2. Served(u)' = Served(u)
        BY <3>0, <3>1
      <3> QED BY <1>1, <1>2, <2>1, <3>1, <3>2 DEF Id
    <2>3. \A k \in 1 .. Len(rep'[c]) : k + 1 \in 1 .. Len(rep[c]) /\ rep'[c][k] = rep[c][k + 1]
      BY <1>2, <1>3
    <2>4. /\ \A k \in 1 .. Len(rep'[c]) : rep'[c][k].id = Id(u)
          /\ req[c] # <<>> => req[c][1].id = Id(u)
      BY <1>2, <2>3 DEF Stream
    <2>5. Stream(u)'
      <3>1. CASE kind[u] = "tx"
        <4>1. pos[u] + 1 < 2 * n + 2 /\ Served(u) = 2 * n + 2 /\ pos[u] + 1 > n + 1 /\ pos[u] + 1 # 0
          <5>1. at = pos[u] - (n + 2) + 1 /\ pos[u] >= n + 2
            BY <1>1, <3>1
          <5>2. n \in Nat /\ pos[u] \in Nat /\ Len(rep[c]) \in Nat
            BY <1>3, <1>4
          <5>3. pos[u] < 2 * n + 2 /\ pos[u] + Len(rep[c]) = 2 * n + 2
            BY <1>5, <3>1
          <5>4. Served(u) = 2 * n + 2
            BY <2>2, <5>3
          <5> HIDE DEF n
          <5>5. pos[u] # 2 * n + 1
            BY <1>14, <5>1, <5>2
          <5> QED BY <5>1, <5>2, <5>3, <5>4, <5>5
        <4>2. ~(pos[u] + 1 <= n + 1)
          BY <1>3, <1>4, <4>1
        <4> HIDE DEF n
        <4> QED BY <1>5, <1>12, <2>2, <2>4, <3>1, <4>1, <4>2 DEF Stream, n
      <3>2. CASE kind[u] # "tx"
        <4>1. pos[u] + 1 < n
          BY <1>3, <1>4, <1>6, <1>10, <1>14, <3>2
        <4>2. Served(u) + Len(req[c]) = n /\ (req[c] # <<>> => req[c][1].what = Served(u) + 1)
          BY <1>2, <3>2 DEF Stream
        <4>3. /\ \A k \in 1 .. Len(rep[c]) : rep[c][k].val \in {"ok", "error", "loading"}
              /\ \A k \in 1 .. Len(rep[c]) : rep[c][k].val = "ok" => execs[u][pos[u] + k] > 0
          BY <1>2, <3>2 DEF Stream
        <4>4. ASSUME NEW k \in 1 .. Len(rep'[c])
              PROVE  /\ rep'[c][k].val \in {"ok", "error", "loading"}
                     /\ rep'[c][k].val = "ok" => execs[u][(pos[u] + 1) + k] > 0
          <5>1. k + 1 \in 1 .. Len(rep[c]) /\ rep'[c][k] = rep[c][k + 1] /\ pos[u] + (k + 1) = (pos[u] + 1) + k
            BY <1>3, <2>3
          <5> QED BY <4>3, <5>1
        <4>5. kind[u] = "pipe"
          BY <1>1, <3>2
        <4>6. \A i \in 1 .. (pos[u] + 1) : f[i] = "nil" => execs[u][i] > 0
          BY <1>11, <3>2
        <4> HIDE DEF n
        <4> QED BY <1>6, <1>12, <2>2, <2>4, <3>2, <4>1, <4>2, <4>4, <4>5, <4>6 DEF Stream, n
      <3> QED BY <3>1, <3>2
    <2> QED BY <1>1, <1>12, <2>1, <2>5, ReadGoesOn
  <1> QED BY <1>13, <1>14

\* A transaction reads MULTI's reply, a QUEUED one or EXEC's header.
LEMMA ReadQueuedInv == ASSUME ClientInv, NEW u \in Users, ReadQueued(u) PROVE ClientInv'
  <1> DEFINE c == cn[u]
             n == Size(kind[u])
             val == rep[c][1].val
             stop == \/ pos[u] = 0 /\ ErrOf(val) = "redis"
                     \/ pos[u] = n + 1 /\ val # "array"
             g == IF val = "nil" THEN "txfailed" ELSE "redis"
             f == SetCmdsErr(u, g)
  <1>1. /\ Take(u) /\ kind[u] = "tx" /\ pos[u] < n + 2
        /\ pos' = [pos EXCEPT ![u] = pos[u] + 1] /\ UNCHANGED <<calls, kind>>
    BY DEF ReadQueued, callVars
  <1>2. /\ pc[u] = "read" /\ c \in Conns /\ Stream(u) /\ rep[c] # <<>> /\ Len(rep[c]) >= 1
        /\ Head(rep[c]) = rep[c][1] /\ rep'[c] \in Seq(Answer) /\ Len(rep'[c]) = Len(rep[c]) - 1
        /\ \A k \in 1 .. (Len(rep[c]) - 1) : rep'[c][k] = rep[c][k + 1]
        /\ UNCHANGED <<req, multi, execs>>
    BY <1>1, Taken
  <1>3. /\ TypeOK /\ pos[u] \in Nat /\ Len(rep[c]) \in Nat /\ Len(req[c]) \in Nat
        /\ err[u] \in [1 .. Batch -> Errs] /\ (req[c] = <<>> <=> Len(req[c]) = 0)
    BY <1>2, Users1, Typed DEF ClientInv
  <1>4. n \in Nat /\ n >= 1 /\ n = Batch
    BY <1>1, Numbers
  <1>5. /\ pos' \in [Users -> Nat] /\ pos'[u] = pos[u] + 1 /\ \A v \in Users \ {u} : pos'[v] = pos[v]
    BY <1>1, <1>3 DEF TypeOK
  <1>6. /\ pos[u] = 0 => val = "ok"
        /\ \/ /\ pos[u] + Len(rep[c]) <= n + 1 /\ Len(req[c]) = n + 2 - (pos[u] + Len(rep[c]))
              /\ req[c][1].what = pos[u] + Len(rep[c])
           \/ /\ pos[u] + Len(rep[c]) = n + 2 /\ req[c] = <<>> /\ multi[c] = <<>>
              /\ rep[c][n + 2 - pos[u]].val = "nil"
           \/ /\ pos[u] + Len(rep[c]) = 2 * n + 2 /\ req[c] = <<>> /\ multi[c] = <<>>
              /\ pos[u] <= n + 1 => rep[c][n + 2 - pos[u]].val = "array"
              /\ \A i \in 1 .. n : execs[u][i] > 0
    BY <1>1, <1>2 DEF Stream, Served
  <1>7. CASE stop
    <2> DEFINE e == FirstCmdsErr(f)
    <2>1. pos[u] = n + 1 /\ val # "array"
      BY <1>6, <1>7 DEF ErrOf
    <2>2. n + 2 - pos[u] = 1
      BY <1>4, <2>1
    <2>3. Len(rep'[c]) = 0 /\ req[c] = <<>> /\ multi[c] = <<>>
      <3>1. ~(pos[u] + Len(rep[c]) <= n + 1)
        BY <1>2, <1>3, <1>4, <2>1
      <3>2. /\ pos[u] + Len(rep[c]) = n + 2 /\ req[c] = <<>> /\ multi[c] = <<>>
        <4>1. pos[u] <= n + 1 /\ rep[c][n + 2 - pos[u]].val # "array"
          BY <1>4, <2>1, <2>2
        <4> HIDE DEF n
        <4> QED BY <1>6, <3>1, <4>1
      <3>3. Len(rep[c]) \in Nat /\ n \in Nat /\ Len(rep'[c]) = Len(rep[c]) - 1
        BY <1>2, <1>3, <1>4
      <3> HIDE DEF n
      <3>4. pos[u] + 1 = n + 2 /\ n + 2 \in Nat /\ pos[u] \in Nat
        BY <2>1, <3>3
      <3>5. Len(rep[c]) - 1 = 0
        BY <3>2, <3>3, <3>4, LastOne, Zenon
      <3> QED BY <3>2, <3>3, <3>5
    <2>4. rep'[c] = <<>>
      BY <1>2, <2>3, Empty
    <2>5. f \in [1 .. Batch -> Errs] /\ e \in Errs \ {"nil"}
      <3>1. g \in Errs /\ g # "nil"
        BY DEF Errs
      <3> HIDE DEF g
      <3> QED BY <3>1, SetErr
    <2>6. err' = [err EXCEPT ![u] = f] /\ Put(u, rep'[c]) /\ Return(u, FirstCmdsErr(err'[u]))
      <3>1. Head(rep[c]).val = val
        BY <1>2
      <3> QED BY <1>7, <3>1 DEF ReadQueued
    <2> HIDE DEF f, stop
    <2>7. /\ err' \in [Users -> [1 .. Batch -> Errs]] /\ err'[u] = f
          /\ \A v \in Users \ {u} : err'[v] = err[v]
      BY <1>3, <2>5, <2>6 DEF TypeOK
    <2>8. Return(u, e)
      BY <2>6, <2>7
    <2> HIDE DEF e
    <2> QED BY <1>1, <1>5, <2>3, <2>4, <2>5, <2>6, <2>7, <2>8, ReadEnds
  <1>8. CASE ~stop
    <2>1. UNCHANGED <<idle, open, cn, attempt, err, pc, result>>
      <3>1. Head(rep[c]).val = val
        BY <1>2
      <3> QED BY <1>8, <3>1 DEF ReadQueued
    <2>2. /\ Id(u)' = Id(u) /\ Served(u)' = pos[u] + Len(rep[c]) /\ cn'[u] = c /\ req'[c] = req[c]
          /\ multi'[c] = multi[c] /\ kind' = kind /\ execs' = execs
      <3>1. Served(u)' = pos'[u] + Len(rep'[c])
        BY <2>1 DEF Served
      <3>0. pos[u] \in Nat /\ Len(rep[c]) \in Nat /\ Len(rep'[c]) = Len(rep[c]) - 1 /\ pos'[u] = pos[u] + 1
        BY <1>2, <1>3, <1>5
      <3>2. Served(u)' = pos[u] + Len(rep[c])
        BY <3>0, <3>1
      <3> QED BY <1>1, <1>2, <2>1, <3>2 DEF Id
    <2>3. \A k \in 1 .. Len(rep'[c]) : k + 1 \in 1 .. Len(rep[c]) /\ rep'[c][k] = rep[c][k + 1]
      BY <1>2, <1>3
    <2>4. /\ \A k \in 1 .. Len(rep'[c]) : rep'[c][k].id = Id(u)
          /\ req[c] # <<>> => req[c][1].id = Id(u)
      BY <1>2, <2>3 DEF Stream
    <2>5. pos[u] + 1 < 2 * n + 2 /\ pos[u] + 1 # 0
      BY <1>1, <1>3, <1>4
    <2>6. \/ /\ pos[u] + Len(rep[c]) <= n + 1 /\ Len(req[c]) = n + 2 - (pos[u] + Len(rep[c]))
             /\ req[c][1].what = pos[u] + Len(rep[c])
          \/ /\ pos[u] + Len(rep[c]) = n + 2 /\ req[c] = <<>> /\ multi[c] = <<>>
             /\ pos[u] + 1 <= n + 1 /\ rep'[c][n + 2 - (pos[u] + 1)].val = "nil"
          \/ /\ pos[u] + Len(rep[c]) = 2 * n + 2 /\ req[c] = <<>> /\ multi[c] = <<>>
             /\ pos[u] + 1 <= n + 1 => rep'[c][n + 2 - (pos[u] + 1)].val = "array"
             /\ \A i \in 1 .. n : execs[u][i] > 0
      <3>1. CASE pos[u] = n + 1
        <4>1. val = "array" /\ n + 2 - pos[u] = 1 /\ ~(pos[u] + 1 <= n + 1)
          BY <1>4, <1>8, <3>1
        <4>2. ~(pos[u] + Len(rep[c]) <= n + 1)
          BY <1>2, <1>3, <1>4, <3>1
        <4>3. rep[c][n + 2 - pos[u]].val # "nil"
          BY <4>1
        <4> HIDE DEF val, n
        <4> QED BY <1>6, <4>1, <4>2, <4>3
      <3>2. CASE pos[u] # n + 1
        <4> DEFINE k == n + 2 - (pos[u] + 1)
        <4>1. pos[u] + 1 <= n + 1 /\ pos[u] <= n + 1 /\ k + 1 = n + 2 - pos[u] /\ k \in Nat /\ k >= 1
          BY <1>1, <1>3, <1>4, <3>2, SMTT(60)
        <4>2. pos[u] + Len(rep[c]) >= n + 2 => k \in 1 .. (Len(rep[c]) - 1)
          BY <1>3, <1>4, <4>1, SMTT(60)
        <4>3. pos[u] + Len(rep[c]) >= n + 2 => rep'[c][k] = rep[c][n + 2 - pos[u]]
          BY <1>2, <4>1, <4>2
        <4>4. 2 * n + 2 >= n + 2 /\ n + 2 >= n + 2
          BY <1>4
        <4> HIDE DEF k, n, val
        <4> QED BY <1>6, <4>1, <4>3, <4>4 DEF k
      <3> QED BY <3>1, <3>2
    <2>7. Stream(u)'
      <3> HIDE DEF n
      <3> QED BY <1>1, <1>5, <2>2, <2>4, <2>5, <2>6 DEF Stream, n
    <2>8. err' \in [Users -> [1 .. Batch -> Errs]]
      BY <1>3, <2>1 DEF TypeOK
    <2> QED BY <1>1, <2>1, <2>7, <2>8, ReadGoesOn
  <1> QED BY <1>7, <1>8

-----------------------------------------------------------------------------
(* The server.                                                             *)

\* The server takes the first request of c, with what it answers.
LEMMA ReplyFacts ==
    ASSUME ClientInv, NEW c \in Conns, req[c] # <<>>, NEW vals \in Seq(Vals), NEW len \in Nat,
           len = Len(vals), len >= 1, Reply(c, req[c][1].id, vals)
    PROVE  /\ req' \in [Conns -> Seq(Request)] /\ rep' \in [Conns -> Seq(Answer)]
           /\ \A d \in Conns \ {c} : UNCHANGED <<req[d], rep[d]>>
           /\ Len(req'[c]) = Len(req[c]) - 1
           /\ \A k \in 1 .. (Len(req[c]) - 1) : req'[c][k] = req[c][k + 1]
           /\ Len(rep'[c]) = Len(rep[c]) + len
           /\ \A k \in 1 .. Len(rep[c]) : rep'[c][k] = rep[c][k]
           /\ \A k \in 1 .. len : rep'[c][Len(rep[c]) + k] = [id |-> req[c][1].id, val |-> vals[k]]
  <1> DEFINE id == req[c][1].id
             new == [i \in 1 .. Len(vals) |-> [id |-> id, val |-> vals[i]]]
  <1>1. /\ req \in [Conns -> Seq(Request)] /\ rep \in [Conns -> Seq(Answer)]
        /\ req[c] \in Seq(Request) /\ rep[c] \in Seq(Answer) /\ id \in Ids
    BY Typed DEF ClientInv, TypeOK, Request
  <1>2. req' = [req EXCEPT ![c] = Tail(req[c])] /\ rep' = [rep EXCEPT ![c] = rep[c] \o new]
    BY DEF Reply
  <1>3. /\ Tail(req[c]) \in Seq(Request) /\ Len(Tail(req[c])) = Len(req[c]) - 1
        /\ \A k \in 1 .. (Len(req[c]) - 1) : Tail(req[c])[k] = req[c][k + 1]
    BY <1>1, Cut
  <1>4. new \in [1 .. len -> Answer] /\ \A k \in 1 .. len : new[k] = [id |-> id, val |-> vals[k]]
    BY <1>1, ElementOfSeq DEF Answer
  <1>5. new \in Seq(Answer) /\ Len(new) = len
    <2> HIDE DEF new
    <2> QED BY <1>4, FunSeq
  <1> HIDE DEF new, id
  <1>6. /\ rep[c] \o new \in Seq(Answer) /\ Len(rep[c] \o new) = Len(rep[c]) + len
        /\ \A k \in 1 .. Len(rep[c]) : (rep[c] \o new)[k] = rep[c][k]
        /\ \A k \in 1 .. len : (rep[c] \o new)[Len(rep[c]) + k] = new[k]
    <2>1. rep[c] \o new \in Seq(Answer) /\ Len(rep[c] \o new) = Len(rep[c]) + Len(new)
      BY <1>1, <1>5, CatLen, Zenon
    <2>2. \A k \in 1 .. Len(rep[c]) : (rep[c] \o new)[k] = rep[c][k]
      BY <1>1, <1>5, CatLeft, Zenon
    <2>3. \A k \in 1 .. Len(new) : (rep[c] \o new)[Len(rep[c]) + k] = new[k]
      BY <1>1, <1>5, CatRight, Zenon
    <2> QED BY <1>5, <2>1, <2>2, <2>3, Zenon
  <1>7. /\ req'[c] = Tail(req[c]) /\ req' \in [Conns -> Seq(Request)]
        /\ \A d \in Conns \ {c} : req'[d] = req[d]
    BY <1>1, <1>2, <1>3
  <1>8. /\ rep'[c] = rep[c] \o new /\ rep' \in [Conns -> Seq(Answer)]
        /\ \A d \in Conns \ {c} : rep'[d] = rep[d]
    BY <1>1, <1>2, <1>6, Zenon
  <1> QED BY <1>3, <1>4, <1>6, <1>7, <1>8, Zenon DEF id

LEMMA One == ASSUME NEW S, NEW x \in S PROVE \E t \in Seq(S) : t = <<x>> /\ Len(t) = 1 /\ t[1] = x
  <1>1. <<x>> \in Seq(S) /\ Len(<<x>>) = 1 /\ <<x>>[1] = x
    OBVIOUS
  <1> QED BY <1>1

\* The first answer and how many there are, and which commands have run.
Answers(c, len, val, S) ==
    LET w == req[c][1].what
        a == Len(multi[c])
    IN  \/ /\ w = 0 /\ Len(multi'[c]) = w + 1
           /\ len = 1 /\ val = "ok" /\ S = {}
        \/ /\ w \in 1 .. Batch /\ multi[c] # <<>>
           /\ Len(multi'[c]) = a + 1 /\ multi'[c][a + 1] = w
           /\ \A k \in 1 .. a : multi'[c][k] = multi[c][k]
           /\ len = 1 /\ val = "queued" /\ S = {}
        \/ /\ w \in 1 .. Batch /\ multi[c] = <<>> /\ multi'[c] = <<>>
           /\ len = 1 /\ \/ val = "ok" /\ S = {w}
                         \/ val \in {"error", "loading"} /\ S = {}
        \/ /\ w = Batch + 1 /\ multi[c] # <<>> /\ multi'[c] = <<>>
           /\ \/ len = a /\ val = "array" /\ S = {multi[c][k] : k \in 2 .. a}
              \/ len = 1 /\ val = "nil" /\ S = {}
        \/ /\ w = Batch + 1 /\ multi[c] = <<>> /\ multi'[c] = <<>>
           /\ len = 1 /\ val = "error" /\ S = {}

Serves(c, len, val, S) ==
    LET id == req[c][1].id IN
    /\ req[c] # <<>>
    /\ req' \in [Conns -> Seq(Request)] /\ rep' \in [Conns -> Seq(Answer)]
    /\ multi' \in [Conns -> Seq(Nat)]
    /\ \A d \in Conns \ {c} : UNCHANGED <<req[d], rep[d], multi[d]>>
    /\ Len(req'[c]) = Len(req[c]) - 1
    /\ \A k \in 1 .. (Len(req[c]) - 1) : req'[c][k] = req[c][k + 1]
    /\ Len(rep'[c]) = Len(rep[c]) + len
    /\ \A k \in 1 .. Len(rep[c]) : rep'[c][k] = rep[c][k]
    /\ \A k \in 1 .. len : rep'[c][Len(rep[c]) + k].id = id
    /\ rep'[c][Len(rep[c]) + 1].val = val
    /\ execs' \in [Users -> [1 .. Batch -> Nat]]
    /\ \A v \in Users, i \in 1 .. Batch :
          execs'[v][i] = IF v = id[1] /\ calls[v] = id[2] /\ i \in S THEN execs[v][i] + 1 ELSE execs[v][i]
    /\ UNCHANGED <<idle, open, calls, kind, attempt, cn, pos, pc, err, result, mixed>>
    /\ len \in Nat /\ len >= 1
    /\ Answers(c, len, val, S)

LEMMA RanFacts ==
    ASSUME ClientInv, NEW id \in Ids, NEW S, Ran(id, S) \/ (execs' = execs /\ S = {})
    PROVE  /\ execs' \in [Users -> [1 .. Batch -> Nat]]
           /\ \A v \in Users, i \in 1 .. Batch :
                 execs'[v][i] = IF v = id[1] /\ calls[v] = id[2] /\ i \in S THEN execs[v][i] + 1
                                ELSE execs[v][i]
  <1>1. execs \in [Users -> [1 .. Batch -> Nat]] /\ id[1] \in Users
    BY DEF ClientInv, TypeOK, Ids
  <1>2. CASE execs' = execs /\ S = {}
    BY <1>1, <1>2
  <1>3. CASE Ran(id, S) /\ calls[id[1]] # id[2]
    BY <1>1, <1>3 DEF Ran
  <1>4. CASE Ran(id, S) /\ calls[id[1]] = id[2]
    <2> DEFINE u == id[1]
               x == [i \in 1 .. Batch |-> IF i \in S THEN execs[u][i] + 1 ELSE execs[u][i]]
    <2>1. execs' = [execs EXCEPT ![u] = x]
      BY <1>4 DEF Ran
    <2>2. x \in [1 .. Batch -> Nat]
      <3>1. \A i \in 1 .. Batch : execs[u][i] \in Nat
        BY <1>1
      <3> QED BY <3>1
    <2>3. \A i \in 1 .. Batch : x[i] = IF i \in S THEN execs[u][i] + 1 ELSE execs[u][i]
      OBVIOUS
    <2> HIDE DEF x
    <2>4. execs'[u] = x /\ \A v \in Users \ {u} : execs'[v] = execs[v]
      BY <1>1, <2>1
    <2>5. execs' \in [Users -> [1 .. Batch -> Nat]]
      BY <1>1, <2>1, <2>2
    <2> QED BY <1>4, <2>3, <2>4, <2>5
  <1> QED BY <1>2, <1>3, <1>4

LEMMA ServeFacts ==
    ASSUME ClientInv, ~MultiRefused, NEW c \in Conns, Serve(c)
    PROVE  \E len, val, S : Serves(c, len, val, S)
  <1> DEFINE r == req[c][1]
             id == r.id
             w == r.what
             a == Len(multi[c])
  <1>1. /\ req[c] # <<>> /\ r \in Request /\ Head(req[c]) = r
        /\ multi \in [Conns -> Seq(Nat)] /\ multi[c] \in Seq(Nat) /\ a \in Nat
        /\ (multi[c] = <<>> <=> a = 0)
        /\ UNCHANGED <<idle, open, calls, kind, attempt, cn, pos, pc, err, result, mixed>>
    <2>1. req[c] # <<>> /\ UNCHANGED <<idle, open, calls, kind, attempt, cn, pos, pc, err, result, mixed>>
      BY DEF Serve, callVars, tryVars
    <2>2. multi \in [Conns -> Seq(Nat)] /\ req[c] \in Seq(Request)
      BY Typed DEF ClientInv, TypeOK
    <2> QED BY <2>1, <2>2, Typed, Cut
  <1>2. id \in Ids /\ w \in Nat
    BY <1>1 DEF Request
  <1>3. ASSUME NEW vals \in Seq(Vals), NEW len \in Nat, len = Len(vals), len >= 1, Reply(c, id, vals),
               multi' \in [Conns -> Seq(Nat)], \A d \in Conns \ {c} : multi'[d] = multi[d],
               NEW S, Ran(id, S) \/ (execs' = execs /\ S = {}), Answers(c, len, vals[1], S)
        PROVE  Serves(c, len, vals[1], S)
    <2>1. /\ req' \in [Conns -> Seq(Request)] /\ rep' \in [Conns -> Seq(Answer)]
          /\ \A d \in Conns \ {c} : UNCHANGED <<req[d], rep[d]>>
          /\ Len(req'[c]) = Len(req[c]) - 1
          /\ \A k \in 1 .. (Len(req[c]) - 1) : req'[c][k] = req[c][k + 1]
          /\ Len(rep'[c]) = Len(rep[c]) + len
          /\ \A k \in 1 .. Len(rep[c]) : rep'[c][k] = rep[c][k]
          /\ \A k \in 1 .. len : rep'[c][Len(rep[c]) + k] = [id |-> id, val |-> vals[k]]
      BY <1>1, <1>3, ReplyFacts, ZenonT(60)
    <2>2. /\ \A k \in 1 .. len : rep'[c][Len(rep[c]) + k].id = id
          /\ rep'[c][Len(rep[c]) + 1].val = vals[1]
      <3>1. 1 \in 1 .. len
        BY <1>3
      <3> HIDE DEF id, r
      <3>2. ASSUME NEW k \in 1 .. len
            PROVE  rep'[c][Len(rep[c]) + k].id = id /\ rep'[c][Len(rep[c]) + k].val = vals[k]
        <4>1. rep'[c][Len(rep[c]) + k] = [id |-> id, val |-> vals[k]]
          BY <2>1, Zenon
        <4> QED BY <4>1
      <3> QED BY <3>1, <3>2
    <2>3. /\ execs' \in [Users -> [1 .. Batch -> Nat]]
          /\ \A v \in Users, i \in 1 .. Batch :
                execs'[v][i] = IF v = id[1] /\ calls[v] = id[2] /\ i \in S THEN execs[v][i] + 1
                               ELSE execs[v][i]
      BY <1>2, <1>3, RanFacts
    <2> HIDE DEF id, r
    <2> QED BY <1>1, <1>3, <2>1, <2>2, <2>3 DEF Serves, id, r
  <1>4. ASSUME NEW v \in Vals PROVE \E t \in Seq(Vals) : t = <<v>> /\ Len(t) = 1 /\ t[1] = v
    BY One
  <1>5. ASSUME NEW m \in Seq(Nat), multi' = [multi EXCEPT ![c] = m]
        PROVE  /\ multi' \in [Conns -> Seq(Nat)] /\ \A d \in Conns \ {c} : multi'[d] = multi[d]
               /\ multi'[c] = m
    BY <1>1, <1>5
  \* One answer.
  <1>6. ASSUME NEW v \in Vals, Reply(c, id, <<v>>),
               multi' \in [Conns -> Seq(Nat)], \A d \in Conns \ {c} : multi'[d] = multi[d],
               NEW S, Ran(id, S) \/ (execs' = execs /\ S = {}), Answers(c, 1, v, S)
        PROVE  Serves(c, 1, v, S)
    <2>1. PICK t \in Seq(Vals) : t = <<v>> /\ Len(t) = 1 /\ t[1] = v
      BY <1>4
    <2>2. Serves(c, 1, t[1], S)
      <3>1. Reply(c, id, t) /\ Answers(c, 1, t[1], S) /\ 1 \in Nat /\ 1 >= 1 /\ 1 = Len(t)
        BY <1>6, <2>1
      <3> QED BY <1>3, <1>6, <3>1
    <2> QED BY <2>1, <2>2
  <1>7. CASE ServerMulti(c, r)
    <2>1. w = 0 /\ Reply(c, id, <<"ok">>) /\ multi' = [multi EXCEPT ![c] = <<0>>] /\ execs' = execs
      BY <1>7 DEF ServerMulti, Multi
    <2>2. PICK m \in Seq(Nat) : m = <<0>> /\ Len(m) = 1
      BY One
    <2>3. multi' = [multi EXCEPT ![c] = m]
      BY <2>1, <2>2
    <2>4. multi' \in [Conns -> Seq(Nat)] /\ (\A d \in Conns \ {c} : multi'[d] = multi[d]) /\ multi'[c] = m
      BY <1>5, <2>3
    <2>5. Len(multi'[c]) = w + 1
      BY <2>1, <2>2, <2>4
    <2>6. Answers(c, 1, "ok", {}) /\ "ok" \in Vals
      BY <2>1, <2>5 DEF Answers, Vals
    <2> QED BY <1>6, <2>1, <2>4, <2>6
  <1>8. CASE ServerCmd(c, r) /\ multi[c] # <<>>
    <2> DEFINE m == Append(multi[c], w)
    <2>1. /\ w \in 1 .. Batch /\ Reply(c, id, <<"queued">>) /\ multi' = [multi EXCEPT ![c] = m]
          /\ execs' = execs
      BY <1>8 DEF ServerCmd
    <2>2. /\ m \in Seq(Nat) /\ Len(m) = a + 1 /\ m[a + 1] = w
          /\ \A k \in 1 .. a : m[k] = multi[c][k]
      BY <1>1, <1>2, AppendProperties
    <2> HIDE DEF m
    <2>3. multi' \in [Conns -> Seq(Nat)] /\ (\A d \in Conns \ {c} : multi'[d] = multi[d]) /\ multi'[c] = m
      BY <1>5, <2>1, <2>2
    <2>4. Answers(c, 1, "queued", {}) /\ "queued" \in Vals
      BY <1>8, <2>1, <2>2, <2>3 DEF Answers, Vals
    <2> QED BY <1>6, <2>1, <2>3, <2>4
  <1>9. CASE ServerCmd(c, r) /\ multi[c] = <<>>
    <2>1. w \in 1 .. Batch /\ multi' = multi
      BY <1>9 DEF ServerCmd
    <2>2. PICK v \in {"ok", "error", "loading"} :
             /\ Reply(c, id, <<v>>)
             /\ (v = "ok" /\ Ran(id, {w})) \/ (v # "ok" /\ execs' = execs)
      BY <1>9 DEF ServerCmd
    <2>3. PICK S : /\ S = IF v = "ok" THEN {w} ELSE {}
                   /\ Ran(id, S) \/ (execs' = execs /\ S = {})
      BY <2>2
    <2>4. Answers(c, 1, v, S) /\ v \in Vals
      BY <1>9, <2>1, <2>2, <2>3 DEF Answers, Vals
    <2>5. multi' \in [Conns -> Seq(Nat)] /\ \A d \in Conns \ {c} : multi'[d] = multi[d]
      BY <1>1, <2>1
    <2> QED BY <1>6, <2>2, <2>3, <2>4, <2>5
  <1>10. CASE ServerExec(c, r)
    <2>1. w = Batch + 1 /\ multi' = [multi EXCEPT ![c] = <<>>]
      BY <1>10 DEF ServerExec, Exec
    <2>2. multi' \in [Conns -> Seq(Nat)] /\ (\A d \in Conns \ {c} : multi'[d] = multi[d]) /\ multi'[c] = <<>>
      <3>1. <<>> \in Seq(Nat)
        BY EmptySeq
      <3> QED BY <1>5, <2>1, <3>1
    <2>3. CASE multi[c] # <<>> /\ Reply(c, id, <<"nil">>) /\ execs' = execs
      <3>1. Answers(c, 1, "nil", {}) /\ "nil" \in Vals
        BY <2>1, <2>2, <2>3 DEF Answers, Vals
      <3> QED BY <1>6, <2>2, <2>3, <3>1
    <2>4. CASE multi[c] = <<>> /\ Reply(c, id, <<"error">>) /\ execs' = execs
      <3>1. Answers(c, 1, "error", {}) /\ "error" \in Vals
        BY <2>1, <2>2, <2>4 DEF Answers, Vals
      <3> QED BY <1>6, <2>2, <2>4, <3>1
    <2>5. CASE multi[c] # <<>> /\ \E q : /\ q = Tail(multi[c])
                                         /\ Reply(c, id, <<"array">> \o [i \in DOMAIN q |-> "ok"])
                                         /\ Ran(id, {q[i] : i \in DOMAIN q})
      <3>1. PICK q : /\ q = Tail(multi[c]) /\ Reply(c, id, <<"array">> \o [i \in DOMAIN q |-> "ok"])
                     /\ Ran(id, {q[i] : i \in DOMAIN q})
        BY <2>5
      <3> DEFINE oks == [i \in DOMAIN q |-> "ok"]
                 S == {multi[c][k] : k \in 2 .. a}
      <3>2. /\ q \in Seq(Nat) /\ Len(q) = a - 1 /\ a >= 1 /\ \A k \in 1 .. (a - 1) : q[k] = multi[c][k + 1]
        BY <1>1, <2>5, <3>1, Cut
      <3>3. DOMAIN q = 1 .. (a - 1)
        BY <3>2, LenProperties
      <3>4. {q[i] : i \in DOMAIN q} = S
        <4>1. \A i \in 1 .. (a - 1) : i + 1 \in 2 .. a
          BY <1>1
        <4>2. \A k \in 2 .. a : k - 1 \in 1 .. (a - 1) /\ (k - 1) + 1 = k
          BY <1>1
        <4> HIDE DEF a, r
        <4>3. \A i \in DOMAIN q : q[i] \in {multi[c][k] : k \in 2 .. a}
          BY <3>2, <3>3, <4>1
        <4>4. \A k \in 2 .. a : multi[c][k] \in {q[i] : i \in DOMAIN q}
          BY <3>2, <3>3, <4>2
        <4> QED BY <4>3, <4>4
      <3>5. oks \in Seq(Vals) /\ Len(oks) = a - 1
        <4>1. oks \in [1 .. (a - 1) -> Vals] /\ a - 1 \in Nat
          BY <1>1, <3>2, <3>3 DEF Vals
        <4> HIDE DEF oks, a
        <4> QED BY <4>1, FunSeq
      <3>6. PICK t \in Seq(Vals) : t = <<"array">> /\ Len(t) = 1 /\ t[1] = "array"
        BY <1>4 DEF Vals
      <3> HIDE DEF oks, S
      <3>7. PICK vals : vals = t \o oks
        OBVIOUS
      <3>8. vals \in Seq(Vals) /\ Len(vals) = Len(t) + Len(oks)
        BY <3>5, <3>6, <3>7, CatLen, Zenon
      <3>9. \A k \in 1 .. Len(t) : vals[k] = t[k]
        BY <3>5, <3>6, <3>7, CatLeft, Zenon
      <3>10. Len(vals) = a
        BY <1>1, <3>5, <3>6, <3>8
      <3>11. vals[1] = "array"
        <4>1. 1 \in 1 .. Len(t)
          BY <3>6
        <4> QED BY <3>6, <3>9, <4>1
      <3>12. Reply(c, id, vals) /\ Ran(id, S)
        BY <3>1, <3>4, <3>6, <3>7 DEF oks
      <3>13. Answers(c, a, vals[1], S)
        BY <2>1, <2>2, <2>5, <3>11 DEF Answers, S
      <3>14. Serves(c, a, vals[1], S)
        <4> HIDE DEF a, id, r, w
        <4> QED BY <1>1, <1>3, <2>2, <3>2, <3>8, <3>10, <3>12, <3>13
      <3> QED BY <3>14
    <2> QED BY <1>10, <2>3, <2>4, <2>5 DEF ServerExec
  <1> QED BY <1>1, <1>7, <1>8, <1>9, <1>10 DEF Serve

LEMMA TwoOrMore == \A n, w, b \in Nat :
    n >= 1 => /\ n - 1 # 0 <=> n >= 2
              /\ w + n <= b + 2 /\ w = b + 1 => ~(n >= 2) /\ w + n = b + 2
              /\ n >= 1 /\ (w + 1) + (n - 1) = w + n
  OBVIOUS

\* Whose request it is.
LEMMA Served1 ==
    ASSUME ClientInv, NEW c \in Conns, NEW len, NEW val, NEW S, Serves(c, len, val, S)
    PROVE  /\ req[c] # <<>> /\ Len(req[c]) \in Nat /\ Len(req[c]) >= 1 /\ len \in Nat /\ len >= 1
           /\ req[c][1].id \in Ids /\ req[c][1].what \in Nat
           /\ req'[c] # <<>> <=> Len(req[c]) >= 2
           /\ req'[c] # <<>> => /\ req'[c][1].id = req[c][1].id
                                /\ req'[c][1].what = req[c][1].what + 1
           /\ \A d \in Conns : req'[d] # <<>> => req[d] # <<>> /\ req'[d][1].id = req[d][1].id
           /\ \A d \in Conns, v \in Users : Of(d, v)' => Of(d, v)
  <1>1. /\ req[c] # <<>> /\ Len(req[c]) \in Nat /\ req[c][1] \in Request /\ (req[c] = <<>> <=> Len(req[c]) = 0)
        /\ Row(c)
    BY Typed DEF Serves, ClientInv, ConnInv
  <1>2. Len(req[c]) >= 1 /\ req[c][1].id \in Ids /\ req[c][1].what \in Nat
    BY <1>1 DEF Request
  <1>3. /\ req' \in [Conns -> Seq(Request)] /\ Len(req'[c]) = Len(req[c]) - 1
        /\ \A k \in 1 .. (Len(req[c]) - 1) : req'[c][k] = req[c][k + 1]
        /\ (\A d \in Conns \ {c} : req'[d] = req[d]) /\ calls' = calls
        /\ len \in Nat /\ len >= 1
    BY DEF Serves
  <1>4. req'[c] = <<>> <=> Len(req[c]) - 1 = 0
    BY <1>3, Empty
  <1>5. req'[c] # <<>> <=> Len(req[c]) >= 2
    BY <1>1, <1>2, <1>4, TwoOrMore, Zenon
  <1>6. req'[c] # <<>> => /\ req'[c][1].id = req[c][1].id
                          /\ req'[c][1].what = req[c][1].what + 1
    <2> SUFFICES ASSUME Len(req[c]) >= 2
                 PROVE  req'[c][1].id = req[c][1].id /\ req'[c][1].what = req[c][1].what + 1
      BY <1>5
    <2>1. 1 \in 1 .. (Len(req[c]) - 1) /\ 2 \in 1 .. Len(req[c]) /\ 1 + 1 = 2 /\ 2 - 1 = 1
      BY <1>1
    <2>2. req[c][2] = [id |-> req[c][1].id, what |-> req[c][1].what + 1]
      BY <1>1, <2>1 DEF Row
    <2>3. req'[c][1] = req[c][2]
      BY <1>3, <2>1
    <2> QED BY <2>2, <2>3
  <1>7. \A d \in Conns : req'[d] # <<>> => req[d] # <<>> /\ req'[d][1].id = req[d][1].id
    BY <1>1, <1>3, <1>6
  <1>8. \A d \in Conns, v \in Users : Of(d, v)' => Of(d, v)
    BY <1>3, <1>7 DEF Of
  <1> QED BY <1>1, <1>2, <1>3, <1>5, <1>6, <1>7, <1>8

\* The commands that have run are of one call, and if it is a transaction or a
\* blocking command it was due to run, and this was its last request.
LEMMA ServedRuns ==
    ASSUME ClientInv, NEW c \in Conns, NEW len, NEW val, NEW S, Serves(c, len, val, S),
           NEW v \in Users, execs'[v] # execs[v]
    PROVE  /\ Of(c, v) /\ v = req[c][1].id[1]
           /\ kind[v] \in {"tx", "blocking"} =>
                 /\ Runs(c, v) /\ req'[c] = <<>> /\ req[c][1].id = Id(v)
                 /\ pc[v] \in {"idle", "read"}
  <1> DEFINE id == req[c][1].id
             w == req[c][1].what
  <1>1. /\ execs \in [Users -> [1 .. Batch -> Nat]] /\ execs' \in [Users -> [1 .. Batch -> Nat]]
        /\ \A i \in 1 .. Batch :
              execs'[v][i] = IF v = id[1] /\ calls[v] = id[2] /\ i \in S THEN execs[v][i] + 1
                             ELSE execs[v][i]
        /\ Answers(c, len, val, S)
    BY DEF Serves, ClientInv, TypeOK
  <1>2. PICK i \in 1 .. Batch : execs'[v][i] # execs[v][i]
    <2>1. execs'[v] \in [1 .. Batch -> Nat] /\ execs[v] \in [1 .. Batch -> Nat]
      BY <1>1
    <2>2. ASSUME NEW f \in [1 .. Batch -> Nat], NEW g \in [1 .. Batch -> Nat],
                 \A i \in 1 .. Batch : f[i] = g[i]
          PROVE  f = g
      <3>1. f = [j \in 1 .. Batch |-> f[j]] /\ g = [j \in 1 .. Batch |-> g[j]]
        OBVIOUS
      <3>2. [j \in 1 .. Batch |-> f[j]] = [j \in 1 .. Batch |-> g[j]]
        BY <2>2
      <3> QED BY <3>1, <3>2, Zenon
    <2> QED BY <2>1, <2>2
  <1>3. v = id[1] /\ calls[v] = id[2] /\ i \in S
    BY <1>1, <1>2
  <1>4. /\ req[c] # <<>> /\ Len(req[c]) \in Nat /\ Len(req[c]) >= 1 /\ id \in Ids /\ w \in Nat
        /\ (req'[c] # <<>> <=> Len(req[c]) >= 2) /\ Batch \in Nat
    BY Served1, Numbers
  <1>5. Of(c, v)
    BY <1>3, <1>4 DEF Of
  <1>6. Queue(c) /\ Once(c) /\ Len(multi[c]) \in Nat /\ (multi[c] = <<>> <=> Len(multi[c]) = 0)
    BY Typed DEF ClientInv, ConnInv
  <1>7. ASSUME kind[v] \in {"tx", "blocking"} PROVE Runs(c, v) /\ req'[c] = <<>>
    <2>1. CASE kind[v] = "tx"
      <3>1. w + Len(req[c]) <= Batch + 2 /\ Len(multi[c]) = w
        BY <1>5, <1>6, <2>1 DEF Queue
      <3>2. w = Batch + 1
        BY <1>1, <1>3, <1>4, <1>6, <3>1, SMTT(60) DEF Answers
      <3>3. ~(Len(req[c]) >= 2) /\ w + Len(req[c]) = Batch + 2
        BY <1>4, <3>1, <3>2, TwoOrMore, Zenon
      <3> QED BY <1>4, <1>5, <2>1, <3>3 DEF Runs
    <2>2. CASE kind[v] = "blocking"
      <3>1. w >= 1 /\ w + Len(req[c]) <= 1 + 1
        BY <1>5, <1>6, <2>2 DEF Queue, Size
      <3> QED BY <1>4, <1>5, <2>2, <3>1 DEF Runs
    <2> QED BY <1>7, <2>1, <2>2
  <1>8. ASSUME Runs(c, v) PROVE id = Id(v) /\ pc[v] \in {"idle", "read"}
    <2>1. id[3] = attempt[v] /\ pc[v] \in {"idle", "read"}
      BY <1>6, <1>8 DEF Once
    <2> QED BY <1>3, <1>4, <2>1 DEF Id, Ids
  <1> QED BY <1>3, <1>5, <1>7, <1>8

\* What is left on the connections.
LEMMA ServedConn ==
    ASSUME ClientInv, NEW c \in Conns, NEW len, NEW val, NEW S, Serves(c, len, val, S),
           NEW d \in Conns
    PROVE  ConnInv(d)'
  <1>1. /\ UNCHANGED <<calls, kind, attempt, pc>> /\ TypeOK /\ Batch \in Nat
        /\ req[c] # <<>> /\ Len(req[c]) \in Nat /\ Len(req[c]) >= 1 /\ req[c][1].what \in Nat
        /\ (req'[c] # <<>> <=> Len(req[c]) >= 2)
        /\ req'[c] # <<>> => req'[c][1].id = req[c][1].id /\ req'[c][1].what = req[c][1].what + 1
        /\ \A v \in Users : Of(d, v)' => Of(d, v)
        /\ req'[d] # <<>> => req[d] # <<>> /\ req'[d][1].id = req[d][1].id
    <2>1. UNCHANGED <<calls, kind, attempt, pc>> /\ TypeOK /\ Batch \in Nat
      BY Numbers DEF Serves, ClientInv
    <2> QED BY <2>1, Served1, Zenon
  <1>2. ConnInv(d) /\ ConnInv(c)
    BY DEF ClientInv
  <1>3. /\ d # c => req'[d] = req[d] /\ multi'[d] = multi[d]
        /\ Len(req'[c]) = Len(req[c]) - 1 /\ Answers(c, len, val, S)
        /\ \A k \in 1 .. (Len(req[c]) - 1) : req'[c][k] = req[c][k + 1]
    BY DEF Serves
  <1>4. Asked(d)'
    BY <1>1, <1>2 DEF ConnInv, Asked
  <1>5. ASSUME NEW v \in Users, Runs(d, v)' PROVE Runs(d, v) /\ execs'[v] = execs[v]
    <2>1. Of(d, v) /\ req'[d] # <<>>
      BY <1>1, <1>5 DEF Runs, Of
    <2>2. CASE d # c
      <3>1. Runs(d, v)
        BY <1>1, <1>3, <1>5, <2>1, <2>2 DEF Runs
      <3>2. req[d][1].id = Id(v)
        <4>1. req[d][1].id[3] = attempt[v]
          BY <1>2, <3>1 DEF ConnInv, Once
        <4>2. req[d][1].id \in Ids
          BY <2>1, Typed DEF Of, Request
        <4> QED BY <2>1, <4>1, <4>2 DEF Of, Id, Ids
      <3>3. ASSUME execs'[v] # execs[v] PROVE FALSE
        <4>1. kind[v] \in {"tx", "blocking"}
          BY <3>1 DEF Runs
        <4>2. req[c][1].id = Id(v)
          BY <3>3, <4>1, ServedRuns
        <4> QED BY <1>1, <2>1, <2>2, <3>2, <4>2 DEF ClientInv, OneHome, Of
      <3> QED BY <3>1, <3>3
    <2>3. CASE d = c
      <3>1. kind[v] \in {"tx", "blocking"}
        BY <1>1, <1>5 DEF Runs
      <3>2. execs'[v] = execs[v]
        BY <2>1, <2>3, <3>1, ServedRuns
      <3>3. CASE kind[v] = "blocking"
        BY <2>1, <3>2, <3>3 DEF Runs
      <3>4. CASE kind[v] = "tx"
        <4>1. req'[c][1].what + Len(req'[c]) = Batch + 2
          BY <1>1, <1>5, <2>3, <3>4 DEF Runs
        <4>2. req[c][1].what + Len(req[c]) = Batch + 2
          <5>1. /\ req'[c][1].what = req[c][1].what + 1 /\ Len(req'[c]) = Len(req[c]) - 1
                /\ Len(req[c]) \in Nat /\ Len(req[c]) >= 1 /\ req[c][1].what \in Nat
            BY <1>1, <1>3, <2>1, <2>3
          <5> QED BY <4>1, <5>1, SMTT(60)
        <4> QED BY <2>1, <2>3, <3>2, <3>4, <4>2 DEF Runs
      <3> QED BY <3>1, <3>3, <3>4
    <2> QED BY <2>2, <2>3
  <1>6. Once(d)'
    <2> SUFFICES ASSUME NEW v \in Users, Runs(d, v)'
                 PROVE  /\ req'[d][1].id[3] = attempt[v] /\ pc[v] \in {"idle", "read"}
                        /\ \A i \in 1 .. Batch : execs'[v][i] = 0
      BY <1>1 DEF Once
    <2>1. Runs(d, v) /\ execs'[v] = execs[v] /\ req'[d] # <<>>
      BY <1>5 DEF Runs, Of
    <2> QED BY <1>1, <1>2, <2>1 DEF ConnInv, Once
  <1>7. Row(d)' /\ Queue(d)'
    <2>1. CASE d # c
      BY <1>1, <1>2, <1>3, <2>1, SMTT(60) DEF ConnInv, Row, Queue
    <2>2. CASE d = c
      <3>1. Row(c)'
        <4> SUFFICES ASSUME NEW k \in 1 .. Len(req'[c])
                     PROVE  req'[c][k] = [id |-> req'[c][1].id, what |-> req'[c][1].what + (k - 1)]
          BY DEF Row
        <4>1. k \in 1 .. (Len(req[c]) - 1) /\ k + 1 \in 1 .. Len(req[c]) /\ Len(req[c]) >= 2
          BY <1>1, <1>3
        <4>2. req[c][k + 1] = [id |-> req[c][1].id, what |-> req[c][1].what + ((k + 1) - 1)]
          BY <1>2, <4>1 DEF ConnInv, Row
        <4>3. req'[c][1].id = req[c][1].id /\ req'[c][1].what = req[c][1].what + 1
          BY <1>1, <4>1
        <4>4. req'[c][1].what + (k - 1) = req[c][1].what + ((k + 1) - 1)
          BY <1>1, <4>1, <4>3, SMTT(60)
        <4> QED BY <1>3, <4>1, <4>2, <4>3, <4>4
      <3>2. Queue(c)'
        <4> DEFINE w == req[c][1].what
        <4> SUFFICES ASSUME NEW v \in Users, Of(c, v)'
                     PROVE  IF kind[v] = "tx"
                            THEN /\ (w + 1) + Len(req'[c]) <= Batch + 2
                                 /\ Len(multi'[c]) = w + 1
                                 /\ \A k \in 2 .. (w + 1) : multi'[c][k] = k - 1
                            ELSE /\ multi'[c] = <<>> /\ w + 1 >= 1
                                 /\ (w + 1) + Len(req'[c]) <= Size(kind[v]) + 1
          <5>1. \A v \in Users : Of(c, v)' => req'[c][1].what = w + 1
            BY <1>1 DEF Of
          <5> QED BY <1>1, <5>1 DEF Queue
        <4>1. /\ Of(c, v) /\ Len(req[c]) >= 2 /\ w \in Nat /\ Len(req[c]) \in Nat
              /\ (w + 1) + Len(req'[c]) = w + Len(req[c])
          BY <1>1, <1>3, <2>2, SMTT(60) DEF Of
        <4>2. Len(multi[c]) \in Nat /\ (multi[c] = <<>> <=> Len(multi[c]) = 0)
          BY Typed
        <4>3. CASE kind[v] = "tx"
          <5>1. /\ w + Len(req[c]) <= Batch + 2 /\ Len(multi[c]) = w
                /\ \A k \in 2 .. w : multi[c][k] = k - 1
            BY <1>2, <4>1, <4>3 DEF ConnInv, Queue
          <5>2. w # Batch + 1
            BY <1>1, <4>1, <5>1
          <5>3. CASE w = 0
            <6>1. Len(multi'[c]) = w + 1 /\ \A k \in 2 .. (w + 1) : FALSE
              BY <1>1, <1>3, <5>3 DEF Answers
            <6> QED BY <4>1, <4>3, <5>1, <6>1
          <5>4. CASE w # 0
            <6>1. /\ Len(multi'[c]) = w + 1 /\ multi'[c][w + 1] = w
                  /\ \A k \in 1 .. w : multi'[c][k] = multi[c][k]
              BY <1>3, <4>2, <5>1, <5>2, <5>4 DEF Answers
            <6>2. ASSUME NEW k \in 2 .. (w + 1) PROVE multi'[c][k] = k - 1
              <7>1. CASE k = w + 1
                BY <4>1, <6>1, <7>1
              <7>2. CASE k # w + 1
                <8>1. k \in 2 .. w /\ k \in 1 .. w
                  BY <4>1, <7>2
                <8> QED BY <5>1, <6>1, <8>1
              <7> QED BY <7>1, <7>2
            <6> QED BY <4>1, <4>3, <5>1, <6>1, <6>2
          <5> QED BY <5>3, <5>4
        <4>4. CASE kind[v] # "tx"
          <5>1. multi[c] = <<>> /\ w >= 1 /\ w + Len(req[c]) <= Size(kind[v]) + 1
            BY <1>2, <4>1, <4>4 DEF ConnInv, Queue
          <5>2. multi'[c] = <<>>
            BY <1>3, <5>1 DEF Answers
          <5> QED BY <4>1, <4>4, <5>1, <5>2
        <4> QED BY <4>3, <4>4
      <3> QED BY <2>2, <3>1, <3>2
    <2> QED BY <2>1, <2>2
  <1> QED BY <1>4, <1>6, <1>7 DEF ConnInv

\* What is run is no longer left to be run.
LEMMA ServedCount ==
    ASSUME ClientInv, NEW c \in Conns, NEW len, NEW val, NEW S, Serves(c, len, val, S),
           NEW v \in Users
    PROVE  Count(v)'
  <1> DEFINE id == req[c][1].id
             w == req[c][1].what
  <1>1. UNCHANGED <<calls, kind, attempt, pc>> /\ Count(v) /\ OneHome
    BY DEF Serves, ClientInv, UserInv
  <1>2. /\ execs[v] \in [1 .. Batch -> Nat] /\ execs'[v] \in [1 .. Batch -> Nat]
        /\ \A i \in 1 .. Batch :
              execs'[v][i] = IF v = id[1] /\ calls[v] = id[2] /\ i \in S THEN execs[v][i] + 1
                             ELSE execs[v][i]
    BY DEF Serves, ClientInv, TypeOK
  <1>3. /\ req[c] # <<>> /\ Len(req[c]) \in Nat /\ Len(req[c]) >= 1 /\ id \in Ids /\ w \in Nat
        /\ \A d \in Conns : req'[d] # <<>> => req[d] # <<>> /\ req'[d][1].id = req[d][1].id
    BY Served1
  <1>4. /\ \A d \in Conns \ {c} : req'[d] = req[d]
        /\ Len(req'[c]) = Len(req[c]) - 1 /\ \A k \in 1 .. (Len(req[c]) - 1) : req'[c][k] = req[c][k + 1]
        /\ Answers(c, len, val, S) /\ req' \in [Conns -> Seq(Request)]
    BY DEF Serves
  <1>5. CASE kind[v] \in {"tx", "blocking"}
    <2>1. CASE execs'[v] = execs[v]
      BY <1>1, <1>5, <2>1 DEF Count
    <2>2. CASE execs'[v] # execs[v]
      <3>1. Runs(c, v) /\ pc[v] \in {"idle", "read"}
        BY <1>5, <2>2, ServedRuns
      <3>2. \A i \in 1 .. Batch : execs[v][i] = 0
        BY <3>1 DEF ClientInv, ConnInv, Once
      <3>3. \A i \in 1 .. Batch : execs'[v][i] <= 1
        BY <1>2, <3>2
      <3> QED BY <1>1, <1>5, <3>1, <3>3 DEF Count
    <2> QED BY <2>1, <2>2
  <1>6. CASE kind[v] \notin {"tx", "blocking"}
    <2> SUFFICES ASSUME NEW i \in 1 .. Batch
                 PROVE  execs'[v][i] + Cardinality(Left(v, i)') <= Made(v)
      BY <1>1, <1>6 DEF Count, Made
    <2> DEFINE L == Left(v, i)
               M == Left(v, i)'
    <2>1. execs[v][i] + Cardinality(L) <= Made(v) /\ Made(v) \in Nat /\ execs[v][i] \in Nat
      <3>1. execs[v][i] + Cardinality(L) <= Made(v)
        BY <1>1, <1>6 DEF Count
      <3>2. Made(v) \in Nat
        BY Users1 DEF Made
      <3> QED BY <1>2, <3>1, <3>2
    <2>2. ASSUME NEW a \in M
          PROVE  /\ a \in L
                 /\ \E d \in Conns : /\ req[d] # <<>> /\ req[d][1].id = <<v, calls[v], a>>
                                     /\ d = c => w # i
      <3>1. PICK d \in Conns : \E k \in 1 .. Len(req'[d]) :
               req'[d][k] = [id |-> <<v, calls[v], a>>, what |-> i]
        BY <1>1, <2>2 DEF Left
      <3>2. PICK k \in 1 .. Len(req'[d]) : req'[d][k] = [id |-> <<v, calls[v], a>>, what |-> i]
        BY <3>1
      <3>3. a \in 0 .. attempt[v]
        BY <1>1, <2>2 DEF Left
      <3>4. CASE d # c
        <4>1. k \in 1 .. Len(req[d]) /\ req[d][k] = [id |-> <<v, calls[v], a>>, what |-> i]
          BY <1>4, <3>2, <3>4
        <4>2. Row(d) /\ req[d] # <<>>
          BY <4>1, Typed DEF ClientInv, ConnInv
        <4>3. req[d][k] = [id |-> req[d][1].id, what |-> req[d][1].what + (k - 1)]
          BY <4>1, <4>2 DEF Row
        <4>4. req[d][1].id = <<v, calls[v], a>>
          BY <4>1, <4>3
        <4> QED BY <3>3, <3>4, <4>1, <4>2, <4>4 DEF Left
      <3>5. CASE d = c
        <4>1. k + 1 \in 1 .. Len(req[c]) /\ req[c][k + 1] = [id |-> <<v, calls[v], a>>, what |-> i]
          BY <1>3, <1>4, <3>2, <3>5
        <4>2. Row(c)
          BY DEF ClientInv, ConnInv
        <4>3. req[c][k + 1] = [id |-> id, what |-> w + ((k + 1) - 1)]
          BY <4>1, <4>2 DEF Row
        <4>4. id = <<v, calls[v], a>> /\ w + ((k + 1) - 1) = i
          BY <4>1, <4>3
        <4>5. w # i
          BY <1>3, <4>1, <4>4
        <4> QED BY <1>3, <3>3, <3>5, <4>1, <4>4, <4>5 DEF Left
      <3> QED BY <3>4, <3>5
    <2>3. IsFiniteSet(L) /\ Cardinality(L) \in Nat
      BY LeftFinite
    <2>4. CASE execs'[v][i] = execs[v][i]
      <3>1. M \subseteq L
        BY <2>2
      <3> HIDE DEF M, L
      <3>2. IsFiniteSet(M) /\ Cardinality(M) <= Cardinality(L)
        BY <2>3, <3>1, FS_Subset
      <3>3. Cardinality(M) \in Nat
        BY <3>2, FS_CardinalityType
      <3> QED BY <2>1, <2>3, <2>4, <3>2, <3>3 DEF M, L
    <2>5. CASE execs'[v][i] # execs[v][i]
      <3>1. execs'[v][i] = execs[v][i] + 1 /\ i \in S /\ v = id[1] /\ calls[v] = id[2]
        BY <1>2, <2>5
      <3>2. Of(c, v)
        BY <1>3, <3>1 DEF Of
      <3>3. multi[c] = <<>> /\ w >= 1 /\ w + Len(req[c]) <= Size(kind[v]) + 1
        BY <1>6, <3>2 DEF ClientInv, ConnInv, Queue
      <3>4. w = i
        BY <1>4, <3>1, <3>3 DEF Answers
      <3> DEFINE a == id[3]
      <3>5. id = <<v, calls[v], a>> /\ a \in Nat
        BY <1>3, <3>1 DEF Ids
      <3>6. a \in L
        <4>1. a <= attempt[v] /\ attempt[v] \in Nat
          <5>1. Asked(c) /\ attempt[v] \in Nat
            BY Users1 DEF ClientInv, ConnInv
          <5> QED BY <1>3, <3>1, <3>5, <5>1, SMTT(60) DEF Asked
        <4>2. 1 \in 1 .. Len(req[c])
          BY <1>3
        <4>3. req[c][1] = [id |-> <<v, calls[v], a>>, what |-> i]
          <5>1. req[c][1] \in Request
            BY <1>3, Typed
          <5> QED BY <3>4, <3>5, <5>1 DEF Request
        <4>4. a \in 0 .. attempt[v]
          BY <3>5, <4>1
        <4> HIDE DEF a
        <4> QED BY <4>2, <4>3, <4>4 DEF Left
      <3>7. a \notin M
        <4> SUFFICES ASSUME a \in M PROVE FALSE
          OBVIOUS
        <4>1. PICK d \in Conns : req[d] # <<>> /\ req[d][1].id = <<v, calls[v], a>> /\ (d = c => w # i)
          BY <2>2
        <4>2. d = c
          BY <1>1, <1>3, <3>5, <4>1 DEF OneHome
        <4> QED BY <3>4, <4>1, <4>2
      <3>8. M \subseteq L \ {a}
        BY <2>2, <3>7
      <3> HIDE DEF M, L, a
      <3>9. IsFiniteSet(L \ {a}) /\ Cardinality(L \ {a}) = Cardinality(L) - 1
        BY <2>3, <3>6, FS_RemoveElement
      <3>10. IsFiniteSet(M) /\ Cardinality(M) <= Cardinality(L \ {a})
        BY <3>8, <3>9, FS_Subset
      <3>11. Cardinality(M) \in Nat
        BY <3>10, FS_CardinalityType
      <3>12. Cardinality(M) + 1 <= Cardinality(L)
        <4> DEFINE cm == Cardinality(M)  cl == Cardinality(L)  ca == Cardinality(L \ {a})
        <4>1. cm \in Nat /\ cl \in Nat /\ cm <= ca /\ ca = cl - 1
          BY <2>3, <3>9, <3>10, <3>11
        <4> HIDE DEF cm, cl, ca
        <4>2. cm + 1 <= cl
          BY <4>1
        <4> QED BY <4>2 DEF cm, cl
      <3> QED BY <2>1, <2>3, <3>1, <3>11, <3>12, SMTT(60) DEF M, L
    <2> QED BY <2>4, <2>5
  <1> QED BY <1>5, <1>6

\* The reader of c is served in order.
LEMMA ServedStream ==
    ASSUME ClientInv, NEW c \in Conns, NEW len, NEW val, NEW S, Serves(c, len, val, S),
           NEW u \in Users, pc[u] = "read", cn[u] = c
    PROVE  Stream(u)'
  <1> DEFINE n == Size(kind[u])
             w == req[c][1].what
             lr == Len(rep[c])
             lq == Len(req[c])
             p == pos[u]
  <1>1. /\ Stream(u) /\ Queue(c) /\ Once(c) /\ TypeOK
        /\ UNCHANGED <<calls, kind, attempt, cn, pos, pc, err>>
        /\ Id(u)' = Id(u) /\ n \in 1 .. Batch /\ Batch \in Nat /\ (kind[u] = "tx" => n = Batch)
    BY Numbers DEF ClientInv, UserInv, ConnInv, Serves, Id
  <1>2. /\ req[c] # <<>> /\ lq \in Nat /\ lq >= 1 /\ w \in Nat /\ len \in Nat /\ len >= 1
        /\ (req'[c] # <<>> <=> lq >= 2)
        /\ req'[c] # <<>> => req'[c][1].id = req[c][1].id /\ req'[c][1].what = w + 1
    BY Served1
  <1>3. /\ lr \in Nat /\ p \in Nat /\ Len(multi[c]) \in Nat /\ (multi[c] = <<>> <=> Len(multi[c]) = 0)
        /\ (rep[c] # <<>> => lr >= 1)
    BY Typed, Users1
  <1>0. /\ n \in Nat /\ n >= 1 /\ n <= Batch /\ Batch \in Nat /\ (kind[u] = "tx" => n = Batch)
        /\ p \in Nat /\ lr \in Nat /\ lq \in Nat /\ lq >= 1 /\ w \in Nat /\ len \in Nat /\ len >= 1
    BY <1>1, <1>2, <1>3
  <1>4. req[c][1].id = Id(u)
    BY <1>1, <1>2 DEF Stream
  <1>5. /\ Len(req'[c]) = lq - 1 /\ Len(rep'[c]) = lr + len
        /\ \A k \in 1 .. lr : rep'[c][k] = rep[c][k]
        /\ \A k \in 1 .. len : rep'[c][lr + k].id = Id(u)
        /\ rep'[c][lr + 1].val = val /\ Answers(c, len, val, S)
    BY <1>4 DEF Serves
  <1>6. /\ \A i \in 1 .. Batch : execs[u][i] \in Nat
        /\ \A i \in 1 .. Batch : execs'[u][i] = IF i \in S THEN execs[u][i] + 1 ELSE execs[u][i]
    <2>1. Id(u)[1] = u /\ Id(u)[2] = calls[u]
      BY DEF Id
    <2>2. \A i \in 1 .. Batch :
             execs'[u][i] = IF u = req[c][1].id[1] /\ calls[u] = req[c][1].id[2] /\ i \in S
                            THEN execs[u][i] + 1 ELSE execs[u][i]
      BY DEF Serves
    <2> QED BY <1>4, <2>1, <2>2, Users1
  <1>7. Of(c, u)
    BY <1>2, <1>4 DEF Of, Id
  <1>8. /\ Served(u) = p + lr /\ Served(u)' = p + lr + len
    <2>1. Served(u)' = p + Len(rep'[c])
      BY <1>1 DEF Served
    <2> QED BY <1>2, <1>3, <1>5, <2>1 DEF Served
  <1>9. /\ \A k \in 1 .. Len(rep'[c]) : rep'[c][k].id = Id(u)
        /\ req'[c] # <<>> => req'[c][1].id = Id(u)
    <2> SUFFICES ASSUME NEW k \in 1 .. Len(rep'[c]) PROVE rep'[c][k].id = Id(u)
      BY <1>2, <1>4
    <2>1. CASE k \in 1 .. lr
      <3>1. rep[c][k].id = Id(u)
        BY <1>1, <2>1 DEF Stream
      <3> QED BY <1>5, <2>1, <3>1
    <2>2. CASE k \notin 1 .. lr
      <3>1. k - lr \in 1 .. len /\ lr + (k - lr) = k
        <4>1. lr \in Nat /\ len \in Nat /\ k \in 1 .. (lr + len)
          BY <1>2, <1>3, <1>5
        <4> HIDE DEF lr
        <4> QED BY <2>2, <4>1
      <3> QED BY <1>5, <3>1
    <2> QED BY <2>1, <2>2
  <1>10. CASE kind[u] = "tx"
    <2>1. /\ p < 2 * n + 2 /\ (p = 0 /\ rep[c] # <<>> => rep[c][1].val = "ok")
          /\ p + lr <= n + 1 /\ lq = n + 2 - (p + lr) /\ w = p + lr
      BY <1>1, <1>2, <1>8, <1>10 DEF Stream
    <2>2. w + lq <= Batch + 2 /\ Len(multi[c]) = w /\ \A k \in 2 .. w : multi[c][k] = k - 1
      BY <1>1, <1>7, <1>10 DEF Queue
    <2>3. p = 0 => rep'[c][1].val = "ok"
      <3> SUFFICES ASSUME p = 0 PROVE rep'[c][1].val = "ok"
        OBVIOUS
      <3>1. CASE lr >= 1
        <4>1. rep[c] # <<>>
          BY <1>3, <3>1, Typed
        <4>2. 1 \in 1 .. lr
          BY <1>3, <3>1
        <4> QED BY <1>5, <2>1, <4>1, <4>2
      <3>2. CASE ~(lr >= 1)
        <4>1. w = 0 /\ lr + 1 = 1
          BY <1>3, <2>1, <3>2
        <4>2. val = "ok"
          BY <1>1, <1>5, <4>1 DEF Answers
        <4> QED BY <1>5, <4>1, <4>2
      <3> QED BY <3>1, <3>2
    <2>4. CASE w <= n
      <3>1. len = 1
        BY <1>1, <1>5, <1>10, <2>2, <2>4 DEF Answers
      <3>2. /\ p + lr + len <= n + 1 /\ lq - 1 = n + 2 - (p + lr + len)
            /\ w + 1 = p + lr + len /\ lq >= 2
        BY <1>1, <1>2, <1>3, <2>1, <2>4, <3>1, SMTT(60)
      <3>3. req'[c][1].what = p + lr + len /\ Len(req'[c]) = n + 2 - (p + lr + len)
        BY <1>2, <1>5, <3>2
      <3> HIDE DEF n, p, lr, lq, w
      <3> QED BY <1>1, <1>8, <1>9, <1>10, <2>1, <2>3, <3>2, <3>3 DEF Stream, n, p
    <2>5. CASE ~(w <= n)
      <3>1. w = n + 1 /\ ~(lq >= 2) /\ p <= n + 1 /\ n + 2 - p = lr + 1 /\ p + lr = n + 1
        <4> HIDE DEF n, p, lr, lq, w
        <4> QED BY <1>0, <2>1, <2>5, SMTT(60)
      <3>2. req'[c] = <<>>
        BY <1>2, <3>1
      <3>3. /\ multi'[c] = <<>>
            /\ \/ len = w /\ val = "array" /\ S = {multi[c][k] : k \in 2 .. w}
               \/ len = 1 /\ val = "nil"
        <4>1. w = Batch + 1 /\ ~(w = 0) /\ ~(w \in 1 .. Batch) /\ multi[c] # <<>>
          <5>1. n = Batch
            BY <1>0, <1>10
          <5>2. w # 0 /\ w = Batch + 1 /\ ~(w \in 1 .. Batch)
            <6> HIDE DEF n, w
            <6> QED BY <1>0, <3>1, <5>1
          <5> QED BY <1>3, <2>2, <5>2
        <4> QED BY <1>5, <2>2, <4>1 DEF Answers
      <3>4. CASE len = w /\ val = "array" /\ S = {multi[c][k] : k \in 2 .. w}
        <4>1. p + lr + len = 2 * n + 2
          BY <1>1, <3>1, <3>4
        <4>2. rep'[c][n + 2 - p].val = "array"
          BY <1>5, <3>1, <3>4
        <4>3. ASSUME NEW i \in 1 .. n PROVE execs'[u][i] > 0
          <5>1. i + 1 \in 2 .. w /\ i \in 1 .. Batch /\ (i + 1) - 1 = i
            BY <1>1, <3>1
          <5>2. multi[c][i + 1] = i
            BY <2>2, <5>1
          <5>3. i \in S
            <6> HIDE DEF w
            <6> QED BY <3>4, <5>1, <5>2
          <5> QED BY <1>6, <5>1, <5>3
        <4> HIDE DEF n, p, lr, lq, w
        <4> QED BY <1>1, <1>8, <1>9, <1>10, <2>1, <2>3, <3>2, <3>3, <4>1, <4>2, <4>3 DEF Stream, n, p
      <3>5. CASE len = 1 /\ val = "nil"
        <4>1. p + lr + len = n + 2
          BY <1>1, <3>1, <3>5
        <4>2. rep'[c][n + 2 - p].val = "nil"
          BY <1>5, <3>1, <3>5
        <4> HIDE DEF n, p, lr, lq, w
        <4> QED BY <1>1, <1>8, <1>9, <1>10, <2>1, <2>3, <3>1, <3>2, <3>3, <4>1, <4>2 DEF Stream, n, p
      <3> QED BY <3>3, <3>4, <3>5
    <2> QED BY <2>4, <2>5
  <1>11. CASE kind[u] # "tx"
    <2>1. /\ p < n /\ p + lr + lq = n /\ w = p + lr + 1 /\ multi[c] = <<>>
          /\ kind[u] # "pipe" => p = 0
      BY <1>1, <1>2, <1>8, <1>11 DEF Stream
    <2>2. /\ \A k \in 1 .. lr : rep[c][k].val \in {"ok", "error", "loading"}
          /\ \A k \in 1 .. lr : rep[c][k].val = "ok" => execs[u][p + k] > 0
          /\ \A i \in 1 .. p : err[u][i] = "nil" => execs[u][i] > 0
      BY <1>1, <1>11 DEF Stream
    <2>3. w \in 1 .. Batch
      <3> HIDE DEF n, p, lr, lq, w
      <3> QED BY <1>0, <2>1
    <2>4. /\ multi'[c] = <<>> /\ len = 1
          /\ \/ val = "ok" /\ S = {w}
             \/ val \in {"error", "loading"} /\ S = {}
      BY <1>1, <1>5, <2>1, <2>3 DEF Answers
    <2>5. /\ p + lr + len + Len(req'[c]) = n
          /\ req'[c] # <<>> => req'[c][1].what = p + lr + len + 1
      <3>1. Len(req'[c]) = lq - 1 /\ (req'[c] # <<>> => req'[c][1].what = w + 1)
        BY <1>2, <1>5
      <3>2. p + lr + len + (lq - 1) = n /\ w + 1 = p + lr + len + 1
        <4> HIDE DEF n, p, lr, lq, w
        <4> QED BY <1>0, <2>1, <2>4
      <3> QED BY <3>1, <3>2
    <2>6. \A i \in 1 .. Batch : execs[u][i] > 0 => execs'[u][i] > 0
      BY <1>6
    <2>7. ASSUME NEW k \in 1 .. Len(rep'[c])
          PROVE  /\ rep'[c][k].val \in {"ok", "error", "loading"}
                 /\ rep'[c][k].val = "ok" => execs'[u][p + k] > 0
      <3>1. CASE k \in 1 .. lr
        <4>1. p + k \in 1 .. Batch
          <5> HIDE DEF n, p, lr, lq, w
          <5> QED BY <1>0, <2>1, <3>1
        <4>2. rep'[c][k] = rep[c][k]
          BY <1>5, <3>1
        <4> QED BY <2>2, <2>6, <3>1, <4>1, <4>2
      <3>2. CASE k \notin 1 .. lr
        <4>1. k = lr + 1 /\ p + k = w
          <5>1. Len(rep'[c]) = lr + len
            BY <1>5
          <5> HIDE DEF n, p, lr, lq, w
          <5> QED BY <1>0, <2>1, <2>4, <3>2, <5>1
        <4>2. rep'[c][k].val = val
          BY <1>5, <4>1
        <4>3. S = {w} => execs'[u][w] > 0
          BY <1>6, <2>3, SMTT(60)
        <4> HIDE DEF w, lr, p
        <4> QED BY <2>4, <4>1, <4>2, <4>3
      <3> QED BY <3>1, <3>2
    <2>8. kind[u] = "blocking" /\ rep'[c][1].val = "loading" => \A i \in 1 .. Batch : execs'[u][i] = 0
      <3> SUFFICES ASSUME kind[u] = "blocking", rep'[c][1].val = "loading"
                   PROVE  \A i \in 1 .. Batch : execs'[u][i] = 0
        OBVIOUS
      <3>1. n = 1
        BY DEF Size
      <3>2. lr + 1 = 1
        BY <1>2, <1>3, <2>1, <3>1
      <3>3. val = "loading"
        BY <1>5, <3>2
      <3>4. S = {}
        BY <2>4, <3>3
      <3>5. \A i \in 1 .. Batch : execs[u][i] = 0
        BY <1>1, <1>7 DEF Once, Runs
      <3> QED BY <1>6, <3>4, <3>5
    <2>9. \A i \in 1 .. p : err[u][i] = "nil" => execs'[u][i] > 0
      <3>1. \A i \in 1 .. p : i \in 1 .. Batch
        BY <1>1, <1>3, <2>1
      <3> QED BY <2>2, <2>6, <3>1
    <2> HIDE DEF n, p, lr, lq, w
    <2> QED BY <1>1, <1>8, <1>9, <1>11, <2>1, <2>4, <2>5, <2>7, <2>8, <2>9 DEF Stream, n, p
  <1> QED BY <1>10, <1>11

LEMMA ServeInv == ASSUME ClientInv, ~MultiRefused, NEW c \in Conns, Serve(c) PROVE ClientInv'
  <1>1. PICK len, val, S : Serves(c, len, val, S)
    BY ServeFacts
  <1>2. /\ UNCHANGED <<idle, open, calls, kind, attempt, cn, pos, pc, err, result, mixed>>
        /\ req' \in [Conns -> Seq(Request)] /\ rep' \in [Conns -> Seq(Answer)]
        /\ multi' \in [Conns -> Seq(Nat)] /\ execs' \in [Users -> [1 .. Batch -> Nat]]
        /\ \A d \in Conns \ {c} : UNCHANGED <<req[d], rep[d], multi[d]>>
        /\ req[c] # <<>>
    BY <1>1 DEF Serves
  <1>3. TypeOK'
    BY <1>2 DEF ClientInv, TypeOK
  <1>4. Lent'
    BY <1>2 DEF ClientInv, Lent
  <1>5. Ready'
    <2>1. ASSUME NEW d \in idle PROVE Clean(d)'
      <3>1. Clean(d) /\ d \in Conns /\ d # c
        BY <1>2 DEF ClientInv, Ready, Clean, TypeOK
      <3> QED BY <1>2, <3>1 DEF Clean
    <2>2. ASSUME NEW v \in Users, pc[v] = "write" PROVE Clean(cn[v])' /\ pos[v] = 0
      <3>1. Clean(cn[v]) /\ cn[v] \in Conns /\ cn[v] # c /\ pos[v] = 0
        BY <1>2, <2>2, Users1 DEF ClientInv, Ready, Clean
      <3> QED BY <1>2, <3>1 DEF Clean
    <2> QED BY <1>2, <2>1, <2>2 DEF Ready
  <1>6. OneHome'
    <2>1. \A d \in Conns : req'[d] # <<>> => req[d] # <<>> /\ req'[d][1].id = req[d][1].id
      BY <1>1, Served1
    <2>2. \A v \in Users : Id(v)' = Id(v)
      BY <1>2 DEF Id
    <2>3. OneHome /\ cn' = cn /\ pc' = pc
      BY <1>2 DEF ClientInv
    <2> HIDE DEF Id
    <2> QED BY <2>1, <2>2, <2>3 DEF OneHome
  <1>7. \A d \in Conns : ConnInv(d)'
    BY <1>1, ServedConn
  <1>8. \A v \in Users, i \in 1 .. Batch :
           execs[v][i] \in Nat /\ execs'[v][i] \in Nat /\ execs'[v][i] >= execs[v][i]
    <2> SUFFICES ASSUME NEW v \in Users, NEW i \in 1 .. Batch
                 PROVE  execs[v][i] \in Nat /\ execs'[v][i] \in Nat /\ execs'[v][i] >= execs[v][i]
      OBVIOUS
    <2>1. execs[v][i] \in Nat
      BY Users1
    <2>2. execs'[v][i] = execs[v][i] + 1 \/ execs'[v][i] = execs[v][i]
      BY <1>1 DEF Serves
    <2> QED BY <2>1, <2>2
  <1>9. ASSUME NEW v \in Users PROVE UserInv(v)'
    <2>1. Count(v)'
      BY <1>1, ServedCount
    <2>2. ASSUME pc[v] = "read" PROVE Stream(v)'
      <3>1. CASE cn[v] = c
        BY <1>1, <2>2, <3>1, ServedStream
      <3>2. CASE cn[v] # c
        <4>1. Stream(v) /\ TypeOK /\ cn[v] \in Conns
          BY <2>2, Users1 DEF ClientInv, UserInv
        <4>2. ASSUME kind[v] = "blocking", execs'[v] # execs[v] PROVE FALSE
          <5>1. req[c][1].id = Id(v)
            BY <1>1, <4>2, ServedRuns
          <5> QED BY <1>2, <2>2, <3>2, <5>1 DEF ClientInv, OneHome
        <4>3. /\ UNCHANGED <<req[cn[v]], rep[cn[v]], multi[cn[v]]>>
              /\ UNCHANGED <<cn[v], pos[v], err[v], kind[v], calls[v], attempt[v]>>
          BY <1>2, <3>2, <4>1
        <4> QED BY <1>3, <1>8, <4>1, <4>2, <4>3, StreamKept
      <3> QED BY <3>1, <3>2
    <2> QED BY <1>2, <2>1, <2>2 DEF UserInv
  <1>10. OwnReplies'
    BY <1>2 DEF ClientInv, OwnReplies
  <1>11. NoErrorMeansRun'
    <2> SUFFICES ASSUME NEW v \in Users, result[v] = "nil", NEW i \in 1 .. Size(kind[v])
                 PROVE  execs'[v][i] > 0
      BY <1>2 DEF NoErrorMeansRun
    <2>1. execs[v][i] > 0
      BY DEF ClientInv, NoErrorMeansRun
    <2>2. i \in 1 .. Batch
      <3>1. Size(kind[v]) \in 1 .. Batch /\ Batch \in Nat
        BY Numbers
      <3> QED BY <3>1
    <2> QED BY <1>8, <2>1, <2>2
  <1> QED BY <1>3, <1>4, <1>5, <1>6, <1>7, <1>9, <1>10, <1>11 DEF ClientInv

\* A connection that is dropped is nobody's.
LEMMA DropInv == ASSUME ClientInv, NEW c \in Conns, Drop(c) PROVE ClientInv'
  <1>1. /\ TypeOK /\ c \notin open
        /\ UNCHANGED <<idle, open, rep, execs, calls, kind, attempt, cn, pos, pc, err, result, mixed>>
        /\ req' = [req EXCEPT ![c] = <<>>] /\ multi' = [multi EXCEPT ![c] = <<>>]
    BY DEF Drop, ClientInv, callVars, tryVars
  <1>2. /\ req' \in [Conns -> Seq(Request)] /\ multi' \in [Conns -> Seq(Nat)]
        /\ req'[c] = <<>> /\ multi'[c] = <<>>
        /\ \A d \in Conns \ {c} : UNCHANGED <<req[d], rep[d], multi[d]>>
    <2>1. <<>> \in Seq(Request) /\ <<>> \in Seq(Nat)
      BY EmptySeq
    <2> QED BY <1>1, <2>1 DEF TypeOK
  <1>3. TypeOK' /\ Lent'
    BY <1>1, <1>2 DEF ClientInv, TypeOK, Lent
  <1>4. Ready'
    <2>1. ASSUME NEW d \in idle PROVE Clean(d)'
      <3>1. Clean(d) /\ d \in Conns /\ d # c
        BY <1>1 DEF ClientInv, Ready, TypeOK
      <3> QED BY <1>2, <3>1 DEF Clean
    <2>2. ASSUME NEW v \in Users, pc[v] = "write" PROVE Clean(cn[v])' /\ pos[v] = 0
      <3>1. Clean(cn[v]) /\ cn[v] \in Conns /\ cn[v] # c /\ pos[v] = 0 /\ cn'[v] = cn[v]
        BY <1>1, <2>2, Users1 DEF ClientInv, Ready
      <3> QED BY <1>2, <3>1 DEF Clean
    <2> QED BY <1>1, <2>1, <2>2 DEF Ready
  <1>5. OneHome'
    <2>1. OneHome /\ \A v \in Users : Id(v)' = Id(v)
      BY <1>1 DEF ClientInv, Id
    <2> HIDE DEF Id
    <2> QED BY <1>1, <1>2, <2>1 DEF OneHome
  <1>6. ASSUME NEW d \in Conns PROVE ConnInv(d)'
    <2>1. CASE d = c
      <3>1. Len(<<>>) = 0
        OBVIOUS
      <3> QED BY <1>2, <2>1, <3>1 DEF ConnInv, Row, Asked, Queue, Once, Runs, Of
    <2>2. CASE d # c
      <3>1. ConnInv(d) /\ req'[d] = req[d] /\ multi'[d] = multi[d]
        BY <1>2, <2>2 DEF ClientInv
      <3> QED BY <1>1, <3>1, SMTT(60) DEF ConnInv, Row, Asked, Queue, Once, Runs, Of
    <2> QED BY <2>1, <2>2
  <1>7. ASSUME NEW v \in Users PROVE Count(v)'
    <2>1. Count(v)
      BY DEF ClientInv, UserInv
    <2>2. CASE kind[v] \in {"tx", "blocking"}
      BY <1>1, <2>1, <2>2 DEF Count
    <2>3. CASE kind[v] \notin {"tx", "blocking"}
      <3> SUFFICES ASSUME NEW i \in 1 .. Batch
                   PROVE  execs[v][i] + Cardinality(Left(v, i)') <= Made(v)
        BY <1>1, <2>3 DEF Count, Made
      <3>1. Left(v, i)' \subseteq Left(v, i)
        <4> SUFFICES ASSUME NEW a \in 0 .. attempt[v], NEW d \in Conns, NEW k \in 1 .. Len(req'[d]),
                            req'[d][k] = [id |-> <<v, calls[v], a>>, what |-> i]
                     PROVE  a \in Left(v, i)
          BY <1>1 DEF Left
        <4>1. Len(<<>>) = 0 /\ 1 .. 0 = {}
          OBVIOUS
        <4>2. d # c
          BY <1>2, <4>1
        <4>3. req'[d] = req[d]
          BY <1>2, <4>2
        <4> QED BY <4>3 DEF Left
      <3>2. IsFiniteSet(Left(v, i)) /\ Cardinality(Left(v, i)) \in Nat
        BY LeftFinite
      <3>3. IsFiniteSet(Left(v, i)') /\ Cardinality(Left(v, i)') <= Cardinality(Left(v, i))
        BY <3>1, <3>2, FS_Subset
      <3>4. Cardinality(Left(v, i)') \in Nat
        BY <3>3, FS_CardinalityType
      <3>5. execs[v][i] + Cardinality(Left(v, i)) <= Made(v) /\ execs[v][i] \in Nat
        BY <2>1, <2>3, Users1 DEF Count
      <3>6. Made(v) \in Nat
        BY Users1 DEF Made
      <3> QED BY <3>2, <3>3, <3>4, <3>5, <3>6
    <2> QED BY <2>2, <2>3
  <1>8. ASSUME NEW v \in Users, pc[v] = "read" PROVE Stream(v)'
    <2>1. Stream(v) /\ cn[v] \in Conns /\ cn[v] # c
      BY <1>1, <1>8, Users1 DEF ClientInv, UserInv
    <2>2. \A i \in 1 .. Batch : execs'[v][i] >= execs[v][i]
      <3>1. \A i \in 1 .. Batch : execs[v][i] \in Nat
        BY Users1
      <3> QED BY <1>1, <3>1
    <2> QED BY <1>1, <1>2, <1>3, <2>1, <2>2, StreamKept
  <1>9. OwnReplies' /\ NoErrorMeansRun'
    BY <1>1 DEF ClientInv, OwnReplies, NoErrorMeansRun
  <1> QED BY <1>1, <1>3, <1>4, <1>5, <1>6, <1>7, <1>8, <1>9 DEF ClientInv, UserInv

-----------------------------------------------------------------------------
(* The specification.                                                      *)

LEMMA InitInv == ASSUME Init PROVE ClientInv
  <1>1. /\ TypeOK /\ \A c \in Conns : req[c] = <<>> /\ rep[c] = <<>> /\ multi[c] = <<>>
        /\ Len(<<>>) = 0 /\ 1 .. 0 = {}
    <2>1. <<>> \in Seq(Request) /\ <<>> \in Seq(Answer) /\ <<>> \in Seq(Nat)
      BY EmptySeq
    <2>2. MaxRetries \in Nat
      BY Numbers
    <2>3. NoErrs \in [1 .. Batch -> Errs]
      BY DEF NoErrs, Errs
    <2>4. [i \in 1 .. Batch |-> 0] \in [1 .. Batch -> Nat]
      OBVIOUS
    <2>5. /\ req \in [Conns -> Seq(Request)] /\ rep \in [Conns -> Seq(Answer)]
          /\ multi \in [Conns -> Seq(Nat)]
          /\ \A c \in Conns : req[c] = <<>> /\ rep[c] = <<>> /\ multi[c] = <<>>
      BY <2>1 DEF Init
    <2>6. /\ execs \in [Users -> [1 .. Batch -> Nat]] /\ err \in [Users -> [1 .. Batch -> Errs]]
      BY <2>3, <2>4 DEF Init
    <2>7. /\ calls \in [Users -> Nat] /\ attempt \in [Users -> 0 .. MaxRetries]
          /\ pos \in [Users -> Nat]
      BY <2>2 DEF Init
    <2>8. /\ idle = {} /\ open = {} /\ mixed = FALSE /\ DOMAIN kind = Users
          /\ pc \in [Users -> {"idle", "get", "write", "read"}] /\ \A u \in Users : pc[u] = "idle"
          /\ cn \in [Users -> Conns \cup {NoConn}] /\ result \in [Users -> Errs \cup {"none"}]
      BY DEF Init
    <2>9. TypeOK
      BY <2>5, <2>6, <2>7, <2>8 DEF TypeOK
    <2>10. Len(<<>>) = 0 /\ 1 .. 0 = {}
      OBVIOUS
    <2> QED BY <2>5, <2>9, <2>10, Zenon
  <1>2. /\ \A u \in Users : pc[u] = "idle" /\ cn[u] = NoConn /\ result[u] = "none"
        /\ \A u \in Users, i \in 1 .. Batch : execs[u][i] = 0
        /\ idle = {} /\ mixed = FALSE
    BY DEF Init
  <1>3. Lent /\ Ready /\ OneHome
    BY <1>1, <1>2 DEF Lent, Ready, OneHome
  <1>4. \A c \in Conns : ConnInv(c)
    BY <1>1 DEF ConnInv, Row, Asked, Queue, Once, Runs, Of
  <1>5. ASSUME NEW u \in Users PROVE Count(u)
    <2>1. ASSUME NEW i PROVE Cardinality(Left(u, i)) = 0
      <3>1. Left(u, i) = {}
        BY <1>1 DEF Left
      <3> QED BY <3>1, FS_EmptySet
    <2>2. Made(u) \in Nat /\ Made(u) >= 1
      <3>1. attempt[u] \in Nat
        BY <1>1, Numbers DEF TypeOK
      <3> QED BY <1>2, <3>1 DEF Made
    <2>3. \A i \in 1 .. Batch : execs[u][i] + Cardinality(Left(u, i)) = 0
      BY <1>2, <2>1
    <2> QED BY <1>2, <2>2, <2>3 DEF Count
  <1> QED BY <1>1, <1>2, <1>3, <1>4, <1>5 DEF ClientInv, UserInv, OwnReplies, NoErrorMeansRun

LEMMA NextInv == ASSUME ~MultiRefused, ClientInv, [Next]_vars PROVE ClientInv'
  <1>1. CASE UNCHANGED vars
    <2>1. UNCHANGED <<idle, open, req, rep, multi, execs, calls, kind, attempt, cn, pos, pc, err,
                      result, mixed>>
      BY <1>1 DEF vars, netVars, callVars, tryVars
    <2>2. TypeOK' /\ Lent' /\ Ready' /\ OwnReplies' /\ NoErrorMeansRun'
      BY <2>1 DEF ClientInv, TypeOK, Lent, Ready, Clean, OwnReplies, NoErrorMeansRun
    <2>3. OneHome'
      <3>1. OneHome /\ \A u \in Users : Id(u)' = Id(u)
        BY <2>1 DEF ClientInv, Id
      <3> HIDE DEF Id
      <3> QED BY <2>1, <3>1 DEF OneHome
    <2>4. ASSUME NEW c \in Conns PROVE ConnInv(c)'
      <3>1. ConnInv(c)
        BY DEF ClientInv
      <3> QED BY <2>1, <3>1 DEF ConnInv, Row, Asked, Queue, Once, Runs, Of
    <2>5. ASSUME NEW u \in Users PROVE UserInv(u)'
      <3>1. Count(u)'
        <4>1. Count(u) /\ \A i : Left(u, i)' = Left(u, i)
          BY <2>1 DEF ClientInv, UserInv, Left
        <4>2. Made(u)' = Made(u)
          BY <2>1 DEF Made
        <4> QED BY <2>1, <4>1, <4>2 DEF Count
      <3>2. ASSUME pc[u] = "read" PROVE Stream(u)'
        <4>1. Stream(u) /\ TypeOK /\ cn[u] \in Conns /\ \A i \in 1 .. Batch : execs[u][i] \in Nat
          BY <3>2, Users1 DEF ClientInv, UserInv
        <4>2. \A i \in 1 .. Batch : execs'[u][i] >= execs[u][i]
          BY <2>1, <4>1
        <4> QED BY <2>1, <2>2, <4>1, <4>2, StreamKept
      <3> QED BY <2>1, <3>1, <3>2 DEF UserInv
    <2> QED BY <2>2, <2>3, <2>4, <2>5 DEF ClientInv
  <1>2. ASSUME NEW u \in Users, UserStep(u) PROVE ClientInv'
    <2>1. ASSUME NEW e \in {"net", "pool", "bad"}, WriteFails(u, e) PROVE ClientInv'
      <3>1. e \in Errs /\ e # "nil"
        BY DEF Errs
      <3> QED BY <2>1, <3>1, WriteFailsInv
    <2> QED BY <1>2, <2>1, GetConnInv, WriteCmdInv, ReadFailsInv, ReadCmdInv, ReadBatchInv,
               ReadQueuedInv, GetConnFailsInv DEF UserStep
  <1>3. ASSUME NEW u \in Users, NEW k \in Kinds, Start(u, k) PROVE ClientInv'
    BY <1>3, StartInv
  <1>4. ASSUME NEW c \in Conns, Serve(c) \/ Drop(c) PROVE ClientInv'
    BY <1>4, ServeInv, DropInv
  <1> QED BY <1>1, <1>2, <1>3, <1>4 DEF Next

\* The invariant that places what is under way on the connections
\* (WithConn, defaultProcess, the pipeline processors): with a server that does
\* not refuse MULTI, everything on a connection belongs to one attempt.
THEOREM SpecInv == ASSUME ~MultiRefused PROVE Spec => []ClientInv
  <1>1. Init => ClientInv
    BY InitInv
  <1>2. ClientInv /\ [Next]_vars => ClientInv'
    BY NextInv
  <1> QED BY <1>1, <1>2, PTL DEF Spec

\* A reply is read by the attempt that asked for it, whatever was retried, timed
\* out or dropped before (releaseConn, pool.Put and pool.Remove).
THEOREM SpecOwnReplies == ASSUME ~MultiRefused PROVE Spec => []OwnReplies
  <1>1. ClientInv => OwnReplies
    BY DEF ClientInv
  <1> QED BY <1>1, SpecInv, PTL

\* Retries run a command or a pipeline at most MaxRetries + 1 times, a
\* transaction or a blocking command once (IsRetryableError, canRetry), although
\* the server may run late what a dropped connection had delivered.
THEOREM SpecRunsBounded == ASSUME ~MultiRefused PROVE Spec => []RunsBounded
  <1>1. ASSUME ClientInv PROVE RunsBounded
    <2> SUFFICES ASSUME NEW u \in Users, NEW i \in 1 .. Batch
                 PROVE  execs[u][i] <= IF kind[u] \in {"tx", "blocking"} THEN 1 ELSE MaxRetries + 1
      BY DEF RunsBounded
    <2>1. Count(u)
      BY <1>1 DEF ClientInv, UserInv
    <2>2. CASE kind[u] \in {"tx", "blocking"}
      BY <2>1, <2>2 DEF Count
    <2>3. CASE kind[u] \notin {"tx", "blocking"}
      <3>1. execs[u][i] + Cardinality(Left(u, i)) <= Made(u) /\ execs[u][i] \in Nat
        BY <1>1, <2>1, <2>3, Users1 DEF Count
      <3>2. Cardinality(Left(u, i)) \in Nat
        BY <1>1, LeftFinite
      <3>3. Made(u) \in Nat /\ Made(u) <= MaxRetries + 1 /\ MaxRetries \in Nat
        BY <1>1, Users1, Numbers DEF Made
      <3> QED BY <2>3, <3>1, <3>2, <3>3
    <2> QED BY <2>2, <2>3
  <1> QED BY <1>1, SpecInv, PTL

\* A call that returns no error has run all its commands (FirstCmdsErr, the
\* replies of EXEC).
THEOREM SpecNoErrorMeansRun == ASSUME ~MultiRefused PROVE Spec => []NoErrorMeansRun
  <1>1. ClientInv => NoErrorMeansRun
    BY DEF ClientInv
  <1> QED BY <1>1, SpecInv, PTL
=============================================================================
