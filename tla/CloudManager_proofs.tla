------------------------- MODULE CloudManager_proofs -------------------------
(***************************************************************************)
(* Proofs about CloudManager for any users, nodes, limits and numbers of   *)
(* jobs, virtual machines and servers: what holds always, and until a      *)
(* START is answered in parts what users leave behind, and their files.    *)
(*                                                                         *)
(* The methods of a user are functions of the world, and an event calls    *)
(* several of them: each one has lemmas of its own, about any good world,  *)
(* and a loop over the VMs of a user stays in every set of worlds that its *)
(* body stays in.                                                          *)
(***************************************************************************)
EXTENDS CloudManager, Induction, FiniteSetTheorems, SequenceTheorems, TLAPS

-----------------------------------------------------------------------------
(* Worlds. *)

Queues  == [blocked : BOOLEAN, requests : Seq(Requests), temporal : Seq(Requests),
            next : Nat \ {0}]
VMRecs  == [state : {"none", "OFF", "IDLE", "RUNNING", "gone"},
            pending : {"none", "storage", "shutdown"}, host : Nodes \cup {NoNode}]
JobRecs == [place : {"waiting", "storage", "running", "finished"}, vm : VMs \cup {NoVM}]
UserRecs(u) == [status : {"new", "active", "finalizing", "gone"}, waiting : Seq(JobsOf(u)),
                shutdowns : Int, wake : Nat]
AnyUser == UNION {UserRecs(u) : u \in Users}

GoodUsers  == {f \in [Users -> AnyUser] : \A u \in Users : f[u] \in UserRecs(u)}
GoodWorlds == [queue : Queues, vm : [VMs -> VMRecs], job : [Jobs -> JobRecs],
               user : GoodUsers, awaiting : SUBSET VMs]

\* A VM is <<u, n>>, a job too; both belong to user u.
LEMMA VMIs ==
  ASSUME NEW v \in VMs
  PROVE  /\ v[1] \in Users /\ v[2] \in 1 .. Quantity[v[1]] /\ v = <<v[1], v[2]>>
         /\ v \in VMsOf(v[1])
  BY DEF VMs, VMsOf

LEMMA JobIs ==
  ASSUME NEW u \in Users, NEW j \in JobsOf(u)
  PROVE  j \in Jobs /\ j[1] = u
  BY DEF Jobs, JobsOf

LEMMA JobUser ==
  ASSUME NEW j \in Jobs
  PROVE  j[1] \in Users /\ j \in JobsOf(j[1])
  BY DEF Jobs, JobsOf

LEMMA UserVMs ==
  ASSUME NEW u \in Users
  PROVE  /\ Quantity[u] \in Nat
         /\ \A n \in 1 .. Quantity[u] : <<u, n>> \in VMs /\ <<u, n>>[1] = u
         /\ VMsOf(u) \subseteq VMs
<1>1. Quantity[u] \in Nat
  BY CloudAssumption
<1>2. VMsOf(u) \subseteq VMs
  BY DEF VMs
<1>3. \A n \in 1 .. Quantity[u] : <<u, n>> \in VMsOf(u) /\ <<u, n>>[1] = u
  BY DEF VMsOf
<1> QED BY <1>1, <1>2, <1>3

LEMMA VMsFinite == IsFiniteSet(VMs)
<1> DEFINE f == [u \in Users |-> VMsOf(u)]
           S == {VMsOf(u) : u \in Users}
<1>1. f \in Surjection(Users, S)
  BY DEF Surjection
<1>2. IsFiniteSet(S)
  <2> HIDE DEF f, S
  <2> QED BY <1>1, CloudAssumption, FS_Surjection
<1>3. ASSUME NEW u \in Users PROVE IsFiniteSet(VMsOf(u))
  <2>1. Quantity[u] \in Int
    BY CloudAssumption
  <2>2. IsFiniteSet(1 .. Quantity[u])
    BY <2>1, FS_Interval
  <2>3. IsFiniteSet({u})
    BY FS_Singleton
  <2> QED BY <2>2, <2>3, FS_Product DEF VMsOf
<1>4. \A T \in S : IsFiniteSet(T)
  BY <1>3
<1> HIDE DEF S
<1>5. IsFiniteSet(UNION S)
  BY <1>2, <1>4, FS_UNION
<1> QED BY <1>5 DEF VMs, S

\* The requests there are.
LEMMA RequestsAre ==
  /\ \A u \in Users : Start(u) \in Requests /\ Abandon(u) \in Requests
  /\ \A v \in VMs : Free(v) \in Requests
  /\ \A j \in Jobs, v \in VMs : Storage(j, v) \in Requests
  BY DEF Requests

LEMMA RequestIs ==
  ASSUME NEW r \in Requests
  PROVE  /\ r.op \in {"start", "abandon", "free", "storage"} /\ r.user \in Users
         /\ r.op = "start" => r = Start(r.user)
         /\ r.op = "abandon" => r = Abandon(r.user)
         /\ r.op = "free" => r.vm \in VMs /\ r = Free(r.vm)
         /\ r.op = "storage" => r.vm \in VMs /\ r.job \in Jobs /\ r = Storage(r.job, r.vm)
<1>1. CASE \E u \in Users : r = Start(u)
  BY <1>1 DEF Start
<1>2. CASE \E u \in Users : r = Abandon(u)
  BY <1>2 DEF Abandon
<1>3. CASE \E v \in VMs : r = Free(v)
  BY <1>3, VMIs DEF Free
<1>4. CASE \E j \in Jobs, v \in VMs : r = Storage(j, v)
  BY <1>4, VMIs DEF Storage
<1> QED BY <1>1, <1>2, <1>3, <1>4 DEF Requests

\* The parts of a world, and a world from its parts.
LEMMA WorldParts ==
  ASSUME NEW w \in GoodWorlds
  PROVE  /\ w.queue \in Queues /\ w.vm \in [VMs -> VMRecs] /\ w.job \in [Jobs -> JobRecs]
         /\ w.user \in GoodUsers /\ w.awaiting \in SUBSET VMs
         /\ w = [queue |-> w.queue, vm |-> w.vm, job |-> w.job, user |-> w.user,
                 awaiting |-> w.awaiting]
<1> HIDE DEF Queues, GoodUsers
<1> QED BY DEF GoodWorlds

LEMMA QueueParts ==
  ASSUME NEW q \in Queues
  PROVE  /\ q.blocked \in BOOLEAN /\ q.requests \in Seq(Requests) /\ q.temporal \in Seq(Requests)
         /\ q.next \in Nat \ {0}
  BY DEF Queues

LEMMA VMParts ==
  ASSUME NEW x \in VMRecs
  PROVE  /\ x.state \in {"none", "OFF", "IDLE", "RUNNING", "gone"}
         /\ x.pending \in {"none", "storage", "shutdown"} /\ x.host \in Nodes \cup {NoNode}
  BY DEF VMRecs

LEMMA JobParts ==
  ASSUME NEW x \in JobRecs
  PROVE  x.place \in {"waiting", "storage", "running", "finished"} /\ x.vm \in VMs \cup {NoVM}
  BY DEF JobRecs

LEMMA UserParts ==
  ASSUME NEW f \in GoodUsers, NEW u \in Users
  PROVE  /\ f[u] \in UserRecs(u) /\ f[u].status \in {"new", "active", "finalizing", "gone"}
         /\ f[u].waiting \in Seq(JobsOf(u)) /\ f[u].shutdowns \in Int /\ f[u].wake \in Nat
<1>1. f[u] \in UserRecs(u)
  BY DEF GoodUsers
<1> QED BY <1>1 DEF UserRecs

\* Another record for one user.
LEMMA SetUser ==
  ASSUME NEW f \in GoodUsers, NEW u \in Users, NEW x \in UserRecs(u)
  PROVE  [f EXCEPT ![u] = x] \in GoodUsers
<1>1. x \in AnyUser
  BY DEF AnyUser
<1> HIDE DEF AnyUser
<1> QED BY <1>1 DEF GoodUsers

-----------------------------------------------------------------------------
(* How often a request is in the queues. *)

In(s, r) == Cardinality({i \in 1 .. Len(s) : s[i] = r})

Count(q, r) == In(q.requests, r) + In(q.temporal, r)

LEMMA InType ==
  ASSUME NEW T, NEW s \in Seq(T), NEW r
  PROVE  IsFiniteSet({i \in 1 .. Len(s) : s[i] = r}) /\ In(s, r) \in Nat
<1>1. IsFiniteSet(1 .. Len(s))
  BY FS_Interval
<1>2. IsFiniteSet({i \in 1 .. Len(s) : s[i] = r})
  BY <1>1, FS_Subset
<1> QED BY <1>2, FS_CardinalityType DEF In

LEMMA InConcat ==
  ASSUME NEW T, NEW s \in Seq(T), NEW t \in Seq(T), NEW r
  PROVE  In(s \o t, r) = In(s, r) + In(t, r)
<1> DEFINE A == {i \in 1 .. Len(s) : s[i] = r}
           B == {i \in 1 .. Len(t) : t[i] = r}
           c == s \o t
           all == {i \in 1 .. Len(c) : c[i] = r}
           B2 == {i \in Len(s) + 1 .. Len(s) + Len(t) : c[i] = r}
<1>1. /\ c \in Seq(T) /\ Len(c) = Len(s) + Len(t) /\ Len(s) \in Nat /\ Len(t) \in Nat
      /\ \A i \in 1 .. Len(s) : c[i] = s[i]
      /\ \A i \in 1 .. Len(t) : c[Len(s) + i] = t[i]
  BY ConcatProperties
<1>2. IsFiniteSet(A) /\ IsFiniteSet(B)
  BY InType
<1> HIDE DEF c
<1>3. all = A \cup B2 /\ A \cap B2 = {}
  BY <1>1
<1> DEFINE f == [i \in B |-> Len(s) + i]
<1>4. f \in Bijection(B, B2)
  <2>1. f \in [B -> B2]
    BY <1>1
  <2>2. \A i, k \in B : f[i] = f[k] => i = k
    BY <1>1
  <2>3. \A k \in B2 : \E i \in B : f[i] = k
    <3> SUFFICES ASSUME NEW k \in B2 PROVE \E i \in B : f[i] = k
      OBVIOUS
    <3>1. k - Len(s) \in 1 .. Len(t) /\ Len(s) + (k - Len(s)) = k
      BY <1>1
    <3>2. t[k - Len(s)] = r
      BY <1>1, <3>1
    <3>3. k - Len(s) \in B /\ f[k - Len(s)] = k
      BY <3>1, <3>2
    <3> QED BY <3>3
  <2> HIDE DEF f, B, B2
  <2> QED BY <2>1, <2>2, <2>3 DEF Bijection, Injection, Surjection, IsInjective
<1> HIDE DEF f, A, B, B2, all
<1>5. IsFiniteSet(B2) /\ Cardinality(B2) = Cardinality(B)
  BY <1>2, <1>4, FS_Bijection DEF ExistsBijection
<1>6. Cardinality(A \cup B2) = Cardinality(A) + Cardinality(B2) - Cardinality(A \cap B2)
  BY <1>2, <1>5, FS_Union
<1>7. Cardinality(A \cap B2) = 0
  BY <1>3, FS_EmptySet
<1>8. Cardinality(A) \in Nat /\ Cardinality(B) \in Nat
  BY <1>2, FS_CardinalityType
<1>9. Cardinality(all) = Cardinality(A) + Cardinality(B)
  BY <1>3, <1>5, <1>6, <1>7, <1>8
<1> QED BY <1>9 DEF In, A, B, c, all

LEMMA InOne ==
  ASSUME NEW e, NEW r
  PROVE  In(<<e>>, r) = IF e = r THEN 1 ELSE 0
<1>1. Len(<<e>>) = 1 /\ <<e>>[1] = e
  OBVIOUS
<1>2. CASE e = r
  <2>1. {i \in 1 .. Len(<<e>>) : <<e>>[i] = r} = {1}
    BY <1>1, <1>2
  <2> QED BY <1>2, <2>1, FS_Singleton DEF In
<1>3. CASE e # r
  <2>1. {i \in 1 .. Len(<<e>>) : <<e>>[i] = r} = {}
    BY <1>1, <1>3
  <2> QED BY <1>3, <2>1, FS_EmptySet DEF In
<1> QED BY <1>2, <1>3

LEMMA InAppend ==
  ASSUME NEW T, NEW s \in Seq(T), NEW e \in T, NEW r
  PROVE  In(Append(s, e), r) = In(s, r) + (IF e = r THEN 1 ELSE 0)
<1>1. Append(s, e) = s \o <<e>> /\ <<e>> \in Seq(T)
  OBVIOUS
<1>2. In(s \o <<e>>, r) = In(s, r) + In(<<e>>, r)
  BY <1>1, InConcat
<1> QED BY <1>1, <1>2, InOne

\* A request that is there is counted.
LEMMA InSome ==
  ASSUME NEW T, NEW s \in Seq(T), NEW i \in 1 .. Len(s)
  PROVE  In(s, s[i]) >= 1
<1>1. i \in {k \in 1 .. Len(s) : s[k] = s[i]}
  OBVIOUS
<1>2. In(s, s[i]) \in Nat /\ IsFiniteSet({k \in 1 .. Len(s) : s[k] = s[i]})
  BY InType
<1>3. In(s, s[i]) # 0
  BY <1>1, <1>2, FS_EmptySet DEF In
<1> QED BY <1>2, <1>3

LEMMA InErase ==
  ASSUME NEW T, NEW s \in Seq(T), NEW n \in 1 .. Len(s), NEW r
  PROVE  LET e == SubSeq(s, 1, n - 1) \o SubSeq(s, n + 1, Len(s)) IN
         e \in Seq(T) /\ In(e, r) = In(s, r) - (IF s[n] = r THEN 1 ELSE 0)
<1> DEFINE a == SubSeq(s, 1, n - 1)
           b == SubSeq(s, n + 1, Len(s))
           m == <<s[n]>>
<1>1. /\ a \in Seq(T) /\ Len(a) = n - 1 /\ \A i \in 1 .. n - 1 : a[i] = s[i]
      /\ b \in Seq(T) /\ Len(b) = Len(s) - n /\ \A i \in 1 .. Len(s) - n : b[i] = s[n + i]
      /\ m \in Seq(T) /\ Len(m) = 1 /\ m[1] = s[n]
  OBVIOUS
<1> HIDE DEF a, b, m
<1>2. a \o m \in Seq(T)
  BY <1>1, ConcatProperties
<1>3. s = (a \o m) \o b
  <2>1. SubSeq(s, 1, n) = a \o m
    BY SubSeqRecursiveSecond DEF a, m
  <2>2. SubSeq(s, 1, n) \o b = SubSeq(s, 1, Len(s))
    BY ConcatAdjacentSubSeq DEF b
  <2> QED BY <2>1, <2>2, SubSeqFull
<1>4. In(s, r) = In(a, r) + In(m, r) + In(b, r)
  <2>1. In((a \o m) \o b, r) = In(a \o m, r) + In(b, r)
    <3>1. PICK c \in Seq(T) : c = a \o m
      BY <1>2
    <3>2. In(c \o b, r) = In(c, r) + In(b, r)
      BY <1>1, InConcat
    <3> QED BY <3>1, <3>2
  <2>2. In(a \o m, r) = In(a, r) + In(m, r)
    BY <1>1, InConcat
  <2> QED BY <1>3, <2>1, <2>2
<1>5. In(a \o b, r) = In(a, r) + In(b, r) /\ a \o b \in Seq(T)
  BY <1>1, InConcat, ConcatProperties
<1>6. In(m, r) = IF s[n] = r THEN 1 ELSE 0
  BY InOne DEF m
<1>7. In(a, r) \in Nat /\ In(b, r) \in Nat
  BY <1>1, InType
<1>8. In(a \o b, r) = In(s, r) - (IF s[n] = r THEN 1 ELSE 0)
  BY <1>4, <1>5, <1>6, <1>7
<1> QED BY <1>5, <1>8 DEF a, b

-----------------------------------------------------------------------------
(* What each method of a user does. *)

LEMMA MakeWorld ==
  ASSUME NEW q \in Queues, NEW m \in [VMs -> VMRecs], NEW b \in [Jobs -> JobRecs],
         NEW f \in GoodUsers, NEW a \in SUBSET VMs,
         NEW s, s = [queue |-> q, vm |-> m, job |-> b, user |-> f, awaiting |-> a]
  PROVE  /\ s \in GoodWorlds /\ s.queue = q /\ s.vm = m /\ s.job = b /\ s.user = f
         /\ s.awaiting = a
<1> HIDE DEF Queues, GoodUsers, VMRecs, JobRecs
<1> QED BY DEF GoodWorlds

\* The queue with a request more.
Sent(q, r) == IF q.blocked THEN [q EXCEPT !.temporal = Append(@, r)]
                           ELSE [q EXCEPT !.requests = Append(@, r)]

LEMMA SentGood ==
  ASSUME NEW q \in Queues, NEW r \in Requests
  PROVE  /\ Sent(q, r) \in Queues /\ Sent(q, r).blocked = q.blocked /\ Sent(q, r).next = q.next
         /\ Sent(q, r).requests = IF q.blocked THEN q.requests ELSE Append(q.requests, r)
         /\ Sent(q, r).temporal = IF q.blocked THEN Append(q.temporal, r) ELSE q.temporal
<1> DEFINE a == Append(q.temporal, r)
           b == Append(q.requests, r)
<1>1. a \in Seq(Requests) /\ b \in Seq(Requests)
  BY QueueParts
<1> HIDE DEF a, b
<1>2. /\ [q EXCEPT !.temporal = a] \in Queues /\ [q EXCEPT !.requests = b] \in Queues
      /\ [q EXCEPT !.temporal = a].blocked = q.blocked /\ [q EXCEPT !.temporal = a].next = q.next
      /\ [q EXCEPT !.temporal = a].requests = q.requests /\ [q EXCEPT !.temporal = a].temporal = a
      /\ [q EXCEPT !.requests = b].blocked = q.blocked /\ [q EXCEPT !.requests = b].next = q.next
      /\ [q EXCEPT !.requests = b].requests = b /\ [q EXCEPT !.requests = b].temporal = q.temporal
  BY <1>1 DEF Queues
<1>3. Sent(q, r) = IF q.blocked THEN [q EXCEPT !.temporal = a] ELSE [q EXCEPT !.requests = b]
  BY DEF Sent, a, b
<1> QED BY <1>2, <1>3 DEF a, b

LEMMA SendDoes ==
  ASSUME NEW w \in GoodWorlds, NEW r \in Requests
  PROVE  LET s == UserSendRequest(w, r) IN
         /\ s \in GoodWorlds /\ s.queue = Sent(w.queue, r) /\ s.vm = w.vm /\ s.job = w.job
         /\ s.user = w.user /\ s.awaiting = w.awaiting
<1>1. PICK q \in Queues, m \in [VMs -> VMRecs], b \in [Jobs -> JobRecs], f \in GoodUsers,
           a \in SUBSET VMs :
        /\ w = [queue |-> q, vm |-> m, job |-> b, user |-> f, awaiting |-> a]
        /\ w.queue = q /\ w.vm = m /\ w.job = b /\ w.user = f /\ w.awaiting = a
  BY WorldParts
<1>2. Sent(q, r) \in Queues
  BY SentGood
<1>3. UserSendRequest(w, r) =
        [queue |-> Sent(q, r), vm |-> m, job |-> b, user |-> f, awaiting |-> a]
  BY <1>1 DEF UserSendRequest, Sent
<1> QED BY <1>1, <1>2, <1>3, MakeWorld

LEMMA ShutdownDoes ==
  ASSUME NEW w \in GoodWorlds, NEW v \in VMs, ON(w, v)
  PROVE  LET s == ShutdownVM(w, v) IN
         /\ s \in GoodWorlds /\ s.queue = Sent(w.queue, Free(v))
         /\ s.vm = [w.vm EXCEPT ![v].pending = "shutdown"] /\ s.job = w.job
         /\ s.user = [w.user EXCEPT ![v[1]].shutdowns = @ + 1] /\ s.awaiting = w.awaiting
<1>1. PICK q \in Queues, m \in [VMs -> VMRecs], b \in [Jobs -> JobRecs], f \in GoodUsers,
           a \in SUBSET VMs :
        /\ w = [queue |-> q, vm |-> m, job |-> b, user |-> f, awaiting |-> a]
        /\ w.queue = q /\ w.vm = m /\ w.job = b /\ w.user = f /\ w.awaiting = a
  BY WorldParts
<1> DEFINE m2 == [m EXCEPT ![v].pending = "shutdown"]
           f2 == [f EXCEPT ![v[1]].shutdowns = @ + 1]
           t == [w EXCEPT !.vm[v].pending = "shutdown", !.user[v[1]].shutdowns = @ + 1]
<1>2. m2 \in [VMs -> VMRecs]
  <2>1. [m[v] EXCEPT !.pending = "shutdown"] \in VMRecs
    BY DEF VMRecs
  <2> HIDE DEF VMRecs
  <2> QED BY <2>1
<1>3. f2 \in GoodUsers
  <2>1. v[1] \in Users
    BY VMIs
  <2>2. f[v[1]] \in UserRecs(v[1])
    BY <2>1, UserParts
  <2>3. [f[v[1]] EXCEPT !.shutdowns = @ + 1] \in UserRecs(v[1])
    BY <2>2 DEF UserRecs
  <2>4. [f EXCEPT ![v[1]] = [f[v[1]] EXCEPT !.shutdowns = @ + 1]] \in GoodUsers
    BY <2>1, <2>3, SetUser
  <2> QED BY <2>4
<1>4. t = [queue |-> q, vm |-> m2, job |-> b, user |-> f2, awaiting |-> a]
  <2>1. t = [w EXCEPT !.vm = m2, !.user = f2]
    BY <1>1
  <2> HIDE DEF t, m2, f2
  <2> QED BY <1>1, <2>1
<1>5. ShutdownVM(w, v) = UserSendRequest(t, Free(v))
  BY DEF ShutdownVM
<1>6. m2 = [w.vm EXCEPT ![v].pending = "shutdown"] /\ f2 = [w.user EXCEPT ![v[1]].shutdowns = @ + 1]
  BY <1>1
<1> HIDE DEF t, m2, f2
<1>7. t \in GoodWorlds /\ t.queue = q /\ t.vm = m2 /\ t.job = b /\ t.user = f2 /\ t.awaiting = a
  BY <1>2, <1>3, <1>4, MakeWorld
<1>8. Free(v) \in Requests
  BY RequestsAre
<1> QED BY <1>1, <1>5, <1>6, <1>7, <1>8, SendDoes

LEMMA CreateDoes ==
  ASSUME NEW w \in GoodWorlds, NEW v \in VMs, Waiting(w, v[1]) # <<>>
  PROVE  LET j == Head(Waiting(w, v[1]))
             s == CreateFS(w, j, v) IN
         /\ j \in JobsOf(v[1]) /\ j \in Jobs /\ j[1] = v[1]
         /\ s \in GoodWorlds /\ s.queue = Sent(w.queue, Storage(j, v))
         /\ s.vm = [w.vm EXCEPT ![v].pending = "storage"]
         /\ s.job = [w.job EXCEPT ![j] = [place |-> "storage", vm |-> v]]
         /\ s.user = [w.user EXCEPT ![v[1]].waiting = Tail(@)]
         /\ s.awaiting = w.awaiting \cup {v}
<1>1. PICK q \in Queues, m \in [VMs -> VMRecs], b \in [Jobs -> JobRecs], f \in GoodUsers,
           a \in SUBSET VMs :
        /\ w = [queue |-> q, vm |-> m, job |-> b, user |-> f, awaiting |-> a]
        /\ w.queue = q /\ w.vm = m /\ w.job = b /\ w.user = f /\ w.awaiting = a
  BY WorldParts
<1>2. PICK u \in Users : u = v[1]
  BY VMIs
<1>3. f[u] \in UserRecs(u) /\ f[u].waiting \in Seq(JobsOf(u)) /\ f[u].waiting # <<>>
  BY <1>1, <1>2, UserParts DEF Waiting
<1>4. PICK j \in JobsOf(u) : j = Head(Waiting(w, v[1]))
  BY <1>1, <1>2, <1>3 DEF Waiting
<1>5. j \in Jobs /\ j[1] = u
  BY JobIs
<1> DEFINE m2 == [m EXCEPT ![v].pending = "storage"]
           f2 == [f EXCEPT ![u].waiting = Tail(@)]
           b2 == [b EXCEPT ![j] = [place |-> "storage", vm |-> v]]
           a2 == a \cup {v}
           t == [w EXCEPT !.job[j] = [place |-> "storage", vm |-> v],
                          !.user[j[1]].waiting = Tail(@),
                          !.vm[v].pending = "storage",
                          !.awaiting = @ \cup {v}]
<1>6. m2 \in [VMs -> VMRecs]
  <2>1. [m[v] EXCEPT !.pending = "storage"] \in VMRecs
    BY DEF VMRecs
  <2> HIDE DEF VMRecs
  <2> QED BY <2>1
<1>7. f2 \in GoodUsers
  <2> DEFINE rest == Tail(f[u].waiting)
  <2>1. rest \in Seq(JobsOf(u))
    BY <1>3
  <2> HIDE DEF rest
  <2>2. [f[u] EXCEPT !.waiting = rest] \in UserRecs(u)
    BY <1>3, <2>1 DEF UserRecs
  <2>3. [f EXCEPT ![u] = [f[u] EXCEPT !.waiting = rest]] \in GoodUsers
    BY <2>2, SetUser
  <2> QED BY <2>3 DEF rest
<1>8. b2 \in [Jobs -> JobRecs]
  <2>1. [place |-> "storage", vm |-> v] \in JobRecs
    BY DEF JobRecs
  <2> HIDE DEF JobRecs
  <2> QED BY <2>1
<1>9. t = [queue |-> q, vm |-> m2, job |-> b2, user |-> f2, awaiting |-> a2]
  <2>1. t = [w EXCEPT !.job = b2, !.user = f2, !.vm = m2, !.awaiting = a2]
    BY <1>1, <1>5
  <2> HIDE DEF t, m2, f2, b2, a2
  <2> QED BY <1>1, <2>1
<1>10. CreateFS(w, j, v) = UserSendRequest(t, Storage(j, v))
  BY DEF CreateFS
<1>11. /\ m2 = [w.vm EXCEPT ![v].pending = "storage"] /\ f2 = [w.user EXCEPT ![v[1]].waiting = Tail(@)]
       /\ b2 = [w.job EXCEPT ![j] = [place |-> "storage", vm |-> v]]
       /\ a2 = w.awaiting \cup {v}
  BY <1>1, <1>2
<1>14. a2 \in SUBSET VMs
  OBVIOUS
<1> HIDE DEF t, m2, f2, b2, a2
<1>12. t \in GoodWorlds /\ t.queue = q /\ t.vm = m2 /\ t.job = b2 /\ t.user = f2 /\ t.awaiting = a2
  BY <1>6, <1>7, <1>8, <1>9, <1>14, MakeWorld
<1>13. Storage(j, v) \in Requests
  BY <1>5, RequestsAre
<1> QED BY <1>1, <1>2, <1>4, <1>5, <1>10, <1>11, <1>12, <1>13, SendDoes

\* A request that is sent is counted once more.
LEMMA CountSent ==
  ASSUME NEW q \in Queues, NEW r \in Requests, NEW x
  PROVE  Count(Sent(q, r), x) = Count(q, x) + (IF r = x THEN 1 ELSE 0)
<1>1. q.requests \in Seq(Requests) /\ q.temporal \in Seq(Requests)
  BY QueueParts
<1>2. /\ In(Append(q.requests, r), x) = In(q.requests, x) + (IF r = x THEN 1 ELSE 0)
      /\ In(Append(q.temporal, r), x) = In(q.temporal, x) + (IF r = x THEN 1 ELSE 0)
  BY <1>1, InAppend
<1>3. In(q.requests, x) \in Nat /\ In(q.temporal, x) \in Nat
  BY <1>1, InType
<1> QED BY <1>2, <1>3, SentGood DEF Count

LEMMA CountType ==
  ASSUME NEW q \in Queues, NEW x
  PROVE  Count(q, x) \in Nat
<1>1. q.requests \in Seq(Requests) /\ q.temporal \in Seq(Requests)
  BY QueueParts
<1>2. In(q.requests, x) \in Nat /\ In(q.temporal, x) \in Nat
  BY <1>1, InType
<1> QED BY <1>2 DEF Count

\* The requests differ by what they are for.
LEMMA RequestsDiffer ==
  /\ \A v, x \in VMs : Free(v) = Free(x) => v = x
  /\ \A v \in VMs, j, k \in Jobs, x \in VMs : Storage(j, v) = Storage(k, x) => v = x /\ j = k
  /\ \A v \in VMs, j \in Jobs, x \in VMs : Free(v) # Storage(j, x)
  /\ \A u \in Users, v \in VMs : Free(v) # Abandon(u) /\ Free(v) # Start(u)
  /\ \A u \in Users, v \in VMs, j \in Jobs : Storage(j, v) # Abandon(u) /\ Storage(j, v) # Start(u)
<1>1. ASSUME NEW v \in VMs PROVE Free(v).op = "free" /\ Free(v).vm = v
  BY DEF Free
<1>2. ASSUME NEW v \in VMs, NEW j \in Jobs
      PROVE  Storage(j, v).op = "storage" /\ Storage(j, v).vm = v /\ Storage(j, v).job = j
  BY DEF Storage
<1>3. \A u \in Users : Abandon(u).op = "abandon" /\ Start(u).op = "start"
  BY DEF Abandon, Start
<1>4. \A v, x \in VMs : Free(v) = Free(x) => v = x
  BY <1>1
<1>5. \A v \in VMs, j, k \in Jobs, x \in VMs : Storage(j, v) = Storage(k, x) => v = x /\ j = k
  BY <1>2
<1>6. \A v \in VMs, j \in Jobs, x \in VMs : Free(v) # Storage(j, x)
  BY <1>1, <1>2
<1>7. \A u \in Users, v \in VMs : Free(v) # Abandon(u) /\ Free(v) # Start(u)
  BY <1>1, <1>3
<1>8. \A u \in Users, v \in VMs, j \in Jobs : Storage(j, v) # Abandon(u) /\ Storage(j, v) # Start(u)
  BY <1>2, <1>3
<1> QED BY <1>4, <1>5, <1>6, <1>7, <1>8

-----------------------------------------------------------------------------
(* The invariant of a world: D are the VMs in reqPendingToDelete, C the    *)
(* jobs whose storage nodes have been asked to connect.                    *)

On(w, j) == w.job[j].place \in {"storage", "running"}

\* A user's list has the jobs that wait, each one once.
ListsExact(w) ==
  \A u \in Users :
    /\ \A i, k \in DOMAIN w.user[u].waiting :
         w.user[u].waiting[i] = w.user[u].waiting[k] => i = k
    /\ \A j \in JobsOf(u) : w.job[j].place = "waiting"
                              <=> \E i \in DOMAIN w.user[u].waiting : w.user[u].waiting[i] = j

\* A job that has a VM has it alone, and the VM is linked and will not go.
JobsPlaced(w) ==
  \A j \in Jobs : On(w, j) =>
    /\ w.job[j].vm \in VMsOf(j[1])
    /\ w.vm[w.job[j].vm].host # NoNode
    /\ w.job[j].place = "storage" => /\ w.vm[w.job[j].vm].state = "IDLE"
                                     /\ w.vm[w.job[j].vm].pending = "storage"
    /\ w.job[j].place = "running" => /\ w.vm[w.job[j].vm].state = "RUNNING"
                                     /\ w.vm[w.job[j].vm].pending = "none"
    /\ \A k \in Jobs : On(w, k) /\ w.job[k].vm = w.job[j].vm => k = j

\* A VM that waits for storage is awaited; one that does not exist is idle, and
\* one that exists is linked.
VMsConsistent(w) ==
  \A v \in VMs :
    /\ v \in w.awaiting <=> w.vm[v].pending = "storage"
    /\ w.vm[v].state \in {"none", "OFF", "gone"} => w.vm[v].pending = "none"
    /\ w.vm[v].state \in {"OFF", "IDLE", "RUNNING"} => w.vm[v].host # NoNode

Dying(m, u) == {v \in VMsOf(u) : m[v].pending = "shutdown"}

\* A VM that shuts down has one FREE or is in D, a job that waits for storage has
\* one STORAGE or is in C, and the user counts its VMs that shut down.
Balanced(w, D, C) ==
  /\ \A v \in VMs : Count(w.queue, Free(v)) + (IF v \in D THEN 1 ELSE 0)
                      = (IF w.vm[v].pending = "shutdown" THEN 1 ELSE 0)
  /\ \A j \in Jobs, v \in VMs : Count(w.queue, Storage(j, v)) =
       (IF w.job[j] = [place |-> "storage", vm |-> v] /\ j \notin C THEN 1 ELSE 0)
  /\ \A j \in C : w.job[j].place = "storage"
  /\ \A u \in Users : w.user[u].shutdowns = Cardinality(Dying(w.vm, u))

Sound(w, D, C) == ListsExact(w) /\ JobsPlaced(w) /\ VMsConsistent(w) /\ Balanced(w, D, C)

\* s is a good world in which the VMs are linked as in w, and the queue that a
\* pass walks over is as it was.
Same(w, s) ==
  /\ s \in GoodWorlds
  /\ \A v \in VMs : s.vm[v].host = w.vm[v].host
  /\ s.queue.blocked = w.queue.blocked /\ s.queue.next = w.queue.next
  /\ w.queue.blocked => s.queue.requests = w.queue.requests

LEMMA SameItself ==
  ASSUME NEW w \in GoodWorlds
  PROVE  Same(w, w)
  BY DEF Same

LEMMA SameThen ==
  ASSUME NEW w, NEW s, NEW t, Same(w, s), Same(s, t)
  PROVE  Same(w, t)
  BY DEF Same
LEMMA DyingMore ==
  ASSUME NEW m, NEW t, NEW v \in VMs, m[v].pending # "shutdown", t[v].pending = "shutdown",
         \A x \in VMs : x # v => t[x].pending = m[x].pending
  PROVE  \A u \in Users : Cardinality(Dying(t, u)) =
           Cardinality(Dying(m, u)) + (IF u = v[1] THEN 1 ELSE 0)
<1> TAKE u \in Users
<1>1. VMsOf(u) \subseteq VMs /\ IsFiniteSet(VMsOf(u))
  BY VMsFinite, UserVMs, FS_Subset
<1>2. IsFiniteSet(Dying(m, u)) /\ Cardinality(Dying(m, u)) \in Nat
  BY <1>1, FS_Subset, FS_CardinalityType DEF Dying
<1>3. CASE u = v[1]
  <2>1. v \in VMsOf(u)
    BY <1>3, VMIs
  <2>2. Dying(t, u) = Dying(m, u) \cup {v} /\ v \notin Dying(m, u)
    BY <1>1, <2>1 DEF Dying
  <2> QED BY ZenonT(40), <1>2, <1>3, <2>2, FS_AddElement
<1>4. CASE u # v[1]
  <2>1. \A x \in VMsOf(u) : x[1] = u
    BY DEF VMsOf
  <2>2. Dying(t, u) = Dying(m, u)
    BY <1>1, <1>4, <2>1 DEF Dying
  <2> QED BY <1>2, <1>4, <2>2
<1> QED BY <1>3, <1>4

LEMMA DyingSame ==
  ASSUME NEW m, NEW t, \A x \in VMs : m[x].pending = "shutdown" <=> t[x].pending = "shutdown"
  PROVE  \A u \in Users : Dying(t, u) = Dying(m, u)
  BY UserVMs DEF Dying

\* A job is given to an idle VM.
LEMMA AssignKeeps ==
  ASSUME NEW D, NEW C \in SUBSET Jobs, NEW w \in GoodWorlds, Sound(w, D, C), NEW v \in VMs
  PROVE  Sound(AssignOne(w, v), D, C) /\ Same(w, AssignOne(w, v))
<1>1. CASE ~(IsIdle(w, v) /\ Waiting(w, v[1]) # <<>>)
  BY <1>1, SameItself DEF AssignOne
<1>2. CASE IsIdle(w, v) /\ Waiting(w, v[1]) # <<>>
  <2>1. PICK u \in Users : u = v[1] /\ v \in VMsOf(u)
    BY VMIs
  <2>2. PICK j \in JobsOf(u) : j = Head(Waiting(w, u))
    BY <1>2, <2>1, CreateDoes
  <2>3. PICK s : s = AssignOne(w, v)
    OBVIOUS
  <2>4. /\ j \in Jobs /\ j[1] = u /\ s \in GoodWorlds /\ s.queue = Sent(w.queue, Storage(j, v))
        /\ s.vm = [w.vm EXCEPT ![v].pending = "storage"]
        /\ s.job = [w.job EXCEPT ![j] = [place |-> "storage", vm |-> v]]
        /\ s.user = [w.user EXCEPT ![u].waiting = Tail(@)] /\ s.awaiting = w.awaiting \cup {v}
    BY <1>2, <2>1, <2>2, <2>3, CreateDoes DEF AssignOne
  <2>5. /\ w.queue \in Queues /\ w.vm \in [VMs -> VMRecs] /\ w.job \in [Jobs -> JobRecs]
        /\ w.user \in GoodUsers /\ w.awaiting \subseteq VMs
    BY WorldParts
  <2>6. /\ s.vm[v].pending = "storage" /\ s.vm[v].state = w.vm[v].state /\ s.vm[v].host = w.vm[v].host
        /\ \A x \in VMs : x # v => s.vm[x] = w.vm[x]
    <3>1. w.vm[v] \in VMRecs
      BY <2>5
    <3> QED BY <2>4, <2>5, <3>1 DEF VMRecs
  <2>7. /\ s.job[j].place = "storage" /\ s.job[j].vm = v
        /\ s.job[j] = [place |-> "storage", vm |-> v]
        /\ \A k \in Jobs : k # j => s.job[k] = w.job[k]
    BY <2>4, <2>5
  <2>8. /\ s.user[u].waiting = Tail(w.user[u].waiting)
        /\ s.user[u].shutdowns = w.user[u].shutdowns
        /\ \A x \in Users : x # u => s.user[x] = w.user[x]
    <3>1. w.user[u] \in UserRecs(u) /\ DOMAIN w.user = Users
      BY <2>5, UserParts DEF GoodUsers
    <3> QED BY <2>4, <3>1 DEF UserRecs
  <2>9. /\ w.user[u].waiting \in Seq(JobsOf(u)) /\ w.user[u].waiting # <<>>
        /\ j = Head(w.user[u].waiting)
    BY <1>2, <2>1, <2>2, <2>5, UserParts DEF Waiting
  <2>10. w.vm[v].state = "IDLE" /\ w.vm[v].pending = "none"
    BY <1>2 DEF IsIdle
  <2>11. w.job[j].place = "waiting"
    <3>1. 1 \in DOMAIN w.user[u].waiting /\ w.user[u].waiting[1] = j
      BY <2>9
    <3> QED BY <3>1 DEF Sound, ListsExact
  <2>12. \A k \in Jobs : On(w, k) => w.job[k].vm # v
    BY <2>10 DEF Sound, JobsPlaced, On
  <2>13. ListsExact(s)
    <3> SUFFICES ASSUME NEW x \in Users
                 PROVE  /\ \A i, k \in DOMAIN s.user[x].waiting :
                             s.user[x].waiting[i] = s.user[x].waiting[k] => i = k
                        /\ \A k \in JobsOf(x) : s.job[k].place = "waiting"
                             <=> \E i \in DOMAIN s.user[x].waiting : s.user[x].waiting[i] = k
      BY DEF ListsExact
    <3>1. CASE x = u
      <4>1. PICK l : l = w.user[u].waiting /\ l \in Seq(JobsOf(u)) /\ l # <<>> /\ l[1] = j
        BY <2>9
      <4>2. PICK n \in Nat : n + 1 = Len(l)
        <5>1. PICK m \in Nat : m = Len(l)
          BY <4>1
        <5>2. m # 0
          BY <4>1, <5>1, EmptySeq
        <5>3. m - 1 \in Nat /\ (m - 1) + 1 = m
          BY <5>2
        <5> QED BY <5>1, <5>3
      <4>3. PICK t : t = s.user[x].waiting /\ DOMAIN t = 1 .. n /\ \A i \in 1 .. n : t[i] = l[i + 1]
        <5>1. /\ Tail(l) \in Seq(JobsOf(u)) /\ Len(Tail(l)) = Len(l) - 1
              /\ \A i \in 1 .. Len(Tail(l)) : Tail(l)[i] = l[i + 1]
          BY <4>1, HeadTailProperties
        <5>2. PICK t \in Seq(JobsOf(u)) : t = Tail(l)
          BY <5>1
        <5>3. Len(t) = n /\ DOMAIN t = 1 .. n
          BY <4>2, <5>1, <5>2
        <5> QED BY <2>8, <3>1, <4>1, <5>1, <5>2, <5>3
      <4>4. DOMAIN l = 1 .. n + 1
        BY <4>1, <4>2
      <4>5. /\ \A i, k \in 1 .. n + 1 : l[i] = l[k] => i = k
            /\ \A k \in JobsOf(u) : w.job[k].place = "waiting" <=> \E i \in 1 .. n + 1 : l[i] = k
        BY <4>1, <4>4 DEF Sound, ListsExact
      <4>6. \A i, k \in 1 .. n : t[i] = t[k] => i = k
        BY <4>3, <4>5
      <4>7. ASSUME NEW k \in JobsOf(u)
            PROVE  s.job[k].place = "waiting" <=> \E i \in 1 .. n : t[i] = k
        <5>1. CASE k = j
          <6>1. ASSUME NEW i \in 1 .. n PROVE t[i] # j
            <7>1. i + 1 \in 1 .. n + 1 /\ 1 \in 1 .. n + 1 /\ i + 1 # 1
              OBVIOUS
            <7> QED BY <4>1, <4>3, <4>5, <7>1
          <6> QED BY <2>7, <5>1, <6>1
        <5>2. CASE k # j
          <6>1. s.job[k].place = "waiting" <=> \E i \in 1 .. n + 1 : l[i] = k
            BY <2>7, <4>5, <5>2, JobIs
          <6>2. ASSUME NEW i \in 1 .. n + 1, l[i] = k PROVE \E h \in 1 .. n : t[h] = k
            <7>1. i # 1
              BY <4>1, <5>2, <6>2
            <7>2. i - 1 \in 1 .. n /\ (i - 1) + 1 = i
              BY <7>1
            <7>3. t[i - 1] = k
              BY <4>3, <6>2, <7>2
            <7> QED BY <7>2, <7>3
          <6>3. ASSUME NEW h \in 1 .. n, t[h] = k PROVE \E i \in 1 .. n + 1 : l[i] = k
            <7>1. h + 1 \in 1 .. n + 1 /\ l[h + 1] = k
              BY <4>3, <6>3
            <7> QED BY <7>1
          <6> QED BY <6>1, <6>2, <6>3
        <5> QED BY <5>1, <5>2
      <4> QED BY ZenonT(40), <3>1, <4>3, <4>6, <4>7
    <3>2. CASE x # u
      <4>1. \A k \in JobsOf(x) : s.job[k] = w.job[k]
        BY <2>4, <2>7, <3>2, JobIs
      <4> QED BY <2>8, <3>2, <4>1 DEF Sound, ListsExact
    <3> QED BY <3>1, <3>2
  <2>14. JobsPlaced(s)
    <3> SUFFICES ASSUME NEW k \in Jobs, On(s, k)
                 PROVE  /\ s.job[k].vm \in VMsOf(k[1])
                        /\ s.vm[s.job[k].vm].host # NoNode
                        /\ s.job[k].place = "storage" => /\ s.vm[s.job[k].vm].state = "IDLE"
                                                         /\ s.vm[s.job[k].vm].pending = "storage"
                        /\ s.job[k].place = "running" => /\ s.vm[s.job[k].vm].state = "RUNNING"
                                                         /\ s.vm[s.job[k].vm].pending = "none"
                        /\ \A h \in Jobs : On(s, h) /\ s.job[h].vm = s.job[k].vm => h = k
      BY DEF JobsPlaced
    <3>1. \A h \in Jobs : On(s, h) /\ h # j => On(w, h) /\ s.job[h] = w.job[h] /\ s.job[h].vm # v
      BY <2>7, <2>12 DEF On
    <3>2. CASE k = j
      <4>1. w.vm[v].host # NoNode
        BY <2>10 DEF Sound, VMsConsistent
      <4> QED BY <2>1, <2>4, <2>6, <2>7, <2>10, <3>1, <3>2, <4>1
    <3>3. CASE k # j
      <4>1. /\ On(w, k) /\ s.job[k] = w.job[k] /\ s.job[k].vm # v
        BY <3>1, <3>3
      <4>2. w.job[k].vm \in VMsOf(k[1]) /\ w.job[k].vm \in VMs
        BY <4>1, JobUser, UserVMs DEF Sound, JobsPlaced
      <4>3. s.vm[s.job[k].vm] = w.vm[w.job[k].vm]
        BY <2>6, <4>1, <4>2
      <4>4. \A h \in Jobs : On(s, h) /\ s.job[h].vm = s.job[k].vm => h = k
        BY <2>7, <3>1, <4>1 DEF Sound, JobsPlaced
      <4> QED BY <4>1, <4>2, <4>3, <4>4 DEF Sound, JobsPlaced
    <3> QED BY <3>2, <3>3
  <2>15. VMsConsistent(s)
    <3> SUFFICES ASSUME NEW x \in VMs
                 PROVE  /\ x \in s.awaiting <=> s.vm[x].pending = "storage"
                        /\ s.vm[x].state \in {"none", "OFF", "gone"} => s.vm[x].pending = "none"
                        /\ s.vm[x].state \in {"OFF", "IDLE", "RUNNING"} => s.vm[x].host # NoNode
      BY DEF VMsConsistent
    <3>1. CASE x = v
      BY <2>4, <2>6, <2>10, <3>1 DEF Sound, VMsConsistent
    <3>2. CASE x # v
      BY <2>4, <2>6, <3>2 DEF Sound, VMsConsistent
    <3> QED BY <3>1, <3>2
  <2>16. Balanced(s, D, C)
    <3>1. Storage(j, v) \in Requests
      BY <2>4, RequestsAre
    <3>2. \A x : Count(s.queue, x) = Count(w.queue, x) + (IF Storage(j, v) = x THEN 1 ELSE 0)
      BY <2>4, <2>5, <3>1, CountSent
    <3>3. \A x : Count(w.queue, x) \in Nat
      BY <2>5, CountType
    <3>4. ASSUME NEW x \in VMs
          PROVE  Count(s.queue, Free(x)) + (IF x \in D THEN 1 ELSE 0)
                   = (IF s.vm[x].pending = "shutdown" THEN 1 ELSE 0)
      <4>1. Count(s.queue, Free(x)) = Count(w.queue, Free(x))
        <5>1. Storage(j, v) # Free(x)
          BY <2>4, RequestsDiffer
        <5> QED BY <3>2, <3>3, <5>1
      <4>2. s.vm[x].pending = "shutdown" <=> w.vm[x].pending = "shutdown"
        BY <2>6, <2>10
      <4> QED BY <4>1, <4>2 DEF Sound, Balanced
    <3>5. ASSUME NEW k \in Jobs, NEW x \in VMs
          PROVE  Count(s.queue, Storage(k, x)) =
                   (IF s.job[k] = [place |-> "storage", vm |-> x] /\ k \notin C THEN 1 ELSE 0)
      <4>0. Count(w.queue, Storage(k, x)) =
              (IF w.job[k] = [place |-> "storage", vm |-> x] /\ k \notin C THEN 1 ELSE 0)
        BY DEF Sound, Balanced
      <4>1. CASE k = j /\ x = v
        <5>1. w.job[k] # [place |-> "storage", vm |-> x]
          BY <2>11, <4>1
        <5>2. k \notin C
          BY <2>11, <4>1 DEF Sound, Balanced
        <5> QED BY <2>7, <3>2, <4>0, <4>1, <5>1, <5>2
      <4>2. CASE k = j /\ x # v
        <5>1. w.job[k] # [place |-> "storage", vm |-> x] /\ s.job[k] # [place |-> "storage", vm |-> x]
          BY <2>7, <2>11, <4>2
        <5>2. Storage(j, v) # Storage(k, x)
          BY <2>4, <4>2, RequestsDiffer
        <5> QED BY <3>2, <4>0, <5>1, <5>2
      <4>3. CASE k # j
        <5>1. s.job[k] = w.job[k]
          BY <2>7, <4>3
        <5>2. Storage(j, v) # Storage(k, x)
          BY <2>4, <4>3, RequestsDiffer
        <5> QED BY <3>2, <3>3, <4>0, <5>1, <5>2
      <4> QED BY <4>1, <4>2, <4>3
    <3>6. \A k \in C : s.job[k].place = "storage"
      BY <2>7 DEF Sound, Balanced
    <3>7. \A x \in Users : s.user[x].shutdowns = Cardinality(Dying(s.vm, x))
      <4>1. \A x \in VMs : w.vm[x].pending = "shutdown" <=> s.vm[x].pending = "shutdown"
        BY <2>6, <2>10
      <4>2. \A x \in Users : Dying(s.vm, x) = Dying(w.vm, x)
        BY <4>1, DyingSame
      <4>3. \A x \in Users : s.user[x].shutdowns = w.user[x].shutdowns
        BY <2>8
      <4> QED BY <4>2, <4>3 DEF Sound, Balanced
    <3> QED BY <3>4, <3>5, <3>6, <3>7 DEF Balanced
  <2>17. Same(w, s)
    <3>1. Storage(j, v) \in Requests
      BY <2>4, RequestsAre
    <3>2. /\ s.queue.blocked = w.queue.blocked /\ s.queue.next = w.queue.next
          /\ w.queue.blocked => s.queue.requests = w.queue.requests
      BY <2>4, <2>5, <3>1, SentGood
    <3> QED BY <2>4, <2>6, <3>2 DEF Same
  <2> QED BY <2>3, <2>13, <2>14, <2>15, <2>16, <2>17 DEF Sound
<1> QED BY <1>1, <1>2
\* An idle VM without a process is shut down.
LEMMA FreeKeeps ==
  ASSUME NEW D, NEW C \in SUBSET Jobs, NEW w \in GoodWorlds, Sound(w, D, C), NEW v \in VMs
  PROVE  Sound(FreeOne(w, v), D, C) /\ Same(w, FreeOne(w, v))
<1>1. CASE ~(IsIdle(w, v) /\ Processes(w, v) = {})
  BY <1>1, SameItself DEF FreeOne
<1>2. CASE IsIdle(w, v) /\ Processes(w, v) = {}
  <2>1. PICK u \in Users : u = v[1] /\ v \in VMsOf(u)
    BY VMIs
  <2>2. ON(w, v)
    BY <1>2 DEF IsIdle, ON, Exists
  <2>3. PICK s : s = FreeOne(w, v)
    OBVIOUS
  <2>4. /\ s \in GoodWorlds /\ s.queue = Sent(w.queue, Free(v))
        /\ s.vm = [w.vm EXCEPT ![v].pending = "shutdown"] /\ s.job = w.job
        /\ s.user = [w.user EXCEPT ![u].shutdowns = @ + 1] /\ s.awaiting = w.awaiting
    BY <1>2, <2>1, <2>2, <2>3, ShutdownDoes DEF FreeOne
  <2>5. /\ w.queue \in Queues /\ w.vm \in [VMs -> VMRecs] /\ w.job \in [Jobs -> JobRecs]
        /\ w.user \in GoodUsers /\ w.awaiting \subseteq VMs
    BY WorldParts
  <2>6. /\ s.vm[v].pending = "shutdown" /\ s.vm[v].state = w.vm[v].state
        /\ s.vm[v].host = w.vm[v].host /\ \A x \in VMs : x # v => s.vm[x] = w.vm[x]
    <3>1. w.vm[v] \in VMRecs
      BY <2>5
    <3> QED BY <2>4, <2>5, <3>1 DEF VMRecs
  <2>7. /\ s.user[u].waiting = w.user[u].waiting
        /\ s.user[u].shutdowns = w.user[u].shutdowns + 1
        /\ \A x \in Users : x # u => s.user[x] = w.user[x]
    <3>1. w.user[u] \in UserRecs(u) /\ DOMAIN w.user = Users
      BY <2>5, UserParts DEF GoodUsers
    <3> QED BY <2>4, <3>1 DEF UserRecs
  <2>8. w.vm[v].state = "IDLE" /\ w.vm[v].pending = "none"
    BY <1>2 DEF IsIdle
  <2>9. \A k \in Jobs : On(w, k) => w.job[k].vm # v
    BY <1>2 DEF Processes, On
  <2>10. ListsExact(s)
    <3>1. \A x \in Users : s.user[x].waiting = w.user[x].waiting
      BY <2>7
    <3> QED BY <2>4, <3>1 DEF Sound, ListsExact
  <2>11. JobsPlaced(s)
    <3>1. ASSUME NEW k \in Jobs, On(w, k) PROVE s.vm[w.job[k].vm] = w.vm[w.job[k].vm]
      <4>1. w.job[k].vm \in VMs /\ w.job[k].vm # v
        BY <2>9, <3>1, JobUser, UserVMs DEF Sound, JobsPlaced
      <4> QED BY <2>6, <4>1
    <3>2. \A k \in Jobs : On(s, k) <=> On(w, k)
      BY <2>4 DEF On
    <3>3. \A k \in Jobs : s.job[k] = w.job[k]
      BY <2>4
    <3> HIDE DEF On
    <3>4. JobsPlaced(w)
      BY DEF Sound
    <3> QED BY SMTT(30), <3>1, <3>2, <3>3, <3>4 DEF JobsPlaced
  <2>12. VMsConsistent(s)
    <3> SUFFICES ASSUME NEW x \in VMs
                 PROVE  /\ x \in s.awaiting <=> s.vm[x].pending = "storage"
                        /\ s.vm[x].state \in {"none", "OFF", "gone"} => s.vm[x].pending = "none"
                        /\ s.vm[x].state \in {"OFF", "IDLE", "RUNNING"} => s.vm[x].host # NoNode
      BY DEF VMsConsistent
    <3>1. CASE x = v
      BY <2>4, <2>6, <2>8, <3>1 DEF Sound, VMsConsistent
    <3>2. CASE x # v
      BY <2>4, <2>6, <3>2 DEF Sound, VMsConsistent
    <3> QED BY <3>1, <3>2
  <2>13. Balanced(s, D, C)
    <3>1. Free(v) \in Requests
      BY RequestsAre
    <3>2. \A x : Count(s.queue, x) = Count(w.queue, x) + (IF Free(v) = x THEN 1 ELSE 0)
      BY <2>4, <2>5, <3>1, CountSent
    <3>3. \A x : Count(w.queue, x) \in Nat
      BY <2>5, CountType
    <3>4. ASSUME NEW x \in VMs
          PROVE  Count(s.queue, Free(x)) + (IF x \in D THEN 1 ELSE 0)
                   = (IF s.vm[x].pending = "shutdown" THEN 1 ELSE 0)
      <4>0. Count(w.queue, Free(x)) + (IF x \in D THEN 1 ELSE 0)
              = (IF w.vm[x].pending = "shutdown" THEN 1 ELSE 0)
        BY DEF Sound, Balanced
      <4>1. CASE x = v
        BY <2>6, <2>8, <3>2, <3>3, <4>0, <4>1
      <4>2. CASE x # v
        <5>1. Free(v) # Free(x)
          BY <4>2, RequestsDiffer
        <5> QED BY <2>6, <3>2, <3>3, <4>0, <4>2, <5>1
      <4> QED BY <4>1, <4>2
    <3>5. \A k \in Jobs, x \in VMs : Count(s.queue, Storage(k, x)) =
            (IF s.job[k] = [place |-> "storage", vm |-> x] /\ k \notin C THEN 1 ELSE 0)
      <4> TAKE k \in Jobs, x \in VMs
      <4>1. Count(s.queue, Storage(k, x)) = Count(w.queue, Storage(k, x))
        <5>1. Free(v) # Storage(k, x)
          BY RequestsDiffer
        <5> QED BY <3>2, <3>3, <5>1
      <4> QED BY <2>4, <4>1 DEF Sound, Balanced
    <3>6. \A k \in C : s.job[k].place = "storage"
      BY <2>4 DEF Sound, Balanced
    <3>7. ASSUME NEW x \in Users PROVE s.user[x].shutdowns = Cardinality(Dying(s.vm, x))
      <4>1. Cardinality(Dying(s.vm, x)) = Cardinality(Dying(w.vm, x)) + (IF x = v[1] THEN 1 ELSE 0)
        BY <2>6, <2>8, DyingMore
      <4>2. w.user[x].shutdowns = Cardinality(Dying(w.vm, x)) /\ w.user[x].shutdowns \in Int
        BY <2>5, UserParts DEF Sound, Balanced
      <4> QED BY <2>1, <2>7, <4>1, <4>2
    <3> QED BY <3>4, <3>5, <3>6, <3>7 DEF Balanced
  <2>14. Same(w, s)
    <3>1. Free(v) \in Requests
      BY RequestsAre
    <3>2. /\ s.queue.blocked = w.queue.blocked /\ s.queue.next = w.queue.next
          /\ w.queue.blocked => s.queue.requests = w.queue.requests
      BY <2>4, <2>5, <3>1, SentGood
    <3> QED BY <2>4, <2>6, <3>2 DEF Same
  <2> QED BY <2>3, <2>10, <2>11, <2>12, <2>13, <2>14 DEF Sound
<1> QED BY <1>1, <1>2

-----------------------------------------------------------------------------
(* The loops over the VMs of a user. *)

\* Each loop stays in every set of worlds that its body stays in.
LEMMA AssignLoop ==
  ASSUME NEW u \in Users, NEW S, NEW w \in S,
         \A n \in 1 .. Quantity[u] : \A s \in S : AssignOne(s, <<u, n>>) \in S
  PROVE  AssignJobs(w, u) \in S
<1> DEFINE m == Quantity[u]
           body == [n \in 1 .. m |-> [s \in S |-> AssignOne(s, <<u, n>>)]]
           f == Values(S, w, m, body)
           Fits(g) == g = [n \in 0 .. m |-> IF n = 0 THEN w ELSE AssignOne(g[n - 1], <<u, n>>)]
           h == CHOOSE g : Fits(g)
<1>1. m \in Nat
  BY CloudAssumption
<1>2. body \in [1 .. m -> [S -> S]]
  <2> HIDE DEF m
  <2> QED BY DEF m
<1>3. f \in [0 .. m -> S] /\ f[0] = w /\ \A n \in 1 .. m : f[n] = body[n][f[n - 1]]
  <2> HIDE DEF body, m
  <2> QED BY <1>1, <1>2, Recursion
<1> HIDE DEF f
<1>4. Fits(f)
  <2>1. ASSUME NEW n \in 0 .. m, n # 0 PROVE f[n] = AssignOne(f[n - 1], <<u, n>>)
    <3>1. n \in 1 .. m /\ n - 1 \in 0 .. m
      BY <1>1, <2>1
    <3>2. f[n - 1] \in S
      BY <1>3, <3>1
    <3> QED BY <1>3, <3>1, <3>2
  <2> HIDE DEF m
  <2> QED BY <1>3, <2>1
<1>5. Fits(h)
  <2> HIDE DEF Fits
  <2> QED BY <1>4
<1>6. AssignJobs(w, u) = h[m]
  BY DEF AssignJobs
<1> HIDE DEF h
<1> DEFINE T == {n \in 0 .. m : h[n] \in S}
<1>7. 0 \in T
  <2>1. 0 \in 0 .. m
    BY <1>1
  <2> QED BY <1>5, <2>1
<1>8. ASSUME NEW n \in 0 .. m - 1, n \in T PROVE n + 1 \in T
  <2>1. n + 1 \in 1 .. m /\ n + 1 \in 0 .. m /\ (n + 1) - 1 = n /\ n + 1 # 0
    BY <1>1
  <2>2. h[n + 1] = AssignOne(h[n], <<u, n + 1>>)
    BY <1>5, <2>1
  <2> QED BY <1>8, <2>1, <2>2
<1> HIDE DEF T
<1>9. \A n \in 0 .. m : n \in T
  <2> HIDE DEF m
  <2> QED BY <1>1, <1>7, <1>8, UpTo
<1>10. m \in 0 .. m
  BY <1>1
<1>11. h[m] \in S
  BY <1>9, <1>10 DEF T
<1> QED BY <1>6, <1>11

LEMMA FreeLoop ==
  ASSUME NEW u \in Users, NEW S, NEW w \in S,
         \A n \in 1 .. Quantity[u] : \A s \in S : FreeOne(s, <<u, n>>) \in S
  PROVE  FreeIdleVMs(w, u) \in S
<1> DEFINE m == Quantity[u]
           body == [n \in 1 .. m |-> [s \in S |-> FreeOne(s, <<u, n>>)]]
           f == Values(S, w, m, body)
           Fits(g) == g = [n \in 0 .. m |-> IF n = 0 THEN w ELSE FreeOne(g[n - 1], <<u, n>>)]
           h == CHOOSE g : Fits(g)
<1>1. m \in Nat
  BY CloudAssumption
<1>2. body \in [1 .. m -> [S -> S]]
  <2> HIDE DEF m
  <2> QED BY DEF m
<1>3. f \in [0 .. m -> S] /\ f[0] = w /\ \A n \in 1 .. m : f[n] = body[n][f[n - 1]]
  <2> HIDE DEF body, m
  <2> QED BY <1>1, <1>2, Recursion
<1> HIDE DEF f
<1>4. Fits(f)
  <2>1. ASSUME NEW n \in 0 .. m, n # 0 PROVE f[n] = FreeOne(f[n - 1], <<u, n>>)
    <3>1. n \in 1 .. m /\ n - 1 \in 0 .. m
      BY <1>1, <2>1
    <3>2. f[n - 1] \in S
      BY <1>3, <3>1
    <3> QED BY <1>3, <3>1, <3>2
  <2> HIDE DEF m
  <2> QED BY <1>3, <2>1
<1>5. Fits(h)
  <2> HIDE DEF Fits
  <2> QED BY <1>4
<1>6. FreeIdleVMs(w, u) = h[m]
  BY DEF FreeIdleVMs
<1> HIDE DEF h
<1> DEFINE T == {n \in 0 .. m : h[n] \in S}
<1>7. 0 \in T
  <2>1. 0 \in 0 .. m
    BY <1>1
  <2> QED BY <1>5, <2>1
<1>8. ASSUME NEW n \in 0 .. m - 1, n \in T PROVE n + 1 \in T
  <2>1. n + 1 \in 1 .. m /\ n + 1 \in 0 .. m /\ (n + 1) - 1 = n /\ n + 1 # 0
    BY <1>1
  <2>2. h[n + 1] = FreeOne(h[n], <<u, n + 1>>)
    BY <1>5, <2>1
  <2> QED BY <1>8, <2>1, <2>2
<1> HIDE DEF T
<1>9. \A n \in 0 .. m : n \in T
  <2> HIDE DEF m
  <2> QED BY <1>1, <1>7, <1>8, UpTo
<1>10. m \in 0 .. m
  BY <1>1
<1>11. h[m] \in S
  BY <1>9, <1>10 DEF T
<1> QED BY <1>6, <1>11

LEMMA LinkLoop ==
  ASSUME NEW u \in Users, NEW S, NEW w \in S,
         \A n \in 1 .. Quantity[u] : \A s \in S : LinkOne(s, <<u, n>>) \in S
  PROVE  LinkVMs(w, u) \in S
<1> DEFINE m == Quantity[u]
           body == [n \in 1 .. m |-> [s \in S |-> LinkOne(s, <<u, n>>)]]
           f == Values(S, w, m, body)
           Fits(g) == g = [n \in 0 .. m |-> IF n = 0 THEN w ELSE LinkOne(g[n - 1], <<u, n>>)]
           h == CHOOSE g : Fits(g)
<1>1. m \in Nat
  BY CloudAssumption
<1>2. body \in [1 .. m -> [S -> S]]
  <2> HIDE DEF m
  <2> QED BY DEF m
<1>3. f \in [0 .. m -> S] /\ f[0] = w /\ \A n \in 1 .. m : f[n] = body[n][f[n - 1]]
  <2> HIDE DEF body, m
  <2> QED BY <1>1, <1>2, Recursion
<1> HIDE DEF f
<1>4. Fits(f)
  <2>1. ASSUME NEW n \in 0 .. m, n # 0 PROVE f[n] = LinkOne(f[n - 1], <<u, n>>)
    <3>1. n \in 1 .. m /\ n - 1 \in 0 .. m
      BY <1>1, <2>1
    <3>2. f[n - 1] \in S
      BY <1>3, <3>1
    <3> QED BY <1>3, <3>1, <3>2
  <2> HIDE DEF m
  <2> QED BY <1>3, <2>1
<1>5. Fits(h)
  <2> HIDE DEF Fits
  <2> QED BY <1>4
<1>6. LinkVMs(w, u) = h[m]
  BY DEF LinkVMs
<1> HIDE DEF h
<1> DEFINE T == {n \in 0 .. m : h[n] \in S}
<1>7. 0 \in T
  <2>1. 0 \in 0 .. m
    BY <1>1
  <2> QED BY <1>5, <2>1
<1>8. ASSUME NEW n \in 0 .. m - 1, n \in T PROVE n + 1 \in T
  <2>1. n + 1 \in 1 .. m /\ n + 1 \in 0 .. m /\ (n + 1) - 1 = n /\ n + 1 # 0
    BY <1>1
  <2>2. h[n + 1] = LinkOne(h[n], <<u, n + 1>>)
    BY <1>5, <2>1
  <2> QED BY <1>8, <2>1, <2>2
<1> HIDE DEF T
<1>9. \A n \in 0 .. m : n \in T
  <2> HIDE DEF m
  <2> QED BY <1>1, <1>7, <1>8, UpTo
<1>10. m \in 0 .. m
  BY <1>1
<1>11. h[m] \in S
  BY <1>9, <1>10 DEF T
<1> QED BY <1>6, <1>11
-----------------------------------------------------------------------------
(* The pass of a user over its jobs. *)

LEMMA ListsSame ==
  ASSUME NEW w, NEW s, ListsExact(w), s.job = w.job,
         \A u \in Users : s.user[u].waiting = w.user[u].waiting
  PROVE  ListsExact(s)
  BY DEF ListsExact

\* A step that changes neither VMs nor jobs nor how often they are asked for.
LEMMA Unaffected ==
  ASSUME NEW D, NEW C, NEW w, NEW s, Sound(w, D, C), ListsExact(s),
         s.vm = w.vm, s.job = w.job, s.awaiting = w.awaiting,
         \A u \in Users : s.user[u].shutdowns = w.user[u].shutdowns,
         \A v \in VMs : Count(s.queue, Free(v)) = Count(w.queue, Free(v)),
         \A j \in Jobs, v \in VMs :
           Count(s.queue, Storage(j, v)) = Count(w.queue, Storage(j, v))
  PROVE  Sound(s, D, C)
<1>1. JobsPlaced(s)
  <2>1. \A k \in Jobs : On(s, k) <=> On(w, k)
    BY DEF On
  <2> HIDE DEF On
  <2>2. JobsPlaced(w)
    BY DEF Sound
  <2> QED BY <2>1, <2>2 DEF JobsPlaced
<1>2. VMsConsistent(s)
  BY DEF Sound, VMsConsistent
<1>3. Balanced(s, D, C)
  <2>1. Balanced(w, D, C)
    BY DEF Sound
  <2> QED BY <2>1 DEF Balanced
<1> QED BY <1>1, <1>2, <1>3 DEF Sound

\* Another record for user u.
PutUser(w, u, x) == [w EXCEPT !.user[u] = x]

LEMMA UserDoes ==
  ASSUME NEW w \in GoodWorlds, NEW u \in Users, NEW x \in UserRecs(u), NEW s,
         s = PutUser(w, u, x)
  PROVE  /\ s \in GoodWorlds /\ s.queue = w.queue /\ s.vm = w.vm /\ s.job = w.job
         /\ s.awaiting = w.awaiting /\ s.user[u] = x
         /\ \A y \in Users : y # u => s.user[y] = w.user[y]
<1>1. PICK q \in Queues, m \in [VMs -> VMRecs], b \in [Jobs -> JobRecs], f \in GoodUsers,
           a \in SUBSET VMs :
        /\ w = [queue |-> q, vm |-> m, job |-> b, user |-> f, awaiting |-> a]
        /\ w.queue = q /\ w.vm = m /\ w.job = b /\ w.user = f /\ w.awaiting = a
  BY WorldParts
<1>2. PICK f2 : f2 = [f EXCEPT ![u] = x]
  OBVIOUS
<1>3. f2 \in GoodUsers
  BY <1>2, SetUser
<1>4. DOMAIN f = Users
  BY DEF GoodUsers
<1>5. s = [queue |-> q, vm |-> m, job |-> b, user |-> f2, awaiting |-> a]
  BY <1>1, <1>2 DEF PutUser
<1>6. f2[u] = x /\ \A y \in Users : y # u => f2[y] = f[y]
  BY <1>2, <1>4
<1>7. /\ s \in GoodWorlds /\ s.queue = q /\ s.vm = m /\ s.job = b /\ s.user = f2
      /\ s.awaiting = a
  BY <1>3, <1>5, MakeWorld
<1> QED BY <1>1, <1>6, <1>7

Keeps(w, s, D, C) == Sound(s, D, C) /\ Same(w, s)

LEMMA RotateKeeps ==
  ASSUME NEW D, NEW C \in SUBSET Jobs, NEW w \in GoodWorlds, Sound(w, D, C), NEW u \in Users,
         Waiting(w, u) # <<>>
  PROVE  Keeps(w, Rotate(w, u), D, C)
<1>1. w.user[u] \in UserRecs(u) /\ w.user[u].waiting \in Seq(JobsOf(u)) /\ w.user \in GoodUsers
  BY WorldParts, UserParts
<1>2. PICK l \in Seq(JobsOf(u)) : l = w.user[u].waiting /\ l # <<>>
  BY <1>1 DEF Waiting
<1>3. PICK n \in Nat : n + 1 = Len(l)
  <2>1. PICK m \in Nat : m = Len(l)
    OBVIOUS
  <2>2. m # 0
    BY <1>2, <2>1, EmptySeq
  <2>3. m - 1 \in Nat /\ (m - 1) + 1 = m
    BY <2>2
  <2> QED BY <2>1, <2>3
<1>4. PICK r \in Seq(JobsOf(u)) :
        /\ r = Append(Tail(l), Head(l)) /\ Len(r) = n + 1
        /\ \A i \in 1 .. n : r[i] = l[i + 1]
        /\ r[n + 1] = l[1]
  <2>1. /\ Tail(l) \in Seq(JobsOf(u)) /\ Len(Tail(l)) = Len(l) - 1 /\ Head(l) \in JobsOf(u)
        /\ \A i \in 1 .. Len(Tail(l)) : Tail(l)[i] = l[i + 1]
    BY <1>2, HeadTailProperties
  <2>2. PICK t \in Seq(JobsOf(u)), e \in JobsOf(u) : t = Tail(l) /\ e = Head(l)
    BY <2>1
  <2>3. Len(t) = n /\ e = l[1]
    BY <1>3, <2>1, <2>2
  <2>4. /\ Append(t, e) \in Seq(JobsOf(u)) /\ Len(Append(t, e)) = n + 1
        /\ Append(t, e)[n + 1] = e /\ \A i \in 1 .. n : Append(t, e)[i] = t[i]
    BY <2>3, AppendProperties
  <2> QED BY ZenonT(40), <2>1, <2>2, <2>3, <2>4
<1>5. PICK x : x = [w.user[u] EXCEPT !.waiting = r]
  OBVIOUS
<1>6. x \in UserRecs(u) /\ x.waiting = r /\ x.shutdowns = w.user[u].shutdowns
  BY <1>1, <1>5 DEF UserRecs
<1>7. PICK s : s = Rotate(w, u)
  OBVIOUS
<1>8. s = PutUser(w, u, x)
  BY <1>2, <1>4, <1>5, <1>7 DEF Rotate, PutUser
<1>9. /\ s \in GoodWorlds /\ s.queue = w.queue /\ s.vm = w.vm /\ s.job = w.job
      /\ s.awaiting = w.awaiting /\ s.user[u] = x
      /\ \A y \in Users : y # u => s.user[y] = w.user[y]
  BY <1>6, <1>8, UserDoes
<1>10. ListsExact(s)
  <2> SUFFICES ASSUME NEW y \in Users
               PROVE  /\ \A i, k \in DOMAIN s.user[y].waiting :
                           s.user[y].waiting[i] = s.user[y].waiting[k] => i = k
                      /\ \A k \in JobsOf(y) : s.job[k].place = "waiting"
                           <=> \E i \in DOMAIN s.user[y].waiting : s.user[y].waiting[i] = k
    BY DEF ListsExact
  <2>1. CASE y # u
    BY <1>9, <2>1 DEF Sound, ListsExact
  <2>2. CASE y = u
    <3>1. DOMAIN l = 1 .. n + 1 /\ DOMAIN r = 1 .. n + 1
      BY <1>3, <1>4
    <3>2. /\ \A i, k \in 1 .. n + 1 : l[i] = l[k] => i = k
          /\ \A k \in JobsOf(u) : w.job[k].place = "waiting" <=> \E i \in 1 .. n + 1 : l[i] = k
      BY <1>2, <3>1 DEF Sound, ListsExact
    <3>3. ASSUME NEW i \in 1 .. n + 1
          PROVE  \E h \in 1 .. n + 1 : r[i] = l[h] /\ (IF i = n + 1 THEN h = 1 ELSE h = i + 1)
      <4>1. CASE i = n + 1
        <5>1. 1 \in 1 .. n + 1
          OBVIOUS
        <5> QED BY <1>4, <4>1, <5>1
      <4>2. CASE i # n + 1
        <5>1. i \in 1 .. n /\ i + 1 \in 1 .. n + 1
          BY <4>2
        <5> QED BY <1>4, <4>2, <5>1
      <4> QED BY <4>1, <4>2
    <3>4. \A i, k \in 1 .. n + 1 : r[i] = r[k] => i = k
      <4> SUFFICES ASSUME NEW i \in 1 .. n + 1, NEW k \in 1 .. n + 1, r[i] = r[k] PROVE i = k
        OBVIOUS
      <4>1. PICK h \in 1 .. n + 1 : r[i] = l[h] /\ (IF i = n + 1 THEN h = 1 ELSE h = i + 1)
        BY <3>3
      <4>2. PICK g \in 1 .. n + 1 : r[k] = l[g] /\ (IF k = n + 1 THEN g = 1 ELSE g = k + 1)
        BY <3>3
      <4>3. h = g
        BY <3>2, <4>1, <4>2
      <4> QED BY <4>1, <4>2, <4>3
    <3>5. ASSUME NEW h \in 1 .. n + 1 PROVE \E i \in 1 .. n + 1 : r[i] = l[h]
      <4>1. CASE h = 1
        <5>1. n + 1 \in 1 .. n + 1
          OBVIOUS
        <5> QED BY <1>4, <4>1, <5>1
      <4>2. CASE h # 1
        <5>1. h - 1 \in 1 .. n /\ (h - 1) + 1 = h /\ h - 1 \in 1 .. n + 1
          BY <4>2
        <5> QED BY <1>4, <5>1
      <4> QED BY <4>1, <4>2
    <3>6. \A k \in JobsOf(u) : (\E i \in 1 .. n + 1 : l[i] = k) <=> \E i \in 1 .. n + 1 : r[i] = k
      BY <3>3, <3>5
    <3>7. s.user[y].waiting = r
      BY <1>6, <1>9, <2>2
    <3>8. \A k \in JobsOf(u) : s.job[k].place = "waiting" <=> \E i \in 1 .. n + 1 : r[i] = k
      BY <1>9, <3>2, <3>6
    <3> QED BY <2>2, <3>1, <3>4, <3>7, <3>8
  <2> QED BY <2>1, <2>2
<1>11. \A y \in Users : s.user[y].shutdowns = w.user[y].shutdowns
  BY <1>6, <1>9
<1>12. Sound(s, D, C)
  BY <1>9, <1>10, <1>11, Unaffected
<1>13. Same(w, s)
  BY <1>9 DEF Same
<1> QED BY <1>7, <1>12, <1>13 DEF Keeps

LEMMA ScheduleKeeps ==
  ASSUME NEW D, NEW C \in SUBSET Jobs, NEW w \in GoodWorlds, Sound(w, D, C), NEW u \in Users
  PROVE  Keeps(w, Schedule(w, u), D, C)
<1> DEFINE S(x) == {s \in GoodWorlds : Sound(s, D, C) /\ Same(x, s)}
<1>1. ASSUME NEW x \in GoodWorlds, Sound(x, D, C)
      PROVE  AssignJobs(x, u) \in S(x) /\ FreeIdleVMs(x, u) \in S(x)
  <2> DEFINE T == S(x)
  <2>1. x \in T
    BY <1>1, SameItself
  <2>2. ASSUME NEW n \in 1 .. Quantity[u], NEW s \in T
        PROVE  AssignOne(s, <<u, n>>) \in T /\ FreeOne(s, <<u, n>>) \in T
    <3>1. <<u, n>> \in VMs
      BY UserVMs
    <3>2. s \in GoodWorlds /\ Sound(s, D, C) /\ Same(x, s)
      OBVIOUS
    <3>3. /\ Sound(AssignOne(s, <<u, n>>), D, C) /\ Same(s, AssignOne(s, <<u, n>>))
          /\ Sound(FreeOne(s, <<u, n>>), D, C) /\ Same(s, FreeOne(s, <<u, n>>))
      BY <3>1, <3>2, AssignKeeps, FreeKeeps
    <3>4. Same(x, AssignOne(s, <<u, n>>)) /\ Same(x, FreeOne(s, <<u, n>>))
      BY <3>2, <3>3, SameThen
    <3>5. AssignOne(s, <<u, n>>) \in GoodWorlds /\ FreeOne(s, <<u, n>>) \in GoodWorlds
      BY <3>4 DEF Same
    <3> QED BY <3>3, <3>4, <3>5
  <2> HIDE DEF T
  <2>3. AssignJobs(x, u) \in T
    BY <2>1, <2>2, AssignLoop
  <2>4. FreeIdleVMs(x, u) \in T
    BY <2>1, <2>2, FreeLoop
  <2> QED BY <2>3, <2>4 DEF T
<1>2. PICK s : s = AssignJobs(w, u)
  OBVIOUS
<1>3. s \in GoodWorlds /\ Sound(s, D, C) /\ Same(w, s)
  BY <1>1, <1>2
<1>4. CASE Waiting(s, u) = <<>>
  <2>1. Schedule(w, u) = FreeIdleVMs(s, u)
    BY <1>2, <1>4 DEF Schedule
  <2>2. Sound(FreeIdleVMs(s, u), D, C) /\ Same(s, FreeIdleVMs(s, u))
    BY <1>1, <1>3
  <2> QED BY <1>3, <2>1, <2>2, SameThen DEF Keeps
<1>5. CASE Waiting(s, u) # <<>> /\ \E v \in VMsOf(u) : ON(s, v)
  <2>1. Schedule(w, u) = Rotate(s, u)
    BY <1>2, <1>5 DEF Schedule
  <2>2. Keeps(s, Rotate(s, u), D, C)
    BY <1>3, <1>5, RotateKeeps
  <2> QED BY <1>3, <2>1, <2>2, SameThen DEF Keeps
<1>6. CASE Waiting(s, u) # <<>> /\ ~\E v \in VMsOf(u) : ON(s, v)
  <2>1. Schedule(w, u) = s
    BY <1>2, <1>6 DEF Schedule
  <2> QED BY <1>3, <2>1 DEF Keeps
<1> QED BY <1>4, <1>5, <1>6

LEMMA UnlessFinalizingKeeps ==
  ASSUME NEW D, NEW C \in SUBSET Jobs, NEW w \in GoodWorlds, Sound(w, D, C), NEW u \in Users
  PROVE  Keeps(w, ScheduleUnlessFinalizing(w, u), D, C)
  BY ScheduleKeeps, SameItself DEF ScheduleUnlessFinalizing, Keeps

\* A VM that waits for storage is awaited: no job is ready between two answers.
LEMMA NothingReady ==
  ASSUME NEW D, NEW C, NEW w \in GoodWorlds, Sound(w, D, C), NEW u \in Users
  PROVE  ExecutePendingJobs(w, u) = w
<1>1. PICK q \in Queues, m \in [VMs -> VMRecs], b \in [Jobs -> JobRecs], f \in GoodUsers,
           a \in SUBSET VMs :
        /\ w = [queue |-> q, vm |-> m, job |-> b, user |-> f, awaiting |-> a]
        /\ w.queue = q /\ w.vm = m /\ w.job = b /\ w.user = f /\ w.awaiting = a
  BY WorldParts
<1> DEFINE ready == {j \in JobsOf(u) : w.job[j].place = "storage" /\ w.job[j].vm \notin w.awaiting}
<1>2. ASSUME NEW j \in JobsOf(u), w.job[j].place = "storage" PROVE w.job[j].vm \in w.awaiting
  <2>1. j \in Jobs /\ On(w, j)
    BY <1>2, JobIs DEF On
  <2>2. w.job[j].vm \in VMs /\ w.vm[w.job[j].vm].pending = "storage"
    BY <1>2, <2>1, JobUser, UserVMs DEF Sound, JobsPlaced
  <2> QED BY <2>2 DEF Sound, VMsConsistent
<1>3. ready = {}
  BY <1>2
<1> HIDE DEF ready
<1>4. [j \in Jobs |-> IF j \in ready THEN [b[j] EXCEPT !.place = "running"] ELSE b[j]] = b
  BY <1>3
<1>5. [v \in VMs |-> IF \E j \in ready : w.job[j].vm = v THEN [m[v] EXCEPT !.state = "RUNNING"]
                                                       ELSE m[v]] = m
  BY <1>3
<1>6. ExecutePendingJobs(w, u) = [w EXCEPT !.job = b, !.vm = m]
  BY <1>1, <1>4, <1>5 DEF ExecutePendingJobs, ready
<1> QED BY <1>1, <1>6
-----------------------------------------------------------------------------
(* The answers to the user. *)

\* The parts of a world after a step that gives VM v the record x.
LEMMA VMSet ==
  ASSUME NEW m \in [VMs -> VMRecs], NEW v \in VMs, NEW x \in VMRecs
  PROVE  /\ [m EXCEPT ![v] = x] \in [VMs -> VMRecs] /\ [m EXCEPT ![v] = x][v] = x
         /\ \A y \in VMs : y # v => [m EXCEPT ![v] = x][y] = m[y]
<1> HIDE DEF VMRecs
<1> QED OBVIOUS

LEMMA VMMade ==
  \A h \in Nodes \cup {NoNode}, s \in {"none", "OFF", "IDLE", "RUNNING", "gone"},
    p \in {"none", "storage", "shutdown"} : [state |-> s, pending |-> p, host |-> h] \in VMRecs
  BY DEF VMRecs

LEMMA RecIs ==
  ASSUME NEW x \in VMRecs, NEW s, NEW p, NEW h, x.state = s, x.pending = p, x.host = h
  PROVE  x = [state |-> s, pending |-> p, host |-> h]
  BY DEF VMRecs

LEMMA RecIdle ==
  ASSUME NEW x \in VMRecs, NEW y, y = [x EXCEPT !.state = "IDLE"]
  PROVE  y \in VMRecs /\ y.state = "IDLE" /\ y.pending = x.pending /\ y.host = x.host
  BY DEF VMRecs

LEMMA RecNothingPending ==
  ASSUME NEW x \in VMRecs, NEW y, y = [x EXCEPT !.pending = "none"]
  PROVE  y \in VMRecs /\ y.pending = "none" /\ y.state = x.state /\ y.host = x.host
  BY DEF VMRecs

LEMMA RecPlace ==
  ASSUME NEW x \in JobRecs, NEW p \in {"running", "finished"}, NEW y, y = [x EXCEPT !.place = p]
  PROVE  y \in JobRecs /\ y = [place |-> p, vm |-> x.vm]
  BY DEF JobRecs

\* The last connection of a job: its VM is idle, takes it and runs it.
Attended(w, u, v) == ExecutePendingJobs([w EXCEPT !.awaiting = @ \ {v}, !.vm[v].state = "IDLE",
                                                  !.vm[v].pending = "none"], u)

LEMMA AttendedDoes ==
  ASSUME NEW D, NEW C, NEW w \in GoodWorlds, Sound(w, D, C), NEW j \in Jobs, NEW v,
         w.job[j].place = "storage", w.job[j].vm = v, NEW e, e = Attended(w, j[1], v)
  PROVE  /\ v \in VMs /\ e \in GoodWorlds /\ e.queue = w.queue /\ e.user = w.user
         /\ e.awaiting = w.awaiting \ {v}
         /\ e.job = [w.job EXCEPT ![j] = [place |-> "running", vm |-> v]]
         /\ e.vm = [w.vm EXCEPT ![v] = [state |-> "RUNNING", pending |-> "none",
                                        host |-> w.vm[v].host]]
<1>1. PICK q \in Queues, m \in [VMs -> VMRecs], b \in [Jobs -> JobRecs], f \in GoodUsers,
           a \in SUBSET VMs :
        /\ w = [queue |-> q, vm |-> m, job |-> b, user |-> f, awaiting |-> a]
        /\ w.queue = q /\ w.vm = m /\ w.job = b /\ w.user = f /\ w.awaiting = a
  BY WorldParts
<1>2. PICK u \in Users : u = j[1] /\ j \in JobsOf(u)
  BY JobUser
<1>3. On(w, j) /\ w.job[j].vm = v /\ w.job[j].place = "storage"
  BY DEF On
<1>4. v \in VMs
  BY <1>2, <1>3, UserVMs DEF Sound, JobsPlaced
<1>5. PICK h \in Nodes \cup {NoNode} : h = m[v].host /\ m[v] \in VMRecs
  BY <1>4, VMParts
<1>6. PICK m1 \in [VMs -> VMRecs] :
        m1 = [m EXCEPT ![v] = [state |-> "IDLE", pending |-> "none", host |-> h]]
  BY <1>4, <1>5, VMMade, VMSet
<1>7. PICK m2 \in [VMs -> VMRecs] :
        m2 = [m EXCEPT ![v] = [state |-> "RUNNING", pending |-> "none", host |-> h]]
  BY <1>4, <1>5, VMMade, VMSet
<1>8. PICK a1 \in SUBSET VMs : a1 = a \ {v}
  OBVIOUS
<1>9. PICK t : t = [w EXCEPT !.awaiting = @ \ {v}, !.vm[v].state = "IDLE", !.vm[v].pending = "none"]
  OBVIOUS
<1>10. t = [queue |-> q, vm |-> m1, job |-> b, user |-> f, awaiting |-> a1]
  <2>1. [[m EXCEPT ![v].state = "IDLE"] EXCEPT ![v].pending = "none"] = m1
    <3>1. PICK x \in VMRecs : x = [m[v] EXCEPT !.state = "IDLE"] /\ x.state = "IDLE" /\ x.host = h
      BY <1>5, RecIdle
    <3>2. PICK y : y = [x EXCEPT !.pending = "none"]
      OBVIOUS
    <3>3. y \in VMRecs /\ y.pending = "none" /\ y.state = x.state /\ y.host = x.host
      BY <3>2, RecNothingPending
    <3>4. y = [state |-> "IDLE", pending |-> "none", host |-> h]
      BY <3>1, <3>3, RecIs
    <3> HIDE DEF VMRecs
    <3> QED BY <1>4, <1>6, <3>1, <3>2, <3>4
  <2>2. PICK m0 : m0 = [m EXCEPT ![v].state = "IDLE"] /\ m1 = [m0 EXCEPT ![v].pending = "none"]
    BY <2>1
  <2>3. t = [[[w EXCEPT !.awaiting = a1] EXCEPT !.vm = m0] EXCEPT !.vm = m1]
    BY <1>1, <1>8, <1>9, <2>2
  <2> QED BY <1>1, <2>3
<1>11. t.job = b /\ t.vm = m1 /\ t.awaiting = a1 /\ t.queue = q /\ t.user = f
  BY <1>10
<1> DEFINE ready == {k \in JobsOf(u) : t.job[k].place = "storage" /\ t.job[k].vm \notin t.awaiting}
<1>12. ready = {j}
  <2>1. j \in ready
    BY <1>1, <1>2, <1>3, <1>8, <1>11
  <2>2. ASSUME NEW k \in ready PROVE k = j
    <3>1. k \in Jobs /\ k \in JobsOf(u) /\ b[k].place = "storage" /\ b[k].vm \notin a \ {v}
      BY <1>8, <1>11, JobIs
    <3>2. On(w, k)
      BY <1>1, <3>1 DEF On
    <3>3. b[k].vm \in VMs /\ m[b[k].vm].pending = "storage"
      BY <1>1, <3>1, <3>2, JobUser, UserVMs DEF Sound, JobsPlaced
    <3>4. b[k].vm \in a
      BY <1>1, <3>3 DEF Sound, VMsConsistent
    <3>5. b[k].vm = v
      BY <3>1, <3>4
    <3> QED BY <1>1, <1>3, <3>1, <3>2, <3>5 DEF Sound, JobsPlaced
  <2> HIDE DEF ready
  <2> QED BY <2>1, <2>2
<1> HIDE DEF ready
<1>13. PICK b2 : b2 = [b EXCEPT ![j] = [place |-> "running", vm |-> v]]
  OBVIOUS
<1>14. b2 \in [Jobs -> JobRecs]
  <2>1. [place |-> "running", vm |-> v] \in JobRecs
    BY <1>4 DEF JobRecs
  <2> HIDE DEF JobRecs
  <2> QED BY <1>13, <2>1
<1>15. [k \in Jobs |-> IF k \in ready THEN [t.job[k] EXCEPT !.place = "running"]
                                        ELSE t.job[k]] = b2
  <2>1. [b[j] EXCEPT !.place = "running"] = [place |-> "running", vm |-> v]
    <3>1. b[j] \in JobRecs /\ b[j].vm = v
      BY <1>1
    <3> QED BY <3>1, RecPlace
  <2> HIDE DEF JobRecs
  <2> QED BY <1>11, <1>12, <1>13, <2>1
<1>16. [x \in VMs |-> IF \E k \in ready : t.job[k].vm = x THEN [t.vm[x] EXCEPT !.state = "RUNNING"]
                                                          ELSE t.vm[x]] = m2
  <2>1. \A x \in VMs : (\E k \in ready : t.job[k].vm = x) <=> x = v
    BY <1>1, <1>3, <1>11, <1>12
  <2>2. /\ m1[v] = [state |-> "IDLE", pending |-> "none", host |-> h]
        /\ m2[v] = [state |-> "RUNNING", pending |-> "none", host |-> h]
        /\ \A x \in VMs : x # v => m1[x] = m[x] /\ m2[x] = m[x]
    <3> HIDE DEF VMRecs
    <3> QED BY <1>4, <1>6, <1>7
  <2>3. [m1[v] EXCEPT !.state = "RUNNING"] = m2[v]
    BY <2>2
  <2> HIDE DEF VMRecs
  <2> QED BY <1>11, <2>1, <2>2, <2>3
<1>17. Attended(w, u, v) = [t EXCEPT !.job = b2, !.vm = m2]
  <2>1. Attended(w, u, v) = ExecutePendingJobs(t, u)
    BY <1>9 DEF Attended
  <2>2. ExecutePendingJobs(t, u) = [t EXCEPT !.job = b2, !.vm = m2]
    BY <1>15, <1>16 DEF ExecutePendingJobs, ready
  <2> QED BY <2>1, <2>2
<1>18. Attended(w, u, v) = [queue |-> q, vm |-> m2, job |-> b2, user |-> f, awaiting |-> a1]
  BY <1>10, <1>17
<1>19. e = Attended(w, u, v)
  BY <1>2
<1>20. /\ e \in GoodWorlds /\ e.queue = q /\ e.vm = m2 /\ e.job = b2 /\ e.user = f
       /\ e.awaiting = a1
  BY <1>14, <1>18, <1>19, MakeWorld
<1> QED BY <1>1, <1>2, <1>4, <1>5, <1>7, <1>8, <1>13, <1>19, <1>20

LEMMA AttendedSound ==
  ASSUME NEW D, NEW C \in SUBSET Jobs, NEW w \in GoodWorlds, Sound(w, D, C), NEW j \in C, NEW v,
         v = w.job[j].vm, NEW e, e = Attended(w, j[1], v)
  PROVE  e \in GoodWorlds /\ Sound(e, D, C \ {j}) /\ Same(w, e)
<1>1. e = Attended(w, j[1], v)
  OBVIOUS
<1>2. w.job \in [Jobs -> JobRecs] /\ w.vm \in [VMs -> VMRecs] /\ w.user \in GoodUsers
  BY WorldParts
<1>3. w.job[j] = [place |-> "storage", vm |-> v]
  <2>1. w.job[j].place = "storage"
    BY DEF Sound, Balanced
  <2>2. w.job[j] \in JobRecs
    BY <1>2
  <2> QED BY <2>1, <2>2 DEF JobRecs
<1>4. /\ v \in VMs /\ e \in GoodWorlds /\ e.queue = w.queue /\ e.user = w.user
      /\ e.awaiting = w.awaiting \ {v}
      /\ e.job = [w.job EXCEPT ![j] = [place |-> "running", vm |-> v]]
      /\ e.vm = [w.vm EXCEPT ![v] = [state |-> "RUNNING", pending |-> "none",
                                     host |-> w.vm[v].host]]
  <2>1. j \in Jobs /\ w.job[j].place = "storage" /\ w.job[j].vm = v
    BY <1>3
  <2> QED BY <1>1, <2>1, AttendedDoes
<1>5. /\ e.job[j].place = "running" /\ e.job[j].vm = v
      /\ \A k \in Jobs : k # j => e.job[k] = w.job[k]
  BY <1>2, <1>4
<1>6. /\ e.vm[v].state = "RUNNING" /\ e.vm[v].pending = "none" /\ e.vm[v].host = w.vm[v].host
      /\ \A x \in VMs : x # v => e.vm[x] = w.vm[x]
  <2> HIDE DEF VMRecs
  <2> QED BY <1>2, <1>4
<1>7. On(w, j) /\ w.job[j].vm = v /\ w.job[j].place = "storage" /\ j \in Jobs
  BY <1>3 DEF On
<1>8. w.vm[v].state = "IDLE" /\ w.vm[v].pending = "storage" /\ w.vm[v].host # NoNode
  BY <1>7 DEF Sound, JobsPlaced
<1>9. ListsExact(e)
  BY <1>4, <1>5, <1>7, JobIs DEF Sound, ListsExact
<1>10. \A k \in Jobs : On(e, k) <=> On(w, k)
  BY <1>5, <1>7 DEF On
<1>11. JobsPlaced(e)
  <2> SUFFICES ASSUME NEW k \in Jobs, On(e, k)
               PROVE  /\ e.job[k].vm \in VMsOf(k[1])
                      /\ e.vm[e.job[k].vm].host # NoNode
                      /\ e.job[k].place = "storage" => /\ e.vm[e.job[k].vm].state = "IDLE"
                                                       /\ e.vm[e.job[k].vm].pending = "storage"
                      /\ e.job[k].place = "running" => /\ e.vm[e.job[k].vm].state = "RUNNING"
                                                       /\ e.vm[e.job[k].vm].pending = "none"
                      /\ \A h \in Jobs : On(e, h) /\ e.job[h].vm = e.job[k].vm => h = k
    BY DEF JobsPlaced
  <2> HIDE DEF On
  <2>1. \A h \in Jobs : e.job[h].vm = w.job[h].vm
    BY <1>5, <1>7
  <2>2. On(w, k) /\ w.job[k].vm \in VMsOf(k[1]) /\ w.job[k].vm \in VMs
    BY <1>10, JobUser, UserVMs DEF Sound, JobsPlaced
  <2>3. \A h \in Jobs : On(e, h) /\ e.job[h].vm = e.job[k].vm => h = k
    BY <1>10, <2>1, <2>2 DEF Sound, JobsPlaced
  <2>4. CASE k = j
    BY <1>5, <1>6, <1>8, <2>2, <2>3, <2>4, <1>7
  <2>5. CASE k # j
    <3>1. w.job[k].vm # v
      BY <1>7, <2>2, <2>5 DEF Sound, JobsPlaced
    <3>2. e.vm[w.job[k].vm] = w.vm[w.job[k].vm] /\ e.job[k] = w.job[k]
      BY <1>5, <1>6, <2>2, <2>5, <3>1
    <3>3. /\ w.vm[w.job[k].vm].host # NoNode
          /\ w.job[k].place = "storage" => /\ w.vm[w.job[k].vm].state = "IDLE"
                                           /\ w.vm[w.job[k].vm].pending = "storage"
          /\ w.job[k].place = "running" => /\ w.vm[w.job[k].vm].state = "RUNNING"
                                           /\ w.vm[w.job[k].vm].pending = "none"
      BY <2>2 DEF Sound, JobsPlaced
    <3> QED BY <2>2, <2>3, <3>2, <3>3
  <2> QED BY <2>4, <2>5
<1>12. VMsConsistent(e)
  <2> SUFFICES ASSUME NEW x \in VMs
               PROVE  /\ x \in e.awaiting <=> e.vm[x].pending = "storage"
                      /\ e.vm[x].state \in {"none", "OFF", "gone"} => e.vm[x].pending = "none"
                      /\ e.vm[x].state \in {"OFF", "IDLE", "RUNNING"} => e.vm[x].host # NoNode
    BY DEF VMsConsistent
  <2>1. CASE x = v
    BY <1>4, <1>6, <1>8, <2>1
  <2>2. CASE x # v
    BY <1>4, <1>6, <2>2 DEF Sound, VMsConsistent
  <2> QED BY <2>1, <2>2
<1>13. Balanced(e, D, C \ {j})
  <2>0. Balanced(w, D, C)
    BY DEF Sound
  <2>1. \A x \in VMs : w.vm[x].pending = "shutdown" <=> e.vm[x].pending = "shutdown"
    BY <1>6, <1>8
  <2>2. \A x \in VMs : Count(e.queue, Free(x)) + (IF x \in D THEN 1 ELSE 0)
                         = (IF e.vm[x].pending = "shutdown" THEN 1 ELSE 0)
    BY <1>4, <2>0, <2>1 DEF Balanced
  <2>3. ASSUME NEW k \in Jobs, NEW x \in VMs
        PROVE  Count(e.queue, Storage(k, x)) =
                 (IF e.job[k] = [place |-> "storage", vm |-> x] /\ k \notin C \ {j} THEN 1 ELSE 0)
    <3>1. Count(w.queue, Storage(k, x)) =
            (IF w.job[k] = [place |-> "storage", vm |-> x] /\ k \notin C THEN 1 ELSE 0)
      BY <2>0 DEF Balanced
    <3>2. CASE k = j
      <4>1. e.job[k] # [place |-> "storage", vm |-> x]
        BY <1>5, <3>2
      <4> QED BY <1>4, <3>1, <3>2, <4>1
    <3>3. CASE k # j
      BY <1>4, <1>5, <3>1, <3>3
    <3> QED BY <3>2, <3>3
  <2>4. \A k \in C \ {j} : e.job[k].place = "storage"
    BY <1>5, <2>0 DEF Balanced
  <2>5. \A x \in Users : e.user[x].shutdowns = Cardinality(Dying(e.vm, x))
    <3>1. \A x \in Users : Dying(e.vm, x) = Dying(w.vm, x)
      BY <2>1, DyingSame
    <3> QED BY <1>4, <2>0, <3>1 DEF Balanced
  <2> QED BY <2>2, <2>3, <2>4, <2>5 DEF Balanced
<1>14. Sound(e, D, C \ {j})
  BY <1>9, <1>11, <1>12, <1>13 DEF Sound
<1>15. Same(w, e)
  BY <1>4, <1>6 DEF Same
<1> QED BY <1>4, <1>14, <1>15

LEMMA StorageAttendedKeeps ==
  ASSUME NEW D, NEW C \in SUBSET Jobs, NEW w \in GoodWorlds, Sound(w, D, C), NEW j \in C, NEW v,
         v = w.job[j].vm
  PROVE  Keeps(w, StorageAttended(w, j[1], v), D, C \ {j})
<1>1. PICK e : e = Attended(w, j[1], v)
  OBVIOUS
<1>2. e \in GoodWorlds /\ Sound(e, D, C \ {j}) /\ Same(w, e)
  BY <1>1, AttendedSound
<1>3. StorageAttended(w, j[1], v) = ScheduleUnlessFinalizing(e, j[1])
  BY <1>1 DEF StorageAttended, Attended
<1>4. C \ {j} \in SUBSET Jobs /\ j[1] \in Users
  BY JobUser
<1>5. Keeps(e, ScheduleUnlessFinalizing(e, j[1]), D, C \ {j})
  BY <1>2, <1>4, UnlessFinalizingKeeps
<1> QED BY <1>2, <1>3, <1>5, SameThen DEF Keeps
\* What NotifyUserJobHasFinished leaves: the job is finished and its VM idle,
\* either shutting down, with one FREE sent and one shutdown counted, or not.
LEMMA FinishedSound ==
  ASSUME NEW D, NEW C \in SUBSET Jobs, NEW w \in GoodWorlds, Sound(w, D, C),
         NEW j \in Jobs, w.job[j].place = "running", NEW v \in VMs, v = w.job[j].vm,
         NEW s \in GoodWorlds, s.awaiting = w.awaiting,
         s.job[j].place = "finished", \A k \in Jobs : k # j => s.job[k] = w.job[k],
         s.vm[v].state = "IDLE", s.vm[v].host = w.vm[v].host,
         \A x \in VMs : x # v => s.vm[x] = w.vm[x],
         \A u \in Users : s.user[u].waiting = w.user[u].waiting,
         NEW d \in {0, 1}, s.vm[v].pending = IF d = 1 THEN "shutdown" ELSE "none",
         s.queue = IF d = 1 THEN Sent(w.queue, Free(v)) ELSE w.queue,
         \A u \in Users : s.user[u].shutdowns =
           w.user[u].shutdowns + (IF d = 1 /\ u = v[1] THEN 1 ELSE 0)
  PROVE  Keeps(w, s, D, C)
<1>1. w.queue \in Queues /\ w.user \in GoodUsers
  BY WorldParts
<1>2. On(w, j)
  BY DEF On
<1>3. w.vm[v].state = "RUNNING" /\ w.vm[v].pending = "none" /\ w.vm[v].host # NoNode
  BY <1>2 DEF Sound, JobsPlaced
<1>4. \A k \in Jobs : On(w, k) /\ k # j => w.job[k].vm # v
  BY <1>2 DEF Sound, JobsPlaced
<1>5. ListsExact(s)
  <2>1. \A u \in Users : \A k \in JobsOf(u) : s.job[k].place = "waiting" <=> w.job[k].place = "waiting"
    BY JobIs
  <2> QED BY SMTT(30), <2>1 DEF Sound, ListsExact
<1>6. JobsPlaced(s)
  <2>1. ASSUME NEW k \in Jobs, On(s, k)
        PROVE  /\ k # j /\ On(w, k) /\ s.job[k] = w.job[k] /\ w.job[k].vm \in VMsOf(k[1])
               /\ s.vm[w.job[k].vm] = w.vm[w.job[k].vm]
    <3>1. k # j /\ s.job[k] = w.job[k] /\ On(w, k)
      BY <2>1 DEF On
    <3>2. w.job[k].vm \in VMsOf(k[1]) /\ w.job[k].vm \in VMs /\ w.job[k].vm # v
      BY <1>4, <3>1, JobUser, UserVMs DEF Sound, JobsPlaced
    <3> QED BY <3>1, <3>2
  <2>2. JobsPlaced(w)
    BY DEF Sound
  <2> SUFFICES ASSUME NEW k \in Jobs, On(s, k)
               PROVE  /\ s.job[k].vm \in VMsOf(k[1])
                      /\ s.vm[s.job[k].vm].host # NoNode
                      /\ s.job[k].place = "storage" => /\ s.vm[s.job[k].vm].state = "IDLE"
                                                       /\ s.vm[s.job[k].vm].pending = "storage"
                      /\ s.job[k].place = "running" => /\ s.vm[s.job[k].vm].state = "RUNNING"
                                                       /\ s.vm[s.job[k].vm].pending = "none"
                      /\ \A h \in Jobs : On(s, h) /\ s.job[h].vm = s.job[k].vm => h = k
    BY DEF JobsPlaced
  <2> HIDE DEF On
  <2>3. \A h \in Jobs : On(s, h) /\ s.job[h].vm = s.job[k].vm => h = k
    BY ZenonT(40), <2>1, <2>2 DEF JobsPlaced
  <2>4. /\ s.job[k] = w.job[k] /\ w.job[k].vm \in VMsOf(k[1]) /\ On(w, k)
        /\ s.vm[w.job[k].vm] = w.vm[w.job[k].vm]
    BY <2>1
  <2>5. /\ w.vm[w.job[k].vm].host # NoNode
        /\ w.job[k].place = "storage" => /\ w.vm[w.job[k].vm].state = "IDLE"
                                         /\ w.vm[w.job[k].vm].pending = "storage"
        /\ w.job[k].place = "running" => /\ w.vm[w.job[k].vm].state = "RUNNING"
                                         /\ w.vm[w.job[k].vm].pending = "none"
    BY <2>2, <2>4 DEF JobsPlaced
  <2> QED BY <2>3, <2>4, <2>5
<1>7. VMsConsistent(s)
  <2> SUFFICES ASSUME NEW x \in VMs
               PROVE  /\ x \in s.awaiting <=> s.vm[x].pending = "storage"
                      /\ s.vm[x].state \in {"none", "OFF", "gone"} => s.vm[x].pending = "none"
                      /\ s.vm[x].state \in {"OFF", "IDLE", "RUNNING"} => s.vm[x].host # NoNode
    BY DEF VMsConsistent
  <2>1. CASE x = v
    BY <1>3, <2>1 DEF Sound, VMsConsistent
  <2>2. CASE x # v
    BY <2>2 DEF Sound, VMsConsistent
  <2> QED BY <2>1, <2>2
<1>8. Free(v) \in Requests
  BY RequestsAre
<1>9. \A x : Count(s.queue, x) = Count(w.queue, x) + (IF d = 1 /\ Free(v) = x THEN 1 ELSE 0)
  <2>1. \A x : Count(w.queue, x) \in Nat
    BY <1>1, CountType
  <2>2. \A x : Count(Sent(w.queue, Free(v)), x) = Count(w.queue, x) + (IF Free(v) = x THEN 1 ELSE 0)
    BY <1>1, <1>8, CountSent
  <2>3. CASE d = 1
    BY <2>2, <2>3
  <2>4. CASE d = 0
    BY <2>1, <2>4
  <2> QED BY <2>3, <2>4
<1>10. Balanced(s, D, C)
  <2>0. Balanced(w, D, C)
    BY DEF Sound
  <2>1. ASSUME NEW x \in VMs
        PROVE  Count(s.queue, Free(x)) + (IF x \in D THEN 1 ELSE 0)
                 = (IF s.vm[x].pending = "shutdown" THEN 1 ELSE 0)
    <3>1. Count(w.queue, Free(x)) + (IF x \in D THEN 1 ELSE 0)
            = (IF w.vm[x].pending = "shutdown" THEN 1 ELSE 0) /\ Count(w.queue, Free(x)) \in Nat
      BY <1>1, <2>0, CountType DEF Balanced
    <3>2. CASE x = v
      BY SMTT(30), <1>3, <1>9, <3>1, <3>2
    <3>3. CASE x # v
      <4>1. Free(v) # Free(x)
        BY <3>3, RequestsDiffer
      <4> QED BY <1>9, <3>1, <3>3, <4>1
    <3> QED BY <3>2, <3>3
  <2>2. ASSUME NEW k \in Jobs, NEW x \in VMs
        PROVE  Count(s.queue, Storage(k, x)) =
                 (IF s.job[k] = [place |-> "storage", vm |-> x] /\ k \notin C THEN 1 ELSE 0)
    <3>1. Count(s.queue, Storage(k, x)) = Count(w.queue, Storage(k, x))
      <4>1. Free(v) # Storage(k, x) /\ Count(w.queue, Storage(k, x)) \in Nat
        BY <1>1, RequestsDiffer, CountType
      <4> QED BY <1>9, <4>1
    <3>2. s.job[k] = [place |-> "storage", vm |-> x] <=> w.job[k] = [place |-> "storage", vm |-> x]
      <4>1. CASE k = j
        <5>1. s.job[k] # [place |-> "storage", vm |-> x] /\ w.job[k] # [place |-> "storage", vm |-> x]
          BY <4>1
        <5> QED BY <5>1
      <4>2. CASE k # j
        BY <4>2
      <4> QED BY <4>1, <4>2
    <3> QED BY <2>0, <3>1, <3>2 DEF Balanced
  <2>3. \A k \in C : s.job[k].place = "storage"
    BY SMTT(30), <2>0 DEF Balanced
  <2>4. ASSUME NEW u \in Users PROVE s.user[u].shutdowns = Cardinality(Dying(s.vm, u))
    <3>0. w.user[u].shutdowns = Cardinality(Dying(w.vm, u)) /\ w.user[u].shutdowns \in Int
      BY <1>1, <2>0, UserParts DEF Balanced
    <3>1. CASE d = 1
      <4>1. Cardinality(Dying(s.vm, u)) = Cardinality(Dying(w.vm, u)) + (IF u = v[1] THEN 1 ELSE 0)
        <5>1. w.vm[v].pending # "shutdown" /\ s.vm[v].pending = "shutdown"
              /\ \A x \in VMs : x # v => s.vm[x].pending = w.vm[x].pending
          BY <1>3, <3>1
        <5> QED BY SMTT(30), <5>1, DyingMore
      <4> QED BY <3>0, <3>1, <4>1
    <3>2. CASE d = 0
      <4>1. \A x \in VMs : w.vm[x].pending = "shutdown" <=> s.vm[x].pending = "shutdown"
        BY <1>3, <3>2
      <4>2. PICK m, t : m = w.vm /\ t = s.vm
        OBVIOUS
      <4>3. \A x \in VMs : m[x].pending = "shutdown" <=> t[x].pending = "shutdown"
        BY <4>1, <4>2
      <4>4. Dying(t, u) = Dying(m, u)
        BY <4>3, UserVMs DEF Dying
      <4> QED BY <3>0, <3>2, <4>2, <4>4
    <3> QED BY <3>1, <3>2
  <2> QED BY <2>1, <2>2, <2>3, <2>4 DEF Balanced
<1>11. Same(w, s)
  <2>1. /\ s.queue.blocked = w.queue.blocked /\ s.queue.next = w.queue.next
        /\ w.queue.blocked => s.queue.requests = w.queue.requests
    BY <1>1, <1>8, SentGood
  <2> QED BY <2>1 DEF Same
<1> QED BY <1>5, <1>6, <1>7, <1>10, <1>11 DEF Keeps, Sound

\* The job gets the record b, the VM the record x.
Rest(w, j, b, v, x) == [w EXCEPT !.job[j] = b, !.vm[v] = x]

LEMMA RestDoes ==
  ASSUME NEW w \in GoodWorlds, NEW j \in Jobs, NEW b \in JobRecs, NEW v \in VMs, NEW x \in VMRecs,
         NEW s, s = Rest(w, j, b, v, x)
  PROVE  /\ s \in GoodWorlds /\ s.queue = w.queue /\ s.user = w.user /\ s.awaiting = w.awaiting
         /\ s.job[j] = b /\ \A k \in Jobs : k # j => s.job[k] = w.job[k]
         /\ s.vm[v] = x /\ \A y \in VMs : y # v => s.vm[y] = w.vm[y]
<1>1. PICK q \in Queues, m \in [VMs -> VMRecs], g \in [Jobs -> JobRecs], f \in GoodUsers,
           a \in SUBSET VMs :
        /\ w = [queue |-> q, vm |-> m, job |-> g, user |-> f, awaiting |-> a]
        /\ w.queue = q /\ w.vm = m /\ w.job = g /\ w.user = f /\ w.awaiting = a
  BY WorldParts
<1>2. PICK m2, g2 : m2 = [m EXCEPT ![v] = x] /\ g2 = [g EXCEPT ![j] = b]
  OBVIOUS
<1>3. /\ m2 \in [VMs -> VMRecs] /\ m2[v] = x /\ \A y \in VMs : y # v => m2[y] = m[y]
      /\ g2 \in [Jobs -> JobRecs] /\ g2[j] = b /\ \A k \in Jobs : k # j => g2[k] = g[k]
  <2> HIDE DEF VMRecs, JobRecs
  <2> QED BY <1>2
<1>4. s = [queue |-> q, vm |-> m2, job |-> g2, user |-> f, awaiting |-> a]
  BY <1>1, <1>2 DEF Rest
<1>5. /\ s \in GoodWorlds /\ s.queue = q /\ s.vm = m2 /\ s.job = g2 /\ s.user = f
      /\ s.awaiting = a
  BY <1>3, <1>4, MakeWorld
<1> QED BY <1>1, <1>3, <1>5
\* The job ends on world t; its VM has no other process.
EndedAt(t, j) == [t EXCEPT !.job[j].place = "finished"]
IdleAt(t, v)  == [t EXCEPT !.vm[v].state = "IDLE"]
Done(r)       == [r EXCEPT !.place = "finished"]
Idled(r)      == [r EXCEPT !.state = "IDLE"]

LEMMA EndDoes ==
  ASSUME NEW t \in GoodWorlds, NEW j \in Jobs, NEW v \in VMs, v = t.job[j].vm,
         \A k \in Jobs : On(t, k) /\ t.job[k].vm = v => k = j,
         NEW b, b = Done(t.job[j]), NEW x, x = Idled(t.vm[v])
  PROVE  /\ b \in JobRecs /\ b.place = "finished" /\ x \in VMRecs /\ x.state = "IDLE"
         /\ x.pending = t.vm[v].pending /\ x.host = t.vm[v].host
         /\ Processes(EndedAt(t, j), v) = {}
         /\ IdleAt(EndedAt(t, j), v) = Rest(t, j, b, v, x)
<1>1. PICK q \in Queues, m \in [VMs -> VMRecs], g \in [Jobs -> JobRecs], f \in GoodUsers,
           a \in SUBSET VMs :
        /\ t = [queue |-> q, vm |-> m, job |-> g, user |-> f, awaiting |-> a]
        /\ t.queue = q /\ t.vm = m /\ t.job = g /\ t.user = f /\ t.awaiting = a
  BY WorldParts
<1>2. g[j] \in JobRecs /\ m[v] \in VMRecs
  <2> HIDE DEF VMRecs, JobRecs
  <2> QED OBVIOUS
<1>3. b \in JobRecs /\ b = [place |-> "finished", vm |-> g[j].vm]
  BY <1>1, <1>2, RecPlace DEF Done
<1>4. x \in VMRecs /\ x.state = "IDLE" /\ x.pending = m[v].pending /\ x.host = m[v].host
  BY <1>1, <1>2, RecIdle DEF Idled
<1>5. PICK g2, m2 : g2 = [g EXCEPT ![j] = b] /\ m2 = [m EXCEPT ![v] = x]
  OBVIOUS
<1>6. g2[j].place = "finished" /\ \A k \in Jobs : k # j => g2[k] = g[k]
  BY <1>3, <1>5
<1>7. PICK s : s = EndedAt(t, j)
  OBVIOUS
<1>8. s = [queue |-> q, vm |-> m, job |-> g2, user |-> f, awaiting |-> a]
  BY <1>1, <1>5, <1>7 DEF EndedAt, Done
<1>9. Processes(s, v) = {}
  <2>1. s.job = g2
    BY <1>8
  <2> QED BY <1>1, <1>6, <2>1 DEF Processes, On
<1>10. IdleAt(s, v)
         = [queue |-> q, vm |-> m2, job |-> g2, user |-> f, awaiting |-> a]
  BY <1>1, <1>5, <1>8 DEF IdleAt, Idled
<1>11. Rest(t, j, b, v, x) = [queue |-> q, vm |-> m2, job |-> g2, user |-> f, awaiting |-> a]
  <2>1. Rest(t, j, b, v, x) = [[t EXCEPT !.job = g2] EXCEPT !.vm = m2]
    BY <1>1, <1>5 DEF Rest
  <2> QED BY <1>1, <2>1
<1> QED BY <1>1, <1>3, <1>4, <1>7, <1>9, <1>10, <1>11

LEMMA NotifyKeeps ==
  ASSUME NEW D, NEW C \in SUBSET Jobs, NEW w \in GoodWorlds, Sound(w, D, C),
         NEW j \in Jobs, w.job[j].place = "running"
  PROVE  Keeps(w, NotifyUserJobHasFinished(w, j), D, C)
<1>1. PICK v \in VMs, u \in Users : v = w.job[j].vm /\ u = j[1] /\ u = v[1] /\ v \in VMsOf(u)
  <2>1. j[1] \in Users /\ w.job[j].vm \in VMsOf(j[1])
    BY JobUser DEF Sound, JobsPlaced, On
  <2>2. w.job[j].vm \in VMs /\ w.job[j].vm[1] = j[1]
    BY <2>1, UserVMs DEF VMsOf
  <2> QED BY <2>1, <2>2
<1>2. w.vm[v].state = "RUNNING" /\ w.vm[v].pending = "none" /\ w.vm[v].host # NoNode
  BY <1>1 DEF On, Sound, JobsPlaced
<1>3. \A k \in Jobs : On(w, k) /\ w.job[k].vm = v => k = j
  BY <1>1 DEF On, Sound, JobsPlaced
<1>4. /\ w.vm \in [VMs -> VMRecs] /\ w.user \in GoodUsers /\ DOMAIN w.user = Users
      /\ w.user[u] \in UserRecs(u) /\ \A y \in Users : w.user[y].shutdowns \in Int
  BY WorldParts, UserParts DEF GoodUsers
<1>5. CASE Waiting(w, u) = <<>>
  <2>1. ON(w, v)
    BY <1>2 DEF ON, Exists
  <2>2. Processes(w, v) = {j}
    BY <1>1, <1>3 DEF Processes, On
  <2>3. PICK t : t = ShutdownVM(w, v)
    OBVIOUS
  <2>4. JobHasFinished(w, j) = t
    BY <1>1, <1>5, <2>2, <2>3 DEF JobHasFinished
  <2>5. /\ t \in GoodWorlds /\ t.queue = Sent(w.queue, Free(v))
        /\ t.vm = [w.vm EXCEPT ![v].pending = "shutdown"] /\ t.job = w.job
        /\ t.user = [w.user EXCEPT ![u].shutdowns = @ + 1] /\ t.awaiting = w.awaiting
    <3>1. t.user = [w.user EXCEPT ![v[1]].shutdowns = @ + 1]
      BY <2>1, <2>3, ShutdownDoes, Zenon
    <3>2. /\ t \in GoodWorlds /\ t.queue = Sent(w.queue, Free(v)) /\ t.job = w.job
          /\ t.vm = [w.vm EXCEPT ![v].pending = "shutdown"] /\ t.awaiting = w.awaiting
      BY <2>1, <2>3, ShutdownDoes, Zenon
    <3> QED BY <1>1, <3>1, <3>2
  <2>6. /\ t.vm[v].pending = "shutdown" /\ t.vm[v].host = w.vm[v].host
        /\ \A x \in VMs : x # v => t.vm[x] = w.vm[x]
    <3>1. w.vm[v] \in VMRecs
      BY <1>4
    <3> QED BY <1>4, <2>5, <3>1 DEF VMRecs
  <2>7. \A y \in Users : /\ t.user[y].waiting = w.user[y].waiting
                        /\ t.user[y].shutdowns = w.user[y].shutdowns + (IF y = u THEN 1 ELSE 0)
    <3>1. t.user[u].waiting = w.user[u].waiting /\ t.user[u].shutdowns = w.user[u].shutdowns + 1
      BY <1>4, <2>5 DEF UserRecs
    <3>2. \A y \in Users : y # u => t.user[y] = w.user[y]
      BY <1>4, <2>5
    <3> QED BY <1>4, <3>1, <3>2
  <2>8. PICK b, x : b = Done(t.job[j]) /\ x = Idled(t.vm[v])
    OBVIOUS
  <2>9. \A k \in Jobs : On(t, k) /\ t.job[k].vm = v => k = j
    BY <1>3, <2>5 DEF On
  <2>10. /\ b \in JobRecs /\ b.place = "finished" /\ x \in VMRecs /\ x.state = "IDLE"
         /\ x.pending = t.vm[v].pending /\ x.host = t.vm[v].host
         /\ Processes(EndedAt(t, j), v) = {}
         /\ IdleAt(EndedAt(t, j), v) = Rest(t, j, b, v, x)
    <3>1. t \in GoodWorlds /\ v = t.job[j].vm
      BY <1>1, <2>5
    <3>2. b \in JobRecs
      BY <2>8, <2>9, <3>1, EndDoes
    <3>3. b.place = "finished"
      BY <2>8, <2>9, <3>1, EndDoes
    <3>4. x \in VMRecs /\ x.state = "IDLE" 
      BY <2>8, <2>9, <3>1, EndDoes
    <3>5. x.pending = t.vm[v].pending /\ x.host = t.vm[v].host
      BY <2>8, <2>9, <3>1, EndDoes
    <3>6. Processes(EndedAt(t, j), v) = {}
      BY <2>8, <2>9, <3>1, EndDoes
    <3>7. IdleAt(EndedAt(t, j), v) = Rest(t, j, b, v, x)
      BY <2>8, <2>9, <3>1, EndDoes
    <3> QED BY <3>2, <3>3, <3>4, <3>5, <3>6, <3>7
  <2>11. PICK s : s = Rest(t, j, b, v, x)
    OBVIOUS
  <2>12. NotifyUserJobHasFinished(w, j) = s
    BY <1>1, <1>5, <2>4, <2>10, <2>11 DEF NotifyUserJobHasFinished, EndedAt, IdleAt
  <2>13. /\ s \in GoodWorlds /\ s.queue = t.queue /\ s.user = t.user /\ s.awaiting = t.awaiting
         /\ s.job[j] = b /\ \A k \in Jobs : k # j => s.job[k] = t.job[k]
         /\ s.vm[v] = x /\ \A y \in VMs : y # v => s.vm[y] = t.vm[y]
    <3>1. t \in GoodWorlds
      BY <2>5
    <3> QED BY <2>10, <2>11, <3>1, RestDoes
  <2>14. /\ s.awaiting = w.awaiting /\ s.job[j].place = "finished"
         /\ \A k \in Jobs : k # j => s.job[k] = w.job[k]
         /\ s.vm[v].state = "IDLE" /\ s.vm[v].host = w.vm[v].host
         /\ \A y \in VMs : y # v => s.vm[y] = w.vm[y]
         /\ \A y \in Users : s.user[y].waiting = w.user[y].waiting
         /\ s.vm[v].pending = "shutdown" /\ s.queue = Sent(w.queue, Free(v))
         /\ \A y \in Users : s.user[y].shutdowns
                               = w.user[y].shutdowns + (IF y = v[1] THEN 1 ELSE 0)
    <3>1. s.awaiting = w.awaiting /\ s.queue = Sent(w.queue, Free(v))
      BY <2>5, <2>13
    <3>2. t.job = w.job
      BY <2>5
    <3>3. \A y \in Users : /\ s.user[y].waiting = w.user[y].waiting
                          /\ s.user[y].shutdowns
                               = w.user[y].shutdowns + (IF y = v[1] THEN 1 ELSE 0)
      BY <1>1, <2>7, <2>13
    <3> QED BY <2>6, <2>10, <2>13, <3>1, <3>2, <3>3
  <2>15. Keeps(w, s, D, C)
    <3>1. PICK d \in {0, 1} : d = 1
      OBVIOUS
    <3>2. /\ s.vm[v].pending = IF d = 1 THEN "shutdown" ELSE "none"
          /\ s.queue = IF d = 1 THEN Sent(w.queue, Free(v)) ELSE w.queue
          /\ \A y \in Users : s.user[y].shutdowns
                                = w.user[y].shutdowns + (IF d = 1 /\ y = v[1] THEN 1 ELSE 0)
      BY <2>14, <3>1
    <3> QED BY <1>1, <2>13, <2>14, <3>2, FinishedSound
  <2> QED BY <2>12, <2>15
<1>6. CASE Waiting(w, u) # <<>>
  <2>1. JobHasFinished(w, j) = w
    BY <1>1, <1>6 DEF JobHasFinished
  <2>2. PICK b, x : b = Done(w.job[j]) /\ x = Idled(w.vm[v])
    OBVIOUS
  <2>3. /\ b \in JobRecs /\ b.place = "finished" /\ x \in VMRecs /\ x.state = "IDLE"
        /\ x.pending = w.vm[v].pending /\ x.host = w.vm[v].host
        /\ Processes(EndedAt(w, j), v) = {}
        /\ IdleAt(EndedAt(w, j), v) = Rest(w, j, b, v, x)
    BY SMTT(30), <1>1, <1>3, <2>2, EndDoes
  <2>4. PICK t : t = Rest(w, j, b, v, x)
    OBVIOUS
  <2>5. /\ t \in GoodWorlds /\ t.queue = w.queue /\ t.user = w.user /\ t.awaiting = w.awaiting
        /\ t.job[j] = b /\ \A k \in Jobs : k # j => t.job[k] = w.job[k]
        /\ t.vm[v] = x /\ \A y \in VMs : y # v => t.vm[y] = w.vm[y]
    BY <2>3, <2>4, RestDoes
  <2>6. PICK r : r = [t.user[u] EXCEPT !.wake = @ + 1]
    OBVIOUS
  <2>7. r \in UserRecs(u) /\ r.waiting = w.user[u].waiting /\ r.shutdowns = w.user[u].shutdowns
    BY <1>4, <2>5, <2>6 DEF UserRecs
  <2>8. PICK s : s = PutUser(t, u, r)
    OBVIOUS
  <2>9. /\ s \in GoodWorlds /\ s.queue = t.queue /\ s.vm = t.vm /\ s.job = t.job
        /\ s.awaiting = t.awaiting /\ s.user[u] = r
        /\ \A y \in Users : y # u => s.user[y] = t.user[y]
    BY <2>5, <2>7, <2>8, UserDoes
  <2>10. NotifyUserJobHasFinished(w, j) = s
    <3>1. s = [t EXCEPT !.user[u].wake = @ + 1]
      BY <2>6, <2>8 DEF PutUser
    <3> QED BY <1>1, <1>6, <2>1, <2>3, <2>4, <3>1 DEF NotifyUserJobHasFinished, EndedAt, IdleAt
  <2>11. /\ s.awaiting = w.awaiting /\ s.job[j].place = "finished"
         /\ \A k \in Jobs : k # j => s.job[k] = w.job[k]
         /\ s.vm[v].state = "IDLE" /\ s.vm[v].host = w.vm[v].host
         /\ \A y \in VMs : y # v => s.vm[y] = w.vm[y]
         /\ \A y \in Users : s.user[y].waiting = w.user[y].waiting
         /\ s.vm[v].pending = "none" /\ s.queue = w.queue
         /\ \A y \in Users : s.user[y].shutdowns = w.user[y].shutdowns
    BY <1>2, <2>3, <2>5, <2>7, <2>9
  <2>12. Keeps(w, s, D, C)
    <3>1. PICK d \in {0, 1} : d = 0
      OBVIOUS
    <3>2. /\ s.vm[v].pending = IF d = 1 THEN "shutdown" ELSE "none"
          /\ s.queue = IF d = 1 THEN Sent(w.queue, Free(v)) ELSE w.queue
          /\ \A y \in Users : s.user[y].shutdowns
                                = w.user[y].shutdowns + (IF d = 1 /\ y = v[1] THEN 1 ELSE 0)
      BY <1>4, <2>11, <3>1
    <3> QED BY <1>1, <2>9, <2>11, <3>2, FinishedSound
  <2> QED BY <2>10, <2>12
<1> QED BY <1>5, <1>6
PutStatus(w, u, st) == [w EXCEPT !.user[u].status = st]

\* The steps that only send a START or an ABANDON and set the status of a user.
LEMMA StatusKeeps ==
  ASSUME NEW D, NEW C \in SUBSET Jobs, NEW w \in GoodWorlds, Sound(w, D, C), NEW u \in Users,
         NEW st \in {"new", "active", "finalizing", "gone"},
         NEW t, t = PutStatus(w, u, st)
  PROVE  /\ t \in GoodWorlds /\ Keeps(w, t, D, C) /\ t.queue = w.queue
         /\ Keeps(w, UserSendRequest(t, Abandon(u)), D, C)
         /\ Keeps(w, UserSendRequest(t, Start(u)), D, C)
<1>1. w.user[u] \in UserRecs(u) /\ w.queue \in Queues
  BY WorldParts, UserParts
<1>2. PICK r : r = [w.user[u] EXCEPT !.status = st]
  OBVIOUS
<1>3. r \in UserRecs(u) /\ r.waiting = w.user[u].waiting /\ r.shutdowns = w.user[u].shutdowns
  BY <1>1, <1>2 DEF UserRecs
<1>4. t = PutUser(w, u, r)
  BY <1>2 DEF PutUser, PutStatus
<1>5. /\ t \in GoodWorlds /\ t.queue = w.queue /\ t.vm = w.vm /\ t.job = w.job
      /\ t.awaiting = w.awaiting /\ t.user[u] = r
      /\ \A y \in Users : y # u => t.user[y] = w.user[y]
  BY <1>3, <1>4, UserDoes
<1>6. /\ \A y \in Users : t.user[y].waiting = w.user[y].waiting
      /\ \A y \in Users : t.user[y].shutdowns = w.user[y].shutdowns
  BY <1>3, <1>5
<1>7. Keeps(w, t, D, C)
  <2>1. ListsExact(t)
    BY <1>5, <1>6, ListsSame DEF Sound
  <2>2. Sound(t, D, C)
    BY <1>5, <1>6, <2>1, Unaffected
  <2>3. Same(w, t)
    BY <1>5 DEF Same
  <2> QED BY <2>2, <2>3 DEF Keeps
<1>8. ASSUME NEW e \in {Abandon(u), Start(u)} PROVE Keeps(w, UserSendRequest(t, e), D, C)
  <2>1. e \in Requests
    BY <1>8, RequestsAre
  <2>2. PICK s : s = UserSendRequest(t, e)
    OBVIOUS
  <2>3. /\ s \in GoodWorlds /\ s.queue = Sent(w.queue, e) /\ s.vm = w.vm /\ s.job = w.job
        /\ s.user = t.user /\ s.awaiting = w.awaiting
    BY <1>5, <2>1, <2>2, SendDoes
  <2>4. ListsExact(s)
    BY <1>6, <2>3, ListsSame DEF Sound
  <2>5. \A x : Count(s.queue, x) = Count(w.queue, x) + (IF e = x THEN 1 ELSE 0)
    BY <1>1, <2>1, <2>3, CountSent
  <2>6. \A x : Count(w.queue, x) \in Nat
    BY <1>1, CountType
  <2>7. /\ \A v \in VMs : e # Free(v)
        /\ \A j \in Jobs, v \in VMs : e # Storage(j, v)
    BY <1>8, RequestsDiffer
  <2>8. /\ \A v \in VMs : Count(s.queue, Free(v)) = Count(w.queue, Free(v))
        /\ \A j \in Jobs, v \in VMs : Count(s.queue, Storage(j, v)) = Count(w.queue, Storage(j, v))
    BY <2>5, <2>6, <2>7
  <2>9. \A y \in Users : s.user[y].shutdowns = w.user[y].shutdowns
    BY <1>6, <2>3
  <2>10. Sound(s, D, C)
    BY <2>3, <2>4, <2>8, <2>9, Unaffected
  <2>11. Same(w, s)
    <3>1. /\ s.queue.blocked = w.queue.blocked /\ s.queue.next = w.queue.next
          /\ w.queue.blocked => s.queue.requests = w.queue.requests
      BY <1>1, <2>1, <2>3, SentGood
    <3> QED BY <2>3, <3>1 DEF Same
  <2> QED BY <2>2, <2>10, <2>11 DEF Keeps
<1> QED BY <1>5, <1>7, <1>8

LEMMA FinalizeKeeps ==
  ASSUME NEW D, NEW C \in SUBSET Jobs, NEW w \in GoodWorlds, Sound(w, D, C), NEW u \in Users
  PROVE  Keeps(w, FinalizeUser(w, u), D, C)
<1>1. CASE w.awaiting \cap VMsOf(u) = {} /\ w.user[u].shutdowns = 0
  <2>1. FinalizeUser(w, u) = UserSendRequest(PutStatus(w, u, "finalizing"), Abandon(u))
    BY <1>1 DEF FinalizeUser, PutStatus
  <2> QED BY <2>1, StatusKeeps
<1>2. CASE ~(w.awaiting \cap VMsOf(u) = {} /\ w.user[u].shutdowns = 0)
  <2>1. FinalizeUser(w, u) = PutStatus(w, u, "active")
    BY <1>2 DEF FinalizeUser, PutStatus
  <2> QED BY <2>1, StatusKeeps
<1> QED BY <1>1, <1>2

-----------------------------------------------------------------------------
(* A VM goes. *)

\* unlinkVM, and what freeAttended does to the VM and its user.
Dropped(w, v) == [UnlinkVM(w, v) EXCEPT !.user[v[1]].shutdowns = @ - 1,
                    !.vm[v] = [state |-> "gone", pending |-> "none", host |-> @.host]]

LEMMA DroppedDoes ==
  ASSUME NEW w \in GoodWorlds, NEW v \in VMs, NEW s, s = Dropped(w, v)
  PROVE  /\ s \in GoodWorlds /\ s.queue = w.queue /\ s.job = w.job /\ s.awaiting = w.awaiting
         /\ s.vm[v] = [state |-> "gone", pending |-> "none", host |-> NoNode]
         /\ \A x \in VMs : x # v => s.vm[x] = w.vm[x]
         /\ \A u \in Users : /\ s.user[u].waiting = w.user[u].waiting
                             /\ s.user[u].status = w.user[u].status
                             /\ s.user[u].shutdowns
                                  = w.user[u].shutdowns - (IF u = v[1] THEN 1 ELSE 0)
<1>1. PICK q \in Queues, m \in [VMs -> VMRecs], b \in [Jobs -> JobRecs], f \in GoodUsers,
           a \in SUBSET VMs :
        /\ w = [queue |-> q, vm |-> m, job |-> b, user |-> f, awaiting |-> a]
        /\ w.queue = q /\ w.vm = m /\ w.job = b /\ w.user = f /\ w.awaiting = a
  BY WorldParts
<1>2. PICK u \in Users : u = v[1]
  BY VMIs
<1>3. PICK off, gone : /\ off = [state |-> "OFF", pending |-> "none", host |-> NoNode]
                       /\ gone = [state |-> "gone", pending |-> "none", host |-> NoNode]
  OBVIOUS
<1>4. off \in VMRecs /\ gone \in VMRecs /\ off.host = NoNode
  BY <1>3, VMMade
<1>5. PICK m1, m2, f2, r : /\ m1 = [m EXCEPT ![v] = off] /\ m2 = [m EXCEPT ![v] = gone]
                           /\ r = [f[u] EXCEPT !.shutdowns = @ - 1] /\ f2 = [f EXCEPT ![u] = r]
  OBVIOUS
<1>6. /\ m1[v] = off /\ [m1 EXCEPT ![v] = gone] = m2 /\ m2 \in [VMs -> VMRecs] /\ m2[v] = gone
      /\ \A x \in VMs : x # v => m2[x] = m[x]
  <2> HIDE DEF VMRecs
  <2> QED BY <1>4, <1>5
<1>7. f[u] \in UserRecs(u) /\ DOMAIN f = Users /\ \A y \in Users : f[y].shutdowns \in Int
  BY UserParts DEF GoodUsers
<1>8. /\ r \in UserRecs(u) /\ r.waiting = f[u].waiting /\ r.shutdowns = f[u].shutdowns - 1
      /\ r.status = f[u].status
  BY <1>5, <1>7 DEF UserRecs
<1>9. f2 \in GoodUsers /\ f2[u] = r /\ \A y \in Users : y # u => f2[y] = f[y]
  BY <1>5, <1>7, <1>8, SetUser
<1>10. PICK t : t = UnlinkVM(w, v)
  OBVIOUS
<1>11. t = [queue |-> q, vm |-> m1, job |-> b, user |-> f, awaiting |-> a]
  BY <1>1, <1>3, <1>5, <1>10 DEF UnlinkVM
<1>12. s = [queue |-> q, vm |-> m2, job |-> b, user |-> f2, awaiting |-> a]
  <2>1. s = [t EXCEPT !.user[u].shutdowns = @ - 1,
                      !.vm[v] = [state |-> "gone", pending |-> "none", host |-> @.host]]
    BY <1>2, <1>10 DEF Dropped
  <2>2. s = [[t EXCEPT !.user = f2] EXCEPT !.vm = m2]
    BY <1>3, <1>4, <1>5, <1>6, <1>11, <2>1
  <2> QED BY <1>11, <2>2
<1>13. /\ s \in GoodWorlds /\ s.queue = q /\ s.vm = m2 /\ s.job = b /\ s.user = f2 /\ s.awaiting = a
  BY <1>6, <1>9, <1>12, MakeWorld
<1>14. \A y \in Users : /\ f2[y].waiting = f[y].waiting /\ f2[y].status = f[y].status
                        /\ f2[y].shutdowns = f[y].shutdowns - (IF y = u THEN 1 ELSE 0)
  BY <1>7, <1>8, <1>9
<1> QED BY <1>1, <1>2, <1>3, <1>6, <1>13, <1>14

LEMMA DroppedSound ==
  ASSUME NEW D, NEW C \in SUBSET Jobs, NEW w \in GoodWorlds, Sound(w, D, C),
         NEW v \in D, v \in VMs, NEW s, s = Dropped(w, v)
  PROVE  s \in GoodWorlds /\ Sound(s, D \ {v}, C)
<1>1. /\ s \in GoodWorlds /\ s.queue = w.queue /\ s.job = w.job /\ s.awaiting = w.awaiting
      /\ s.vm[v] = [state |-> "gone", pending |-> "none", host |-> NoNode]
      /\ \A x \in VMs : x # v => s.vm[x] = w.vm[x]
      /\ \A u \in Users : /\ s.user[u].waiting = w.user[u].waiting
                          /\ s.user[u].shutdowns
                               = w.user[u].shutdowns - (IF u = v[1] THEN 1 ELSE 0)
  BY DroppedDoes
<1>2. s.vm[v].state = "gone" /\ s.vm[v].pending = "none"
  BY <1>1
<1>3. w.queue \in Queues /\ \A x : Count(w.queue, x) \in Nat
  BY WorldParts, CountType
<1>4. w.vm[v].pending = "shutdown" /\ Count(w.queue, Free(v)) = 0
  BY <1>3 DEF Sound, Balanced
<1>5. ListsExact(s)
  BY <1>1, ListsSame DEF Sound
<1>6. JobsPlaced(s)
  <2>1. ASSUME NEW k \in Jobs, On(w, k)
        PROVE  w.job[k].vm \in VMsOf(k[1]) /\ s.vm[w.job[k].vm] = w.vm[w.job[k].vm]
    <3>1. w.job[k].vm \in VMsOf(k[1]) /\ w.job[k].vm \in VMs
      BY <2>1, JobUser, UserVMs DEF Sound, JobsPlaced
    <3>2. w.job[k].vm # v
      BY <1>4, <2>1 DEF Sound, JobsPlaced, On
    <3> QED BY <1>1, <3>1, <3>2
  <2>2. \A k \in Jobs : On(s, k) <=> On(w, k)
    BY <1>1 DEF On
  <2>3. s.job = w.job /\ JobsPlaced(w)
    BY <1>1 DEF Sound
  <2> HIDE DEF On
  <2> QED BY <2>1, <2>2, <2>3 DEF JobsPlaced
<1>7. VMsConsistent(s)
  <2> SUFFICES ASSUME NEW x \in VMs
               PROVE  /\ x \in s.awaiting <=> s.vm[x].pending = "storage"
                      /\ s.vm[x].state \in {"none", "OFF", "gone"} => s.vm[x].pending = "none"
                      /\ s.vm[x].state \in {"OFF", "IDLE", "RUNNING"} => s.vm[x].host # NoNode
    BY DEF VMsConsistent
  <2>1. CASE x = v
    BY <1>1, <1>2, <1>4, <2>1 DEF Sound, VMsConsistent
  <2>2. CASE x # v
    BY <1>1, <2>2 DEF Sound, VMsConsistent
  <2> QED BY <2>1, <2>2
<1>8. Balanced(s, D \ {v}, C)
  <2>0. Balanced(w, D, C)
    BY DEF Sound
  <2>1. ASSUME NEW x \in VMs
        PROVE  Count(s.queue, Free(x)) + (IF x \in D \ {v} THEN 1 ELSE 0)
                 = (IF s.vm[x].pending = "shutdown" THEN 1 ELSE 0)
    <3>1. CASE x = v
      BY <1>1, <1>2, <1>4, <3>1
    <3>2. CASE x # v
      BY <1>1, <2>0, <3>2 DEF Balanced
    <3> QED BY <3>1, <3>2
  <2>2. \A u \in Users : s.user[u].shutdowns = Cardinality(Dying(s.vm, u))
    <3>1. /\ s.vm[v].pending # "shutdown" /\ w.vm[v].pending = "shutdown"
          /\ \A x \in VMs : x # v => w.vm[x].pending = s.vm[x].pending
      BY <1>1, <1>2, <1>4
    <3>2. \A u \in Users : Cardinality(Dying(w.vm, u)) =
            Cardinality(Dying(s.vm, u)) + (IF u = v[1] THEN 1 ELSE 0)
      BY <3>1, DyingMore
    <3>3. ASSUME NEW u \in Users PROVE Cardinality(Dying(s.vm, u)) \in Nat
      <4>1. VMsOf(u) \subseteq VMs /\ IsFiniteSet(VMs)
        BY VMsFinite, UserVMs
      <4>2. IsFiniteSet(Dying(s.vm, u))
        BY <4>1, FS_Subset DEF Dying
      <4> QED BY <4>2, FS_CardinalityType
    <3> QED BY <1>1, <2>0, <3>2, <3>3 DEF Balanced
  <2>3. \A j \in Jobs, x \in VMs : Count(s.queue, Storage(j, x)) =
          (IF s.job[j] = [place |-> "storage", vm |-> x] /\ j \notin C THEN 1 ELSE 0)
    <3>1. s.queue = w.queue /\ s.job = w.job
      BY <1>1
    <3> QED BY <2>0, <3>1 DEF Balanced
  <2>4. \A j \in C : s.job[j].place = "storage"
    BY <1>1, <2>0 DEF Balanced
  <2> QED BY <2>1, <2>2, <2>3, <2>4 DEF Balanced
<1> QED BY <1>1, <1>5, <1>6, <1>7, <1>8 DEF Sound

LEMMA FreeAttendedSound ==
  ASSUME NEW D, NEW C \in SUBSET Jobs, NEW w \in GoodWorlds, Sound(w, D, C),
         NEW v \in D, v \in VMs, NEW s, s = FreeAttended(UnlinkVM(w, v), v[1], v)
  PROVE  /\ s \in GoodWorlds /\ Sound(s, D \ {v}, C) /\ s.vm[v].host = NoNode
         /\ \A x \in VMs : x # v => s.vm[x].host = w.vm[x].host
<1>1. PICK t : t = Dropped(w, v)
  OBVIOUS
<1>2. t \in GoodWorlds /\ Sound(t, D \ {v}, C)
  BY <1>1, DroppedSound
<1>3. t.vm[v].host = NoNode /\ \A x \in VMs : x # v => t.vm[x] = w.vm[x]
  BY <1>1, DroppedDoes
<1>4. PICK u \in Users : u = v[1]
  BY VMIs
<1>5. PICK e : e \in {t, FinalizeUser(t, u)} /\ s = ScheduleUnlessFinalizing(e, u)
  BY <1>1, <1>4 DEF FreeAttended, Dropped
<1>6. Keeps(t, e, D \ {v}, C)
  BY <1>2, <1>5, SameItself, FinalizeKeeps DEF Keeps
<1>7. e \in GoodWorlds /\ Sound(e, D \ {v}, C) /\ Same(t, e)
  BY <1>6 DEF Keeps, Same
<1>8. Keeps(e, s, D \ {v}, C)
  BY <1>5, <1>7, UnlessFinalizingKeeps
<1>9. Same(t, s) /\ Sound(s, D \ {v}, C)
  BY <1>7, <1>8, SameThen DEF Keeps
<1> QED BY <1>3, <1>9 DEF Same
-----------------------------------------------------------------------------
(* A START: VMs are linked to nodes that have room, and given to the user. *)

Room(w) == \A n \in Nodes : Cardinality(Linked(w, n)) <= MaxVMs

LEMMA LinkedFinite ==
  ASSUME NEW w, NEW n
  PROVE  IsFiniteSet(Linked(w, n)) /\ Cardinality(Linked(w, n)) \in Nat
<1>1. Linked(w, n) \subseteq VMs
  BY DEF Linked
<1>2. IsFiniteSet(Linked(w, n))
  BY <1>1, VMsFinite, FS_Subset
<1> QED BY <1>2, FS_CardinalityType

LEMMA SelectedNode ==
  ASSUME NEW w, SelectNode(w) # NoNode
  PROVE  SelectNode(w) \in Nodes /\ HasRoom(w, SelectNode(w))
<1> DEFINE room == {n \in Nodes : HasRoom(w, n)}
<1>1. room # {} /\ SelectNode(w) = CHOOSE n \in room : \A m \in room : n <= m
  BY DEF SelectNode
<1>2. room \in SUBSET Nat
  BY DEF Nodes
<1> HIDE DEF room
<1>3. \E n \in room : \A m \in room : n <= m
  BY <1>1, <1>2, Least
<1>4. SelectNode(w) \in room
  BY <1>1, <1>3
<1> QED BY <1>4 DEF room

\* VMs of w that do not exist may be linked in s; all else is as it was.
Linking(w, s) ==
  /\ s \in GoodWorlds /\ s.queue = w.queue /\ s.job = w.job /\ s.user = w.user
  /\ s.awaiting = w.awaiting
  /\ \A x \in VMs : s.vm[x] # w.vm[x] => w.vm[x].state = "none" /\ s.vm[x].state = "OFF"

\* The VMs in ok get a node, or become idle, without a change of what is pending.
LEMMA VMsChange ==
  ASSUME NEW D, NEW C, NEW w \in GoodWorlds, NEW s \in GoodWorlds, Sound(w, D, C),
         s.queue = w.queue, s.job = w.job, s.user = w.user, s.awaiting = w.awaiting,
         \A x \in VMs : s.vm[x] # w.vm[x] =>
           /\ w.vm[x].state \in {"none", "OFF"} /\ s.vm[x].pending = "none"
           /\ s.vm[x].state \in {"OFF", "IDLE"} /\ s.vm[x].host # NoNode
  PROVE  Sound(s, D, C)
<1>1. ListsExact(s)
  BY ListsSame DEF Sound
<1>2. \A x \in VMs : s.vm[x].pending = w.vm[x].pending
  BY DEF Sound, VMsConsistent
<1>3. JobsPlaced(s)
  <2>1. ASSUME NEW k \in Jobs, On(w, k)
        PROVE  w.job[k].vm \in VMsOf(k[1]) /\ s.vm[w.job[k].vm] = w.vm[w.job[k].vm]
    <3>1. w.job[k].vm \in VMsOf(k[1]) /\ w.job[k].vm \in VMs
      BY <2>1, JobUser, UserVMs DEF Sound, JobsPlaced
    <3>2. w.vm[w.job[k].vm].state \in {"IDLE", "RUNNING"}
      BY <2>1 DEF Sound, JobsPlaced, On
    <3> QED BY <3>1, <3>2
  <2>2. \A k \in Jobs : On(s, k) <=> On(w, k)
    BY DEF On
  <2>3. JobsPlaced(w)
    BY DEF Sound
  <2> HIDE DEF On
  <2> QED BY <2>1, <2>2, <2>3 DEF JobsPlaced
<1>4. VMsConsistent(s)
  <2>1. VMsConsistent(w)
    BY DEF Sound
  <2> QED BY <1>2, <2>1 DEF VMsConsistent
<1>5. Balanced(s, D, C)
  <2>0. Balanced(w, D, C)
    BY DEF Sound
  <2>1. \A x \in VMs : w.vm[x].pending = "shutdown" <=> s.vm[x].pending = "shutdown"
    BY <1>2
  <2>2. \A u \in Users : Dying(s.vm, u) = Dying(w.vm, u)
    BY <2>1, DyingSame
  <2> QED BY <1>2, <2>0, <2>2 DEF Balanced
<1> QED BY <1>1, <1>3, <1>4, <1>5 DEF Sound

LEMMA LinkOneSound ==
  ASSUME NEW D, NEW C \in SUBSET Jobs, NEW w \in GoodWorlds, Sound(w, D, C), Room(w),
         NEW v \in VMs, NEW s, s = LinkOne(w, v)
  PROVE  Sound(s, D, C) /\ Room(s) /\ Linking(w, s)
<1>1. CASE w.vm[v].state # "none" \/ SelectNode(w) = NoNode
  BY <1>1 DEF LinkOne, Linking
<1>2. CASE ~(w.vm[v].state # "none" \/ SelectNode(w) = NoNode)
  <2>1. PICK q \in Queues, m \in [VMs -> VMRecs], b \in [Jobs -> JobRecs], f \in GoodUsers,
             a \in SUBSET VMs :
          /\ w = [queue |-> q, vm |-> m, job |-> b, user |-> f, awaiting |-> a]
          /\ w.queue = q /\ w.vm = m /\ w.job = b /\ w.user = f /\ w.awaiting = a
    BY WorldParts
  <2>2. PICK n \in Nodes : n = SelectNode(w) /\ HasRoom(w, n) /\ n # NoNode
    BY <1>2, SelectedNode
  <2>3. PICK off : off = [state |-> "OFF", pending |-> "none", host |-> n]
    OBVIOUS
  <2>4. off \in VMRecs /\ off.state = "OFF" /\ off.pending = "none" /\ off.host = n
    BY <2>3, VMMade
  <2>5. PICK m2 : m2 = [m EXCEPT ![v] = off]
    OBVIOUS
  <2>6. m2 \in [VMs -> VMRecs] /\ m2[v] = off /\ \A x \in VMs : x # v => m2[x] = m[x]
    <3> HIDE DEF VMRecs
    <3> QED BY <2>4, <2>5
  <2>7. s = [queue |-> q, vm |-> m2, job |-> b, user |-> f, awaiting |-> a]
    BY <1>2, <2>1, <2>2, <2>3, <2>5 DEF LinkOne
  <2>8. /\ s \in GoodWorlds /\ s.queue = q /\ s.vm = m2 /\ s.job = b /\ s.user = f
        /\ s.awaiting = a
    BY <2>6, <2>7, MakeWorld
  <2>9. \A x \in VMs : s.vm[x] # w.vm[x] =>
          /\ w.vm[x].state = "none" /\ s.vm[x].pending = "none"
          /\ s.vm[x].state = "OFF" /\ s.vm[x].host = n
    BY <1>2, <2>1, <2>4, <2>6, <2>8
  <2>10. Sound(s, D, C)
    BY <2>1, <2>2, <2>8, <2>9, VMsChange
  <2>11. Linking(w, s)
    BY <2>1, <2>8, <2>9 DEF Linking
  <2>12. ASSUME NEW k \in Nodes PROVE Cardinality(Linked(s, k)) <= MaxVMs
    <3>1. CASE k = n
      <4>1. Linked(s, k) \subseteq Linked(w, k) \cup {v}
        BY <2>1, <2>6, <2>8 DEF Linked
      <4>2. /\ IsFiniteSet(Linked(w, k) \cup {v})
            /\ Cardinality(Linked(w, k) \cup {v}) <= Cardinality(Linked(w, k)) + 1
        <5>1. PICK L : L = Linked(w, k)
          OBVIOUS
        <5>2. IsFiniteSet(L) /\ Cardinality(L) \in Nat
          BY <5>1, LinkedFinite
        <5>3. /\ IsFiniteSet(L \cup {v})
              /\ Cardinality(L \cup {v}) = Cardinality(L) \/ Cardinality(L \cup {v}) = Cardinality(L) + 1
          BY <5>2, FS_AddElement
        <5> QED BY <5>1, <5>2, <5>3
      <4>3. Cardinality(Linked(s, k)) <= Cardinality(Linked(w, k) \cup {v})
        BY <4>1, <4>2, FS_Subset
      <4>4. Cardinality(Linked(w, k)) < MaxVMs
        BY <2>2, <3>1 DEF HasRoom
      <4>5. /\ Cardinality(Linked(s, k)) \in Nat /\ Cardinality(Linked(w, k)) \in Nat
            /\ Cardinality(Linked(w, k) \cup {v}) \in Nat /\ MaxVMs \in Nat
        BY <4>2, LinkedFinite, FS_CardinalityType, CloudAssumption
      <4> QED BY <4>2, <4>3, <4>4, <4>5
    <3>2. CASE k # n
      <4>1. Linked(s, k) \subseteq Linked(w, k)
        BY <2>1, <2>4, <2>6, <2>8, <3>2 DEF Linked
      <4>2. Cardinality(Linked(s, k)) <= Cardinality(Linked(w, k))
        BY <4>1, LinkedFinite, FS_Subset
      <4>3. Cardinality(Linked(s, k)) \in Nat /\ Cardinality(Linked(w, k)) \in Nat /\ MaxVMs \in Nat
        BY LinkedFinite, CloudAssumption
      <4>4. Cardinality(Linked(w, k)) <= MaxVMs
        BY DEF Room
      <4> QED BY <4>2, <4>3, <4>4
    <3> QED BY <3>1, <3>2
  <2> QED BY <2>10, <2>11, <2>12 DEF Room
<1> QED BY <1>1, <1>2

LEMMA LinkVMsSound ==
  ASSUME NEW D, NEW C \in SUBSET Jobs, NEW w \in GoodWorlds, Sound(w, D, C), Room(w),
         NEW u \in Users, NEW s, s = LinkVMs(w, u)
  PROVE  Sound(s, D, C) /\ Room(s) /\ Linking(w, s)
<1> DEFINE S == {x \in GoodWorlds : Sound(x, D, C) /\ Room(x) /\ Linking(w, x)}
<1>1. w \in S
  BY DEF Linking
<1>2. ASSUME NEW n \in 1 .. Quantity[u], NEW x \in S PROVE LinkOne(x, <<u, n>>) \in S
  <2>1. PICK y : y = LinkOne(x, <<u, n>>)
    OBVIOUS
  <2>2. <<u, n>> \in VMs
    BY UserVMs
  <2>3. Sound(y, D, C) /\ Room(y) /\ Linking(x, y)
    BY <2>1, <2>2, LinkOneSound
  <2>4. Linking(w, x)
    OBVIOUS
  <2>5. Linking(w, y)
    BY <2>3, <2>4 DEF Linking
  <2> QED BY <2>1, <2>3, <2>5 DEF Linking
<1> HIDE DEF S
<1>3. LinkVMs(w, u) \in S
  BY <1>1, <1>2, LinkLoop
<1> QED BY <1>3 DEF S

LEMMA RecUsed ==
  ASSUME NEW x \in VMRecs, NEW y, y = [x EXCEPT !.state = "IDLE", !.pending = "none"]
  PROVE  y \in VMRecs /\ y.state = "IDLE" /\ y.pending = "none" /\ y.host = x.host
  BY DEF VMRecs

\* The first VMs of a chunk, as many as there are jobs for them, and what the
\* answer to a START does to them.
Used(w, u, chunk) == {v \in chunk : Cardinality({x \in chunk : x[2] <= v[2]})
                                       <= Len(Waiting(w, u))}
Given(w, used) == [w EXCEPT !.vm = [v \in VMs |-> IF v \in used
                               THEN [@[v] EXCEPT !.state = "IDLE", !.pending = "none"] ELSE @[v]]]

\* From w to t the VMs in used are given to their user, and nothing else changes.
IsGiven(w, t, used) ==
  /\ t.queue = w.queue /\ t.job = w.job /\ t.user = w.user
  /\ \A v \in used : t.vm[v].state = "IDLE"
  /\ \A v \in VMs : v \notin used => t.vm[v] = w.vm[v]

LEMMA GivenSound ==
  ASSUME NEW D, NEW C \in SUBSET Jobs, NEW w \in GoodWorlds, Sound(w, D, C),
         NEW used, \A v \in used : v \in VMs /\ w.vm[v].state = "OFF",
         NEW t, t = Given(w, used)
  PROVE  t \in GoodWorlds /\ Sound(t, D, C) /\ Same(w, t) /\ IsGiven(w, t, used)
<1>1. PICK q \in Queues, m \in [VMs -> VMRecs], b \in [Jobs -> JobRecs], f \in GoodUsers,
           a \in SUBSET VMs :
        /\ w = [queue |-> q, vm |-> m, job |-> b, user |-> f, awaiting |-> a]
        /\ w.queue = q /\ w.vm = m /\ w.job = b /\ w.user = f /\ w.awaiting = a
  BY WorldParts
<1>2. \A v \in used : v \in VMs /\ w.vm[v].state = "OFF"
  OBVIOUS
<1>3. PICK m2 : m2 = [v \in VMs |-> IF v \in used
                        THEN [w.vm[v] EXCEPT !.state = "IDLE", !.pending = "none"] ELSE w.vm[v]]
  OBVIOUS
<1>4. t = [w EXCEPT !.vm = m2]
  BY <1>1, <1>3 DEF Given
<1>6. ASSUME NEW v \in VMs
      PROVE  /\ m2[v] \in VMRecs
             /\ m2[v] # m[v] => /\ v \in used /\ m2[v].state = "IDLE" /\ m2[v].pending = "none"
                                /\ m2[v].host = m[v].host
  <2>1. m[v] \in VMRecs
    <3> HIDE DEF VMRecs
    <3> QED OBVIOUS
  <2>2. CASE v \in used
    <3>1. m2[v] = [m[v] EXCEPT !.state = "IDLE", !.pending = "none"]
      BY <1>1, <1>3, <2>2
    <3> QED BY <2>1, <2>2, <3>1, RecUsed
  <2>3. CASE v \notin used
    BY <1>1, <1>3, <2>1, <2>3
  <2> QED BY <2>2, <2>3
<1>7. m2 \in [VMs -> VMRecs]
  BY <1>3, <1>6
<1>8. t = [queue |-> q, vm |-> m2, job |-> b, user |-> f, awaiting |-> a]
  BY <1>1, <1>4
<1>9. t \in GoodWorlds /\ t.queue = q /\ t.vm = m2 /\ t.job = b /\ t.user = f /\ t.awaiting = a
  BY <1>7, <1>8, MakeWorld
<1>10. ASSUME NEW v \in VMs, t.vm[v] # w.vm[v]
       PROVE  /\ w.vm[v].state \in {"none", "OFF"} /\ t.vm[v].pending = "none"
              /\ t.vm[v].state \in {"OFF", "IDLE"} /\ t.vm[v].host # NoNode
  <2>1. v \in used /\ m2[v].state = "IDLE" /\ m2[v].pending = "none" /\ m2[v].host = m[v].host
    BY <1>1, <1>6, <1>9, <1>10
  <2>2. w.vm[v].state = "OFF"
    BY <1>2, <2>1
  <2>3. w.vm[v].host # NoNode
    BY <2>2 DEF Sound, VMsConsistent
  <2> QED BY <1>1, <1>9, <2>1, <2>2, <2>3
<1>11. Sound(t, D, C)
  BY <1>1, <1>9, <1>10, VMsChange
<1>12. Same(w, t)
  BY <1>1, <1>6, <1>9 DEF Same
<1>13. /\ \A v \in used : t.vm[v].state = "IDLE"
       /\ \A v \in VMs : v \notin used => t.vm[v] = w.vm[v]
  <2>1. ASSUME NEW v \in used PROVE m2[v].state = "IDLE"
    <3>1. v \in VMs
      BY <1>2
    <3>2. m[v] \in VMRecs
      <4> HIDE DEF VMRecs
      <4> QED BY <3>1
    <3>3. m2[v] = [m[v] EXCEPT !.state = "IDLE", !.pending = "none"]
      BY <1>1, <1>3, <3>1
    <3> QED BY <3>2, <3>3, RecUsed
  <2>2. \A v \in VMs : v \notin used => m2[v] = m[v]
    BY <1>1, <1>3
  <2> QED BY <1>1, <1>9, <2>1, <2>2
<1>14. IsGiven(w, t, used)
  BY <1>1, <1>9, <1>13 DEF IsGiven
<1> QED BY <1>9, <1>11, <1>12, <1>14

LEMMA StartKeeps ==
  ASSUME NEW D, NEW C \in SUBSET Jobs, NEW w \in GoodWorlds, Sound(w, D, C), NEW u \in Users,
         NEW chunk, \A v \in chunk : v \in VMs /\ w.vm[v].state = "OFF",
         NEW s, s = StartAttended(w, u, chunk)
  PROVE  Keeps(w, s, D, C)
<1>1. PICK used : used = Used(w, u, chunk)
  OBVIOUS
<1>2. PICK t : t = Given(w, used)
  OBVIOUS
<1>3. s = ScheduleUnlessFinalizing(t, u)
  BY <1>1, <1>2 DEF StartAttended, Used, Given
<1>4. \A v \in used : v \in VMs /\ w.vm[v].state = "OFF"
  BY <1>1 DEF Used
<1>5. t \in GoodWorlds /\ Sound(t, D, C) /\ Same(w, t)
  BY <1>2, <1>4, GivenSound
<1>6. Keeps(t, s, D, C)
  BY <1>3, <1>5, UnlessFinalizingKeeps
<1> QED BY <1>5, <1>6, SameThen DEF Keeps
-----------------------------------------------------------------------------
(* The queue of the requests during a pass. *)

PutQueue(w, q) == [w EXCEPT !.queue = q]

LEMMA QueueDoes ==
  ASSUME NEW w \in GoodWorlds, NEW q \in Queues, NEW s, s = PutQueue(w, q)
  PROVE  /\ s \in GoodWorlds /\ s.queue = q /\ s.vm = w.vm /\ s.job = w.job /\ s.user = w.user
         /\ s.awaiting = w.awaiting
<1>1. PICK m \in [VMs -> VMRecs], b \in [Jobs -> JobRecs], f \in GoodUsers, a \in SUBSET VMs :
        /\ w = [queue |-> w.queue, vm |-> m, job |-> b, user |-> f, awaiting |-> a]
        /\ w.vm = m /\ w.job = b /\ w.user = f /\ w.awaiting = a
  BY WorldParts
<1>2. s = [queue |-> q, vm |-> m, job |-> b, user |-> f, awaiting |-> a]
  BY <1>1 DEF PutQueue
<1>3. /\ s \in GoodWorlds /\ s.queue = q /\ s.vm = m /\ s.job = b /\ s.user = f /\ s.awaiting = a
  BY <1>2, MakeWorld
<1> QED BY <1>1, <1>3

\* Another queue with the same FREEs and STORAGEs.
LEMMA QueueKeeps ==
  ASSUME NEW D, NEW C, NEW w \in GoodWorlds, Sound(w, D, C), NEW q \in Queues,
         \A v \in VMs : Count(q, Free(v)) = Count(w.queue, Free(v)),
         \A j \in Jobs, v \in VMs : Count(q, Storage(j, v)) = Count(w.queue, Storage(j, v)),
         NEW s, s = PutQueue(w, q)
  PROVE  s \in GoodWorlds /\ Sound(s, D, C) /\ s.vm = w.vm
<1>1. /\ s \in GoodWorlds /\ s.queue = q /\ s.vm = w.vm /\ s.job = w.job /\ s.user = w.user
      /\ s.awaiting = w.awaiting
  BY QueueDoes
<1>2. ListsExact(s)
  BY <1>1, ListsSame DEF Sound
<1>3. /\ \A u \in Users : s.user[u].shutdowns = w.user[u].shutdowns
      /\ \A v \in VMs : Count(s.queue, Free(v)) = Count(w.queue, Free(v))
      /\ \A j \in Jobs, v \in VMs : Count(s.queue, Storage(j, v)) = Count(w.queue, Storage(j, v))
  BY <1>1
<1> QED BY <1>1, <1>2, <1>3, Unaffected

LEMMA AdvanceKeeps ==
  ASSUME NEW D, NEW C, NEW w \in GoodWorlds, Sound(w, D, C), NEW s, s = Advance(w)
  PROVE  s \in GoodWorlds /\ Sound(s, D, C) /\ s.vm = w.vm
<1>1. PICK q : q = [w.queue EXCEPT !.next = @ + 1]
  OBVIOUS
<1>2. w.queue \in Queues
  BY WorldParts
<1>3. q \in Queues /\ q.requests = w.queue.requests /\ q.temporal = w.queue.temporal
  BY <1>1, <1>2 DEF Queues
<1>4. s = PutQueue(w, q)
  BY <1>1 DEF Advance, PutQueue
<1>5. \A x : Count(q, x) = Count(w.queue, x)
  BY <1>3 DEF Count
<1> QED BY <1>3, <1>4, <1>5, QueueKeeps

\* The request the pass is at leaves the queue, and is counted once less.
Lacks(w, s, r) ==
  \E q \in Queues : /\ s = PutQueue(w, q)
                    /\ \A x : Count(q, x) = Count(w.queue, x) - (IF r = x THEN 1 ELSE 0)

LEMMA EraseDoes ==
  ASSUME NEW w \in GoodWorlds, w.queue.next <= Len(w.queue.requests),
         NEW s, s = EraseRequest(w), NEW r, r = w.queue.requests[w.queue.next]
  PROVE  r \in Requests /\ Count(w.queue, r) >= 1 /\ Lacks(w, s, r)
<1>1. PICK g \in Queues : g = w.queue
  BY WorldParts
<1>2. g.requests \in Seq(Requests) /\ g.temporal \in Seq(Requests) /\ g.next \in Nat \ {0}
  BY QueueParts
<1>3. PICK l \in Seq(Requests), n \in Nat \ {0} : l = g.requests /\ n = g.next
  BY <1>2
<1>4. n \in 1 .. Len(l)
  BY <1>1, <1>3
<1>5. l[n] \in Requests /\ In(l, l[n]) >= 1
  BY <1>4, InSome
<1>6. PICK e : e = SubSeq(l, 1, n - 1) \o SubSeq(l, n + 1, Len(l))
  OBVIOUS
<1>7. e \in Seq(Requests) /\ \A x : In(e, x) = In(l, x) - (IF l[n] = x THEN 1 ELSE 0)
  BY <1>4, <1>6, InErase
<1>8. PICK q : q = [g EXCEPT !.requests = e]
  OBVIOUS
<1>9. /\ q \in Queues /\ q.requests = e /\ q.temporal = g.temporal /\ q.next = g.next
      /\ q.blocked = g.blocked
  BY <1>7, <1>8 DEF Queues
<1>10. s = PutQueue(w, q)
  BY <1>1, <1>3, <1>6, <1>8 DEF EraseRequest, PutQueue
<1>11. \A x : In(l, x) \in Nat /\ In(g.temporal, x) \in Nat
  BY <1>2, <1>3, InType
<1>12. \A x : Count(q, x) = Count(g, x) - (IF l[n] = x THEN 1 ELSE 0)
  BY <1>3, <1>7, <1>9, <1>11 DEF Count
<1>13. Count(g, l[n]) >= 1
  BY <1>3, <1>5, <1>11 DEF Count
<1>14. r = l[n]
  BY <1>1, <1>3
<1>15. Lacks(w, s, r)
  BY <1>1, <1>9, <1>10, <1>12, <1>14 DEF Lacks
<1> QED BY <1>1, <1>5, <1>13, <1>14, <1>15

\* A START or an ABANDON leaves the queue.
LEMMA EraseKeeps ==
  ASSUME NEW D, NEW C, NEW w \in GoodWorlds, Sound(w, D, C),
         w.queue.next <= Len(w.queue.requests),
         w.queue.requests[w.queue.next].op \in {"start", "abandon"}, NEW s, s = EraseRequest(w)
  PROVE  s \in GoodWorlds /\ Sound(s, D, C) /\ s.vm = w.vm
<1>1. PICK r \in Requests : r = w.queue.requests[w.queue.next]
  BY EraseDoes
<1>2. PICK q \in Queues : /\ s = PutQueue(w, q)
                          /\ \A x : Count(q, x) = Count(w.queue, x) - (IF r = x THEN 1 ELSE 0)
  <2>1. Lacks(w, s, r)
    BY <1>1, EraseDoes
  <2> QED BY <2>1 DEF Lacks
<1>3. /\ \A v \in VMs : r # Free(v)
      /\ \A j \in Jobs, v \in VMs : r # Storage(j, v)
  BY <1>1 DEF Free, Storage
<1>4. \A x : Count(w.queue, x) \in Nat
  BY WorldParts, CountType
<1>5. /\ \A v \in VMs : Count(q, Free(v)) = Count(w.queue, Free(v))
      /\ \A j \in Jobs, v \in VMs : Count(q, Storage(j, v)) = Count(w.queue, Storage(j, v))
  BY <1>2, <1>3, <1>4
<1> QED BY <1>2, <1>5, QueueKeeps

\* The pass is at the request r.
IsAt(w, r) == w.queue.next <= Len(w.queue.requests) /\ w.queue.requests[w.queue.next] = r

\* A FREE leaves the queue: its VM is now one to be deleted.
LEMMA EraseFree ==
  ASSUME NEW D, NEW C, NEW w \in GoodWorlds, Sound(w, D, C),
         NEW v \in VMs, IsAt(w, Free(v)), NEW s, s = EraseRequest(w)
  PROVE  s \in GoodWorlds /\ Sound(s, D \cup {v}, C) /\ s.vm = w.vm
<1>0. PICK r : /\ r = w.queue.requests[w.queue.next] /\ r = Free(v)
               /\ w.queue.next <= Len(w.queue.requests)
  BY DEF IsAt
<1>1. Count(w.queue, Free(v)) >= 1
  BY <1>0, EraseDoes
<1>2. PICK q \in Queues :
        /\ s = PutQueue(w, q)
        /\ \A x : Count(q, x) = Count(w.queue, x) - (IF Free(v) = x THEN 1 ELSE 0)
  <2>1. Lacks(w, s, r)
    BY <1>0, EraseDoes
  <2> QED BY <1>0, <2>1 DEF Lacks
<1>3. /\ s \in GoodWorlds /\ s.queue = q /\ s.vm = w.vm /\ s.job = w.job /\ s.user = w.user
      /\ s.awaiting = w.awaiting
  BY <1>2, QueueDoes
<1>4. \A x : Count(w.queue, x) \in Nat
  BY WorldParts, CountType
<1>5. Balanced(w, D, C)
  BY DEF Sound
<1>6. v \notin D /\ w.vm[v].pending = "shutdown" /\ Count(w.queue, Free(v)) = 1
  BY <1>1, <1>4, <1>5 DEF Balanced
<1>7. ASSUME NEW x \in VMs
      PROVE  Count(s.queue, Free(x)) + (IF x \in D \cup {v} THEN 1 ELSE 0)
               = (IF s.vm[x].pending = "shutdown" THEN 1 ELSE 0)
  <2>1. CASE x = v
    BY <1>2, <1>3, <1>6, <2>1
  <2>2. CASE x # v
    <3>1. Free(v) # Free(x)
      BY <2>2, RequestsDiffer
    <3> QED BY <1>2, <1>3, <1>4, <1>5, <2>2, <3>1 DEF Balanced
  <2> QED BY <2>1, <2>2
<1>8. \A j \in Jobs, x \in VMs : Count(s.queue, Storage(j, x)) = Count(w.queue, Storage(j, x))
  BY <1>2, <1>3, <1>4, RequestsDiffer
<1>9. Balanced(s, D \cup {v}, C)
  BY <1>3, <1>5, <1>7, <1>8 DEF Balanced
<1>10. ListsExact(s)
  BY <1>3, ListsSame DEF Sound
<1>11. JobsPlaced(s)
  <2>1. \A k \in Jobs : On(s, k) <=> On(w, k)
    BY <1>3 DEF On
  <2> HIDE DEF On
  <2>2. JobsPlaced(w)
    BY DEF Sound
  <2> QED BY <1>3, <2>1, <2>2 DEF JobsPlaced
<1>12. VMsConsistent(s)
  BY <1>3 DEF Sound, VMsConsistent
<1> QED BY <1>3, <1>9, <1>10, <1>11, <1>12 DEF Sound

\* A STORAGE leaves the queue: the nodes of its job have been asked to connect.
LEMMA EraseStorage ==
  ASSUME NEW D, NEW C \in SUBSET Jobs, NEW w \in GoodWorlds, Sound(w, D, C),
         NEW j \in Jobs, NEW v \in VMs, IsAt(w, Storage(j, v)), NEW s, s = EraseRequest(w)
  PROVE  s \in GoodWorlds /\ Sound(s, D, C \cup {j}) /\ s.vm = w.vm
<1>0. PICK r : /\ r = w.queue.requests[w.queue.next] /\ r = Storage(j, v)
               /\ w.queue.next <= Len(w.queue.requests)
  BY DEF IsAt
<1>1. Count(w.queue, Storage(j, v)) >= 1
  BY <1>0, EraseDoes
<1>2. PICK q \in Queues :
        /\ s = PutQueue(w, q)
        /\ \A x : Count(q, x) = Count(w.queue, x) - (IF Storage(j, v) = x THEN 1 ELSE 0)
  <2>1. Lacks(w, s, r)
    BY <1>0, EraseDoes
  <2> QED BY <1>0, <2>1 DEF Lacks
<1>3. /\ s \in GoodWorlds /\ s.queue = q /\ s.vm = w.vm /\ s.job = w.job /\ s.user = w.user
      /\ s.awaiting = w.awaiting
  BY <1>2, QueueDoes
<1>4. \A x : Count(w.queue, x) \in Nat
  BY WorldParts, CountType
<1>5. Balanced(w, D, C)
  BY DEF Sound
<1>6. /\ w.job[j] = [place |-> "storage", vm |-> v] /\ j \notin C
      /\ Count(w.queue, Storage(j, v)) = 1
  BY <1>1, <1>5 DEF Balanced
<1>7. ASSUME NEW k \in Jobs, NEW x \in VMs
      PROVE  Count(s.queue, Storage(k, x)) =
               (IF s.job[k] = [place |-> "storage", vm |-> x] /\ k \notin C \cup {j} THEN 1 ELSE 0)
  <2>0. Count(w.queue, Storage(k, x)) =
          (IF w.job[k] = [place |-> "storage", vm |-> x] /\ k \notin C THEN 1 ELSE 0)
    BY <1>5 DEF Balanced
  <2>1. CASE k = j /\ x = v
    BY <1>2, <1>3, <1>6, <2>1
  <2>2. CASE k = j /\ x # v
    <3>1. Storage(j, v) # Storage(k, x)
      BY <2>2, RequestsDiffer
    <3>2. w.job[k] # [place |-> "storage", vm |-> x]
      BY <1>6, <2>2
    <3> QED BY <1>2, <1>3, <2>0, <2>2, <3>1, <3>2
  <2>3. CASE k # j
    <3>1. Storage(j, v) # Storage(k, x)
      BY <2>3, RequestsDiffer
    <3> QED BY <1>2, <1>3, <1>4, <2>0, <2>3, <3>1
  <2> QED BY <2>1, <2>2, <2>3
<1>8. \A x \in VMs : Count(s.queue, Free(x)) = Count(w.queue, Free(x))
  BY <1>2, <1>3, <1>4, RequestsDiffer
<1>9. \A k \in C \cup {j} : s.job[k].place = "storage"
  BY <1>3, <1>5, <1>6 DEF Balanced
<1>10. Balanced(s, D, C \cup {j})
  BY <1>3, <1>5, <1>7, <1>8, <1>9 DEF Balanced
<1>11. ListsExact(s)
  BY <1>3, ListsSame DEF Sound
<1>12. JobsPlaced(s)
  <2>1. \A k \in Jobs : On(s, k) <=> On(w, k)
    BY <1>3 DEF On
  <2> HIDE DEF On
  <2>2. JobsPlaced(w)
    BY DEF Sound
  <2> QED BY <1>3, <2>1, <2>2 DEF JobsPlaced
<1>13. VMsConsistent(s)
  BY <1>3 DEF Sound, VMsConsistent
<1> QED BY <1>3, <1>10, <1>11, <1>12, <1>13 DEF Sound
-----------------------------------------------------------------------------
(* The inductive invariant. *)

Asked == {j \in Jobs : pending.connect[j] > 0}

\* A notification is on its way for each one the manager counts, and it counts
\* none for a VM that it is not about to delete.
Joins == failed \/
  /\ flight = pending
  /\ \A j \in Jobs : pending.connect[j] >= 0
  /\ \A v \in VMs : /\ pending.format[v] >= 0 /\ pending.close[v] >= 0
                    /\ v \notin toDelete => pending.format[v] = 0 /\ pending.close[v] = 0

Typed ==
  /\ stored \in [Users -> Seq(VMs)] /\ pending \in PendingType /\ flight \in PendingType
  /\ toDelete \subseteq VMs /\ dirty \subseteq VMs /\ failed \in BOOLEAN /\ partial \in BOOLEAN

IInv == /\ World \in GoodWorlds /\ Sound(World, toDelete, Asked) /\ Room(World)
        /\ Typed /\ Joins

\* The world after a step, from the world that it becomes.
LEMMA Becomes ==
  ASSUME NEW w \in GoodWorlds, Become(w)
  PROVE  World' = w
<1>1. /\ queue' = w.queue /\ vm' = w.vm /\ job' = w.job /\ user' = w.user
      /\ awaiting' = w.awaiting
  BY DEF Become
<1>2. w = [queue |-> w.queue, vm |-> w.vm, job |-> w.job, user |-> w.user,
           awaiting |-> w.awaiting]
  BY WorldParts
<1> QED BY <1>1, <1>2 DEF World

LEMMA WorldIs ==
  /\ World.queue = queue /\ World.vm = vm /\ World.job = job /\ World.user = user
  /\ World.awaiting = awaiting
  BY DEF World

LEMMA SameRoom ==
  ASSUME NEW w, NEW s, Room(w), \A v \in VMs : s.vm[v].host = w.vm[v].host
  PROVE  Room(s)
<1>1. \A n \in Nodes : Linked(s, n) = Linked(w, n)
  BY DEF Linked
<1> QED BY <1>1 DEF Room

\* A step of the world alone.
LEMMA WorldStep ==
  ASSUME IInv, NEW w \in GoodWorlds, Become(w), Sound(w, toDelete, Asked), Room(w),
         UNCHANGED <<stored, pending, flight, toDelete, dirty, failed>>, partial' \in BOOLEAN
  PROVE  IInv'
<1>1. World' = w
  BY Becomes
<1>2. Asked' = Asked
  BY DEF Asked
<1>3. PICK D, C : D = toDelete /\ C = Asked
  OBVIOUS
<1>4. Sound(World', toDelete', Asked')
  BY <1>1, <1>2
<1>5. Typed' /\ Joins'
  BY DEF IInv, Typed, Joins
<1> QED BY <1>1, <1>4, <1>5 DEF IInv

LEMMA KeepsStep ==
  ASSUME IInv, NEW w, Become(w), Keeps(World, w, toDelete, Asked),
         UNCHANGED <<stored, pending, flight, toDelete, dirty, failed>>, partial' \in BOOLEAN
  PROVE  IInv'
<1>1. w \in GoodWorlds /\ Sound(w, toDelete, Asked) /\ \A v \in VMs : w.vm[v].host = World.vm[v].host
  BY DEF Keeps, Same
<1>2. Room(w)
  BY <1>1, SameRoom DEF IInv
<1> QED BY <1>1, <1>2, WorldStep

LEMMA UserArrivesKeeps ==
  ASSUME IInv, NEW u \in Users, UserArrives(u)
  PROVE  IInv'
<1>1. PICK t : t = PutStatus(World, u, "active")
  OBVIOUS
<1>2. PICK w : w = UserSendRequest(t, Start(u))
  OBVIOUS
<1>3. Become(w)
  BY <1>1, <1>2 DEF UserArrives, PutStatus
<1>4. Keeps(World, w, toDelete, Asked)
  <2>1. World \in GoodWorlds /\ Sound(World, toDelete, Asked) /\ Asked \in SUBSET Jobs
    BY DEF IInv, Asked
  <2> QED BY <1>1, <1>2, <2>1, StatusKeeps
<1> QED BY <1>3, <1>4, KeepsStep DEF UserArrives, IInv, Typed

LEMMA JobFinishesKeeps ==
  ASSUME IInv, NEW j \in Jobs, JobFinishes(j)
  PROVE  IInv'
<1>1. PICK w : w = NotifyUserJobHasFinished(World, j)
  OBVIOUS
<1>2. Become(w)
  BY <1>1 DEF JobFinishes
<1>3. Keeps(World, w, toDelete, Asked)
  <2>1. /\ World \in GoodWorlds /\ Sound(World, toDelete, Asked) /\ Asked \in SUBSET Jobs
        /\ World.job[j].place = "running"
    BY WorldIs DEF IInv, Asked, JobFinishes
  <2> QED BY <1>1, <2>1, NotifyKeeps
<1> QED BY <1>2, <1>3, KeepsStep DEF JobFinishes, IInv, Typed

LEMMA WakeKeeps ==
  ASSUME IInv, NEW u \in Users, Wake(u)
  PROVE  IInv'
<1>1. /\ World \in GoodWorlds /\ Sound(World, toDelete, Asked) /\ Asked \in SUBSET Jobs
  BY DEF IInv, Asked
<1>2. PICK f \in GoodUsers : f = World.user
  BY <1>1, WorldParts
<1>3. PICK r : r = [f[u] EXCEPT !.wake = @ - 1]
  OBVIOUS
<1>4. r \in UserRecs(u) /\ r.waiting = f[u].waiting /\ r.shutdowns = f[u].shutdowns
  <2>1. f[u] \in UserRecs(u) /\ f[u].wake > 0 /\ f[u].wake \in Nat
    BY <1>2, UserParts, WorldIs DEF Wake
  <2> QED BY <1>3, <2>1 DEF UserRecs
<1>5. PICK t : t = PutUser(World, u, r)
  OBVIOUS
<1>6. /\ t \in GoodWorlds /\ t.queue = World.queue /\ t.vm = World.vm /\ t.job = World.job
      /\ t.awaiting = World.awaiting /\ t.user[u] = r
      /\ \A y \in Users : y # u => t.user[y] = World.user[y]
  BY <1>1, <1>4, <1>5, UserDoes
<1>7. Keeps(World, t, toDelete, Asked)
  <2>1. /\ \A y \in Users : t.user[y].waiting = World.user[y].waiting
        /\ \A y \in Users : t.user[y].shutdowns = World.user[y].shutdowns
    BY <1>2, <1>4, <1>6
  <2>2. ListsExact(t)
    BY <1>1, <1>6, <2>1, ListsSame DEF Sound
  <2>3. Sound(t, toDelete, Asked)
    BY <1>1, <1>6, <2>1, <2>2, Unaffected
  <2>4. Same(World, t)
    BY <1>6 DEF Same
  <2> QED BY <2>3, <2>4 DEF Keeps
<1>8. ExecutePendingJobs(t, u) = t
  BY <1>6, <1>7, NothingReady DEF Keeps
<1>9. PICK w : w = Schedule(t, u)
  OBVIOUS
<1>10. Become(w)
  <2>1. t = [World EXCEPT !.user[u].wake = @ - 1]
    BY <1>2, <1>3, <1>5 DEF PutUser
  <2> QED BY <1>8, <1>9, <2>1 DEF Wake
<1>11. Keeps(t, w, toDelete, Asked)
  BY <1>1, <1>6, <1>7, <1>9, ScheduleKeeps DEF Keeps
<1>12. Keeps(World, w, toDelete, Asked)
  BY <1>7, <1>11, SameThen DEF Keeps
<1> QED BY <1>10, <1>12, KeepsStep DEF Wake, IInv, Typed
-----------------------------------------------------------------------------
(* The notifications of the nodes. *)

PutConnect(p, j, n) == [p EXCEPT !.connect[j] = n]
PutCounts(p, v, f, c) == [p EXCEPT !.format[v] = f, !.close[v] = c]

LEMMA ConnectSet ==
  ASSUME NEW p \in PendingType, NEW j \in Jobs, NEW n \in Int, NEW t, t = PutConnect(p, j, n)
  PROVE  /\ t \in PendingType /\ t.connect[j] = n /\ t.format = p.format /\ t.close = p.close
         /\ \A k \in Jobs : k # j => t.connect[k] = p.connect[k]
  BY DEF PendingType, PutConnect

LEMMA CountsSet ==
  ASSUME NEW p \in PendingType, NEW v \in VMs, NEW f \in Int, NEW c \in Int,
         NEW t, t = PutCounts(p, v, f, c)
  PROVE  /\ t \in PendingType /\ t.connect = p.connect /\ t.format[v] = f /\ t.close[v] = c
         /\ \A x \in VMs : x # v => t.format[x] = p.format[x] /\ t.close[x] = p.close[x]
  BY DEF PendingType, PutCounts

LEMMA CountsTyped ==
  ASSUME NEW p \in PendingType
  PROVE  /\ \A j \in Jobs : p.connect[j] \in Int
         /\ \A v \in VMs : p.format[v] \in Int /\ p.close[v] \in Int
  BY DEF PendingType

LEMMA OneFormat ==
  ASSUME NEW p \in PendingType, NEW v \in VMs, NEW n
  PROVE  [p EXCEPT !.format[v] = n] = PutCounts(p, v, n, p.close[v])
<1>1. p = [connect |-> p.connect, format |-> p.format, close |-> p.close]
      /\ [p.close EXCEPT ![v] = p.close[v]] = p.close
  BY DEF PendingType
<1> QED BY <1>1 DEF PutCounts

LEMMA OneClose ==
  ASSUME NEW p \in PendingType, NEW v \in VMs, NEW n
  PROVE  [p EXCEPT !.close[v] = n] = PutCounts(p, v, p.format[v], n)
<1>1. p = [connect |-> p.connect, format |-> p.format, close |-> p.close]
      /\ [p.format EXCEPT ![v] = p.format[v]] = p.format
  BY DEF PendingType
<1> QED BY <1>1 DEF PutCounts

LEMMA StorageReadyKeeps ==
  ASSUME IInv, NEW j \in Jobs, StorageReady(j)
  PROVE  IInv'
<1>0. /\ World \in GoodWorlds /\ Sound(World, toDelete, Asked) /\ Asked \in SUBSET Jobs
      /\ Room(World) /\ ~failed /\ Typed
  BY DEF IInv, Asked, StorageReady, NoPass
<1>1. PICK p \in PendingType : p = pending /\ flight = p
  BY <1>0 DEF IInv, Typed, Joins
<1>2. /\ p.connect[j] > 0 /\ p.connect[j] \in Int
      /\ flight' = [flight EXCEPT !.connect[j] = @ - 1]
      /\ pending' = [pending EXCEPT !.connect[j] = @ - 1]
      /\ Become(IF pending.connect[j] = 1 THEN StorageAttended(World, j[1], job[j].vm) ELSE World)
      /\ UNCHANGED <<stored, toDelete, failed, partial, dirty>>
  BY <1>1, CountsTyped DEF StorageReady
<1>3. PICK n \in Nat : n = p.connect[j] - 1
  BY <1>2
<1>4. PICK t : t = PutConnect(p, j, n)
  OBVIOUS
<1>5. pending' = t /\ flight' = t
  BY <1>1, <1>2, <1>3, <1>4 DEF PutConnect
<1>6. /\ t \in PendingType /\ t.connect[j] = n /\ t.format = p.format /\ t.close = p.close
      /\ \A k \in Jobs : k # j => t.connect[k] = p.connect[k]
  BY <1>4, ConnectSet
<1>7. Typed'
  BY <1>0, <1>2, <1>5, <1>6 DEF Typed
<1>8. Joins'
  <2>1. /\ \A k \in Jobs : p.connect[k] >= 0
        /\ \A v \in VMs : /\ p.format[v] >= 0 /\ p.close[v] >= 0
                          /\ v \notin toDelete => p.format[v] = 0 /\ p.close[v] = 0
    BY <1>0, <1>1 DEF IInv, Joins
  <2>2. \A k \in Jobs : t.connect[k] >= 0
    BY <1>3, <1>6, <2>1
  <2> QED BY <1>2, <1>5, <1>6, <2>1, <2>2 DEF Joins
<1>9. CASE n > 0
  <2>1. World' = World
    BY <1>0, <1>1, <1>2, <1>3, <1>9, Becomes
  <2>2. Asked' = Asked
    <3>1. \A k \in Jobs : t.connect[k] > 0 <=> p.connect[k] > 0
      BY <1>2, <1>6, <1>9
    <3> QED BY <1>1, <1>5, <3>1 DEF Asked
  <2>3. Sound(World', toDelete', Asked')
    BY <1>0, <1>2, <2>1, <2>2
  <2> QED BY <1>0, <1>7, <1>8, <2>1, <2>3 DEF IInv
<1>10. CASE n = 0
  <2>1. PICK w : w = StorageAttended(World, j[1], job[j].vm)
    OBVIOUS
  <2>2. Become(w)
    BY <1>1, <1>2, <1>3, <1>10, <2>1
  <2>3. j \in Asked
    BY <1>1, <1>2 DEF Asked
  <2>4. job[j].vm = World.job[j].vm
    BY WorldIs
  <2>5. Keeps(World, w, toDelete, Asked \ {j})
    BY <1>0, <2>1, <2>3, <2>4, StorageAttendedKeeps
  <2>6. w \in GoodWorlds /\ Sound(w, toDelete, Asked \ {j}) /\ Room(w)
    BY <1>0, <2>5, SameRoom DEF Keeps, Same
  <2>7. World' = w
    BY <2>2, <2>6, Becomes
  <2>8. Asked' = Asked \ {j}
    <3>1. \A k \in Jobs : t.connect[k] > 0 <=> p.connect[k] > 0 /\ k # j
      BY <1>6, <1>10
    <3> QED BY <1>1, <1>5, <3>1 DEF Asked
  <2>9. Sound(World', toDelete', Asked')
    BY <1>2, <2>6, <2>7, <2>8
  <2> QED BY <1>7, <1>8, <2>6, <2>7, <2>9 DEF IInv
<1>11. n > 0 \/ n = 0
  OBVIOUS
<1> QED BY <1>9, <1>10, <1>11

\* One count of v is down by one; if both are zero now, the VM goes.
LEMMA CountDown ==
  ASSUME IInv, ~failed, NEW v \in VMs, NEW f \in Nat, NEW c \in Nat,
         pending.format[v] > 0 \/ pending.close[v] > 0,
         pending' = PutCounts(pending, v, f, c), flight' = PutCounts(flight, v, f, c),
         UNCHANGED <<stored, partial, dirty>>,
         IF f = 0 /\ c = 0 THEN Release(v) ELSE UNCHANGED <<world, toDelete, failed>>
  PROVE  IInv'
<1>0. /\ World \in GoodWorlds /\ Sound(World, toDelete, Asked) /\ Asked \in SUBSET Jobs
      /\ Room(World) /\ Typed
  BY DEF IInv, Asked
<1>1. PICK p \in PendingType : p = pending /\ flight = p
  BY <1>0 DEF IInv, Typed, Joins
<1>2. PICK t : t = PutCounts(p, v, f, c)
  OBVIOUS
<1>3. pending' = t /\ flight' = t
  BY <1>1, <1>2
<1>4. /\ t \in PendingType /\ t.connect = p.connect /\ t.format[v] = f /\ t.close[v] = c
      /\ \A x \in VMs : x # v => t.format[x] = p.format[x] /\ t.close[x] = p.close[x]
  BY <1>2, CountsSet
<1>5. /\ \A k \in Jobs : p.connect[k] >= 0
      /\ \A x \in VMs : /\ p.format[x] >= 0 /\ p.close[x] >= 0
                        /\ x \notin toDelete => p.format[x] = 0 /\ p.close[x] = 0
  BY <1>1 DEF IInv, Joins
<1>6. v \in toDelete
  BY <1>1, <1>5
<1>7. Asked' = Asked
  BY <1>1, <1>3, <1>4 DEF Asked
<1>8. ASSUME UNCHANGED <<world, toDelete>>, failed' \in BOOLEAN PROVE IInv'
  <2>1. World' = World
    BY <1>8 DEF world, World
  <2>2. Sound(World', toDelete', Asked')
    BY <1>0, <1>7, <1>8, <2>1
  <2>3. Typed'
    BY <1>0, <1>3, <1>4, <1>8 DEF Typed
  <2>4. Joins'
    BY <1>3, <1>4, <1>5, <1>6, <1>8 DEF Joins
  <2> QED BY <1>0, <2>1, <2>2, <2>3, <2>4 DEF IInv
<1>9. CASE ~(f = 0 /\ c = 0)
  BY <1>0, <1>8, <1>9 DEF Typed
<1>10. CASE f = 0 /\ c = 0
  <2>1. Release(v)
    BY <1>10
  <2>2. CASE Processes(World, v) # {}
    BY <1>0, <1>8, <2>1, <2>2 DEF Release, Typed
  <2>3. CASE Processes(World, v) = {} /\ user[v[1]].status = "gone"
    BY <1>8, <2>1, <2>3 DEF Release
  <2>4. CASE Processes(World, v) = {} /\ user[v[1]].status # "gone"
    <3>1. PICK w : w = FreeAttended(UnlinkVM(World, v), v[1], v)
      OBVIOUS
    <3>2. Become(w) /\ toDelete' = toDelete \ {v} /\ UNCHANGED failed
      BY <1>6, <2>1, <2>4, <3>1 DEF Release
    <3>3. /\ w \in GoodWorlds /\ Sound(w, toDelete \ {v}, Asked) /\ w.vm[v].host = NoNode
          /\ \A x \in VMs : x # v => w.vm[x].host = World.vm[x].host
      BY SMTT(30), <1>0, <1>6, <3>1, FreeAttendedSound
    <3>4. World' = w
      BY <3>2, <3>3, Becomes
    <3>5. Sound(World', toDelete', Asked')
      BY <1>7, <3>2, <3>3, <3>4
    <3>6. Room(w)
      <4>1. ASSUME NEW n \in Nodes PROVE Cardinality(Linked(w, n)) <= MaxVMs
        <5>1. Linked(w, n) \subseteq Linked(World, n)
          <6>1. n # NoNode
            BY DEF Nodes, NoNode
          <6> QED BY <3>3, <6>1 DEF Linked
        <5>2. Cardinality(Linked(w, n)) <= Cardinality(Linked(World, n))
          BY <5>1, LinkedFinite, FS_Subset
        <5>3. /\ Cardinality(Linked(w, n)) \in Nat /\ Cardinality(Linked(World, n)) \in Nat
              /\ MaxVMs \in Nat
          BY LinkedFinite, CloudAssumption
        <5>4. Cardinality(Linked(World, n)) <= MaxVMs
          BY <1>0 DEF Room
        <5> QED BY <5>2, <5>3, <5>4
      <4> QED BY <4>1 DEF Room
    <3>7. Typed'
      BY <1>0, <1>3, <1>4, <3>2 DEF Typed
    <3>8. Joins'
      BY <1>3, <1>4, <1>5, <1>10, <3>2 DEF Joins
    <3> QED BY <3>3, <3>4, <3>5, <3>6, <3>7, <3>8 DEF IInv
  <2> QED BY <2>2, <2>3, <2>4
<1> QED BY <1>9, <1>10

LEMMA FSFormattedKeeps ==
  ASSUME IInv, NEW v \in VMs, FSFormatted(v)
  PROVE  IInv'
<1>0. /\ ~failed /\ Typed /\ flight = pending
      /\ \A x \in VMs : pending.format[x] >= 0 /\ pending.close[x] >= 0
  BY DEF IInv, Joins, FSFormatted, NoPass
<1>1. PICK p \in PendingType : p = pending /\ flight = p
  BY <1>0 DEF Typed
<1>2. /\ p.format[v] \in Int /\ p.close[v] \in Int /\ p.format[v] > 0 /\ p.close[v] >= 0
      /\ [p EXCEPT !.format[v] = @ - 1] = PutCounts(p, v, p.format[v] - 1, p.close[v])
  <2>1. p.format[v] \in Int /\ p.close[v] \in Int
    BY CountsTyped
  <2>2. p.format[v] >= 0 /\ p.close[v] >= 0 /\ p.format[v] > 0
    BY <1>0, <1>1 DEF FSFormatted
  <2>3. [p EXCEPT !.format[v] = p.format[v] - 1] = PutCounts(p, v, p.format[v] - 1, p.close[v])
    <3>1. PICK n : n = p.format[v] - 1
      OBVIOUS
    <3> QED BY <3>1, OneFormat
  <2> QED BY <2>1, <2>2, <2>3
<1>3. PICK f \in Nat, c \in Nat : f = p.format[v] - 1 /\ c = p.close[v]
  BY <1>2
<1>4. pending' = PutCounts(pending, v, f, c) /\ flight' = PutCounts(flight, v, f, c)
  BY <1>1, <1>2, <1>3 DEF FSFormatted
<1>5. IF f = 0 /\ c = 0 THEN Release(v) ELSE UNCHANGED <<world, toDelete, failed>>
  BY <1>1, <1>2, <1>3 DEF FSFormatted
<1> QED BY <1>0, <1>1, <1>2, <1>4, <1>5, CountDown DEF FSFormatted

LEMMA ConnectionsClosedKeeps ==
  ASSUME IInv, NEW v \in VMs, ConnectionsClosed(v)
  PROVE  IInv'
<1>0. /\ ~failed /\ Typed /\ flight = pending
      /\ \A x \in VMs : pending.format[x] >= 0 /\ pending.close[x] >= 0
  BY DEF IInv, Joins, ConnectionsClosed, NoPass
<1>1. PICK p \in PendingType : p = pending /\ flight = p
  BY <1>0 DEF Typed
<1>2. /\ p.format[v] \in Int /\ p.close[v] \in Int /\ p.format[v] >= 0 /\ p.close[v] > 0
      /\ [p EXCEPT !.close[v] = @ - 1] = PutCounts(p, v, p.format[v], p.close[v] - 1)
  <2>1. p.format[v] \in Int /\ p.close[v] \in Int
    BY CountsTyped
  <2>2. p.format[v] >= 0 /\ p.close[v] >= 0 /\ p.close[v] > 0
    BY <1>0, <1>1 DEF ConnectionsClosed
  <2>3. [p EXCEPT !.close[v] = p.close[v] - 1] = PutCounts(p, v, p.format[v], p.close[v] - 1)
    <3>1. PICK n : n = p.close[v] - 1
      OBVIOUS
    <3> QED BY <3>1, OneClose
  <2> QED BY <2>1, <2>2, <2>3
<1>3. PICK f \in Nat, c \in Nat : f = p.format[v] /\ c = p.close[v] - 1
  BY <1>2
<1>4. pending' = PutCounts(pending, v, f, c) /\ flight' = PutCounts(flight, v, f, c)
  BY <1>1, <1>2, <1>3 DEF ConnectionsClosed
<1>5. IF f = 0 /\ c = 0 THEN Release(v) ELSE UNCHANGED <<world, toDelete, failed>>
  BY <1>1, <1>2, <1>3 DEF ConnectionsClosed
<1> QED BY <1>0, <1>1, <1>2, <1>4, <1>5, CountDown DEF ConnectionsClosed
-----------------------------------------------------------------------------
(* The pass of the scheduler. *)

\* Another queue with the same requests, and nothing else.
LEMMA QueueStep ==
  ASSUME IInv, NEW q \in Queues, queue' = q, \A x : Count(q, x) = Count(queue, x),
         UNCHANGED <<vm, job, user, awaiting, stored, pending, flight, toDelete, failed,
                     partial, dirty>>
  PROVE  IInv'
<1>0. /\ World \in GoodWorlds /\ Sound(World, toDelete, Asked) /\ Room(World)
      /\ partial \in BOOLEAN
  BY DEF IInv, Typed
<1>1. PICK w : w = PutQueue(World, q)
  OBVIOUS
<1>2. \A x : Count(q, x) = Count(World.queue, x)
  BY WorldIs
<1>3. w \in GoodWorlds /\ Sound(w, toDelete, Asked) /\ w.vm = World.vm
  BY <1>0, <1>1, <1>2, QueueKeeps
<1>4. Become(w)
  <2>1. /\ w.queue = q /\ w.vm = World.vm /\ w.job = World.job /\ w.user = World.user
        /\ w.awaiting = World.awaiting
    BY <1>0, <1>1, QueueDoes
  <2> QED BY <2>1, WorldIs DEF Become
<1>5. Room(w)
  BY <1>0, <1>3, SameRoom
<1> QED BY <1>0, <1>3, <1>4, <1>5, WorldStep

LEMMA SchedulerBlockKeeps ==
  ASSUME IInv, SchedulerBlock
  PROVE  IInv'
<1>1. PICK g \in Queues : g = queue
  BY WorldParts, WorldIs DEF IInv
<1>2. PICK q : q = [g EXCEPT !.blocked = TRUE, !.next = 1]
  OBVIOUS
<1>3. q \in Queues /\ q.requests = g.requests /\ q.temporal = g.temporal
  <2>1. PICK a \in Seq(Requests), b \in Seq(Requests) : a = g.requests /\ b = g.temporal
    BY QueueParts
  <2>2. q = [blocked |-> TRUE, requests |-> a, temporal |-> b, next |-> 1]
    BY <1>2, <2>1 DEF Queues
  <2>3. TRUE \in BOOLEAN /\ 1 \in Nat \ {0}
    OBVIOUS
  <2> QED BY <2>1, <2>2, <2>3 DEF Queues
<1>4. \A x : Count(q, x) = Count(queue, x)
  BY <1>1, <1>3 DEF Count
<1>5. queue' = q
  BY <1>1, <1>2 DEF SchedulerBlock
<1> QED BY <1>3, <1>4, <1>5, QueueStep DEF SchedulerBlock

LEMMA InEmpty ==
  ASSUME NEW r
  PROVE  In(<<>>, r) = 0
<1>1. {i \in 1 .. Len(<<>>) : <<>>[i] = r} = {}
  OBVIOUS
<1> QED BY <1>1, FS_EmptySet DEF In

LEMMA SchedulerUnblockKeeps ==
  ASSUME IInv, SchedulerUnblock
  PROVE  IInv'
<1>1. PICK g \in Queues : g = queue
  BY WorldParts, WorldIs DEF IInv
<1>2. PICK a \in Seq(Requests), b \in Seq(Requests) : a = g.requests /\ b = g.temporal
  BY QueueParts
<1>3. PICK c : c = a \o b
  OBVIOUS
<1>4. c \in Seq(Requests) /\ \A x : In(c, x) = In(a, x) + In(b, x)
  BY <1>3, InConcat, ConcatProperties
<1>5. PICK q : q = [blocked |-> FALSE, next |-> 1, requests |-> c, temporal |-> <<>>]
  OBVIOUS
<1>6. q \in Queues /\ q.requests = c /\ q.temporal = <<>>
  BY <1>4, <1>5 DEF Queues
<1>7. \A x : Count(q, x) = Count(queue, x)
  <2>1. \A x : In(a, x) \in Nat /\ In(b, x) \in Nat
    BY InType
  <2> QED BY <1>1, <1>2, <1>4, <1>6, <2>1, InEmpty DEF Count
<1>8. queue' = q
  BY <1>1, <1>2, <1>3, <1>5 DEF SchedulerUnblock, Unblock
<1> QED BY <1>6, <1>7, <1>8, QueueStep DEF SchedulerUnblock

\* The simulation stops: what the handler had begun is not looked at.
LEMMA StopKeeps ==
  ASSUME IInv, Stop, UNCHANGED flight
  PROVE  IInv'
<1>1. World' = World /\ Asked' = Asked
  BY DEF Stop, world, World, Asked
<1>2. PICK D, C : D = toDelete /\ C = Asked
  OBVIOUS
<1>3. toDelete' = toDelete
  BY DEF Stop
<1>4. Sound(World', toDelete', Asked')
  BY <1>1, <1>3 DEF IInv
<1>5. Typed' /\ Joins'
  BY DEF Stop, IInv, Typed, Joins
<1> QED BY <1>1, <1>4, <1>5 DEF IInv

\* The request the pass is at.
LEMMA RequestAt ==
  ASSUME IInv, NEW op, PassAt(op)
  PROVE  /\ World.queue.blocked /\ World.queue.next <= Len(World.queue.requests)
         /\ Request \in Requests /\ Request = World.queue.requests[World.queue.next]
         /\ Request.op = op
<1>1. PICK w \in GoodWorlds : w = World
  BY DEF IInv
<1>2. w.queue = queue
  BY <1>1, WorldIs
<1>3. Request = w.queue.requests[w.queue.next] /\ w.queue.next <= Len(w.queue.requests)
  BY <1>2 DEF Request, PassAt
<1>4. PICK s : s = EraseRequest(w)
  OBVIOUS
<1>5. Request \in Requests
  BY <1>3, <1>4, EraseDoes
<1> QED BY <1>1, <1>2, <1>3, <1>5 DEF PassAt, Request

LEMMA Examining ==
  ASSUME IInv, NEW op, Examined(op)
  PROVE  /\ ~failed /\ World.queue.blocked /\ World.queue.next <= Len(World.queue.requests)
         /\ Request \in Requests /\ Request = World.queue.requests[World.queue.next]
         /\ Request.op = op
  BY RequestAt DEF Examined

LEMMA RequestStartVMKeeps ==
  ASSUME IInv, RequestStartVM
  PROVE  IInv'
<1>0. /\ World \in GoodWorlds /\ Sound(World, toDelete, Asked) /\ Room(World)
      /\ partial \in BOOLEAN /\ Asked \in SUBSET Jobs
  BY DEF IInv, Typed, Asked
<1>1. /\ World.queue.blocked /\ World.queue.next <= Len(World.queue.requests)
      /\ Request \in Requests /\ Request = World.queue.requests[World.queue.next]
      /\ Request.op = "start"
  BY Examining DEF RequestStartVM
<1>2. PICK u \in Users : u = Request.user
  BY <1>1, RequestIs
<1>3. PICK w : w = LinkVMs(World, u)
  OBVIOUS
<1>4. Sound(w, toDelete, Asked) /\ Room(w) /\ Linking(World, w)
  BY <1>0, <1>3, LinkVMsSound
<1>5. w \in GoodWorlds /\ w.queue = World.queue
  BY <1>4 DEF Linking
<1>6. PICK chunk : chunk = {v \in VMsOf(u) : vm[v].state = "none" /\ w.vm[v].state # "none"}
  OBVIOUS
<1>7. \A v \in chunk : v \in VMs /\ w.vm[v].state = "OFF"
  BY <1>4, <1>6, UserVMs, WorldIs DEF Linking
<1>8. PICK told : told = IF chunk = {} THEN w ELSE StartAttended(w, u, chunk)
  OBVIOUS
<1>9. Keeps(w, told, toDelete, Asked)
  <2>1. CASE chunk = {}
    BY <1>4, <1>5, <1>8, <2>1, SameItself DEF Keeps
  <2>2. CASE chunk # {}
    <3>1. told = StartAttended(w, u, chunk)
      BY <1>8, <2>2
    <3> QED BY <1>0, <1>4, <1>5, <1>7, <3>1, StartKeeps
  <2> QED BY <2>1, <2>2
<1>10. /\ told \in GoodWorlds /\ Sound(told, toDelete, Asked)
       /\ \A v \in VMs : told.vm[v].host = w.vm[v].host
       /\ told.queue.next = w.queue.next /\ told.queue.requests = w.queue.requests
  BY <1>1, <1>5, <1>9 DEF Keeps, Same
<1>11. Room(told)
  BY <1>4, <1>10, SameRoom
<1>12. \/ Stop /\ UNCHANGED flight
       \/ /\ \E t \in {EraseRequest(told), Advance(told)} : Become(t)
          /\ partial' \in BOOLEAN
          /\ UNCHANGED <<stored, pending, flight, toDelete, failed, dirty>>
  BY ZenonT(40), <1>0, <1>2, <1>3, <1>6, <1>8 DEF RequestStartVM
<1>13. CASE Stop /\ UNCHANGED flight
  BY <1>13, StopKeeps
<1>14. ASSUME NEW t \in {EraseRequest(told), Advance(told)}, Become(t), partial' \in BOOLEAN,
              UNCHANGED <<stored, pending, flight, toDelete, failed, dirty>>
       PROVE  IInv'
  <2>1. t \in GoodWorlds /\ Sound(t, toDelete, Asked) /\ t.vm = told.vm
    <3>1. CASE t = EraseRequest(told)
      <4>1. /\ told.queue.next <= Len(told.queue.requests)
            /\ told.queue.requests[told.queue.next].op \in {"start", "abandon"}
        BY <1>1, <1>5, <1>10
      <4> QED BY <1>10, <3>1, <4>1, EraseKeeps
    <3>2. CASE t = Advance(told)
      BY <1>10, <3>2, AdvanceKeeps
    <3> QED BY <3>1, <3>2
  <2>2. Room(t)
    BY <1>11, <2>1, SameRoom
  <2> QED BY <1>14, <2>1, <2>2, WorldStep
<1> QED BY <1>12, <1>13, <1>14
LEMMA ConnectToStorageKeeps ==
  ASSUME IInv, Examined("storage"), ConnectToStorage
  PROVE  IInv'
<1>0. /\ World \in GoodWorlds /\ Sound(World, toDelete, Asked) /\ Room(World) /\ Typed
      /\ Asked \in SUBSET Jobs
  BY DEF IInv, Asked
<1>1. /\ ~failed /\ World.queue.next <= Len(World.queue.requests)
      /\ Request \in Requests /\ Request = World.queue.requests[World.queue.next]
      /\ Request.op = "storage"
  BY Examining
<1>2. PICK j \in Jobs, v \in VMs, u \in Users :
        Request.job = j /\ Request.vm = v /\ Request.user = u /\ Request = Storage(j, v)
  BY <1>1, RequestIs
<1>3. PICK s : s = EraseRequest(World)
  OBVIOUS
<1>4. s \in GoodWorlds /\ Sound(s, toDelete, Asked \cup {j}) /\ s.vm = World.vm
  <2>1. IsAt(World, Storage(j, v))
    BY <1>1, <1>2 DEF IsAt
  <2> QED BY <1>0, <1>3, <2>1, EraseStorage
<1>5. PICK w : w = Advance(s)
  OBVIOUS
<1>6. w \in GoodWorlds /\ Sound(w, toDelete, Asked \cup {j}) /\ w.vm = World.vm
  BY <1>4, <1>5, AdvanceKeeps
<1>7. Room(w)
  BY <1>0, <1>6, SameRoom
<1>8. World' = w
  BY <1>3, <1>5, <1>6, Becomes DEF ConnectToStorage
<1>9. PICK n \in Nat : n = Servers[u] + 1 /\ n > 0
  BY CloudAssumption
<1>10. PICK p \in PendingType : p = pending /\ flight = p
  BY <1>0, <1>1 DEF IInv, Typed, Joins
<1>11. PICK t : t = PutConnect(p, j, n)
  OBVIOUS
<1>12. pending' = t /\ flight' = t
  BY <1>2, <1>9, <1>10, <1>11 DEF ConnectToStorage, NumberOfConnections, PutConnect
<1>13. /\ t \in PendingType /\ t.connect[j] = n /\ t.format = p.format /\ t.close = p.close
       /\ \A k \in Jobs : k # j => t.connect[k] = p.connect[k]
  BY <1>11, ConnectSet
<1>14. UNCHANGED <<toDelete, failed, partial>>
  BY DEF ConnectToStorage
<1>15. Asked' = Asked \cup {j}
  <2>1. \A k \in Jobs : t.connect[k] > 0 <=> p.connect[k] > 0 \/ k = j
    BY <1>9, <1>13
  <2> QED BY <1>10, <1>12, <2>1 DEF Asked
<1>16. Sound(World', toDelete', Asked')
  BY <1>6, <1>8, <1>14, <1>15
<1>17. Joins'
  <2>1. /\ \A k \in Jobs : p.connect[k] >= 0
        /\ \A x \in VMs : /\ p.format[x] >= 0 /\ p.close[x] >= 0
                          /\ x \notin toDelete => p.format[x] = 0 /\ p.close[x] = 0
    BY <1>1, <1>10 DEF IInv, Joins
  <2>2. \A k \in Jobs : t.connect[k] >= 0
    BY <1>9, <1>13, <2>1
  <2> QED BY <1>12, <1>13, <1>14, <2>1, <2>2 DEF Joins
<1>18. Typed'
  <2>1. stored' \in [Users -> Seq(VMs)]
    <3>1. PICK f \in [Users -> Seq(VMs)] : f = stored
      BY <1>0 DEF Typed
    <3>2. PICK l \in Seq(VMs) : l = Append(f[u], v)
      <4>1. PICK k \in Seq(VMs) : k = f[u]
        BY <3>1
      <4>2. Append(k, v) \in Seq(VMs)
        OBVIOUS
      <4> QED BY <4>1, <4>2
    <3>3. stored' \in {f, [f EXCEPT ![u] = l]}
      BY <1>2, <3>1, <3>2 DEF ConnectToStorage
    <3> QED BY <3>3
  <2>2. dirty' \subseteq VMs
    BY <1>0, <1>2 DEF ConnectToStorage, Typed
  <2> QED BY <1>0, <1>12, <1>13, <1>14, <2>1, <2>2 DEF Typed
<1> QED BY <1>6, <1>7, <1>8, <1>16, <1>17, <1>18 DEF IInv

LEMMA RequestShutdownVMKeeps ==
  ASSUME IInv, RequestShutdownVM
  PROVE  IInv'
<1>0. /\ World \in GoodWorlds /\ Sound(World, toDelete, Asked) /\ Room(World) /\ Typed
      /\ Asked \in SUBSET Jobs
  BY DEF IInv, Asked
<1>1. /\ ~failed /\ World.queue.next <= Len(World.queue.requests)
      /\ Request \in Requests /\ Request = World.queue.requests[World.queue.next]
      /\ Request.op = "free"
  BY Examining DEF RequestShutdownVM
<1>2. PICK v \in VMs, u \in Users : Request.vm = v /\ Request.user = u /\ Request = Free(v)
  BY <1>1, RequestIs
<1>3. CASE stored[u] # <<>> /\ Head(stored[u]) # v
  <2>1. Stop /\ UNCHANGED flight
    BY <1>2, <1>3 DEF RequestShutdownVM
  <2> QED BY <2>1, StopKeeps
<1>4. CASE ~(stored[u] # <<>> /\ Head(stored[u]) # v)
  <2>1. PICK n \in Nat : n = RemoteShutdown(u, v) + 1 /\ n > 0
    BY CloudAssumption DEF RemoteShutdown
  <2>2. PICK p \in PendingType : p = pending /\ flight = p
    BY <1>0, <1>1 DEF IInv, Typed, Joins
  <2>3. PICK t : t = PutCounts(p, v, n, n)
    OBVIOUS
  <2>4. /\ toDelete' = toDelete \cup {v}
        /\ stored' = [stored EXCEPT ![u] = <<>>]
        /\ dirty' \in {dirty, dirty \ {v}}
        /\ pending' = t /\ flight' = t
        /\ Become(EraseRequest(World))
        /\ UNCHANGED <<failed, partial>>
    BY <1>2, <1>4, <2>1, <2>2, <2>3 DEF RequestShutdownVM, FormatQuantity, PutCounts
  <2>5. PICK w : w = EraseRequest(World)
    OBVIOUS
  <2>6. w \in GoodWorlds /\ Sound(w, toDelete \cup {v}, Asked) /\ w.vm = World.vm
    <3>1. IsAt(World, Free(v))
      BY <1>1, <1>2 DEF IsAt
    <3> QED BY <1>0, <2>5, <3>1, EraseFree
  <2>7. Room(w)
    BY <1>0, <2>6, SameRoom
  <2>8. World' = w
    BY <2>4, <2>5, <2>6, Becomes
  <2>9. /\ t \in PendingType /\ t.connect = p.connect /\ t.format[v] = n /\ t.close[v] = n
        /\ \A x \in VMs : x # v => t.format[x] = p.format[x] /\ t.close[x] = p.close[x]
    BY <2>3, CountsSet
  <2>10. Asked' = Asked
    BY <2>2, <2>4, <2>9 DEF Asked
  <2>11. Sound(World', toDelete', Asked')
    BY <2>4, <2>6, <2>8, <2>10
  <2>12. Joins'
    <3>1. /\ \A k \in Jobs : p.connect[k] >= 0
          /\ \A x \in VMs : /\ p.format[x] >= 0 /\ p.close[x] >= 0
                            /\ x \notin toDelete => p.format[x] = 0 /\ p.close[x] = 0
      BY <1>1, <2>2 DEF IInv, Joins
    <3> QED BY <2>1, <2>4, <2>9, <3>1 DEF Joins
  <2>13. Typed'
    <3>1. stored' \in [Users -> Seq(VMs)]
      BY <1>0, <2>4 DEF Typed
    <3>2. toDelete' \subseteq VMs /\ dirty' \subseteq VMs
      BY <1>0, <2>4 DEF Typed
    <3> QED BY <1>0, <2>4, <2>9, <3>1, <3>2 DEF Typed
  <2> QED BY <2>6, <2>7, <2>8, <2>11, <2>12, <2>13 DEF IInv
<1> QED BY <1>3, <1>4

LEMMA AbandonSystemKeeps ==
  ASSUME IInv, AbandonSystem
  PROVE  IInv'
<1>0. /\ World \in GoodWorlds /\ Sound(World, toDelete, Asked) /\ Room(World)
      /\ partial \in BOOLEAN /\ Asked \in SUBSET Jobs
  BY DEF IInv, Typed, Asked
<1>1. /\ World.queue.next <= Len(World.queue.requests)
      /\ Request \in Requests /\ Request = World.queue.requests[World.queue.next]
      /\ Request.op = "abandon"
  BY Examining DEF AbandonSystem
<1>2. PICK u \in Users : u = Request.user
  BY <1>1, RequestIs
<1>3. PICK t : t = PutStatus(World, u, "gone")
  OBVIOUS
<1>4. t \in GoodWorlds /\ Keeps(World, t, toDelete, Asked) /\ t.queue = World.queue
  BY <1>0, <1>3, StatusKeeps
<1>5. PICK w : w = EraseRequest(t)
  OBVIOUS
<1>6. Become(w)
  BY <1>2, <1>3, <1>5 DEF AbandonSystem, PutStatus
<1>7. w \in GoodWorlds /\ Sound(w, toDelete, Asked) /\ w.vm = t.vm
  BY <1>1, <1>4, <1>5, EraseKeeps DEF Keeps
<1>8. Room(w)
  <2>1. \A v \in VMs : w.vm[v].host = World.vm[v].host
    BY <1>4, <1>7 DEF Keeps, Same
  <2> QED BY <1>0, <2>1, SameRoom
<1> QED BY <1>0, <1>6, <1>7, <1>8, WorldStep DEF AbandonSystem
-----------------------------------------------------------------------------
(* The invariant holds at first, and every step keeps it. *)

LEMMA FirstWorld ==
  ASSUME Init
  PROVE  World \in GoodWorlds
<1>1. queue \in Queues
  <2>1. <<>> \in Seq(Requests) /\ FALSE \in BOOLEAN /\ 1 \in Nat \ {0}
    OBVIOUS
  <2> QED BY <2>1 DEF Init, Queues
<1>2. vm \in [VMs -> VMRecs]
  <2>1. [state |-> "none", pending |-> "none", host |-> NoNode] \in VMRecs
    BY DEF VMRecs
  <2> HIDE DEF VMRecs
  <2> QED BY <2>1 DEF Init
<1>3. job \in [Jobs -> JobRecs]
  <2>1. [place |-> "waiting", vm |-> NoVM] \in JobRecs
    BY DEF JobRecs
  <2> HIDE DEF JobRecs
  <2> QED BY <2>1 DEF Init
<1>4. user \in GoodUsers
  <2>1. ASSUME NEW u \in Users PROVE user[u] \in UserRecs(u) /\ user[u] \in AnyUser
    <3>1. PICK l : l = [i \in 1 .. NumJobs[u] |-> <<u, i>>]
      OBVIOUS
    <3>2. NumJobs[u] \in Nat
      BY CloudAssumption
    <3>3. \A i \in 1 .. NumJobs[u] : <<u, i>> \in JobsOf(u)
      BY DEF JobsOf
    <3>4. l \in Seq(JobsOf(u))
      BY <3>1, <3>2, <3>3
    <3>5. user[u] = [status |-> "new", waiting |-> l, shutdowns |-> 0, wake |-> 0]
      BY <3>1 DEF Init
    <3>6. user[u] \in UserRecs(u)
      BY <3>4, <3>5 DEF UserRecs
    <3> QED BY <3>6 DEF AnyUser
  <2>2. user = [u \in Users |-> user[u]]
    BY DEF Init
  <2> QED BY <2>1, <2>2 DEF GoodUsers
<1>5. awaiting \in SUBSET VMs
  BY DEF Init
<1> QED BY <1>1, <1>2, <1>3, <1>4, <1>5, MakeWorld DEF World

LEMMA FirstSound ==
  ASSUME Init
  PROVE  Sound(World, {}, {})
<1>0. /\ World.queue = queue /\ World.vm = vm /\ World.job = job /\ World.user = user
      /\ World.awaiting = awaiting
  BY WorldIs
<1>1. /\ \A v \in VMs : vm[v].state = "none" /\ vm[v].pending = "none"
      /\ \A j \in Jobs : job[j].place = "waiting"
      /\ awaiting = {}
  BY DEF Init
<1>2. ListsExact(World)
  <2> SUFFICES ASSUME NEW u \in Users
               PROVE  /\ \A i, k \in DOMAIN user[u].waiting :
                           user[u].waiting[i] = user[u].waiting[k] => i = k
                      /\ \A j \in JobsOf(u) : job[j].place = "waiting"
                           <=> \E i \in DOMAIN user[u].waiting : user[u].waiting[i] = j
    BY <1>0 DEF ListsExact
  <2>1. PICK l : l = [i \in 1 .. NumJobs[u] |-> <<u, i>>]
    OBVIOUS
  <2>2. user[u].waiting = l
    BY <2>1 DEF Init
  <2>3. DOMAIN l = 1 .. NumJobs[u] /\ \A i \in 1 .. NumJobs[u] : l[i] = <<u, i>>
    BY <2>1
  <2>4. \A i, k \in 1 .. NumJobs[u] : l[i] = l[k] => i = k
    BY <2>3
  <2>5. ASSUME NEW j \in JobsOf(u) PROVE \E i \in 1 .. NumJobs[u] : l[i] = j
    <3>1. PICK i \in 1 .. NumJobs[u] : j = <<u, i>>
      BY DEF JobsOf
    <3> QED BY <2>3, <3>1
  <2>6. \A j \in JobsOf(u) : job[j].place = "waiting"
    BY <1>1, JobIs
  <2> QED BY <2>2, <2>3, <2>4, <2>5, <2>6
<1>3. JobsPlaced(World)
  BY <1>0, <1>1 DEF JobsPlaced, On
<1>4. VMsConsistent(World)
  BY <1>0, <1>1 DEF VMsConsistent
<1>5. Balanced(World, {}, {})
  <2>1. \A x : Count(World.queue, x) = 0
    <3>1. queue.requests = <<>> /\ queue.temporal = <<>>
      BY DEF Init
    <3> QED BY <1>0, <3>1, InEmpty DEF Count
  <2>2. ASSUME NEW u \in Users PROVE World.user[u].shutdowns = Cardinality(Dying(World.vm, u))
    <3>1. Dying(World.vm, u) = {}
      BY <1>0, <1>1, UserVMs DEF Dying
    <3>2. World.user[u].shutdowns = 0
      BY <1>0 DEF Init
    <3> QED BY <3>1, <3>2, FS_EmptySet
  <2>3. \A j \in Jobs, v \in VMs : World.job[j] # [place |-> "storage", vm |-> v]
    BY <1>0, <1>1
  <2>4. \A v \in VMs : World.vm[v].pending # "shutdown"
    BY <1>0, <1>1
  <2> QED BY <2>1, <2>2, <2>3, <2>4 DEF Balanced
<1> QED BY <1>2, <1>3, <1>4, <1>5 DEF Sound

LEMMA InitEstablishes ==
  ASSUME Init
  PROVE  IInv
<1>1. PICK p : /\ p = [connect |-> [j \in Jobs |-> 0], format |-> [v \in VMs |-> 0],
                       close |-> [v \in VMs |-> 0]]
               /\ pending = p /\ flight = p
  BY DEF Init
<1>2. /\ p \in PendingType /\ \A j \in Jobs : p.connect[j] = 0
      /\ \A v \in VMs : p.format[v] = 0 /\ p.close[v] = 0
  BY <1>1 DEF PendingType
<1>3. Asked = {}
  BY <1>1, <1>2 DEF Asked
<1>4. Sound(World, toDelete, Asked)
  <2>1. toDelete = {}
    BY DEF Init
  <2> QED BY <1>3, <2>1, FirstSound
<1>5. Room(World)
  <2>1. ASSUME NEW n \in Nodes PROVE Cardinality(Linked(World, n)) <= MaxVMs
    <3>1. n # NoNode
      BY DEF Nodes, NoNode
    <3>2. \A v \in VMs : World.vm[v].host = NoNode
      BY WorldIs DEF Init
    <3>3. Linked(World, n) = {}
      BY <3>1, <3>2 DEF Linked
    <3>4. Cardinality(Linked(World, n)) = 0
      BY <3>3, FS_EmptySet
    <3> QED BY <3>4, CloudAssumption
  <2> QED BY <2>1 DEF Room
<1>6. Typed
  <2>1. stored \in [Users -> Seq(VMs)]
    BY DEF Init
  <2>2. failed \in BOOLEAN /\ partial \in BOOLEAN /\ dirty \subseteq VMs /\ toDelete \subseteq VMs
    BY DEF Init
  <2> QED BY <1>1, <1>2, <2>1, <2>2 DEF Typed
<1>7. Joins
  BY <1>1, <1>2 DEF Joins
<1> QED BY <1>4, <1>5, <1>6, <1>7, FirstWorld DEF IInv

LEMMA NextKeeps ==
  ASSUME IInv, [Next]_vars
  PROVE  IInv'
<1>1. CASE SchedulerBlock
  BY <1>1, SchedulerBlockKeeps
<1>2. CASE SchedulerUnblock
  BY <1>2, SchedulerUnblockKeeps
<1>3. CASE RequestStartVM
  BY <1>3, RequestStartVMKeeps
<1>4. CASE UserStorageRequest
  BY <1>4, ConnectToStorageKeeps, StopKeeps DEF UserStorageRequest
<1>5. CASE RequestShutdownVM
  BY <1>5, RequestShutdownVMKeeps
<1>6. CASE AbandonSystem
  BY <1>6, AbandonSystemKeeps
<1>7. ASSUME NEW j \in Jobs, JobFinishes(j) PROVE IInv'
  BY <1>7, JobFinishesKeeps
<1>8. ASSUME NEW j \in Jobs, StorageReady(j) PROVE IInv'
  BY <1>8, StorageReadyKeeps
<1>9. ASSUME NEW u \in Users, Wake(u) PROVE IInv'
  BY <1>9, WakeKeeps
<1>10. ASSUME NEW v \in VMs, FSFormatted(v) PROVE IInv'
  BY <1>10, FSFormattedKeeps
<1>11. ASSUME NEW v \in VMs, ConnectionsClosed(v) PROVE IInv'
  BY <1>11, ConnectionsClosedKeeps
<1>12. ASSUME NEW u \in Users, UserArrives(u) PROVE IInv'
  BY <1>12, UserArrivesKeeps
<1>13. CASE UNCHANGED vars
  <2>1. World' = World /\ Asked' = Asked
    BY <1>13 DEF vars, world, World, Asked
  <2>2. toDelete' = toDelete
    BY <1>13 DEF vars
  <2>3. Sound(World', toDelete', Asked')
    BY <2>1, <2>2 DEF IInv
  <2>4. Typed' /\ Joins'
    BY <1>13 DEF vars, IInv, Typed, Joins
  <2> QED BY <2>1, <2>3, <2>4 DEF IInv
<1> QED BY <1>1, <1>2, <1>3, <1>4, <1>5, <1>6, <1>7, <1>8, <1>9, <1>10, <1>11, <1>12, <1>13
        DEF Next, Pass, Event

\* The invariant holds in every state: whatever the order of the users' arrivals,
\* the ends of the jobs, the notifications and the passes of the scheduler.
THEOREM Invariant == Spec => []IInv
<1>1. Init => IInv
  BY InitEstablishes
<1>2. IInv /\ [Next]_vars => IInv'
  BY NextKeeps
<1> QED BY <1>1, <1>2, PTL DEF Spec
-----------------------------------------------------------------------------
(* What the invariant says of the properties that the runs check. *)

LEMMA InvParts ==
  ASSUME IInv
  PROVE  /\ queue \in Queues /\ vm \in [VMs -> VMRecs] /\ job \in [Jobs -> JobRecs]
         /\ user \in GoodUsers /\ awaiting \subseteq VMs
         /\ ListsExact(World) /\ JobsPlaced(World) /\ VMsConsistent(World)
         /\ Balanced(World, toDelete, Asked)
         /\ Room(World) /\ Typed /\ Joins
<1>1. /\ World.queue \in Queues /\ World.vm \in [VMs -> VMRecs]
      /\ World.job \in [Jobs -> JobRecs] /\ World.user \in GoodUsers
      /\ World.awaiting \in SUBSET VMs
  BY WorldParts DEF IInv
<1>2. /\ queue \in Queues /\ vm \in [VMs -> VMRecs] /\ job \in [Jobs -> JobRecs]
      /\ user \in GoodUsers /\ awaiting \subseteq VMs
  <2> HIDE DEF Queues, VMRecs, JobRecs, GoodUsers
  <2> QED BY <1>1, WorldIs
<1> QED BY <1>2 DEF IInv, Sound

\* Every variable of the cloud has its type; a user's count of VMs that shut
\* down never goes below zero, although freeAttended subtracts without a test.
THEOREM TypeCorrect == Spec => []TypeOK
<1>1. ASSUME IInv PROVE TypeOK
  <2>0. /\ queue \in Queues /\ vm \in [VMs -> VMRecs] /\ job \in [Jobs -> JobRecs]
        /\ user \in GoodUsers /\ awaiting \subseteq VMs /\ Typed
        /\ Balanced(World, toDelete, Asked)
    BY <1>1, InvParts
  <2>1. user \in [Users -> [status : {"new", "active", "finalizing", "gone"},
                            waiting : Seq(Jobs), shutdowns : Nat, wake : Nat]]
    <3>1. ASSUME NEW u \in Users
          PROVE  user[u] \in [status : {"new", "active", "finalizing", "gone"},
                              waiting : Seq(Jobs), shutdowns : Nat, wake : Nat]
      <4>1. user[u] \in UserRecs(u)
        BY <2>0 DEF GoodUsers
      <4>2. Dying(vm, u) \subseteq VMs
        BY UserVMs DEF Dying
      <4>3. Cardinality(Dying(vm, u)) \in Nat
        BY <4>2, VMsFinite, FS_Subset, FS_CardinalityType
      <4>4. user[u].shutdowns \in Nat
        BY <2>0, <4>3, WorldIs DEF Balanced
      <4>5. JobsOf(u) \subseteq Jobs
        BY DEF Jobs
      <4>6. user[u].waiting \in Seq(JobsOf(u))
        BY <4>1 DEF UserRecs
      <4>7. PICK l \in Seq(JobsOf(u)) : l = user[u].waiting
        BY <4>6
      <4>8. l \in Seq(Jobs)
        <5>1. \A i \in 1 .. Len(l) : l[i] \in Jobs
          BY <4>5
        <5> QED BY <5>1
      <4> QED BY <4>1, <4>4, <4>7, <4>8 DEF UserRecs
    <3>2. user = [u \in Users |-> user[u]]
      BY <2>0 DEF GoodUsers
    <3> QED BY <3>1, <3>2
  <2>2. queue \in [blocked : BOOLEAN, requests : Seq(Requests), temporal : Seq(Requests),
                   next : Nat \ {0}]
    BY <2>0 DEF Queues
  <2>3. vm \in [VMs -> [state : {"none", "OFF", "IDLE", "RUNNING", "gone"},
                        pending : {"none", "storage", "shutdown"}, host : Nodes \cup {NoNode}]]
    BY <2>0 DEF VMRecs
  <2>4. job \in [Jobs -> [place : {"waiting", "storage", "running", "finished"},
                          vm : VMs \cup {NoVM}]]
    BY <2>0 DEF JobRecs
  <2> QED BY <2>0, <2>1, <2>2, <2>3, <2>4 DEF TypeOK, Typed
<1> QED BY <1>1, Invariant, PTL

\* No node ever has more virtual machines than its limit: linkVM is only called
\* for a node that selectNode found, and each unlinkVM takes away one.
THEOREM CapacityIsKept == Spec => []CapacityKept
<1>1. IInv => CapacityKept
  BY DEF IInv, Room, CapacityKept
<1> QED BY <1>1, Invariant, PTL

\* Nobody waits for something no one will do: a VM that shuts down has exactly
\* one FREE in the queues or is in reqPendingToDelete, a job that waits for its
\* storage has one STORAGE or notifications to come, and the shutdowns that
\* finalizeUser tests are counted exactly.
THEOREM NobodyIsForgotten == Spec => []Accounted
<1>1. ASSUME IInv PROVE Accounted
  <2> SUFFICES ASSUME ~failed PROVE Accounted
    BY DEF Accounted
  <2>0. /\ queue \in Queues /\ vm \in [VMs -> VMRecs] /\ job \in [Jobs -> JobRecs]
        /\ JobsPlaced(World) /\ Balanced(World, toDelete, Asked) /\ Joins /\ Typed
    BY <1>1, InvParts
  <2>1. PICK a \in Seq(Requests), b \in Seq(Requests) : a = queue.requests /\ b = queue.temporal
    BY <2>0, QueueParts
  <2>2. \A r \in Requests : Queued[r] = Count(queue, r)
    <3>1. \A r \in Requests : Queued[r] = In(a \o b, r)
      BY <2>1 DEF Queued, In
    <3>2. \A r : In(a \o b, r) = In(a, r) + In(b, r)
      BY InConcat
    <3> QED BY <2>1, <3>1, <3>2 DEF Count
  <2>3. ASSUME NEW v \in VMs
        PROVE  Queued[Free(v)] + (IF v \in toDelete THEN 1 ELSE 0)
                 = (IF vm[v].pending = "shutdown" THEN 1 ELSE 0)
    <3>1. Count(queue, Free(v)) + (IF v \in toDelete THEN 1 ELSE 0)
                 = (IF vm[v].pending = "shutdown" THEN 1 ELSE 0)
      BY <2>0, WorldIs DEF Balanced
    <3>2. Queued[Free(v)] = Count(queue, Free(v))
      BY <2>2, RequestsAre
    <3> QED BY <3>1, <3>2
  <2>4. ASSUME NEW j \in Jobs, job[j].place = "storage"
        PROVE  IF pending.connect[j] > 0 THEN flight.connect[j] = pending.connect[j]
               ELSE Queued[Storage(j, job[j].vm)] = 1
    <3>1. CASE pending.connect[j] > 0
      BY <2>0, <3>1 DEF Joins
    <3>2. CASE ~(pending.connect[j] > 0)
      <4>1. PICK v \in VMs : v = job[j].vm
        BY <2>0, <2>4, JobUser, UserVMs, WorldIs DEF JobsPlaced, On
      <4>2. job[j] \in JobRecs
        BY <2>0
      <4>3. job[j] = [place |-> "storage", vm |-> v]
        BY <2>4, <4>1, <4>2 DEF JobRecs
      <4>4. j \notin Asked
        BY <3>2 DEF Asked
      <4>5. Count(queue, Storage(j, v)) = 1
        BY <2>0, <4>3, <4>4, WorldIs DEF Balanced
      <4> QED BY <2>2, <3>2, <4>1, <4>5, RequestsAre
    <3> QED BY <3>1, <3>2
  <2>5. ASSUME NEW u \in Users
        PROVE  user[u].shutdowns = Cardinality({v \in VMsOf(u) : vm[v].pending = "shutdown"})
    BY <2>0, WorldIs DEF Balanced, Dying
  <2> QED BY <2>3, <2>4, <2>5 DEF Accounted
<1> QED BY <1>1, Invariant, PTL

\* A VM goes and a job starts only when the last notification has come.
THEOREM NotifiedByAll == Spec => []JoinComplete
<1>1. ASSUME IInv PROVE JoinComplete
  <2> SUFFICES ASSUME ~failed PROVE JoinComplete
    BY DEF JoinComplete
  <2>0. /\ VMsConsistent(World) /\ Balanced(World, toDelete, Asked) /\ Joins /\ Typed
        /\ queue \in Queues
    BY <1>1, InvParts
  <2>1. PICK p \in PendingType : p = pending /\ flight = p
    BY <2>0 DEF Joins, Typed
  <2>2. /\ \A j \in Jobs : p.connect[j] >= 0
        /\ \A v \in VMs : v \notin toDelete => p.format[v] = 0 /\ p.close[v] = 0
    BY <2>0, <2>1 DEF Joins
  <2>3. ASSUME NEW v \in VMs, vm[v].state = "gone" PROVE flight.format[v] + flight.close[v] = 0
    <3>1. vm[v].pending = "none"
      BY <2>0, <2>3, WorldIs DEF VMsConsistent
    <3>2. Count(queue, Free(v)) + (IF v \in toDelete THEN 1 ELSE 0) = 0
      BY <2>0, <3>1, WorldIs DEF Balanced
    <3>3. v \notin toDelete
      BY <2>0, <3>2, CountType
    <3> QED BY <2>1, <2>2, <3>3
  <2>4. ASSUME NEW j \in Jobs, job[j].place = "running" PROVE flight.connect[j] = 0
    <3>1. j \notin Asked
      BY <2>0, <2>4, WorldIs DEF Balanced
    <3>2. ~(p.connect[j] > 0)
      BY <2>1, <3>1 DEF Asked
    <3> QED BY <2>1, <2>2, <3>2, CountsTyped
  <2> QED BY <2>3, <2>4 DEF JoinComplete
<1> QED BY <1>1, Invariant, PTL

\* A job never is on a VM that shuts down, is gone or has another job: what
\* GeneralUser::schedule finds idle is idle for the manager too.
THEOREM JobsAreSafe == Spec => []NoJobOnDyingVM
<1>1. ASSUME IInv PROVE NoJobOnDyingVM
  <2> SUFFICES ASSUME NEW j \in Jobs, job[j].place \in {"storage", "running"}
               PROVE  /\ vm[job[j].vm].state \in {"IDLE", "RUNNING"}
                      /\ vm[job[j].vm].host # NoNode
                      /\ vm[job[j].vm].pending # "shutdown"
                      /\ Processes(World, job[j].vm) = {j}
    BY DEF NoJobOnDyingVM
  <2>1. JobsPlaced(World) /\ On(World, j)
    BY <1>1, InvParts, WorldIs DEF On
  <2>2. /\ vm[job[j].vm].state \in {"IDLE", "RUNNING"} /\ vm[job[j].vm].host # NoNode
        /\ vm[job[j].vm].pending # "shutdown"
    BY <2>1, WorldIs DEF JobsPlaced
  <2>3. \A k \in Jobs : On(World, k) /\ World.job[k].vm = World.job[j].vm => k = j
    BY <2>1 DEF JobsPlaced
  <2>4. Processes(World, job[j].vm) = {j}
    BY <2>3, WorldIs DEF Processes, On
  <2> QED BY <2>2, <2>4
<1> QED BY <1>1, Invariant, PTL
-----------------------------------------------------------------------------
(* A user that leaves has ended: while no START was answered in parts.       *)

Leaving(w, u)  == w.user[u].status \in {"finalizing", "gone"}
Live(w, v)     == w.vm[v].state \in {"IDLE", "RUNNING"}
NotBegun(w, u) == /\ \A v \in VMsOf(u) : w.vm[v].state = "none"
                  /\ \A j \in JobsOf(u) : w.job[j].place = "waiting"
Created(w, u)  == \A v \in VMsOf(u) : w.vm[v].state # "none"
Ended(w, u)    == /\ \A v \in VMsOf(u) : w.vm[v].state = "gone"
                  /\ \A j \in JobsOf(u) : w.job[j].place = "finished"

\* A user has all its VMs or none of them yet, none is linked and forgotten, and
\* the user leaves, or asks to leave, only when it has ended.
WholeFor(w, u) ==
  /\ \A v \in VMsOf(u) : /\ w.vm[v].state # "OFF"
                         /\ w.vm[v].state \in {"none", "gone"} => w.vm[v].host = NoNode
  /\ NotBegun(w, u) \/ Created(w, u)
  /\ Leaving(w, u) => Ended(w, u)
  /\ Count(w.queue, Abandon(u)) > 0 => Leaving(w, u)

Whole(w) == \A u \in Users : WholeFor(w, u)

\* From w to s no VM comes or goes, no user leaves or asks to, a finished job
\* stays so, and a job leaves the list of its user for a VM that is there.
Calm(w, s) ==
  /\ \A v \in VMs : /\ s.vm[v].host = w.vm[v].host
                    /\ s.vm[v].state = w.vm[v].state \/ (Live(w, v) /\ Live(s, v))
  /\ \A u \in Users : /\ Leaving(s, u) <=> Leaving(w, u)
                      /\ Count(s.queue, Abandon(u)) > 0 => Count(w.queue, Abandon(u)) > 0
  /\ \A j \in Jobs : /\ w.job[j].place = "finished" => s.job[j].place = "finished"
                     /\ w.job[j].place = "waiting" =>
                          s.job[j].place = "waiting" \/ \E v \in VMsOf(j[1]) : Live(w, v)

LEMMA CalmItself ==
  ASSUME NEW w
  PROVE  Calm(w, w)
  BY DEF Calm

LEMMA CalmThen ==
  ASSUME NEW w, NEW s, NEW t, Calm(w, s), Calm(s, t)
  PROVE  Calm(w, t)
<1>1. \A v \in VMs : /\ t.vm[v].host = w.vm[v].host
                     /\ t.vm[v].state = w.vm[v].state \/ (Live(w, v) /\ Live(t, v))
  BY DEF Calm, Live
<1>2. \A u \in Users : /\ Leaving(t, u) <=> Leaving(w, u)
                       /\ Count(t.queue, Abandon(u)) > 0 => Count(w.queue, Abandon(u)) > 0
  BY DEF Calm
<1>3. ASSUME NEW j \in Jobs
      PROVE  /\ w.job[j].place = "finished" => t.job[j].place = "finished"
             /\ w.job[j].place = "waiting" =>
                  t.job[j].place = "waiting" \/ \E v \in VMsOf(j[1]) : Live(w, v)
  <2>1. j[1] \in Users
    BY JobUser
  <2>2. \A v \in VMsOf(j[1]) : Live(s, v) => Live(w, v)
    BY <2>1, UserVMs DEF Calm, Live
  <2> HIDE DEF Live
  <2> QED BY <2>2 DEF Calm
<1> QED BY <1>1, <1>2, <1>3 DEF Calm

LEMMA CalmKeeps ==
  ASSUME NEW w, NEW s, Whole(w), Calm(w, s)
  PROVE  Whole(s)
<1> SUFFICES ASSUME NEW u \in Users PROVE WholeFor(s, u)
  BY DEF Whole
<1>0. WholeFor(w, u)
  BY DEF Whole
<1>1. ASSUME NEW v \in VMsOf(u)
      PROVE  /\ s.vm[v].host = w.vm[v].host
             /\ s.vm[v].state = w.vm[v].state \/ (Live(w, v) /\ Live(s, v))
  BY UserVMs DEF Calm
<1>2. ASSUME NEW j \in JobsOf(u)
      PROVE  /\ w.job[j].place = "finished" => s.job[j].place = "finished"
             /\ w.job[j].place = "waiting" =>
                  s.job[j].place = "waiting" \/ \E v \in VMsOf(u) : Live(w, v)
  BY JobIs DEF Calm
<1>3. \A v \in VMsOf(u) : /\ s.vm[v].state # "OFF"
                          /\ s.vm[v].state \in {"none", "gone"} => s.vm[v].host = NoNode
  BY <1>0, <1>1 DEF WholeFor, Live
<1>4. NotBegun(s, u) \/ Created(s, u)
  <2>1. CASE NotBegun(w, u)
    <3>1. \A v \in VMsOf(u) : s.vm[v].state = "none" /\ ~Live(w, v)
      BY <1>1, <2>1 DEF NotBegun, Live
    <3>2. \A j \in JobsOf(u) : s.job[j].place = "waiting"
      BY <1>2, <2>1, <3>1 DEF NotBegun
    <3> QED BY <3>1, <3>2 DEF NotBegun
  <2>2. CASE Created(w, u)
    BY <1>1, <2>2 DEF Created, Live
  <2> QED BY <1>0, <2>1, <2>2 DEF WholeFor
<1>5. Leaving(s, u) => Ended(s, u)
  <2>1. Ended(w, u) => Ended(s, u)
    BY <1>1, <1>2 DEF Ended, Live
  <2> QED BY <1>0, <2>1 DEF WholeFor, Calm
<1>6. Count(s.queue, Abandon(u)) > 0 => Leaving(s, u)
  BY <1>0 DEF WholeFor, Calm
<1> QED BY <1>3, <1>4, <1>5, <1>6 DEF WholeFor

LEMMA AbandonsDiffer ==
  /\ \A u, y \in Users : Abandon(u) = Abandon(y) => u = y
  /\ \A u, y \in Users : Start(u) # Abandon(y)
<1>1. \A u \in Users : Abandon(u).op = "abandon" /\ Abandon(u).user = u /\ Start(u).op = "start"
  BY DEF Abandon, Start
<1> QED BY <1>1

\* A request that is sent is no ABANDON.
LEMMA SentCalm ==
  ASSUME NEW q \in Queues, NEW r \in Requests, r.op # "abandon", NEW u \in Users
  PROVE  Count(Sent(q, r), Abandon(u)) = Count(q, Abandon(u))
<1>1. r # Abandon(u)
  BY DEF Abandon
<1>2. Count(q, Abandon(u)) \in Nat
  BY CountType
<1> QED BY <1>1, <1>2, CountSent

\* The methods of a user.
LEMMA AssignCalm ==
  ASSUME NEW w \in GoodWorlds, ListsExact(w), NEW v \in VMs
  PROVE  Calm(w, AssignOne(w, v))
<1>1. CASE ~(IsIdle(w, v) /\ Waiting(w, v[1]) # <<>>)
  BY <1>1, CalmItself DEF AssignOne
<1>2. CASE IsIdle(w, v) /\ Waiting(w, v[1]) # <<>>
  <2>1. PICK u \in Users : u = v[1] /\ v \in VMsOf(u)
    BY VMIs
  <2>2. PICK j \in JobsOf(u) : j = Head(Waiting(w, u))
    BY <1>2, <2>1, CreateDoes
  <2>3. PICK s : s = AssignOne(w, v)
    OBVIOUS
  <2>4. /\ j \in Jobs /\ j[1] = u /\ s \in GoodWorlds /\ s.queue = Sent(w.queue, Storage(j, v))
        /\ s.vm = [w.vm EXCEPT ![v].pending = "storage"]
        /\ s.job = [w.job EXCEPT ![j] = [place |-> "storage", vm |-> v]]
        /\ s.user = [w.user EXCEPT ![u].waiting = Tail(@)] /\ s.awaiting = w.awaiting \cup {v}
    BY <1>2, <2>1, <2>2, <2>3, CreateDoes DEF AssignOne
  <2>5. /\ w.queue \in Queues /\ w.vm \in [VMs -> VMRecs] /\ w.job \in [Jobs -> JobRecs]
        /\ w.user \in GoodUsers
    BY WorldParts
  <2>6. \A x \in VMs : s.vm[x].state = w.vm[x].state /\ s.vm[x].host = w.vm[x].host
    <3>1. \A x \in VMs : w.vm[x] \in VMRecs
      BY <2>5
    <3> QED BY <2>4, <2>5, <3>1 DEF VMRecs
  <2>7. \A k \in Jobs : k # j => s.job[k] = w.job[k]
    BY <2>4, <2>5
  <2>8. w.job[j].place = "waiting"
    <3>1. PICK l \in Seq(JobsOf(u)) : l = w.user[u].waiting /\ l # <<>>
      BY <1>2, <2>1, <2>5, UserParts DEF Waiting
    <3>2. 1 \in DOMAIN l /\ l[1] = j
      <4>1. Len(l) # 0 /\ Len(l) \in Nat /\ DOMAIN l = 1 .. Len(l)
        BY <3>1, EmptySeq
      <4>2. j = l[1]
        BY <2>2, <3>1 DEF Waiting
      <4> QED BY <4>1, <4>2
    <3> QED BY <3>1, <3>2 DEF ListsExact
  <2>9. \A y \in Users : s.user[y].status = w.user[y].status
    <3>1. \A y \in Users : w.user[y] \in UserRecs(y)
      BY <2>5, UserParts
    <3> QED BY <2>4, <2>5, <3>1 DEF UserRecs, GoodUsers
  <2>10. \A y \in Users : Count(s.queue, Abandon(y)) = Count(w.queue, Abandon(y))
    <3>1. Storage(j, v) \in Requests /\ Storage(j, v).op # "abandon"
      BY <2>4, RequestsAre DEF Storage
    <3> QED BY <2>4, <2>5, <3>1, SentCalm
  <2>11. Live(w, v)
    BY <1>2 DEF IsIdle, Live
  <2>12. \A k \in Jobs : /\ w.job[k].place = "finished" => s.job[k].place = "finished"
                         /\ w.job[k].place = "waiting" =>
                              s.job[k].place = "waiting" \/ \E x \in VMsOf(k[1]) : Live(w, x)
    BY <2>1, <2>4, <2>7, <2>8, <2>11
  <2> QED BY <2>3, <2>6, <2>9, <2>10, <2>12 DEF Calm, Leaving
<1> QED BY <1>1, <1>2

\* A VM that shuts down is there until the notifications have come.
LEMMA ShutdownCalm ==
  ASSUME NEW w \in GoodWorlds, NEW v \in VMs, ON(w, v)
  PROVE  Calm(w, ShutdownVM(w, v))
<1>1. PICK u \in Users : u = v[1]
  BY VMIs
<1>2. PICK s : s = ShutdownVM(w, v)
  OBVIOUS
<1>3. /\ s.queue = Sent(w.queue, Free(v)) /\ s.vm = [w.vm EXCEPT ![v].pending = "shutdown"]
      /\ s.job = w.job /\ s.user = [w.user EXCEPT ![v[1]].shutdowns = @ + 1]
  BY Zenon, <1>2, ShutdownDoes
<1>4. w.queue \in Queues /\ w.vm \in [VMs -> VMRecs] /\ w.user \in GoodUsers
  BY WorldParts
<1>5. \A x \in VMs : s.vm[x].state = w.vm[x].state /\ s.vm[x].host = w.vm[x].host
  <2>1. \A x \in VMs : w.vm[x] \in VMRecs
    BY <1>4
  <2> QED BY <1>3, <1>4, <2>1 DEF VMRecs
<1>6. \A y \in Users : s.user[y].status = w.user[y].status
  <2>1. \A y \in Users : w.user[y] \in UserRecs(y)
    BY <1>4, UserParts
  <2> QED BY <1>1, <1>3, <1>4, <2>1 DEF UserRecs, GoodUsers
<1>7. \A y \in Users : Count(s.queue, Abandon(y)) = Count(w.queue, Abandon(y))
  <2>1. Free(v) \in Requests /\ Free(v).op # "abandon"
    BY RequestsAre DEF Free
  <2> QED BY <1>3, <1>4, <2>1, SentCalm
<1> QED BY <1>2, <1>3, <1>5, <1>6, <1>7 DEF Calm, Leaving

LEMMA FreeCalm ==
  ASSUME NEW w \in GoodWorlds, NEW v \in VMs
  PROVE  Calm(w, FreeOne(w, v))
<1>1. CASE IsIdle(w, v) /\ Processes(w, v) = {}
  <2>1. ON(w, v)
    BY <1>1 DEF IsIdle, ON, Exists
  <2> QED BY <1>1, <2>1, ShutdownCalm DEF FreeOne
<1>2. CASE ~(IsIdle(w, v) /\ Processes(w, v) = {})
  BY <1>2, CalmItself DEF FreeOne
<1> QED BY <1>1, <1>2

LEMMA RotateCalm ==
  ASSUME NEW w \in GoodWorlds, NEW u \in Users
  PROVE  Calm(w, Rotate(w, u))
<1>1. PICK f \in GoodUsers : f = w.user
  BY WorldParts
<1>2. PICK s : s = Rotate(w, u)
  OBVIOUS
<1>3. PICK r, l : l = Append(Tail(f[u].waiting), Head(f[u].waiting)) /\ r = [f[u] EXCEPT !.waiting = l]
  OBVIOUS
<1>4. f[u] \in UserRecs(u) /\ DOMAIN f = Users
  BY UserParts DEF GoodUsers
<1>5. r.status = f[u].status
  BY <1>3, <1>4 DEF UserRecs
<1>6. PICK g : g = [f EXCEPT ![u] = r]
  OBVIOUS
<1>7. \A y \in Users : g[y].status = f[y].status
  BY <1>4, <1>5, <1>6
<1>8. s = [w EXCEPT !.user = g]
  BY <1>1, <1>2, <1>3, <1>6 DEF Rotate
<1>9. s.queue = w.queue /\ s.vm = w.vm /\ s.job = w.job /\ s.user = g
  BY <1>8, WorldParts
<1> QED BY <1>1, <1>2, <1>7, <1>9 DEF Calm, Leaving

LEMMA ScheduleCalm ==
  ASSUME NEW D, NEW C \in SUBSET Jobs, NEW w \in GoodWorlds, Sound(w, D, C), NEW u \in Users
  PROVE  Calm(w, Schedule(w, u))
<1> DEFINE S(x) == {s \in GoodWorlds : Sound(s, D, C) /\ Calm(x, s)}
<1>1. ASSUME NEW x \in GoodWorlds, Sound(x, D, C)
      PROVE  AssignJobs(x, u) \in S(x) /\ FreeIdleVMs(x, u) \in S(x)
  <2> DEFINE T == S(x)
  <2>1. x \in T
    BY <1>1, CalmItself
  <2>2. ASSUME NEW n \in 1 .. Quantity[u], NEW s \in T
        PROVE  AssignOne(s, <<u, n>>) \in T /\ FreeOne(s, <<u, n>>) \in T
    <3>1. <<u, n>> \in VMs
      BY UserVMs
    <3>2. s \in GoodWorlds /\ Sound(s, D, C) /\ Calm(x, s) /\ ListsExact(s)
      BY DEF Sound
    <3>3. /\ Sound(AssignOne(s, <<u, n>>), D, C) /\ Same(s, AssignOne(s, <<u, n>>))
          /\ Sound(FreeOne(s, <<u, n>>), D, C) /\ Same(s, FreeOne(s, <<u, n>>))
      BY <3>1, <3>2, AssignKeeps, FreeKeeps
    <3>4. AssignOne(s, <<u, n>>) \in GoodWorlds /\ FreeOne(s, <<u, n>>) \in GoodWorlds
      BY <3>3 DEF Same
    <3>5. Calm(s, AssignOne(s, <<u, n>>)) /\ Calm(s, FreeOne(s, <<u, n>>))
      BY <3>1, <3>2, AssignCalm, FreeCalm
    <3>6. Calm(x, AssignOne(s, <<u, n>>)) /\ Calm(x, FreeOne(s, <<u, n>>))
      BY <3>2, <3>5, CalmThen
    <3> QED BY <3>3, <3>4, <3>6
  <2> HIDE DEF T
  <2>3. AssignJobs(x, u) \in T
    BY <2>1, <2>2, AssignLoop
  <2>4. FreeIdleVMs(x, u) \in T
    BY <2>1, <2>2, FreeLoop
  <2> QED BY <2>3, <2>4 DEF T
<1>2. PICK s : s = AssignJobs(w, u)
  OBVIOUS
<1>3. s \in GoodWorlds /\ Sound(s, D, C) /\ Calm(w, s)
  BY <1>1, <1>2
<1>4. Calm(s, FreeIdleVMs(s, u)) /\ Calm(s, Rotate(s, u)) /\ Calm(s, s)
  BY <1>1, <1>3, RotateCalm, CalmItself
<1>5. Schedule(w, u) \in {FreeIdleVMs(s, u), Rotate(s, u), s}
  BY <1>2 DEF Schedule
<1> QED BY <1>3, <1>4, <1>5, CalmThen

LEMMA UnlessFinalizingCalm ==
  ASSUME NEW D, NEW C \in SUBSET Jobs, NEW w \in GoodWorlds, Sound(w, D, C), NEW u \in Users
  PROVE  Calm(w, ScheduleUnlessFinalizing(w, u))
  BY ScheduleCalm, CalmItself DEF ScheduleUnlessFinalizing

\* A job starts when its storage is ready, on a VM that is there.
LEMMA StorageAttendedCalm ==
  ASSUME NEW D, NEW C \in SUBSET Jobs, NEW w \in GoodWorlds, Sound(w, D, C), NEW j \in C, NEW v,
         v = w.job[j].vm
  PROVE  Calm(w, StorageAttended(w, j[1], v))
<1>1. PICK e : e = Attended(w, j[1], v)
  OBVIOUS
<1>2. /\ v \in VMs /\ e \in GoodWorlds /\ e.queue = w.queue /\ e.user = w.user
      /\ e.job = [w.job EXCEPT ![j] = [place |-> "running", vm |-> v]]
      /\ e.vm = [w.vm EXCEPT ![v] = [state |-> "RUNNING", pending |-> "none",
                                     host |-> w.vm[v].host]]
  <2>1. j \in Jobs /\ w.job[j].place = "storage" /\ w.job[j].vm = v
    BY DEF Sound, Balanced
  <2> QED BY <1>1, <2>1, AttendedDoes
<1>3. Calm(w, e)
  <2>1. w.job \in [Jobs -> JobRecs] /\ w.vm \in [VMs -> VMRecs]
    BY WorldParts
  <2>2. w.job[j].place = "storage" /\ w.vm[v].state = "IDLE"
    BY DEF Sound, Balanced, JobsPlaced, On
  <2>3. /\ e.vm[v].state = "RUNNING" /\ e.vm[v].host = w.vm[v].host
        /\ \A x \in VMs : x # v => e.vm[x] = w.vm[x]
    <3> HIDE DEF VMRecs
    <3> QED BY <1>2, <2>1
  <2>4. \A k \in Jobs : k # j => e.job[k] = w.job[k]
    BY <1>2, <2>1
  <2> QED BY <1>2, <2>2, <2>3, <2>4 DEF Calm, Leaving, Live
<1>4. e \in GoodWorlds /\ Sound(e, D, C \ {j})
  BY <1>1, AttendedSound
<1>5. StorageAttended(w, j[1], v) = ScheduleUnlessFinalizing(e, j[1])
  BY <1>1 DEF StorageAttended, Attended
<1>6. C \ {j} \in SUBSET Jobs /\ j[1] \in Users
  BY JobUser
<1>7. Calm(e, ScheduleUnlessFinalizing(e, j[1]))
  BY <1>4, <1>6, UnlessFinalizingCalm
<1> QED BY <1>3, <1>5, <1>7, CalmThen

\* The end of a job, step by step.
LEMMA PlaceCalm ==
  ASSUME NEW w \in GoodWorlds, NEW j \in Jobs, w.job[j].place = "running",
         NEW s, s = EndedAt(w, j)
  PROVE  s \in GoodWorlds /\ Calm(w, s) /\ s.vm = w.vm
<1>1. PICK q \in Queues, m \in [VMs -> VMRecs], b \in [Jobs -> JobRecs], f \in GoodUsers,
           a \in SUBSET VMs :
        /\ w = [queue |-> q, vm |-> m, job |-> b, user |-> f, awaiting |-> a]
        /\ w.queue = q /\ w.vm = m /\ w.job = b /\ w.user = f /\ w.awaiting = a
  BY WorldParts
<1>2. PICK r, c : r = [b[j] EXCEPT !.place = "finished"] /\ c = [b EXCEPT ![j] = r]
  OBVIOUS
<1>3. r \in JobRecs /\ r.place = "finished"
  <2>1. b[j] \in JobRecs
    <3> HIDE DEF JobRecs
    <3> QED OBVIOUS
  <2>2. PICK p \in {"running", "finished"} : p = "finished"
    OBVIOUS
  <2>3. r \in JobRecs /\ r = [place |-> "finished", vm |-> b[j].vm]
    BY <1>2, <2>1, <2>2, RecPlace
  <2> QED BY <2>3
<1>4. c \in [Jobs -> JobRecs] /\ c[j] = r /\ \A k \in Jobs : k # j => c[k] = b[k]
  <2> HIDE DEF JobRecs
  <2> QED BY <1>2, <1>3
<1>5. s = [queue |-> q, vm |-> m, job |-> c, user |-> f, awaiting |-> a]
  BY <1>1, <1>2 DEF EndedAt
<1>6. s \in GoodWorlds /\ s.queue = q /\ s.vm = m /\ s.job = c /\ s.user = f
  BY <1>4, <1>5, MakeWorld
<1>7. Calm(w, s)
  BY <1>1, <1>3, <1>4, <1>6 DEF Calm, Leaving
<1> QED BY <1>1, <1>6, <1>7

LEMMA IdleCalm ==
  ASSUME NEW w \in GoodWorlds, NEW v \in VMs, Live(w, v),
         NEW s, s = IdleAt(w, v)
  PROVE  s \in GoodWorlds /\ Calm(w, s)
<1>1. PICK q \in Queues, m \in [VMs -> VMRecs], b \in [Jobs -> JobRecs], f \in GoodUsers,
           a \in SUBSET VMs :
        /\ w = [queue |-> q, vm |-> m, job |-> b, user |-> f, awaiting |-> a]
        /\ w.queue = q /\ w.vm = m /\ w.job = b /\ w.user = f /\ w.awaiting = a
  BY WorldParts
<1>2. PICK r, c : r = [m[v] EXCEPT !.state = "IDLE"] /\ c = [m EXCEPT ![v] = r]
  OBVIOUS
<1>3. r \in VMRecs /\ r.state = "IDLE" /\ r.host = m[v].host
  <2>1. m[v] \in VMRecs
    <3> HIDE DEF VMRecs
    <3> QED OBVIOUS
  <2> QED BY <1>2, <2>1, RecIdle
<1>4. c \in [VMs -> VMRecs] /\ c[v] = r /\ \A x \in VMs : x # v => c[x] = m[x]
  <2> HIDE DEF VMRecs
  <2> QED BY <1>2, <1>3
<1>5. s = [queue |-> q, vm |-> c, job |-> b, user |-> f, awaiting |-> a]
  BY <1>1, <1>2 DEF IdleAt
<1>6. s \in GoodWorlds /\ s.queue = q /\ s.vm = c /\ s.job = b /\ s.user = f
  BY <1>4, <1>5, MakeWorld
<1>7. Calm(w, s)
  BY <1>1, <1>3, <1>4, <1>6 DEF Calm, Leaving, Live
<1> QED BY <1>6, <1>7

\* The count of the messages a user has sent itself.
LEMMA WakeCalm ==
  ASSUME NEW w \in GoodWorlds, NEW u \in Users, NEW n,
         NEW s, s = [w EXCEPT !.user[u].wake = n]
  PROVE  Calm(w, s)
<1>1. PICK f \in GoodUsers : f = w.user
  BY WorldParts
<1>2. PICK r, g : r = [f[u] EXCEPT !.wake = n] /\ g = [f EXCEPT ![u] = r]
  OBVIOUS
<1>3. f[u] \in UserRecs(u) /\ DOMAIN f = Users
  BY UserParts DEF GoodUsers
<1>4. r.status = f[u].status
  BY <1>2, <1>3 DEF UserRecs
<1>5. \A y \in Users : g[y].status = f[y].status
  BY <1>2, <1>3, <1>4
<1>6. s.queue = w.queue /\ s.vm = w.vm /\ s.job = w.job /\ s.user = g
  <2>1. s = [w EXCEPT !.user = g]
    BY <1>1, <1>2
  <2> QED BY <2>1, WorldParts
<1> QED BY <1>1, <1>5, <1>6 DEF Calm, Leaving

LEMMA NotifyCalm ==
  ASSUME NEW D, NEW C \in SUBSET Jobs, NEW w \in GoodWorlds, Sound(w, D, C),
         NEW j \in Jobs, w.job[j].place = "running"
  PROVE  Calm(w, NotifyUserJobHasFinished(w, j))
<1>1. PICK v \in VMs, u \in Users : v = w.job[j].vm /\ u = j[1]
  <2>1. j[1] \in Users /\ w.job[j].vm \in VMsOf(j[1])
    BY JobUser DEF Sound, JobsPlaced, On
  <2> QED BY <2>1, UserVMs
<1>2. w.vm[v].state = "RUNNING" /\ ON(w, v)
  <2>1. w.vm[v].state = "RUNNING"
    BY <1>1 DEF On, Sound, JobsPlaced
  <2> QED BY <2>1 DEF ON, Exists
<1>3. PICK t : t = JobHasFinished(w, j)
  OBVIOUS
<1>4. t \in GoodWorlds /\ Calm(w, t) /\ t.job = w.job
  <2>1. t \in {w, ShutdownVM(w, v)}
    BY <1>1, <1>3 DEF JobHasFinished
  <2>2. ShutdownVM(w, v) \in GoodWorlds /\ ShutdownVM(w, v).job = w.job
    BY Zenon, <1>2, ShutdownDoes
  <2>3. Calm(w, ShutdownVM(w, v)) /\ Calm(w, w)
    BY <1>2, ShutdownCalm, CalmItself
  <2> QED BY <2>1, <2>2, <2>3
<1>5. PICK s : s = EndedAt(t, j)
  OBVIOUS
<1>6. s \in GoodWorlds /\ Calm(t, s)
  BY <1>4, <1>5, PlaceCalm
<1>7. PICK r : r = IF Processes(s, v) = {} THEN IdleAt(s, v) ELSE s
  OBVIOUS
<1>8. Calm(w, s)
  BY <1>4, <1>6, CalmThen
<1>9. Live(s, v)
  BY <1>2, <1>8 DEF Calm, Live
<1>10. r \in GoodWorlds /\ Calm(s, r)
  BY <1>6, <1>7, <1>9, IdleCalm, CalmItself
<1>11. Calm(w, r)
  BY <1>8, <1>10, CalmThen
<1>12. PICK z : z = [r EXCEPT !.user[u].wake = @ + 1]
  OBVIOUS
<1>13. Calm(r, z)
  <2>1. PICK n : n = r.user[u].wake + 1
    OBVIOUS
  <2>2. z = [r EXCEPT !.user[u].wake = n]
    BY <1>12, <2>1
  <2> QED BY <1>10, <2>2, WakeCalm
<1>14. NotifyUserJobHasFinished(w, j) \in {r, z}
  BY <1>1, <1>3, <1>5, <1>7, <1>12 DEF NotifyUserJobHasFinished, EndedAt, IdleAt
<1> QED BY <1>11, <1>13, <1>14, CalmThen

\* Another status for one user.
OnlyStatus(w, t, u, st) ==
  /\ t \in GoodWorlds /\ t.queue = w.queue /\ t.vm = w.vm /\ t.job = w.job
  /\ t.user[u].status = st /\ \A y \in Users : y # u => t.user[y] = w.user[y]

LEMMA StatusDoes ==
  ASSUME NEW w \in GoodWorlds, NEW u \in Users, NEW st \in {"new", "active", "finalizing", "gone"},
         NEW t, t = PutStatus(w, u, st)
  PROVE  OnlyStatus(w, t, u, st)
<1>1. w.user[u] \in UserRecs(u)
  BY WorldParts, UserParts
<1>2. PICK r : r = [w.user[u] EXCEPT !.status = st]
  OBVIOUS
<1>3. r \in UserRecs(u) /\ r.status = st
  BY <1>1, <1>2 DEF UserRecs
<1>4. t = PutUser(w, u, r)
  BY <1>2 DEF PutUser, PutStatus
<1>5. /\ t \in GoodWorlds /\ t.queue = w.queue /\ t.vm = w.vm /\ t.job = w.job
      /\ t.user[u] = r /\ \A y \in Users : y # u => t.user[y] = w.user[y]
  BY <1>3, <1>4, UserDoes
<1> QED BY <1>3, <1>5 DEF OnlyStatus

\* ... calm when it is not the status that says that the user leaves.
LEMMA StatusCalm ==
  ASSUME NEW w \in GoodWorlds, NEW u \in Users, NEW st \in {"new", "active", "finalizing", "gone"},
         NEW t, t = PutStatus(w, u, st), Leaving(w, u) <=> st \in {"finalizing", "gone"}
  PROVE  Calm(w, t)
<1>1. /\ t.queue = w.queue /\ t.vm = w.vm /\ t.job = w.job
      /\ t.user[u].status = st /\ \A y \in Users : y # u => t.user[y] = w.user[y]
  <2>1. OnlyStatus(w, t, u, st)
    BY StatusDoes
  <2> QED BY <2>1 DEF OnlyStatus
<1>2. \A y \in Users : Leaving(t, y) <=> Leaving(w, y)
  BY <1>1 DEF Leaving
<1> QED BY <1>1, <1>2 DEF Calm

\* A VM that the manager deletes is there.
LEMMA DeletedLives ==
  ASSUME NEW D, NEW C, NEW w \in GoodWorlds, Sound(w, D, C), NEW v \in D, v \in VMs
  PROVE  Live(w, v)
<1>1. w.queue \in Queues /\ w.vm[v] \in VMRecs
  <2> HIDE DEF VMRecs, Queues
  <2> QED BY WorldParts
<1>2. Count(w.queue, Free(v)) \in Nat
  BY <1>1, CountType
<1>3. Count(w.queue, Free(v)) + 1 = (IF w.vm[v].pending = "shutdown" THEN 1 ELSE 0)
  BY DEF Sound, Balanced
<1>4. w.vm[v].pending = "shutdown"
  BY <1>2, <1>3
<1> QED BY <1>1, <1>4, VMParts DEF Sound, VMsConsistent, Live

LEMMA DroppedWhole ==
  ASSUME NEW D, NEW C, NEW w \in GoodWorlds, Sound(w, D, C), Whole(w),
         NEW v \in D, v \in VMs, NEW u \in Users, u = v[1], NEW t, t = Dropped(w, v)
  PROVE  Whole(t) /\ Created(t, u) /\ ~Leaving(t, u) /\ ~(Count(t.queue, Abandon(u)) > 0)
<1>1. Live(w, v) /\ v \in VMsOf(u)
  BY DeletedLives, VMIs
<1>2. WholeFor(w, u)
  BY DEF Whole
<1>3. Created(w, u) /\ ~Leaving(w, u) /\ ~(Count(w.queue, Abandon(u)) > 0)
  BY <1>1, <1>2 DEF WholeFor, Live, NotBegun, Ended
<1>4. /\ t.queue = w.queue /\ t.job = w.job
      /\ t.vm[v].state = "gone" /\ t.vm[v].host = NoNode
      /\ \A x \in VMs : x # v => t.vm[x] = w.vm[x]
      /\ \A y \in Users : t.user[y].status = w.user[y].status
  BY DroppedDoes
<1>5. Created(t, u) /\ ~Leaving(t, u) /\ ~(Count(t.queue, Abandon(u)) > 0)
  BY <1>3, <1>4, UserVMs DEF Created, Leaving
<1>6. ASSUME NEW y \in Users PROVE WholeFor(t, y)
  <2>1. WholeFor(w, y) /\ VMsOf(y) \subseteq VMs
    BY UserVMs DEF Whole
  <2>2. CASE y = u
    <3>1. \A x \in VMsOf(u) : /\ t.vm[x].state # "OFF"
                              /\ t.vm[x].state \in {"none", "gone"} => t.vm[x].host = NoNode
      BY <1>4, <2>1, <2>2 DEF WholeFor
    <3> QED BY <1>5, <2>2, <3>1 DEF WholeFor
  <2>3. CASE y # u
    <3>1. \A x \in VMsOf(y) : t.vm[x] = w.vm[x]
      BY <1>4, <2>1, <2>3 DEF VMsOf
    <3> QED BY <1>4, <2>1, <3>1 DEF WholeFor, NotBegun, Created, Ended, Leaving
  <2> QED BY <2>2, <2>3
<1> QED BY <1>5, <1>6 DEF Whole

\* A user that has nothing to do any more has ended, if it has all its VMs.
NoWork(w, u) == /\ Waiting(w, u) = <<>>
                /\ \A j \in JobsOf(u) : w.job[j].place # "running"
                /\ \A x \in VMsOf(u) : ~ON(w, x)

LEMMA NoWorkEnds ==
  ASSUME NEW D, NEW C, NEW w \in GoodWorlds, Sound(w, D, C), NEW u \in Users,
         WholeFor(w, u), Created(w, u), NoWork(w, u)
  PROVE  Ended(w, u)
<1>1. w.vm \in [VMs -> VMRecs] /\ w.job \in [Jobs -> JobRecs]
  BY WorldParts
<1>2. ASSUME NEW v \in VMsOf(u) PROVE w.vm[v].state = "gone"
  BY DEF WholeFor, Created, NoWork, ON, Exists
<1>3. ASSUME NEW j \in JobsOf(u) PROVE w.job[j].place = "finished"
  <2>1. j \in Jobs /\ j[1] = u
    BY JobIs
  <2>2. w.job[j].place \in {"waiting", "storage", "running", "finished"}
    BY <1>1, <2>1, JobParts
  <2>3. w.job[j].place # "running"
    BY DEF NoWork
  <2>4. w.job[j].place # "waiting"
    <3>1. w.user[u].waiting = <<>>
      BY DEF NoWork, Waiting
    <3>2. DOMAIN w.user[u].waiting = {}
      BY <3>1
    <3> QED BY <3>2 DEF Sound, ListsExact
  <2>5. w.job[j].place # "storage"
    <3> SUFFICES ASSUME w.job[j].place = "storage" PROVE FALSE
      OBVIOUS
    <3>1. w.job[j].vm \in VMsOf(u) /\ w.vm[w.job[j].vm].state = "IDLE"
      BY <2>1 DEF Sound, JobsPlaced, On
    <3> QED BY <1>2, <3>1
  <2> QED BY <2>2, <2>3, <2>4, <2>5
<1> QED BY <1>2, <1>3 DEF Ended

LEMMA FinalizeWhole ==
  ASSUME NEW D, NEW C, NEW w \in GoodWorlds, Sound(w, D, C), Whole(w), NEW u \in Users,
         Created(w, u), NoWork(w, u), ~Leaving(w, u)
  PROVE  Whole(FinalizeUser(w, u))
<1>1. CASE ~(w.awaiting \cap VMsOf(u) = {} /\ w.user[u].shutdowns = 0)
  <2>1. FinalizeUser(w, u) = PutStatus(w, u, "active")
    BY <1>1 DEF FinalizeUser, PutStatus
  <2>2. Calm(w, PutStatus(w, u, "active"))
    BY StatusCalm
  <2> QED BY <2>1, <2>2, CalmKeeps
<1>2. CASE w.awaiting \cap VMsOf(u) = {} /\ w.user[u].shutdowns = 0
  <2>1. PICK t : t = PutStatus(w, u, "finalizing")
    OBVIOUS
  <2>2. PICK s : s = UserSendRequest(t, Abandon(u))
    OBVIOUS
  <2>3. FinalizeUser(w, u) = s
    BY <1>2, <2>1, <2>2 DEF FinalizeUser, PutStatus
  <2>4. /\ t \in GoodWorlds /\ t.queue = w.queue /\ t.vm = w.vm /\ t.job = w.job
        /\ t.user[u].status = "finalizing" /\ \A y \in Users : y # u => t.user[y] = w.user[y]
    <3>1. OnlyStatus(w, t, u, "finalizing")
      BY <2>1, StatusDoes
    <3> QED BY <3>1 DEF OnlyStatus
  <2>5. Abandon(u) \in Requests
    BY RequestsAre
  <2>6. s.queue = Sent(w.queue, Abandon(u)) /\ s.vm = w.vm /\ s.job = w.job /\ s.user = t.user
    BY <2>2, <2>4, <2>5, SendDoes
  <2>7. Leaving(s, u) /\ \A y \in Users : y # u => (Leaving(s, y) <=> Leaving(w, y))
    BY <2>4, <2>6 DEF Leaving
  <2>8. Ended(s, u)
    <3>1. Ended(w, u)
      BY NoWorkEnds DEF Whole
    <3> QED BY <2>6, <3>1 DEF Ended
  <2>9. \A y \in Users : y # u => Count(s.queue, Abandon(y)) = Count(w.queue, Abandon(y))
    <3>1. w.queue \in Queues
      BY WorldParts
    <3>2. \A y \in Users : y # u => Abandon(u) # Abandon(y)
      BY AbandonsDiffer
    <3>3. \A y \in Users : Count(w.queue, Abandon(y)) \in Nat
      BY <3>1, CountType
    <3>4. \A y \in Users : Count(Sent(w.queue, Abandon(u)), Abandon(y))
                             = Count(w.queue, Abandon(y)) + (IF Abandon(u) = Abandon(y) THEN 1 ELSE 0)
      BY <2>5, <3>1, CountSent
    <3> QED BY <2>6, <3>2, <3>3, <3>4
  <2>10. ASSUME NEW y \in Users PROVE WholeFor(s, y)
    <3>1. WholeFor(w, y)
      BY DEF Whole
    <3>2. CASE y = u
      BY <2>6, <2>7, <2>8, <3>1, <3>2 DEF WholeFor, NotBegun, Created
    <3>3. CASE y # u
      <4>1. Leaving(s, y) <=> Leaving(w, y)
        BY <2>7, <3>3
      <4>2. Count(s.queue, Abandon(y)) = Count(w.queue, Abandon(y))
        BY <2>9, <3>3
      <4>3. /\ NotBegun(s, y) <=> NotBegun(w, y)
            /\ Created(s, y) <=> Created(w, y)
            /\ Ended(s, y) <=> Ended(w, y)
        BY <2>6 DEF NotBegun, Created, Ended
      <4> QED BY <2>6, <3>1, <4>1, <4>2, <4>3 DEF WholeFor
    <3> QED BY <3>2, <3>3
  <2> QED BY <2>3, <2>10 DEF Whole
<1> QED BY <1>1, <1>2

LEMMA FreeAttendedWhole ==
  ASSUME NEW D, NEW C \in SUBSET Jobs, NEW w \in GoodWorlds, Sound(w, D, C), Whole(w),
         NEW v \in D, v \in VMs, NEW s, s = FreeAttended(UnlinkVM(w, v), v[1], v)
  PROVE  Whole(s)
<1>1. PICK t : t = Dropped(w, v)
  OBVIOUS
<1>2. t \in GoodWorlds /\ Sound(t, D \ {v}, C)
  BY <1>1, DroppedSound
<1>3. PICK u \in Users : u = v[1]
  BY SMTT(30), VMIs
<1>4. PICK e : /\ e = IF NoWork(t, u) THEN FinalizeUser(t, u) ELSE t
               /\ s = ScheduleUnlessFinalizing(e, u)
  BY SMTT(60), <1>1, <1>3 DEF FreeAttended, Dropped, NoWork
<1>5. Whole(t) /\ Created(t, u) /\ ~Leaving(t, u)
  BY <1>1, <1>3, DroppedWhole
<1>6. Whole(e)
  BY <1>2, <1>4, <1>5, FinalizeWhole
<1>7. e \in GoodWorlds /\ Sound(e, D \ {v}, C)
  <2>1. Keeps(t, FinalizeUser(t, u), D \ {v}, C)
    BY <1>2, FinalizeKeeps
  <2> QED BY <1>2, <1>4, <2>1 DEF Keeps, Same
<1>8. Calm(e, s)
  BY <1>4, <1>7, UnlessFinalizingCalm
<1> QED BY <1>6, <1>8, CalmKeeps

\* A START.
LEMMA LinkOneOthers ==
  ASSUME NEW w \in GoodWorlds, NEW v \in VMs, NEW x \in VMs, x # v
  PROVE  LinkOne(w, v).vm[x] = w.vm[x]
<1>1. PICK q \in Queues, m \in [VMs -> VMRecs], b \in [Jobs -> JobRecs], f \in GoodUsers,
           a \in SUBSET VMs :
        /\ w = [queue |-> q, vm |-> m, job |-> b, user |-> f, awaiting |-> a]
        /\ w.queue = q /\ w.vm = m /\ w.job = b /\ w.user = f /\ w.awaiting = a
  BY WorldParts
<1>2. CASE w.vm[v].state # "none" \/ SelectNode(w) = NoNode
  BY <1>2 DEF LinkOne
<1>3. CASE ~(w.vm[v].state # "none" \/ SelectNode(w) = NoNode)
  <2>1. PICK off, m2 : /\ off = [state |-> "OFF", pending |-> "none", host |-> SelectNode(w)]
                       /\ m2 = [m EXCEPT ![v] = off]
    OBVIOUS
  <2>2. LinkOne(w, v) = [queue |-> q, vm |-> m2, job |-> b, user |-> f, awaiting |-> a]
    BY <1>1, <1>3, <2>1 DEF LinkOne
  <2>3. LinkOne(w, v).vm = m2
    BY <2>2
  <2>4. m2[x] = m[x]
    <3> HIDE DEF VMRecs
    <3> QED BY <2>1
  <2> QED BY <1>1, <2>3, <2>4
<1> QED BY <1>2, <1>3

LEMMA LinkVMsOthers ==
  ASSUME NEW D, NEW C \in SUBSET Jobs, NEW w \in GoodWorlds, Sound(w, D, C), Room(w),
         NEW u \in Users
  PROVE  \A z \in VMs : z[1] # u => LinkVMs(w, u).vm[z] = w.vm[z]
<1> DEFINE S == {x \in GoodWorlds : /\ Sound(x, D, C) /\ Room(x)
                                    /\ \A z \in VMs : z[1] # u => x.vm[z] = w.vm[z]}
<1>1. w \in S
  OBVIOUS
<1>2. ASSUME NEW n \in 1 .. Quantity[u], NEW x \in S PROVE LinkOne(x, <<u, n>>) \in S
  <2>1. PICK k \in VMs : k = <<u, n>> /\ k[1] = u
    BY UserVMs
  <2>2. PICK y : y = LinkOne(x, k)
    OBVIOUS
  <2>3. x \in GoodWorlds /\ Sound(x, D, C) /\ Room(x)
    OBVIOUS
  <2>4. Sound(y, D, C) /\ Room(y) /\ Linking(x, y)
    BY <2>2, <2>3, LinkOneSound
  <2>5. ASSUME NEW z \in VMs, z[1] # u PROVE y.vm[z] = w.vm[z]
    <3>1. z # k
      BY <2>1, <2>5
    <3>2. y.vm[z] = x.vm[z]
      BY <2>2, <2>3, <3>1, LinkOneOthers
    <3> QED BY <2>5, <3>2
  <2> QED BY <2>1, <2>2, <2>4, <2>5 DEF Linking
<1> HIDE DEF S
<1>3. LinkVMs(w, u) \in S
  BY <1>1, <1>2, LinkLoop
<1> QED BY <1>3 DEF S

\* The first things of a user: so many there are.
LEMMA UpToSize ==
  ASSUME NEW u, NEW n \in Nat
  PROVE  /\ IsFiniteSet(1 .. n) /\ Cardinality(1 .. n) = n
         /\ IsFiniteSet({u} \X (1 .. n)) /\ Cardinality({u} \X (1 .. n)) = n
<1>1. IsFiniteSet(1 .. n) /\ Cardinality(1 .. n) = IF 1 > n THEN 0 ELSE n - 1 + 1
  <2>1. 1 \in Int /\ n \in Int
    OBVIOUS
  <2> QED BY Zenon, <2>1, FS_Interval
<1>2. Cardinality(1 .. n) = n
  BY <1>1
<1>3. PICK A, B : A = {u} /\ B = 1 .. n
  OBVIOUS
<1>4. IsFiniteSet(A) /\ Cardinality(A) = 1 /\ IsFiniteSet(B) /\ Cardinality(B) = n
  BY <1>1, <1>2, <1>3, FS_Singleton
<1>5. IsFiniteSet(A \X B) /\ Cardinality(A \X B) = Cardinality(A) * Cardinality(B)
  BY <1>4, FS_Product
<1> QED BY <1>1, <1>2, <1>3, <1>4, <1>5

\* As long as all its jobs wait, a user has as many as it will ever have: each
\* of its VMs gets one.
LEMMA AllWait ==
  ASSUME NEW w \in GoodWorlds, ListsExact(w), NEW u \in Users,
         \A j \in JobsOf(u) : w.job[j].place = "waiting"
  PROVE  Len(Waiting(w, u)) \in Nat /\ NumJobs[u] <= Len(Waiting(w, u))
<1>1. PICK l \in Seq(JobsOf(u)) : l = w.user[u].waiting
  BY WorldParts, UserParts
<1>2. PICK n \in Nat : n = Len(l) /\ DOMAIN l = 1 .. n
  OBVIOUS
<1>3. NumJobs[u] \in Nat
  BY CloudAssumption
<1> DEFINE f == [i \in 1 .. n |-> l[i]]
<1>4. f \in Surjection(1 .. n, JobsOf(u))
  <2>1. \A j \in JobsOf(u) : \E i \in 1 .. n : l[i] = j
    BY <1>1, <1>2 DEF ListsExact
  <2>2. \A i \in 1 .. n : l[i] \in JobsOf(u)
    BY <1>2
  <2> QED BY <2>1, <2>2 DEF Surjection
<1>5. IsFiniteSet(1 .. n) /\ Cardinality(1 .. n) = n
  BY UpToSize
<1>6. Cardinality(JobsOf(u)) <= n
  <2> HIDE DEF f
  <2> QED BY <1>4, <1>5, FS_Surjection
<1>7. Cardinality(JobsOf(u)) = NumJobs[u]
  BY <1>3, UpToSize DEF JobsOf
<1> QED BY <1>1, <1>2, <1>6, <1>7 DEF Waiting

LEMMA AllUsed ==
  ASSUME NEW w \in GoodWorlds, ListsExact(w), NEW u \in Users,
         \A j \in JobsOf(u) : w.job[j].place = "waiting"
  PROVE  Used(w, u, VMsOf(u)) = VMsOf(u)
<1>1. Len(Waiting(w, u)) \in Nat /\ NumJobs[u] <= Len(Waiting(w, u))
  BY AllWait
<1>2. Quantity[u] \in Nat /\ NumJobs[u] \in Nat /\ Quantity[u] <= NumJobs[u]
  BY CloudAssumption
<1>3. IsFiniteSet(VMsOf(u)) /\ Cardinality(VMsOf(u)) = Quantity[u]
  BY <1>2, UpToSize DEF VMsOf
<1>4. ASSUME NEW v \in VMsOf(u)
      PROVE  Cardinality({x \in VMsOf(u) : x[2] <= v[2]}) <= Len(Waiting(w, u))
  <2>1. PICK T : T = {x \in VMsOf(u) : x[2] <= v[2]}
    OBVIOUS
  <2>2. T \subseteq VMsOf(u)
    BY <2>1
  <2>3. /\ IsFiniteSet(T) /\ Cardinality(T) \in Nat
        /\ Cardinality(T) <= Cardinality(VMsOf(u))
    BY <1>3, <2>2, FS_Subset, FS_CardinalityType
  <2>4. Cardinality(T) <= Len(Waiting(w, u))
    BY <1>1, <1>2, <1>3, <2>3
  <2> QED BY <2>1, <2>4
<1> QED BY <1>4 DEF Used

\* The pass goes on without an ABANDON more in the queues.
LEMMA QueueCalm ==
  ASSUME NEW w \in GoodWorlds, NEW q \in Queues, NEW s, s = PutQueue(w, q),
         \A u \in Users : Count(q, Abandon(u)) <= Count(w.queue, Abandon(u))
  PROVE  s \in GoodWorlds /\ Calm(w, s)
<1>1. s \in GoodWorlds /\ s.queue = q /\ s.vm = w.vm /\ s.job = w.job /\ s.user = w.user
  BY QueueDoes
<1>2. \A u \in Users : Count(q, Abandon(u)) \in Nat /\ Count(w.queue, Abandon(u)) \in Nat
  BY WorldParts, CountType
<1>3. \A u \in Users : Count(s.queue, Abandon(u)) > 0 => Count(w.queue, Abandon(u)) > 0
  BY <1>1, <1>2
<1> QED BY <1>1, <1>3 DEF Calm, Leaving

LEMMA EraseCalm ==
  ASSUME NEW w \in GoodWorlds, w.queue.next <= Len(w.queue.requests), NEW s, s = EraseRequest(w)
  PROVE  s \in GoodWorlds /\ Calm(w, s)
<1>1. PICK r : r = w.queue.requests[w.queue.next]
  OBVIOUS
<1>2. Lacks(w, s, r)
  BY <1>1, EraseDoes
<1>3. PICK q \in Queues : /\ s = PutQueue(w, q)
                          /\ \A x : Count(q, x) = Count(w.queue, x) - (IF r = x THEN 1 ELSE 0)
  BY <1>2 DEF Lacks
<1>4. \A u \in Users : Count(w.queue, Abandon(u)) \in Nat
  BY WorldParts, CountType
<1>5. \A u \in Users : Count(q, Abandon(u)) <= Count(w.queue, Abandon(u))
  BY <1>3, <1>4
<1> QED BY <1>3, <1>5, QueueCalm

LEMMA AdvanceCalm ==
  ASSUME NEW w \in GoodWorlds, NEW s, s = Advance(w)
  PROVE  s \in GoodWorlds /\ Calm(w, s)
<1>1. PICK q : q = [w.queue EXCEPT !.next = @ + 1]
  OBVIOUS
<1>2. w.queue \in Queues
  BY WorldParts
<1>3. q \in Queues /\ q.requests = w.queue.requests /\ q.temporal = w.queue.temporal
  BY <1>1, <1>2 DEF Queues
<1>4. s = PutQueue(w, q)
  BY <1>1 DEF Advance, PutQueue
<1>5. \A u \in Users : Count(q, Abandon(u)) = Count(w.queue, Abandon(u))
  BY <1>3 DEF Count
<1>6. \A u \in Users : Count(w.queue, Abandon(u)) \in Nat
  BY <1>2, CountType
<1>7. \A u \in Users : Count(q, Abandon(u)) <= Count(w.queue, Abandon(u))
  BY <1>5, <1>6
<1> QED BY <1>3, <1>4, <1>7, QueueCalm

\* An answer to a START with all the VMs, or with none.
LEMMA StartWhole ==
  ASSUME NEW D, NEW C \in SUBSET Jobs, NEW w \in GoodWorlds, Sound(w, D, C), Room(w), Whole(w),
         NEW u \in Users, NEW s, s = LinkVMs(w, u),
         NEW chunk, chunk = {v \in VMsOf(u) : w.vm[v].state = "none" /\ s.vm[v].state # "none"},
         chunk # {} => \A v \in VMsOf(u) : s.vm[v].state # "none",
         NEW told, told = IF chunk = {} THEN s ELSE StartAttended(s, u, chunk)
  PROVE  Whole(told)
<1>1. Sound(s, D, C) /\ Linking(w, s)
  BY LinkVMsSound
<1>2. /\ s \in GoodWorlds /\ s.queue = w.queue /\ s.job = w.job /\ s.user = w.user
      /\ \A x \in VMs : s.vm[x] # w.vm[x] => w.vm[x].state = "none" /\ s.vm[x].state = "OFF"
  BY <1>1 DEF Linking
<1>3. \A x \in VMs : x[1] # u => s.vm[x] = w.vm[x]
  BY LinkVMsOthers
<1>4. WholeFor(w, u) /\ VMsOf(u) \subseteq VMs
  BY UserVMs DEF Whole
<1>5. CASE chunk = {}
  <2>1. ASSUME NEW x \in VMs PROVE s.vm[x] = w.vm[x]
    <3>1. CASE x[1] = u
      <4>1. x \in VMsOf(u)
        BY <3>1, VMIs
      <4>2. s.vm[x] # w.vm[x] => x \in chunk
        BY <1>2, <4>1
      <4> QED BY <1>5, <4>2
    <3> QED BY <1>3, <3>1
  <2>2. Calm(w, s)
    BY <1>2, <2>1 DEF Calm, Leaving
  <2> QED BY <1>5, <2>2, CalmKeeps
<1>6. CASE chunk # {}
  <2>1. PICK k \in VMsOf(u) : w.vm[k].state = "none"
    BY <1>6
  <2>2. NotBegun(w, u) /\ ~Leaving(w, u)
    BY <1>4, <2>1 DEF WholeFor, Created, Ended
  <2>3. chunk = VMsOf(u)
    BY <1>6, <2>2 DEF NotBegun
  <2>4. \A v \in VMsOf(u) : v \in VMs /\ s.vm[v].state = "OFF"
    BY <1>2, <1>4, <2>2, <2>3 DEF NotBegun
  <2>5. PICK used : used = Used(s, u, chunk)
    OBVIOUS
  <2>6. used = VMsOf(u)
    <3>1. ListsExact(s) /\ \A j \in JobsOf(u) : s.job[j].place = "waiting"
      BY <1>1, <1>2, <2>2 DEF Sound, NotBegun
    <3> QED BY <1>2, <2>3, <2>5, <3>1, AllUsed
  <2>7. PICK t : t = Given(s, used)
    OBVIOUS
  <2>8. /\ t \in GoodWorlds /\ Sound(t, D, C)
        /\ t.queue = s.queue /\ t.job = s.job /\ t.user = s.user
        /\ \A v \in VMsOf(u) : t.vm[v].state = "IDLE"
        /\ \A v \in VMs : v \notin VMsOf(u) => t.vm[v] = s.vm[v]
    <3>1. \A v \in used : v \in VMs /\ s.vm[v].state = "OFF"
      BY <2>4, <2>6
    <3>2. t \in GoodWorlds /\ Sound(t, D, C) /\ IsGiven(s, t, used)
      BY <1>1, <1>2, <2>7, <3>1, GivenSound
    <3> QED BY <2>6, <3>2 DEF IsGiven
  <2>9. ASSUME NEW y \in Users PROVE WholeFor(t, y)
    <3>1. WholeFor(w, y) /\ (Leaving(t, y) <=> Leaving(w, y)) /\ t.queue = w.queue
      BY <1>2, <2>8 DEF Whole, Leaving
    <3>2. CASE y = u
      <4>1. Created(t, u) /\ ~Leaving(t, u)
        BY <2>2, <2>8, <3>1, <3>2 DEF Created
      <4>2. \A v \in VMsOf(u) : /\ t.vm[v].state # "OFF"
                                /\ t.vm[v].state \in {"none", "gone"} => t.vm[v].host = NoNode
        BY <2>8
      <4> QED BY <3>1, <3>2, <4>1, <4>2 DEF WholeFor
    <3>3. CASE y # u
      <4>1. \A x \in VMsOf(y) : t.vm[x] = w.vm[x]
        <5>1. \A x \in VMsOf(y) : x \in VMs /\ x[1] = y /\ x \notin VMsOf(u)
          BY <3>3, UserVMs DEF VMsOf
        <5> QED BY <1>3, <2>8, <3>3, <5>1
      <4>2. /\ NotBegun(t, y) <=> NotBegun(w, y)
            /\ Created(t, y) <=> Created(w, y)
            /\ Ended(t, y) <=> Ended(w, y)
        BY <1>2, <2>8, <4>1 DEF NotBegun, Created, Ended
      <4> QED BY <3>1, <4>1, <4>2 DEF WholeFor
    <3> QED BY <3>2, <3>3
  <2>10. told = ScheduleUnlessFinalizing(t, u)
    BY <1>6, <2>5, <2>7 DEF StartAttended, Used, Given
  <2>11. Calm(t, told)
    BY <2>8, <2>10, UnlessFinalizingCalm
  <2> QED BY <2>9, <2>11, CalmKeeps DEF Whole
<1> QED BY <1>5, <1>6

LeftInv == partial \/ Whole(World)

\* A step that only calms the world.
CalmHere == Calm(World, World')

LEMMA CalmLeft ==
  ASSUME LeftInv, CalmHere, partial => partial'
  PROVE  LeftInv'
<1>1. CASE partial
  BY <1>1 DEF LeftInv
<1>2. CASE Whole(World)
  <2>1. Whole(World')
    BY <1>2, CalmKeeps DEF CalmHere
  <2> QED BY <2>1 DEF LeftInv
<1> QED BY <1>1, <1>2 DEF LeftInv

LEMMA CalmBecomes ==
  ASSUME NEW w \in GoodWorlds, Become(w), Calm(World, w)
  PROVE  CalmHere
<1>1. World' = w
  BY Becomes
<1> QED BY <1>1 DEF CalmHere

LEMMA UnchangedCalm ==
  ASSUME UNCHANGED world
  PROVE  CalmHere
<1>1. World' = World
  BY DEF world, World
<1> QED BY <1>1, CalmItself DEF CalmHere

LEMMA UserArrivesCalm ==
  ASSUME IInv, NEW u \in Users, UserArrives(u)
  PROVE  CalmHere
<1>1. World \in GoodWorlds /\ World.queue \in Queues
  BY WorldParts DEF IInv
<1>2. PICK t : t = PutStatus(World, u, "active")
  OBVIOUS
<1>3. PICK w : w = UserSendRequest(t, Start(u))
  OBVIOUS
<1>4. Become(w)
  BY <1>2, <1>3 DEF UserArrives, PutStatus
<1>5. OnlyStatus(World, t, u, "active")
  BY <1>1, <1>2, StatusDoes
<1>6. Start(u) \in Requests /\ Start(u).op # "abandon" /\ t \in GoodWorlds /\ t.queue = World.queue
  BY <1>5, RequestsAre DEF Start, OnlyStatus
<1>7. /\ w \in GoodWorlds /\ w.queue = Sent(World.queue, Start(u)) /\ w.vm = t.vm
      /\ w.job = t.job /\ w.user = t.user
  BY <1>3, <1>6, SendDoes
<1>8. Calm(World, t)
  <2>1. ~Leaving(World, u)
    BY WorldIs DEF UserArrives, Leaving
  <2>2. PICK st \in {"new", "active", "finalizing", "gone"} : st = "active"
    OBVIOUS
  <2> QED BY <1>1, <1>2, <2>1, <2>2, StatusCalm
<1>9. Calm(t, w)
  <2>1. \A y \in Users : Count(w.queue, Abandon(y)) = Count(t.queue, Abandon(y))
    BY <1>1, <1>6, <1>7, SentCalm
  <2> QED BY <1>7, <2>1 DEF Calm, Leaving
<1> QED BY <1>4, <1>7, <1>8, <1>9, CalmThen, CalmBecomes

LEMMA JobFinishesCalm ==
  ASSUME IInv, NEW j \in Jobs, JobFinishes(j)
  PROVE  CalmHere
<1>1. PICK w : w = NotifyUserJobHasFinished(World, j)
  OBVIOUS
<1>2. Become(w)
  BY <1>1 DEF JobFinishes
<1>3. /\ World \in GoodWorlds /\ Sound(World, toDelete, Asked) /\ Asked \in SUBSET Jobs
      /\ World.job[j].place = "running"
  BY WorldIs DEF IInv, Asked, JobFinishes
<1>4. w \in GoodWorlds
  BY <1>1, <1>3, NotifyKeeps DEF Keeps, Same
<1>5. Calm(World, w)
  BY <1>1, <1>3, NotifyCalm
<1> QED BY <1>2, <1>4, <1>5, CalmBecomes

LEMMA WakeStepCalm ==
  ASSUME IInv, NEW u \in Users, Wake(u)
  PROVE  CalmHere
<1>1. /\ World \in GoodWorlds /\ Sound(World, toDelete, Asked) /\ Asked \in SUBSET Jobs
  BY DEF IInv, Asked
<1>2. PICK f \in GoodUsers : f = World.user
  BY <1>1, WorldParts
<1>3. PICK n : n = f[u].wake - 1
  OBVIOUS
<1>4. PICK r : r = [f[u] EXCEPT !.wake = n]
  OBVIOUS
<1>5. r \in UserRecs(u) /\ r.waiting = f[u].waiting /\ r.shutdowns = f[u].shutdowns
  <2>1. f[u] \in UserRecs(u) /\ f[u].wake > 0 /\ f[u].wake \in Nat
    BY <1>2, UserParts, WorldIs DEF Wake
  <2> QED BY <1>3, <1>4, <2>1 DEF UserRecs
<1>6. PICK t : t = PutUser(World, u, r)
  OBVIOUS
<1>7. /\ t \in GoodWorlds /\ t.queue = World.queue /\ t.vm = World.vm /\ t.job = World.job
      /\ t.awaiting = World.awaiting /\ t.user[u] = r
      /\ \A y \in Users : y # u => t.user[y] = World.user[y]
  BY <1>1, <1>5, <1>6, UserDoes
<1>8. Sound(t, toDelete, Asked)
  <2>1. /\ \A y \in Users : t.user[y].waiting = World.user[y].waiting
        /\ \A y \in Users : t.user[y].shutdowns = World.user[y].shutdowns
    BY <1>2, <1>5, <1>7
  <2>2. ListsExact(t)
    BY <1>1, <1>7, <2>1, ListsSame DEF Sound
  <2> QED BY <1>1, <1>7, <2>1, <2>2, Unaffected
<1>9. t = [World EXCEPT !.user[u].wake = n] /\ t = [World EXCEPT !.user[u].wake = @ - 1]
  BY <1>2, <1>3, <1>4, <1>6 DEF PutUser
<1>10. Calm(World, t)
  BY <1>1, <1>9, WakeCalm
<1>11. ExecutePendingJobs(t, u) = t
  BY <1>7, <1>8, NothingReady
<1>12. PICK w : w = Schedule(t, u)
  OBVIOUS
<1>13. Become(w)
  BY <1>9, <1>11, <1>12 DEF Wake
<1>14. Calm(t, w)
  BY <1>1, <1>7, <1>8, <1>12, ScheduleCalm
<1>15. w \in GoodWorlds
  <2>1. Keeps(t, w, toDelete, Asked)
    BY <1>1, <1>7, <1>8, <1>12, ScheduleKeeps
  <2> QED BY <2>1 DEF Keeps, Same
<1>16. Calm(World, w)
  BY <1>10, <1>14, CalmThen
<1> QED BY <1>13, <1>15, <1>16, CalmBecomes

LEMMA StorageReadyCalm ==
  ASSUME IInv, NEW j \in Jobs, StorageReady(j)
  PROVE  CalmHere
<1>1. /\ World \in GoodWorlds /\ Sound(World, toDelete, Asked) /\ Asked \in SUBSET Jobs
      /\ ~failed /\ Typed
  BY DEF IInv, Asked, StorageReady, NoPass
<1>2. PICK p \in PendingType : p = pending /\ flight = p
  BY <1>1 DEF IInv, Typed, Joins
<1>3. /\ p.connect[j] > 0
      /\ Become(IF pending.connect[j] = 1 THEN StorageAttended(World, j[1], job[j].vm) ELSE World)
  BY <1>2, CountsTyped DEF StorageReady
<1>4. PICK w : w = StorageAttended(World, j[1], job[j].vm)
  OBVIOUS
<1>5. j \in Asked /\ job[j].vm = World.job[j].vm
  BY <1>2, <1>3, WorldIs DEF Asked
<1>6. Calm(World, w)
  BY <1>1, <1>4, <1>5, StorageAttendedCalm
<1>7. w \in GoodWorlds
  <2>1. Keeps(World, w, toDelete, Asked \ {j})
    BY <1>1, <1>4, <1>5, StorageAttendedKeeps
  <2> QED BY <2>1 DEF Keeps, Same
<1>8. Become(w) \/ Become(World)
  BY <1>3, <1>4
<1> QED BY <1>1, <1>3, <1>6, <1>7, <1>8, CalmItself, CalmBecomes

\* The last notification for a VM that is to be deleted.
LEMMA ReleaseLeft ==
  ASSUME IInv, LeftInv, NEW v \in VMs, pending.format[v] > 0 \/ pending.close[v] > 0, ~failed,
         Release(v) \/ UNCHANGED <<world, toDelete, failed>>, partial' = partial
  PROVE  LeftInv'
<1>1. /\ World \in GoodWorlds /\ Sound(World, toDelete, Asked) /\ Asked \in SUBSET Jobs
  BY DEF IInv, Asked
<1>2. v \in toDelete
  BY DEF IInv, Joins
<1>3. PICK w : w = FreeAttended(UnlinkVM(World, v), v[1], v)
  OBVIOUS
<1>4. Become(w) \/ UNCHANGED world
  BY <1>2, <1>3 DEF Release
<1>5. CASE UNCHANGED world
  BY <1>5, UnchangedCalm, CalmLeft
<1>6. CASE Become(w)
  <2>1. w \in GoodWorlds
    BY <1>1, <1>2, <1>3, FreeAttendedSound
  <2>2. World' = w
    BY <1>6, <2>1, Becomes
  <2>3. Whole(World) => Whole(w)
    BY <1>1, <1>2, <1>3, FreeAttendedWhole
  <2> QED BY <2>2, <2>3 DEF LeftInv
<1> QED BY <1>4, <1>5, <1>6

LEMMA FSFormattedLeft ==
  ASSUME IInv, LeftInv, NEW v \in VMs, FSFormatted(v)
  PROVE  LeftInv'
<1>1. ~failed /\ flight = pending /\ pending.format[v] > 0 /\ partial' = partial
  BY DEF IInv, Joins, FSFormatted, NoPass
<1>2. Release(v) \/ UNCHANGED <<world, toDelete, failed>>
  BY DEF FSFormatted
<1> QED BY <1>1, <1>2, ReleaseLeft

LEMMA ConnectionsClosedLeft ==
  ASSUME IInv, LeftInv, NEW v \in VMs, ConnectionsClosed(v)
  PROVE  LeftInv'
<1>1. ~failed /\ flight = pending /\ pending.close[v] > 0 /\ partial' = partial
  BY DEF IInv, Joins, ConnectionsClosed, NoPass
<1>2. Release(v) \/ UNCHANGED <<world, toDelete, failed>>
  BY DEF ConnectionsClosed
<1> QED BY <1>1, <1>2, ReleaseLeft

LEMMA QueueStepCalm ==
  ASSUME IInv, NEW q \in Queues, queue' = q, \A x : Count(q, x) = Count(queue, x),
         UNCHANGED <<vm, job, user, awaiting>>
  PROVE  CalmHere
<1>1. World \in GoodWorlds /\ World.queue \in Queues
  BY WorldParts DEF IInv
<1>2. PICK w : w = PutQueue(World, q)
  OBVIOUS
<1>3. \A u \in Users : Count(q, Abandon(u)) <= Count(World.queue, Abandon(u))
  <2>1. \A u \in Users : Count(World.queue, Abandon(u)) \in Nat
    BY <1>1, CountType
  <2> QED BY <2>1, WorldIs
<1>4. w \in GoodWorlds /\ Calm(World, w)
  BY <1>1, <1>2, <1>3, QueueCalm
<1>5. Become(w)
  <2>1. /\ w.queue = q /\ w.vm = World.vm /\ w.job = World.job /\ w.user = World.user
        /\ w.awaiting = World.awaiting
    BY <1>1, <1>2, QueueDoes
  <2> QED BY <2>1, WorldIs DEF Become
<1> QED BY <1>4, <1>5, CalmBecomes

LEMMA SchedulerBlockCalm ==
  ASSUME IInv, SchedulerBlock
  PROVE  CalmHere
<1>1. PICK g \in Queues : g = queue
  BY WorldParts, WorldIs DEF IInv
<1>2. PICK q : q = [g EXCEPT !.blocked = TRUE, !.next = 1]
  OBVIOUS
<1>3. q \in Queues /\ q.requests = g.requests /\ q.temporal = g.temporal
  <2>1. PICK a \in Seq(Requests), b \in Seq(Requests) : a = g.requests /\ b = g.temporal
    BY QueueParts
  <2>2. q = [blocked |-> TRUE, requests |-> a, temporal |-> b, next |-> 1]
    BY <1>2, <2>1 DEF Queues
  <2>3. TRUE \in BOOLEAN /\ 1 \in Nat \ {0}
    OBVIOUS
  <2> QED BY <2>1, <2>2, <2>3 DEF Queues
<1>4. \A x : Count(q, x) = Count(queue, x)
  BY <1>1, <1>3 DEF Count
<1>5. queue' = q /\ UNCHANGED <<vm, job, user, awaiting>>
  BY <1>1, <1>2 DEF SchedulerBlock
<1> QED BY <1>3, <1>4, <1>5, QueueStepCalm

LEMMA SchedulerUnblockCalm ==
  ASSUME IInv, SchedulerUnblock
  PROVE  CalmHere
<1>1. PICK g \in Queues : g = queue
  BY WorldParts, WorldIs DEF IInv
<1>2. PICK a \in Seq(Requests), b \in Seq(Requests) : a = g.requests /\ b = g.temporal
  BY QueueParts
<1>3. PICK c : c = a \o b
  OBVIOUS
<1>4. c \in Seq(Requests) /\ \A x : In(c, x) = In(a, x) + In(b, x)
  BY <1>3, InConcat, ConcatProperties
<1>5. PICK q : q = [blocked |-> FALSE, next |-> 1, requests |-> c, temporal |-> <<>>]
  OBVIOUS
<1>6. q \in Queues /\ q.requests = c /\ q.temporal = <<>>
  BY <1>4, <1>5 DEF Queues
<1>7. \A x : Count(q, x) = Count(queue, x)
  <2>1. \A x : In(a, x) \in Nat /\ In(b, x) \in Nat
    BY InType
  <2> QED BY <1>1, <1>2, <1>4, <1>6, <2>1, InEmpty DEF Count
<1>8. queue' = q /\ UNCHANGED <<vm, job, user, awaiting>>
  BY <1>1, <1>2, <1>3, <1>5 DEF SchedulerUnblock, Unblock
<1> QED BY <1>6, <1>7, <1>8, QueueStepCalm

LEMMA RequestStartVMLeft ==
  ASSUME IInv, LeftInv, RequestStartVM
  PROVE  LeftInv'
<1>0. /\ World \in GoodWorlds /\ Sound(World, toDelete, Asked) /\ Room(World)
      /\ Asked \in SUBSET Jobs /\ partial \in BOOLEAN
  BY DEF IInv, Typed, Asked
<1>1. /\ World.queue.blocked /\ World.queue.next <= Len(World.queue.requests)
      /\ Request \in Requests /\ Request = World.queue.requests[World.queue.next]
      /\ Request.op = "start"
  BY Examining DEF RequestStartVM
<1>2. PICK u \in Users : u = Request.user
  BY <1>1, RequestIs
<1>3. PICK w : w = LinkVMs(World, u)
  OBVIOUS
<1>4. Sound(w, toDelete, Asked) /\ Linking(World, w)
  BY <1>0, <1>3, LinkVMsSound
<1>5. w \in GoodWorlds /\ w.queue = World.queue
  BY <1>4 DEF Linking
<1>6. PICK chunk : chunk = {v \in VMsOf(u) : vm[v].state = "none" /\ w.vm[v].state # "none"}
  OBVIOUS
<1>7. PICK all : all = \A v \in VMsOf(u) : w.vm[v].state # "none"
  OBVIOUS
<1>8. PICK told : told = IF chunk = {} THEN w ELSE StartAttended(w, u, chunk)
  OBVIOUS
<1>9. \/ Stop
      \/ \E t \in {EraseRequest(told), Advance(told)} :
           Become(t) /\ partial' = (partial \/ (chunk # {} /\ ~all))
  BY ZenonT(40), <1>2, <1>3, <1>6, <1>7, <1>8 DEF RequestStartVM
<1>10. CASE Stop
  BY <1>10, UnchangedCalm, CalmLeft DEF Stop
<1>11. ASSUME NEW t \in {EraseRequest(told), Advance(told)}, Become(t),
              partial' = (partial \/ (chunk # {} /\ ~all))
       PROVE  LeftInv'
  <2>1. CASE partial \/ (chunk # {} /\ ~all)
    BY <1>11, <2>1 DEF LeftInv
  <2>2. CASE ~partial /\ (chunk # {} => all)
    <3>1. Whole(World)
      BY <2>2 DEF LeftInv
    <3>2. Whole(told)
      <4>1. chunk = {v \in VMsOf(u) : World.vm[v].state = "none" /\ w.vm[v].state # "none"}
        BY <1>6, WorldIs
      <4>2. chunk # {} => \A v \in VMsOf(u) : w.vm[v].state # "none"
        BY <1>7, <2>2
      <4> QED BY SMTT(60), <1>0, <1>3, <1>8, <3>1, <4>1, <4>2, StartWhole
    <3>3. told \in GoodWorlds /\ told.queue.next <= Len(told.queue.requests)
      <4>1. Keeps(w, told, toDelete, Asked)
        <5>1. CASE chunk = {}
          BY <1>4, <1>5, <1>8, <5>1, SameItself DEF Keeps
        <5>2. CASE chunk # {}
          <6>1. told = StartAttended(w, u, chunk)
            BY <1>8, <5>2
          <6>2. \A v \in chunk : v \in VMs /\ w.vm[v].state = "OFF"
            BY <1>4, <1>6, UserVMs, WorldIs DEF Linking
          <6> QED BY <1>0, <1>4, <1>5, <6>1, <6>2, StartKeeps
        <5> QED BY <5>1, <5>2
      <4> QED BY <1>1, <1>5, <4>1 DEF Keeps, Same
    <3>4. t \in GoodWorlds /\ Calm(told, t)
      <4>1. CASE t = EraseRequest(told)
        BY <3>3, <4>1, EraseCalm
      <4>2. CASE t = Advance(told)
        BY <3>3, <4>2, AdvanceCalm
      <4> QED BY <4>1, <4>2
    <3>5. Whole(t)
      BY <3>2, <3>4, CalmKeeps
    <3>6. World' = t
      BY <1>11, <3>4, Becomes
    <3> QED BY <3>5, <3>6 DEF LeftInv
  <2> QED BY <2>1, <2>2
<1> QED BY <1>9, <1>10, <1>11

LEMMA ConnectToStorageCalm ==
  ASSUME IInv, Examined("storage"), ConnectToStorage
  PROVE  CalmHere
<1>1. World \in GoodWorlds /\ World.queue.next <= Len(World.queue.requests)
  BY Examining DEF IInv
<1>2. PICK s : s = EraseRequest(World)
  OBVIOUS
<1>3. s \in GoodWorlds /\ Calm(World, s)
  BY <1>1, <1>2, EraseCalm
<1>4. PICK w : w = Advance(s)
  OBVIOUS
<1>5. w \in GoodWorlds /\ Calm(s, w)
  BY <1>3, <1>4, AdvanceCalm
<1>6. Calm(World, w)
  BY <1>3, <1>5, CalmThen
<1>7. Become(w)
  BY <1>2, <1>4 DEF ConnectToStorage
<1> QED BY <1>5, <1>6, <1>7, CalmBecomes

LEMMA RequestShutdownVMCalm ==
  ASSUME IInv, RequestShutdownVM
  PROVE  CalmHere
<1>1. World \in GoodWorlds /\ World.queue.next <= Len(World.queue.requests)
  BY Examining DEF RequestShutdownVM, IInv
<1>2. PICK s : s = EraseRequest(World)
  OBVIOUS
<1>3. s \in GoodWorlds /\ Calm(World, s)
  BY <1>1, <1>2, EraseCalm
<1>4. (UNCHANGED world \/ Become(s))
  BY <1>2 DEF RequestShutdownVM, Stop
<1>5. CASE UNCHANGED world
  BY <1>4, <1>5, UnchangedCalm
<1>6. CASE Become(s)
  BY <1>3, <1>4, <1>6, CalmBecomes
<1> QED BY <1>4, <1>5, <1>6

\* The user that goes is one that asked to: it leaves already.
LEMMA AbandonSystemLeft ==
  ASSUME IInv, LeftInv, AbandonSystem
  PROVE  LeftInv'
<1>1. /\ World \in GoodWorlds /\ World.queue.next <= Len(World.queue.requests)
      /\ Request \in Requests /\ Request = World.queue.requests[World.queue.next]
      /\ Request.op = "abandon"
  BY Examining DEF AbandonSystem, IInv
<1>2. PICK u \in Users : u = Request.user /\ Request = Abandon(u)
  BY <1>1, RequestIs
<1>3. PICK t : t = PutStatus(World, u, "gone")
  OBVIOUS
<1>4. OnlyStatus(World, t, u, "gone")
  BY <1>1, <1>3, StatusDoes
<1>5. t \in GoodWorlds /\ t.queue = World.queue
  BY <1>4 DEF OnlyStatus
<1>6. PICK w : w = EraseRequest(t)
  OBVIOUS
<1>7. Become(w) /\ partial' = partial
  BY <1>2, <1>3, <1>6 DEF AbandonSystem, PutStatus
<1>8. w \in GoodWorlds /\ Calm(t, w)
  BY <1>1, <1>5, <1>6, EraseCalm
<1>9. CASE partial
  BY <1>7, <1>9 DEF LeftInv
<1>10. CASE Whole(World)
  <2>1. Leaving(World, u)
    <3>1. PICK s : s = EraseRequest(World)
      OBVIOUS
    <3>2. Count(World.queue, Abandon(u)) >= 1 /\ Count(World.queue, Abandon(u)) \in Nat
      BY <1>1, <1>2, <3>1, EraseDoes, WorldParts, CountType
    <3>3. Count(World.queue, Abandon(u)) > 0
      BY <3>2
    <3> QED BY <1>10, <3>3 DEF Whole, WholeFor
  <2>2. Calm(World, t)
    <3>1. PICK st \in {"new", "active", "finalizing", "gone"} : st = "gone"
      OBVIOUS
    <3> QED BY <1>1, <1>3, <2>1, <3>1, StatusCalm
  <2>3. Calm(World, w)
    BY <1>8, <2>2, CalmThen
  <2> QED BY <1>7, <1>8, <2>3, CalmBecomes, CalmLeft
<1> QED BY <1>9, <1>10 DEF LeftInv

LEMMA InitLeft ==
  ASSUME Init
  PROVE  LeftInv
<1>1. /\ World.queue = queue /\ World.vm = vm /\ World.job = job /\ World.user = user
  BY WorldIs
<1>2. /\ \A v \in VMs : vm[v].state = "none" /\ vm[v].host = NoNode
      /\ \A j \in Jobs : job[j].place = "waiting"
      /\ \A u \in Users : user[u].status = "new"
      /\ queue.requests = <<>> /\ queue.temporal = <<>>
  BY DEF Init
<1>3. ASSUME NEW u \in Users PROVE WholeFor(World, u)
  <2>1. Count(World.queue, Abandon(u)) = 0
    BY <1>1, <1>2, InEmpty DEF Count
  <2>2. ~Leaving(World, u)
    BY <1>1, <1>2 DEF Leaving
  <2>3. NotBegun(World, u)
    BY <1>1, <1>2, UserVMs, JobIs DEF NotBegun
  <2>4. \A v \in VMsOf(u) : World.vm[v].state = "none" /\ World.vm[v].host = NoNode
    BY <1>1, <1>2, UserVMs
  <2> QED BY <2>1, <2>2, <2>3, <2>4 DEF WholeFor
<1> QED BY <1>3 DEF LeftInv, Whole

LEMMA NextLeft ==
  ASSUME IInv, LeftInv, [Next]_vars
  PROVE  LeftInv'
<1>1. CASE SchedulerBlock
  BY <1>1, SchedulerBlockCalm, CalmLeft DEF SchedulerBlock
<1>2. CASE SchedulerUnblock
  BY <1>2, SchedulerUnblockCalm, CalmLeft DEF SchedulerUnblock
<1>3. CASE RequestStartVM
  BY <1>3, RequestStartVMLeft
<1>4. CASE UserStorageRequest
  <2>1. CASE Stop
    BY <2>1, UnchangedCalm, CalmLeft DEF Stop
  <2>2. CASE Examined("storage") /\ ConnectToStorage
    BY <2>2, ConnectToStorageCalm, CalmLeft DEF ConnectToStorage
  <2> QED BY <1>4, <2>1, <2>2 DEF UserStorageRequest
<1>5. CASE RequestShutdownVM
  BY <1>5, RequestShutdownVMCalm, CalmLeft DEF RequestShutdownVM, Stop
<1>6. CASE AbandonSystem
  BY <1>6, AbandonSystemLeft
<1>7. ASSUME NEW j \in Jobs, JobFinishes(j) PROVE LeftInv'
  BY <1>7, JobFinishesCalm, CalmLeft DEF JobFinishes
<1>8. ASSUME NEW j \in Jobs, StorageReady(j) PROVE LeftInv'
  BY <1>8, StorageReadyCalm, CalmLeft DEF StorageReady, Stop
<1>9. ASSUME NEW u \in Users, Wake(u) PROVE LeftInv'
  BY <1>9, WakeStepCalm, CalmLeft DEF Wake
<1>10. ASSUME NEW v \in VMs, FSFormatted(v) PROVE LeftInv'
  BY <1>10, FSFormattedLeft
<1>11. ASSUME NEW v \in VMs, ConnectionsClosed(v) PROVE LeftInv'
  BY <1>11, ConnectionsClosedLeft
<1>12. ASSUME NEW u \in Users, UserArrives(u) PROVE LeftInv'
  BY <1>12, UserArrivesCalm, CalmLeft DEF UserArrives
<1>13. CASE UNCHANGED vars
  BY <1>13, UnchangedCalm, CalmLeft DEF vars, world
<1> QED BY <1>1, <1>2, <1>3, <1>4, <1>5, <1>6, <1>7, <1>8, <1>9, <1>10, <1>11, <1>12, <1>13
        DEF Next, Pass, Event

LEMMA WholeAlways == Spec => [](IInv /\ LeftInv)
<1>1. Init => IInv /\ LeftInv
  BY InitEstablishes, InitLeft
<1>2. IInv /\ LeftInv /\ [Next]_vars => (IInv /\ LeftInv)'
  <2> SUFFICES ASSUME IInv, LeftInv, [Next]_vars PROVE IInv' /\ LeftInv'
    OBVIOUS
  <2> QED BY NextKeeps, NextLeft
<1> QED BY <1>1, <1>2, PTL DEF Spec

\* A user that has left has run all its jobs and given back all its VMs, unless
\* a START of somebody was answered in parts: GeneralUser::freeAttended sees no
\* more VMs and no more jobs only when there really are none, because a user
\* whose START was answered at once has all its VMs from its first job on.
THEOREM LeftIsClean == Spec => []GoneUsersClean
<1>1. ASSUME LeftInv, ~partial, NEW u \in Users PROVE LeftNothing(u)
  <2> SUFFICES ASSUME user[u].status = "gone"
               PROVE  /\ \A v \in VMsOf(u) : vm[v].host = NoNode
                      /\ \A j \in JobsOf(u) : job[j].place = "finished"
    BY DEF LeftNothing
  <2>1. WholeFor(World, u)
    BY <1>1 DEF LeftInv, Whole
  <2>2. Leaving(World, u)
    BY WorldIs DEF Leaving
  <2>3. Ended(World, u)
    BY <2>1, <2>2 DEF WholeFor
  <2> QED BY <2>1, <2>3, WorldIs DEF WholeFor, Ended
<1>2. LeftInv => GoneUsersClean
  BY <1>1 DEF GoneUsersClean
<1> QED BY <1>2, WholeAlways, PTL

-----------------------------------------------------------------------------
(* The files of the VMs: while no user has two VMs with remote storage.      *)

\* From w to s no VM goes.
NoneGoes(w, s) == \A v \in VMs : s.vm[v].state = "gone" => w.vm[v].state = "gone"

LEMMA CalmNoneGoes ==
  ASSUME NEW w, NEW s, Calm(w, s)
  PROVE  NoneGoes(w, s)
  BY DEF Calm, Live, NoneGoes

\* A START makes VMs only.
LEMMA StartNoneGoes ==
  ASSUME NEW D, NEW C \in SUBSET Jobs, NEW w \in GoodWorlds, Sound(w, D, C), Room(w),
         NEW u \in Users, NEW s, s = LinkVMs(w, u),
         NEW chunk, \A v \in chunk : v \in VMs /\ s.vm[v].state = "OFF",
         NEW told, told = IF chunk = {} THEN s ELSE StartAttended(s, u, chunk)
  PROVE  NoneGoes(w, told)
<1>1. Sound(s, D, C) /\ Linking(w, s)
  BY LinkVMsSound
<1>2. s \in GoodWorlds /\ NoneGoes(w, s)
  BY <1>1 DEF Linking, NoneGoes
<1>3. CASE chunk # {}
  <2>1. PICK used : used = Used(s, u, chunk)
    OBVIOUS
  <2>2. PICK t : t = Given(s, used)
    OBVIOUS
  <2>3. \A v \in used : v \in VMs /\ s.vm[v].state = "OFF"
    BY <2>1 DEF Used
  <2>4. t \in GoodWorlds /\ Sound(t, D, C) /\ IsGiven(s, t, used)
    BY <1>1, <1>2, <2>2, <2>3, GivenSound
  <2>5. NoneGoes(s, t)
    BY <2>3, <2>4 DEF IsGiven, NoneGoes
  <2>6. told = ScheduleUnlessFinalizing(t, u)
    BY <1>3, <2>1, <2>2 DEF StartAttended, Used, Given
  <2>7. NoneGoes(t, told)
    BY <2>4, <2>6, UnlessFinalizingCalm, CalmNoneGoes
  <2> QED BY <1>2, <2>5, <2>7 DEF NoneGoes
<1> QED BY <1>2, <1>3

LEMMA FinalizeVMs ==
  ASSUME NEW w \in GoodWorlds, NEW u \in Users
  PROVE  FinalizeUser(w, u).vm = w.vm
<1>1. CASE ~(w.awaiting \cap VMsOf(u) = {} /\ w.user[u].shutdowns = 0)
  <2>1. FinalizeUser(w, u) = PutStatus(w, u, "active")
    BY <1>1 DEF FinalizeUser, PutStatus
  <2>2. OnlyStatus(w, PutStatus(w, u, "active"), u, "active")
    BY StatusDoes
  <2> QED BY <2>1, <2>2 DEF OnlyStatus
<1>2. CASE w.awaiting \cap VMsOf(u) = {} /\ w.user[u].shutdowns = 0
  <2>1. PICK t : t = PutStatus(w, u, "finalizing")
    OBVIOUS
  <2>2. FinalizeUser(w, u) = UserSendRequest(t, Abandon(u))
    BY <1>2, <2>1 DEF FinalizeUser, PutStatus
  <2>3. t \in GoodWorlds /\ t.vm = w.vm
    <3>1. OnlyStatus(w, t, u, "finalizing")
      BY <2>1, StatusDoes
    <3> QED BY <3>1 DEF OnlyStatus
  <2>4. Abandon(u) \in Requests
    BY RequestsAre
  <2> QED BY <2>2, <2>3, <2>4, SendDoes
<1> QED BY <1>1, <1>2

\* From w to s no VM goes but v.
OnlyGoes(w, s, v) ==
  \A x \in VMs : x # v /\ s.vm[x].state = "gone" => w.vm[x].state = "gone"

LEMMA FreeAttendedGoes ==
  ASSUME NEW D, NEW C \in SUBSET Jobs, NEW w \in GoodWorlds, Sound(w, D, C),
         NEW v \in D, v \in VMs, NEW s, s = FreeAttended(UnlinkVM(w, v), v[1], v)
  PROVE  OnlyGoes(w, s, v)
<1>1. PICK t : t = Dropped(w, v)
  OBVIOUS
<1>2. t \in GoodWorlds /\ Sound(t, D \ {v}, C)
  BY <1>1, DroppedSound
<1>3. \A x \in VMs : x # v => t.vm[x] = w.vm[x]
  BY <1>1, DroppedDoes
<1>4. PICK u \in Users : u = v[1]
  BY VMIs
<1>5. PICK e : e \in {t, FinalizeUser(t, u)} /\ s = ScheduleUnlessFinalizing(e, u)
  BY <1>1, <1>4 DEF FreeAttended, Dropped
<1>6. e.vm = t.vm
  BY <1>2, <1>5, FinalizeVMs
<1>7. e \in GoodWorlds /\ Sound(e, D \ {v}, C)
  <2>1. Keeps(t, e, D \ {v}, C)
    BY <1>2, <1>5, SameItself, FinalizeKeeps DEF Keeps
  <2> QED BY <2>1 DEF Keeps, Same
<1>8. NoneGoes(e, s)
  BY <1>5, <1>7, UnlessFinalizingCalm, CalmNoneGoes
<1> QED BY <1>3, <1>6, <1>8 DEF NoneGoes, OnlyGoes

\* A user with remote storage has one VM.
OneRemote == \A u \in Users : Servers[u] > 0 => Quantity[u] = 1

\* The file systems that are written down are those of VMs with remote storage; a
\* VM whose files are there is written down, is there, and is not to be deleted.
Files ==
  /\ \A u \in Users : /\ stored[u] \in Seq(VMsOf(u))
                      /\ Servers[u] = 0 => stored[u] = <<>>
  /\ \A v \in dirty : /\ Servers[v[1]] > 0 /\ stored[v[1]] # <<>>
                      /\ vm[v].state # "gone" /\ v \notin toDelete

\* A step that writes nothing down and lets no VM go but one to be deleted.
FilesSame ==
  /\ stored' = stored /\ dirty' = dirty /\ toDelete' \subseteq toDelete
  /\ \A v \in VMs : vm'[v].state = "gone" => vm[v].state = "gone" \/ v \in toDelete

LEMMA FilesStep ==
  ASSUME IInv, Files, FilesSame
  PROVE  Files'
<1>1. dirty \subseteq VMs
  BY DEF IInv, Typed
<1> QED BY <1>1 DEF Files, FilesSame

LEMMA CalmFiles ==
  ASSUME CalmHere
  PROVE  \A v \in VMs : vm'[v].state = "gone" => vm[v].state = "gone"
<1>1. NoneGoes(World, World')
  BY CalmNoneGoes DEF CalmHere
<1>2. World.vm = vm /\ World'.vm = vm'
  BY DEF World
<1> QED BY <1>1, <1>2 DEF NoneGoes

LEMMA RequestStartVMFiles ==
  ASSUME IInv, RequestStartVM
  PROVE  FilesSame
<1>0. /\ World \in GoodWorlds /\ Sound(World, toDelete, Asked) /\ Room(World)
      /\ Asked \in SUBSET Jobs /\ partial \in BOOLEAN
  BY DEF IInv, Typed, Asked
<1>1. /\ World.queue.next <= Len(World.queue.requests) /\ World.queue.blocked
      /\ Request \in Requests /\ Request.op = "start"
  BY Examining DEF RequestStartVM
<1>2. PICK u \in Users : u = Request.user
  BY <1>1, RequestIs
<1>3. PICK w : w = LinkVMs(World, u)
  OBVIOUS
<1>4. Sound(w, toDelete, Asked) /\ Linking(World, w)
  BY <1>0, <1>3, LinkVMsSound
<1>5. PICK chunk : chunk = {v \in VMsOf(u) : vm[v].state = "none" /\ w.vm[v].state # "none"}
  OBVIOUS
<1>6. PICK told : told = IF chunk = {} THEN w ELSE StartAttended(w, u, chunk)
  OBVIOUS
<1>7. \/ Stop
      \/ /\ \E t \in {EraseRequest(told), Advance(told)} : Become(t)
         /\ UNCHANGED <<stored, dirty, toDelete>>
  BY ZenonT(40), <1>2, <1>3, <1>5, <1>6 DEF RequestStartVM
<1>8. CASE Stop
  BY <1>8 DEF Stop, world, FilesSame
<1>9. ASSUME NEW t \in {EraseRequest(told), Advance(told)}, Become(t),
             UNCHANGED <<stored, dirty, toDelete>>
      PROVE  FilesSame
  <2>1. \A v \in chunk : v \in VMs /\ w.vm[v].state = "OFF"
    BY <1>4, <1>5, UserVMs, WorldIs DEF Linking
  <2>2. NoneGoes(World, told)
    BY <1>0, <1>3, <1>6, <2>1, StartNoneGoes
  <2>3. told \in GoodWorlds /\ told.queue.next <= Len(told.queue.requests)
    <3>1. w \in GoodWorlds /\ w.queue = World.queue
      BY <1>4 DEF Linking
    <3>2. Keeps(w, told, toDelete, Asked)
      <4>1. CASE chunk = {}
        BY <1>4, <1>6, <3>1, <4>1, SameItself DEF Keeps
      <4>2. CASE chunk # {}
        <5>1. told = StartAttended(w, u, chunk)
          BY <1>6, <4>2
        <5> QED BY <1>0, <1>4, <2>1, <3>1, <5>1, StartKeeps
      <4> QED BY <4>1, <4>2
    <3> QED BY <1>1, <3>1, <3>2 DEF Keeps, Same
  <2>4. t \in GoodWorlds /\ Calm(told, t)
    BY <2>3, EraseCalm, AdvanceCalm
  <2>5. NoneGoes(told, t)
    BY <2>4, CalmNoneGoes
  <2>6. vm' = t.vm
    BY <1>9 DEF Become
  <2> QED BY <1>9, <2>2, <2>5, <2>6, WorldIs DEF NoneGoes, FilesSame
<1> QED BY <1>7, <1>8, <1>9

LEMMA ReleaseFiles ==
  ASSUME IInv, NEW v \in VMs, pending.format[v] > 0 \/ pending.close[v] > 0, ~failed,
         Release(v) \/ UNCHANGED <<world, toDelete, failed>>, UNCHANGED <<stored, dirty>>
  PROVE  FilesSame
<1>1. /\ World \in GoodWorlds /\ Sound(World, toDelete, Asked) /\ Asked \in SUBSET Jobs
  BY DEF IInv, Asked
<1>2. v \in toDelete
  BY DEF IInv, Joins
<1>3. PICK w : w = FreeAttended(UnlinkVM(World, v), v[1], v)
  OBVIOUS
<1>4. (Become(w) \/ UNCHANGED world) /\ toDelete' \subseteq toDelete
  BY <1>2, <1>3 DEF Release
<1>5. CASE UNCHANGED world
  BY <1>4, <1>5 DEF world, FilesSame
<1>6. CASE Become(w)
  <2>1. OnlyGoes(World, w, v)
    BY <1>1, <1>2, <1>3, FreeAttendedGoes
  <2>2. vm' = w.vm
    BY <1>6 DEF Become
  <2> QED BY <1>2, <1>4, <2>1, <2>2, WorldIs DEF FilesSame, OnlyGoes
<1> QED BY <1>4, <1>5, <1>6

LEMMA AbandonSystemFiles ==
  ASSUME IInv, AbandonSystem
  PROVE  FilesSame
<1>1. /\ World \in GoodWorlds /\ World.queue.next <= Len(World.queue.requests)
      /\ Request \in Requests /\ Request.op = "abandon"
  BY Examining DEF AbandonSystem, IInv
<1>2. PICK u \in Users : u = Request.user
  BY <1>1, RequestIs
<1>3. PICK t : t = PutStatus(World, u, "gone")
  OBVIOUS
<1>4. t \in GoodWorlds /\ t.queue = World.queue /\ t.vm = World.vm
  <2>1. OnlyStatus(World, t, u, "gone")
    BY <1>1, <1>3, StatusDoes
  <2> QED BY <2>1 DEF OnlyStatus
<1>5. PICK w : w = EraseRequest(t)
  OBVIOUS
<1>6. Become(w) /\ UNCHANGED <<stored, dirty, toDelete>>
  BY <1>2, <1>3, <1>5 DEF AbandonSystem, PutStatus
<1>7. NoneGoes(t, w)
  BY <1>1, <1>4, <1>5, EraseCalm, CalmNoneGoes
<1> QED BY <1>4, <1>6, <1>7, WorldIs DEF NoneGoes, FilesSame, Become

\* The files are written down of a VM that waits for them.
LEMMA ConnectToStorageFiles ==
  ASSUME IInv, Files, Examined("storage"), ConnectToStorage
  PROVE  Files'
<1>0. /\ World \in GoodWorlds /\ Sound(World, toDelete, Asked) /\ Typed
  BY DEF IInv
<1>1. /\ World.queue.next <= Len(World.queue.requests)
      /\ Request \in Requests /\ Request = World.queue.requests[World.queue.next]
      /\ Request.op = "storage"
  BY Examining
<1>2. PICK j \in Jobs, v \in VMs, u \in Users :
        Request.job = j /\ Request.vm = v /\ Request.user = u /\ Request = Storage(j, v)
  BY <1>1, RequestIs
<1>3. World.job[j] = [place |-> "storage", vm |-> v]
  <2>1. PICK s : s = EraseRequest(World)
    OBVIOUS
  <2>2. Count(World.queue, Storage(j, v)) >= 1
    BY <1>0, <1>1, <1>2, <2>1, EraseDoes
  <2> QED BY <2>2, <1>0 DEF Sound, Balanced
<1>4. v \in VMsOf(u) /\ v[1] = u
  <2>1. u = v[1]
    BY <1>2 DEF Storage
  <2> QED BY <2>1, VMIs
<1>5. World.vm[v].state = "IDLE" /\ World.vm[v].pending = "storage"
  BY <1>0, <1>3 DEF Sound, JobsPlaced, On
<1>6. v \notin toDelete
  <2>1. Count(World.queue, Free(v)) + (IF v \in toDelete THEN 1 ELSE 0) = 0
    BY <1>0, <1>5 DEF Sound, Balanced
  <2>2. Count(World.queue, Free(v)) \in Nat
    BY <1>0, WorldParts, CountType
  <2> QED BY <2>1, <2>2
<1>7. \A x \in VMs : vm'[x].state = "gone" => vm[x].state = "gone"
  BY ConnectToStorageCalm, CalmFiles
<1>8. toDelete' = toDelete
  BY DEF ConnectToStorage
<1>9. dirty \subseteq VMs
  BY <1>0 DEF Typed
<1>10. CASE Servers[u] = 0
  <2>1. stored' = stored /\ dirty' = dirty
    BY <1>2, <1>10 DEF ConnectToStorage
  <2> QED BY <1>7, <1>8, <2>1, FilesStep DEF FilesSame
<1>11. CASE Servers[u] # 0
  <2>1. PICK l \in Seq(VMsOf(u)) : l = stored[u]
    BY DEF Files
  <2>2. PICK k : k = Append(l, v)
    OBVIOUS
  <2>3. k \in Seq(VMsOf(u)) /\ k # <<>>
    BY <1>4, <2>2
  <2>4. stored' = [stored EXCEPT ![u] = k] /\ dirty' = dirty \cup {v}
    BY <1>2, <1>11, <2>1, <2>2 DEF ConnectToStorage
  <2>5. stored'[u] = k /\ \A y \in Users : y # u => stored'[y] = stored[y]
    BY <1>0, <2>4 DEF Typed
  <2>6. ASSUME NEW y \in Users
        PROVE  stored'[y] \in Seq(VMsOf(y)) /\ (Servers[y] = 0 => stored'[y] = <<>>)
    BY <1>11, <2>3, <2>5 DEF Files
  <2>7. ASSUME NEW x \in dirty'
        PROVE  /\ Servers[x[1]] > 0 /\ stored'[x[1]] # <<>>
               /\ vm'[x].state # "gone" /\ x \notin toDelete'
    <3>1. PICK y \in Users : y = x[1]
      BY <1>9, <2>4, VMIs
    <3>2. x \in VMs
      BY <1>9, <2>4
    <3>3. CASE x = v
      <4>1. Servers[u] > 0
        BY <1>11, CloudAssumption
      <4>2. vm[v].state # "gone"
        BY <1>5, WorldIs
      <4> QED BY <1>4, <1>6, <1>7, <1>8, <2>3, <2>5, <3>3, <4>1, <4>2
    <3>4. CASE x # v
      <4>1. x \in dirty
        BY <2>4, <3>4
      <4>2. /\ Servers[y] > 0 /\ stored[y] # <<>>
            /\ vm[x].state # "gone" /\ x \notin toDelete
        BY <3>1, <4>1 DEF Files
      <4>3. stored'[y] # <<>>
        BY <2>3, <2>5, <4>2
      <4> QED BY <1>7, <1>8, <3>1, <3>2, <4>2, <4>3
    <3> QED BY <3>3, <3>4
  <2> QED BY <2>6, <2>7 DEF Files
<1> QED BY <1>10, <1>11

\* The look at the first entry of a user with one VM finds that VM's, if any.
LEMMA FirstIsOwn ==
  ASSUME OneRemote, Files, NEW u \in Users, NEW v \in VMsOf(u), stored[u] # <<>>
  PROVE  Head(stored[u]) = v /\ Servers[u] > 0 /\ \A x \in VMsOf(u) : x = v
<1>1. PICK l \in Seq(VMsOf(u)) : l = stored[u]
  BY DEF Files
<1>2. Servers[u] > 0
  BY CloudAssumption DEF Files
<1>3. Quantity[u] = 1
  BY <1>2 DEF OneRemote
<1>4. \A x, y \in VMsOf(u) : x = y
  BY <1>3 DEF VMsOf
<1>5. Head(l) \in VMsOf(u)
  BY <1>1
<1> QED BY <1>1, <1>2, <1>4, <1>5

LEMMA RequestShutdownVMFiles ==
  ASSUME IInv, OneRemote, Files, RequestShutdownVM
  PROVE  Files' /\ failed' = failed
<1>0. /\ World \in GoodWorlds /\ Sound(World, toDelete, Asked) /\ Typed
  BY DEF IInv
<1>1. /\ World.queue.next <= Len(World.queue.requests)
      /\ Request \in Requests /\ Request = World.queue.requests[World.queue.next]
      /\ Request.op = "free"
  BY Examining DEF RequestShutdownVM
<1>2. PICK v \in VMs, u \in Users : Request.vm = v /\ Request.user = u /\ Request = Free(v)
  BY <1>1, RequestIs
<1>3. v \in VMsOf(u) /\ v[1] = u
  <2>1. u = v[1]
    BY <1>2 DEF Free
  <2> QED BY <2>1, VMIs
<1>4. ~(stored[u] # <<>> /\ Head(stored[u]) # v)
  BY <1>3, FirstIsOwn
<1>5. PICK n : n = RemoteShutdown(u, v) + 1
  OBVIOUS
<1>6. /\ toDelete' = toDelete \cup {v}
      /\ stored' = [stored EXCEPT ![u] = <<>>]
      /\ dirty' = IF n > 1 THEN dirty \ {v} ELSE dirty
      /\ failed' = failed
  BY <1>2, <1>4, <1>5 DEF RequestShutdownVM
<1>7. \A x \in VMs : vm'[x].state = "gone" => vm[x].state = "gone"
  BY RequestShutdownVMCalm, CalmFiles
<1>8. dirty \subseteq VMs /\ Servers[u] \in Nat
  BY <1>0, CloudAssumption DEF Typed
<1>9. stored'[u] = <<>> /\ \A y \in Users : y # u => stored'[y] = stored[y]
  BY <1>0, <1>6 DEF Typed
<1>10. ASSUME NEW y \in Users
       PROVE  stored'[y] \in Seq(VMsOf(y)) /\ (Servers[y] = 0 => stored'[y] = <<>>)
  <2>1. <<>> \in Seq(VMsOf(y))
    OBVIOUS
  <2> QED BY <1>9, <2>1 DEF Files
<1>11. \A x \in dirty' : x[1] # u /\ x # v
  <2> SUFFICES ASSUME NEW x \in dirty', x[1] = u PROVE FALSE
    BY <1>3
  <2>1. x \in dirty /\ x \in VMsOf(u)
    BY <1>6, <1>8, VMIs
  <2>2. stored[u] # <<>>
    BY <2>1 DEF Files
  <2>3. Head(stored[u]) = v /\ Servers[u] > 0 /\ x = v
    BY <1>3, <2>1, <2>2, FirstIsOwn
  <2>4. n = Servers[u] + 1
    BY <1>5, <2>2, <2>3 DEF RemoteShutdown
  <2> QED BY <1>6, <1>8, <2>3, <2>4
<1>12. ASSUME NEW x \in dirty'
       PROVE  /\ Servers[x[1]] > 0 /\ stored'[x[1]] # <<>>
              /\ vm'[x].state # "gone" /\ x \notin toDelete'
  <2>1. x \in dirty /\ x \in VMs /\ x[1] # u /\ x # v
    BY <1>6, <1>8, <1>11
  <2>2. PICK y \in Users : y = x[1]
    BY <2>1, VMIs
  <2>3. /\ Servers[y] > 0 /\ stored[y] # <<>> /\ vm[x].state # "gone" /\ x \notin toDelete
    BY <2>1, <2>2 DEF Files
  <2>4. stored'[y] # <<>>
    BY <1>9, <2>1, <2>2, <2>3
  <2> QED BY <1>6, <1>7, <2>1, <2>2, <2>3, <2>4
<1> QED BY <1>6, <1>10, <1>12 DEF Files

LEMMA NotificationsFiles ==
  ASSUME IInv, NEW v \in VMs, FSFormatted(v) \/ ConnectionsClosed(v)
  PROVE  FilesSame
<1>1. flight = pending /\ ~failed
  BY DEF IInv, Joins, FSFormatted, ConnectionsClosed, NoPass
<1>2. /\ pending.format[v] > 0 \/ pending.close[v] > 0
      /\ Release(v) \/ UNCHANGED <<world, toDelete, failed>>
      /\ UNCHANGED <<stored, dirty>>
  BY <1>1 DEF FSFormatted, ConnectionsClosed
<1> QED BY <1>1, <1>2, ReleaseFiles

LEMMA InitFiles ==
  ASSUME Init
  PROVE  Files
<1>1. dirty = {} /\ \A u \in Users : stored[u] = <<>>
  BY DEF Init
<1>2. \A u \in Users : <<>> \in Seq(VMsOf(u))
  OBVIOUS
<1> QED BY <1>1, <1>2 DEF Files

LEMMA NextFiles ==
  ASSUME IInv, OneRemote, Files, [Next]_vars
  PROVE  Files'
<1> DEFINE NothingWritten == stored' = stored /\ dirty' = dirty /\ toDelete' = toDelete
<1>0. ASSUME CalmHere, NothingWritten PROVE Files'
  BY <1>0, CalmFiles, FilesStep DEF FilesSame
<1>1. CASE SchedulerBlock
  <2>1. NothingWritten
    BY <1>1 DEF SchedulerBlock
  <2> QED BY <1>0, <1>1, <2>1, SchedulerBlockCalm
<1>2. CASE SchedulerUnblock
  <2>1. NothingWritten
    BY <1>2 DEF SchedulerUnblock
  <2> QED BY <1>0, <1>2, <2>1, SchedulerUnblockCalm
<1>3. CASE RequestStartVM
  BY <1>3, RequestStartVMFiles, FilesStep
<1>4. CASE UserStorageRequest
  <2>1. CASE Stop
    <3>1. NothingWritten /\ UNCHANGED world
      BY <2>1 DEF Stop
    <3> QED BY <1>0, <3>1, UnchangedCalm
  <2>2. CASE Examined("storage") /\ ConnectToStorage
    BY <2>2, ConnectToStorageFiles
  <2> QED BY <1>4, <2>1, <2>2 DEF UserStorageRequest
<1>5. CASE RequestShutdownVM
  BY <1>5, RequestShutdownVMFiles
<1>6. CASE AbandonSystem
  BY <1>6, AbandonSystemFiles, FilesStep
<1>7. ASSUME NEW j \in Jobs, JobFinishes(j) PROVE Files'
  <2>1. NothingWritten
    BY <1>7 DEF JobFinishes
  <2> QED BY <1>0, <1>7, <2>1, JobFinishesCalm
<1>8. ASSUME NEW j \in Jobs, StorageReady(j) PROVE Files'
  <2>1. NothingWritten
    BY <1>8 DEF StorageReady, Stop
  <2> QED BY <1>0, <1>8, <2>1, StorageReadyCalm
<1>9. ASSUME NEW u \in Users, Wake(u) PROVE Files'
  <2>1. NothingWritten
    BY <1>9 DEF Wake
  <2> QED BY <1>0, <1>9, <2>1, WakeStepCalm
<1>10. ASSUME NEW v \in VMs, FSFormatted(v) \/ ConnectionsClosed(v) PROVE Files'
  BY <1>10, NotificationsFiles, FilesStep
<1>11. ASSUME NEW u \in Users, UserArrives(u) PROVE Files'
  <2>1. NothingWritten
    BY <1>11 DEF UserArrives
  <2> QED BY <1>0, <1>11, <2>1, UserArrivesCalm
<1>12. CASE UNCHANGED vars
  <2>1. NothingWritten /\ UNCHANGED world
    BY <1>12 DEF vars, world
  <2> QED BY <1>0, <2>1, UnchangedCalm
<1> QED BY <1>1, <1>2, <1>3, <1>4, <1>5, <1>6, <1>7, <1>8, <1>9, <1>10, <1>11, <1>12
        DEF Next, Pass, Event

\* A user that leaves has only VMs that are gone.
LEMMA LeaverEnded ==
  ASSUME LeftInv, ~partial, NEW u \in Users, user[u].status = "gone"
  PROVE  \A v \in VMsOf(u) : World.vm[v].state = "gone"
<1>1. Leaving(World, u) /\ WholeFor(World, u)
  BY WorldIs DEF LeftInv, Whole, Leaving
<1> QED BY <1>1 DEF WholeFor, Ended

LEMMA NextFailsOnly ==
  ASSUME IInv, LeftInv, OneRemote, Files, FailsOnlyByOverread, [Next]_vars
  PROVE  FailsOnlyByOverread'
<1>1. partial => partial'
  <2>1. CASE RequestStartVM
    BY <2>1 DEF RequestStartVM, Stop
  <2>2. CASE RequestShutdownVM
    BY <2>2 DEF RequestShutdownVM, Stop
  <2>3. ASSUME NEW j \in Jobs, StorageReady(j) PROVE partial => partial'
    BY <2>3 DEF StorageReady, Stop
  <2>4. CASE UserStorageRequest
    BY <2>4 DEF UserStorageRequest, ConnectToStorage, Stop
  <2>5. CASE /\ ~RequestStartVM /\ ~RequestShutdownVM /\ ~\E j \in Jobs : StorageReady(j)
             /\ ~UserStorageRequest
    BY <2>5 DEF Next, Pass, Event, SchedulerBlock, SchedulerUnblock,
                AbandonSystem, JobFinishes, Wake, FSFormatted, ConnectionsClosed, UserArrives, vars
  <2> QED BY <2>1, <2>2, <2>3, <2>4, <2>5
<1>2. CASE failed
  <2>1. UNCHANGED <<queue, failed>>
    BY <1>2 DEF Next, Pass, Event, NoPass, Examined, SchedulerBlock, SchedulerUnblock,
                RequestStartVM, UserStorageRequest, RequestShutdownVM, AbandonSystem,
                JobFinishes, StorageReady, Wake, FSFormatted, ConnectionsClosed, UserArrives,
                vars, world
  <2>2. AtOverread' = AtOverread
    BY <2>1 DEF AtOverread, PassAt, Request
  <2> QED BY <1>1, <2>1, <2>2 DEF FailsOnlyByOverread
<1> SUFFICES ASSUME ~partial, ~failed PROVE failed' => AtOverread'
  BY <1>1, <1>2 DEF FailsOnlyByOverread
<1>3. CASE UserStorageRequest
  <2>1. CASE ReadsPastEnd(Request.user) /\ Stop
    <3>1. AtOverread /\ UNCHANGED queue
      BY <1>3, <2>1 DEF AtOverread, UserStorageRequest, Examined, Stop, world
    <3> QED BY <3>1 DEF AtOverread, PassAt, Request
  <2>2. CASE ConnectToStorage
    BY <2>2 DEF ConnectToStorage
  <2> QED BY <1>3, <2>1, <2>2 DEF UserStorageRequest
<1>4. CASE RequestStartVM
  <2>1. Request \in Requests /\ Request.op = "start"
    BY <1>4, Examining DEF RequestStartVM
  <2>2. PICK u \in Users : u = Request.user
    BY <2>1, RequestIs
  <2>3. CASE user[u].status = "gone"
    <3>1. {v \in VMsOf(u) : vm[v].state = "none" /\ LinkVMs(World, u).vm[v].state # "none"} = {}
      BY <2>3, LeaverEnded, WorldIs
    <3> QED BY ZenonT(40), <1>4, <2>2, <3>1 DEF RequestStartVM
  <2>4. CASE user[u].status # "gone"
    BY ZenonT(40), <1>4, <2>2, <2>4 DEF RequestStartVM
  <2> QED BY <2>3, <2>4
<1>5. CASE RequestShutdownVM
  BY <1>5, RequestShutdownVMFiles
<1>6. ASSUME NEW j \in Jobs, StorageReady(j) PROVE ~failed'
  <2>1. flight = pending /\ Typed
    BY <1>6 DEF IInv, Joins, StorageReady, NoPass
  <2>2. pending.connect[j] \in Int /\ pending.connect[j] > 0
    BY <1>6, <2>1, CountsTyped DEF StorageReady, Typed
  <2>3. ~(pending.connect[j] <= 0)
    BY <2>2
  <2> QED BY <1>6, <2>3 DEF StorageReady
<1>7. ASSUME NEW v \in VMs, FSFormatted(v) \/ ConnectionsClosed(v) PROVE ~failed'
  <2>1. flight = pending
    BY <1>7 DEF IInv, Joins, FSFormatted, ConnectionsClosed, NoPass
  <2>2. /\ pending.format[v] > 0 \/ pending.close[v] > 0
        /\ Release(v) \/ UNCHANGED <<world, toDelete, failed>>
    BY <1>7, <2>1 DEF FSFormatted, ConnectionsClosed
  <2>3. v \in toDelete
    BY <2>2 DEF IInv, Joins
  <2>4. Live(World, v)
    BY <2>3, DeletedLives DEF IInv
  <2>5. PICK u \in Users : u = v[1] /\ v \in VMsOf(u)
    BY VMIs
  <2>6. user[u].status # "gone"
    BY <2>4, <2>5, LeaverEnded DEF Live
  <2> QED BY <2>2, <2>5, <2>6 DEF Release
<1>8. CASE /\ ~RequestStartVM /\ ~RequestShutdownVM /\ ~\E j \in Jobs : StorageReady(j)
           /\ ~UserStorageRequest /\ ~\E v \in VMs : FSFormatted(v) \/ ConnectionsClosed(v)
  BY <1>8 DEF Next, Pass, Event, SchedulerBlock, SchedulerUnblock,
              AbandonSystem, JobFinishes, Wake, UserArrives, vars
<1> QED BY <1>3, <1>4, <1>5, <1>6, <1>7, <1>8

LEMMA FilesAlways ==
  ASSUME OneRemote
  PROVE  Spec => [](IInv /\ LeftInv /\ Files /\ FailsOnlyByOverread)
<1> DEFINE I == IInv /\ LeftInv /\ Files /\ FailsOnlyByOverread
<1>1. Init => I
  <2> SUFFICES ASSUME Init PROVE I
    OBVIOUS
  <2>1. FailsOnlyByOverread
    BY DEF Init, FailsOnlyByOverread
  <2> QED BY <2>1, InitEstablishes, InitLeft, InitFiles
<1>2. I /\ [Next]_vars => I'
  <2> SUFFICES ASSUME I, [Next]_vars PROVE I'
    OBVIOUS
  <2> QED BY NextKeeps, NextLeft, NextFiles, NextFailsOnly
<1> QED BY <1>1, <1>2, PTL DEF Spec

\* No handler meets a user, a VM or a count that is not there any more, while no
\* START was answered in parts: where no user has two VMs with remote storage, on
\* any number of nodes and for any number of users, only the read past the
\* connections of a request (createConnectionToStorage) stops the simulation.
THEOREM HandlersFindAll ==
  ASSUME OneRemote
  PROVE  Spec => []FailsOnlyByOverread
  BY FilesAlways, PTL

\* With file systems on at most one server nothing stops it.
THEOREM NothingFails ==
  ASSUME OneRemote, \A u \in Users : Servers[u] <= 1
  PROVE  Spec => [](~partial => ~failed)
<1>1. ASSUME IInv PROVE ~AtOverread
  <2> SUFFICES ASSUME AtOverread PROVE FALSE
    OBVIOUS
  <2>1. Request \in Requests
    BY <1>1, RequestAt DEF AtOverread
  <2>2. Servers[Request.user] <= 1 /\ Servers[Request.user] \in Nat
    BY <2>1, RequestIs, CloudAssumption
  <2> QED BY <2>2 DEF AtOverread, ReadsPastEnd
<1>2. IInv /\ FailsOnlyByOverread => (~partial => ~failed)
  BY <1>1 DEF FailsOnlyByOverread
<1> QED BY <1>2, FilesAlways, PTL

\* The storage nodes are told to delete the files of a VM before it goes: where
\* no user has two VMs with remote storage, the first entry that
\* deleteVMfromStorageNodes looks at is always the one of its VM.
THEOREM FilesAreDeleted ==
  ASSUME OneRemote
  PROVE  Spec => []FilesDeleted
<1>1. Files => FilesDeleted
  BY DEF Files, FilesDeleted
<1> QED BY <1>1, FilesAlways, PTL
=============================================================================
