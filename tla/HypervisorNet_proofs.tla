------------------------ MODULE HypervisorNet_proofs ------------------------
(***************************************************************************)
(* Proofs about HypervisorNet for any data centre, users and workloads.    *)
(***************************************************************************)
EXTENDS HypervisorNet, SequenceTheorems, FiniteSetTheorems, Induction, TLAPS

-----------------------------------------------------------------------------
(* The walk of checkPendingMessages over the requests that wait.           *)

Waiters == [req : Requests, timesEnqueued : Int]
Walks   == [skip : BOOLEAN, kept : Seq(Waiters), again : Nat,
            outcomes : SUBSET (Requests \X {"expired", "cells", "lost"})]
FirstWalk == [skip |-> FALSE, kept |-> <<>>, again |-> 0, outcomes |-> {}]

\* The limits of the walk.  connectionTimeOut is 15 unless the configuration says
\* otherwise; above the 60 of checkPendingMessages the last tries find the request
\* neither too old nor young enough for another alarm.
Limits == MaxTimes \in Nat /\ ConnectionTimeout \in Nat /\ ConnectionTimeout <= MaxTimes

\* The walk with one request more that is over, or goes on to the storage cells.
Answers(walk, next, e) ==
  \E o \in {"expired", "cells", "lost"} :
    next.outcomes = walk.outcomes \cup {<<e.req, o>>} /\ (o = "cells" => e.req.op = "storage")

\* One entry of the walk: it is kept with an alarm of its own; or kept because the
\* one before was removed; or removed.
LEMMA EntryCases ==
  ASSUME Limits, NEW walk \in Walks, NEW e \in Waiters
  PROVE  LET next == WalkedEntry(walk, e) IN
         /\ next \in Walks
         /\ \/ /\ walk.skip /\ ~next.skip /\ next.again = walk.again
               /\ next.kept = Append(walk.kept, e) /\ next.outcomes = walk.outcomes
            \/ /\ ~walk.skip /\ ~next.skip /\ next.again = walk.again + 1
               /\ next.kept = Append(walk.kept, [e EXCEPT !.timesEnqueued = @ + 1])
               /\ e.timesEnqueued <= MaxTimes /\ next.outcomes = walk.outcomes
            \/ /\ ~walk.skip /\ next.skip /\ next.again = walk.again /\ next.kept = walk.kept
               /\ Answers(walk, next, e)
<1> DEFINE t == Target(e.req, route[e.req].virtualIP)
           tried == [e EXCEPT !.timesEnqueued = @ + 1]
           late == e.timesEnqueued > MaxTimes
           Removed(o) == [walk EXCEPT !.skip = TRUE, !.outcomes = @ \cup {<<e.req, o>>}]
<1>1. /\ e.req \in Requests /\ e.timesEnqueued \in Int /\ tried \in Waiters
      /\ walk.skip \in BOOLEAN /\ walk.kept \in Seq(Waiters) /\ walk.again \in Nat
      /\ walk.outcomes \in SUBSET (Requests \X {"expired", "cells", "lost"})
  BY DEF Waiters, Walks
<1>2. Append(walk.kept, e) \in Seq(Waiters) /\ Append(walk.kept, tried) \in Seq(Waiters)
  BY <1>1
<1>3. ASSUME NEW o \in {"expired", "cells", "lost"}
      PROVE  /\ Removed(o) \in Walks /\ Removed(o).skip = TRUE
             /\ Removed(o).again = walk.again /\ Removed(o).kept = walk.kept
             /\ Removed(o).outcomes = walk.outcomes \cup {<<e.req, o>>}
  <2>1. walk.outcomes \cup {<<e.req, o>>} \in SUBSET (Requests \X {"expired", "cells", "lost"})
    BY <1>1
  <2> DEFINE out == walk.outcomes \cup {<<e.req, o>>}
  <2> HIDE DEF out
  <2>2. Removed(o) = [walk EXCEPT !.skip = TRUE, !.outcomes = out]
    BY DEF out
  <2> QED BY <2>1, <2>2 DEF Walks, out
<1>4. late => e.timesEnqueued > ConnectionTimeout /\ ~(e.timesEnqueued <= ConnectionTimeout)
  BY <1>1 DEF Limits
<1> HIDE DEF tried, late
<1>5. CASE walk.skip
  <2>1. WalkedEntry(walk, e) = [walk EXCEPT !.skip = FALSE, !.kept = Append(@, e)]
    BY <1>5 DEF WalkedEntry
  <2> QED BY <1>1, <1>2, <1>5, <2>1 DEF Walks
<1>6. CASE ~walk.skip /\ late
  <2>1. WalkedEntry(walk, e) = Removed("expired")
    BY <1>4, <1>6 DEF WalkedEntry, late
  <2> HIDE DEF Removed
  <2> QED BY <1>3, <1>6, <2>1 DEF Answers
<1>7. CASE ~walk.skip /\ ~late /\ t.port = PortNotFound
  <2>1. WalkedEntry(walk, e) = [walk EXCEPT !.kept = Append(@, tried), !.again = @ + 1]
    BY <1>7 DEF WalkedEntry, late, tried
  <2>2. walk.again + 1 \in Nat
    BY <1>1
  <2>3. WalkedEntry(walk, e) \in Walks
    BY <1>2, <2>1, <2>2 DEF Walks
  <2>4. ~WalkedEntry(walk, e).skip
    BY <1>7, <2>1 DEF Walks
  <2>5. /\ WalkedEntry(walk, e).again = walk.again + 1
        /\ WalkedEntry(walk, e).kept = Append(walk.kept, tried)
        /\ WalkedEntry(walk, e).outcomes = walk.outcomes
    BY <2>1 DEF Walks
  <2>6. e.timesEnqueued <= MaxTimes
    BY <1>1, <1>7 DEF late, Limits
  <2> QED BY <1>7, <2>3, <2>4, <2>5, <2>6 DEF tried
<1>8. CASE ~walk.skip /\ ~late /\ t.port # PortNotFound
  <2>1. \/ WalkedEntry(walk, e) = Removed("cells") /\ e.req.op = "storage"
        \/ WalkedEntry(walk, e) = Removed("lost")
    BY <1>8 DEF WalkedEntry, late
  <2> HIDE DEF Removed
  <2> QED BY <1>3, <1>8, <2>1 DEF Answers
<1> QED BY <1>1, <1>5, <1>6, <1>7, <1>8

\* The walk as a function of the number of entries walked.
LEMMA WalkSteps ==
  ASSUME Limits, NEW list \in Seq(Waiters)
  PROVE  \E f \in [0 .. Len(list) -> Walks] :
           /\ f[0] = FirstWalk /\ Walk(list) = f[Len(list)]
           /\ \A i \in 1 .. Len(list) : f[i] = WalkedEntry(f[i - 1], list[i])
<1> DEFINE n == Len(list)
           step == [i \in 1 .. n |-> [w \in Walks |-> WalkedEntry(w, list[i])]]
           Fits(f) == f = [i \in 0 .. n |-> IF i = 0 THEN FirstWalk
                                            ELSE WalkedEntry(f[i - 1], list[i])]
<1>1. FirstWalk \in Walks
  BY DEF FirstWalk, Walks
<1>2. n \in Nat /\ \A i \in 1 .. n : list[i] \in Waiters
  OBVIOUS
<1>3. step \in [1 .. n -> [Walks -> Walks]]
  BY <1>2, EntryCases
<1> DEFINE f == Values(Walks, FirstWalk, n, step)
<1>4. /\ f \in [0 .. n -> Walks] /\ f[0] = FirstWalk
      /\ \A i \in 1 .. n : f[i] = step[i][f[i - 1]]
  <2> HIDE DEF step, n
  <2> QED BY <1>1, <1>2, <1>3, Recursion
<1> HIDE DEF f
<1>5. Fits(f)
  <2>1. ASSUME NEW i \in 1 .. n PROVE step[i][f[i - 1]] = WalkedEntry(f[i - 1], list[i])
    <3>1. i - 1 \in 0 .. n
      BY <1>2
    <3>2. f[i - 1] \in Walks
      BY <1>4, <3>1
    <3> QED BY <3>2
  <2> HIDE DEF step
  <2>2. \A i \in 0 .. n : i # 0 => i \in 1 .. n
    BY <1>2
  <2>3. \A i \in 0 .. n : f[i] = IF i = 0 THEN FirstWalk ELSE WalkedEntry(f[i - 1], list[i])
    BY <1>4, <2>1, <2>2
  <2> QED BY <1>4, <2>3
<1> DEFINE g == CHOOSE g : Fits(g)
<1>6. Fits(g)
  <2> HIDE DEF Fits
  <2> QED BY <1>5
<1>7. Walk(list) = g[n]
  BY DEF Walk, FirstWalk
<1>8. ASSUME NEW i \in 0 .. n PROVE g[i] = f[i]
  <2> DEFINE T == {k \in 0 .. n : g[k] = f[k]}
  <2>1. 0 \in T
    <3>1. 0 \in 0 .. n
      BY <1>2
    <3> QED BY <1>5, <1>6, <3>1
  <2>2. ASSUME NEW k \in 0 .. n - 1, k \in T PROVE k + 1 \in T
    <3>1. k + 1 \in 0 .. n /\ k + 1 # 0 /\ (k + 1) - 1 = k /\ g[k] = f[k]
      BY <1>2, <2>2
    <3>2. g[k + 1] = WalkedEntry(g[k], list[k + 1]) /\ f[k + 1] = WalkedEntry(f[k], list[k + 1])
      BY <1>5, <1>6, <3>1
    <3> QED BY <3>1, <3>2
  <2> HIDE DEF T, g
  <2>3. \A k \in 0 .. n : k \in T
    BY <1>2, <2>1, <2>2, UpTo
  <2> QED BY <2>3 DEF T
<1>9. f[0] = FirstWalk /\ \A i \in 1 .. n : f[i] = WalkedEntry(f[i - 1], list[i])
  BY <1>2, <1>5
<1>10. n \in 0 .. n
  BY <1>2
<1> HIDE DEF f, g, n, Fits
<1> QED BY <1>4, <1>7, <1>8, <1>9, <1>10 DEF n

\* What the walk keeps, and the alarms it sets: an entry is skipped only after one
\* has been removed.
LEMMA WalkCounts ==
  ASSUME Limits, NEW list \in Seq(Waiters)
  PROVE  /\ Walk(list) \in Walks
         /\ 2 * Len(Walk(list).kept) <= Len(list) + Walk(list).again
<1> DEFINE n == Len(list)
<1>1. PICK f \in [0 .. n -> Walks] :
        /\ f[0] = FirstWalk /\ Walk(list) = f[n]
        /\ \A i \in 1 .. n : f[i] = WalkedEntry(f[i - 1], list[i])
  BY WalkSteps
<1> DEFINE Skipping(w) == IF w.skip THEN 1 ELSE 0
           T == {i \in 0 .. n : 2 * Len(f[i].kept) + Skipping(f[i]) = i + f[i].again}
<1>2. n \in Nat /\ \A i \in 1 .. n : list[i] \in Waiters
  OBVIOUS
<1>3. 0 \in T
  <2>1. FirstWalk.kept = <<>> /\ FirstWalk.again = 0 /\ FirstWalk.skip = FALSE
    BY DEF FirstWalk
  <2>2. Len(f[0].kept) = 0
    BY <1>1, <2>1
  <2> QED BY SMTT(30), <1>1, <1>2, <2>1, <2>2
<1>4. ASSUME NEW k \in 0 .. n - 1, k \in T PROVE k + 1 \in T
  <2>1. /\ k + 1 \in 1 .. n /\ k + 1 \in 0 .. n /\ k \in 0 .. n /\ (k + 1) - 1 = k /\ k \in Int
    BY <1>2
  <2>2. f[k + 1] = WalkedEntry(f[k], list[k + 1]) /\ f[k] \in Walks /\ list[k + 1] \in Waiters
    BY <1>1, <1>2, <2>1
  <2>3. PICK w \in Walks, e \in Waiters : w = f[k] /\ e = list[k + 1]
    BY <2>2
  <2>4. /\ w.kept \in Seq(Waiters) /\ w.again \in Nat /\ Len(w.kept) \in Nat
        /\ w.skip \in BOOLEAN /\ f[k + 1].skip \in BOOLEAN
    <3>1. f[k + 1] \in Walks
      BY <1>1, <2>1
    <3>2. \A x \in Walks : x.kept \in Seq(Waiters) /\ x.again \in Nat /\ x.skip \in BOOLEAN
      BY DEF Walks
    <3> QED BY <3>1, <3>2
  <2>5. \A x : Len(Append(w.kept, x)) = Len(w.kept) + 1
    BY <2>4
  <2>6. 2 * Len(w.kept) + Skipping(w) = k + w.again
    BY <1>4, <2>3
  <2>7. \/ w.skip /\ ~f[k + 1].skip /\ f[k + 1].again = w.again
           /\ Len(f[k + 1].kept) = Len(w.kept) + 1
        \/ ~w.skip /\ ~f[k + 1].skip /\ f[k + 1].again = w.again + 1
           /\ Len(f[k + 1].kept) = Len(w.kept) + 1
        \/ ~w.skip /\ f[k + 1].skip /\ f[k + 1].again = w.again
           /\ Len(f[k + 1].kept) = Len(w.kept)
    <3> DEFINE x == WalkedEntry(w, e)
    <3>1. \/ w.skip /\ ~x.skip /\ x.again = w.again /\ x.kept = Append(w.kept, e)
          \/ ~w.skip /\ ~x.skip /\ x.again = w.again + 1
             /\ x.kept = Append(w.kept, [e EXCEPT !.timesEnqueued = @ + 1])
          \/ ~w.skip /\ x.skip /\ x.again = w.again /\ x.kept = w.kept
      BY EntryCases
    <3>2. x = f[k + 1]
      BY <2>2, <2>3
    <3> HIDE DEF x
    <3> QED BY <2>5, <3>1, <3>2
  <2>8. 2 * Len(f[k + 1].kept) + Skipping(f[k + 1]) = (k + 1) + f[k + 1].again
    <3>1. PICK a \in Nat, b \in Nat, x \in {0, 1} :
            a = Len(w.kept) /\ b = w.again /\ x = Skipping(w)
      BY <2>4
    <3>2. PICK c \in Nat, d \in Nat, y \in {0, 1} :
            c = Len(f[k + 1].kept) /\ d = f[k + 1].again /\ y = Skipping(f[k + 1])
      BY <2>4, <2>7
    <3>3. 2 * a + x = k + b
      BY <2>6, <3>1
    <3>4. \/ x = 1 /\ y = 0 /\ d = b /\ c = a + 1
          \/ x = 0 /\ y = 0 /\ d = b + 1 /\ c = a + 1
          \/ x = 0 /\ y = 1 /\ d = b /\ c = a
      BY <2>7, <3>1, <3>2
    <3> HIDE DEF Skipping
    <3>5. 2 * c + y = (k + 1) + d
      BY <2>1, <3>3, <3>4
    <3> QED BY <3>2, <3>5
  <2> QED BY <2>1, <2>8
<1>5. n \in T
  <2> HIDE DEF T, n
  <2>1. \A i \in 0 .. n : i \in T
    BY <1>2, <1>3, <1>4, UpTo
  <2> QED BY <1>2, <2>1
<1>6. f[n] \in Walks /\ Len(f[n].kept) \in Nat /\ f[n].again \in Nat
  BY <1>1, <1>2 DEF Walks
<1>7. 2 * Len(f[n].kept) + Skipping(f[n]) = n + f[n].again
  BY <1>5
<1>8. 2 * Len(f[n].kept) <= n + f[n].again
  <2>1. PICK a \in Nat, b \in Nat, x \in {0, 1} :
          a = Len(f[n].kept) /\ b = f[n].again /\ x = Skipping(f[n])
    BY <1>6
  <2>2. 2 * a + x = n + b
    BY <1>7, <2>1
  <2> HIDE DEF n
  <2>3. 2 * a <= n + b
    BY <1>2, <2>2
  <2> QED BY <2>1, <2>3
<1> QED BY <1>1, <1>6, <1>8
-----------------------------------------------------------------------------
(* The requests that wait and their alarms. *)

WaitingTyped == pending \in [Node -> Seq(Waiters)] /\ alarms \in [Node -> Nat]

LEMMA EnqueueKeeps ==
  ASSUME WaitingTyped, AlarmAhead, NEW r \in Requests, NEW n, EnqueuePendingMessage(n, r)
  PROVE  WaitingTyped' /\ AlarmAhead'
<1> DEFINE e == [req |-> r, timesEnqueued |-> 0]
<1>1. /\ pending' = [pending EXCEPT ![n] = Append(@, e)]
      /\ alarms' = [alarms EXCEPT ![n] = @ + 1] /\ e \in Waiters
  BY DEF EnqueuePendingMessage, Waiters
<1> HIDE DEF e
<1>2. ASSUME NEW m \in Node
      PROVE  /\ pending'[m] \in Seq(Waiters) /\ alarms'[m] \in Nat
             /\ Len(pending'[m]) <= alarms'[m]
  <2>1. /\ pending[m] \in Seq(Waiters) /\ alarms[m] \in Nat /\ Len(pending[m]) <= alarms[m]
        /\ Len(pending[m]) \in Nat
    BY DEF WaitingTyped, AlarmAhead
  <2>2. Append(pending[m], e) \in Seq(Waiters) /\ Len(Append(pending[m], e)) = Len(pending[m]) + 1
    BY <1>1, <2>1
  <2>3. CASE m = n
    BY <1>1, <2>1, <2>2, <2>3 DEF WaitingTyped
  <2>4. CASE m # n
    BY <1>1, <2>1, <2>4 DEF WaitingTyped
  <2> QED BY <2>3, <2>4
<1>3. DOMAIN pending' = Node /\ DOMAIN alarms' = Node
  BY <1>1 DEF WaitingTyped
<1>4. pending' \in [Node -> Seq(Waiters)] /\ alarms' \in [Node -> Nat]
  BY <1>1, <1>2, <1>3 DEF WaitingTyped
<1> QED BY <1>2, <1>4 DEF WaitingTyped, AlarmAhead

LEMMA WalkKeeps ==
  ASSUME Limits, WaitingTyped, AlarmAhead, NEW n \in Node, CheckPendingMessages(n)
  PROVE  WaitingTyped' /\ AlarmAhead'
<1> DEFINE walk == Walk(pending[n])
<1>1. /\ alarms[n] > 0 /\ pending' = [pending EXCEPT ![n] = walk.kept]
      /\ alarms' = [alarms EXCEPT ![n] = @ - 1 + walk.again]
  BY DEF CheckPendingMessages
<1>2. /\ pending[n] \in Seq(Waiters) /\ alarms[n] \in Nat /\ Len(pending[n]) <= alarms[n]
      /\ Len(pending[n]) \in Nat
  BY DEF WaitingTyped, AlarmAhead
<1>3. /\ walk.kept \in Seq(Waiters) /\ walk.again \in Nat /\ Len(walk.kept) \in Nat
      /\ 2 * Len(walk.kept) <= Len(pending[n]) + walk.again
  <2>1. walk \in Walks /\ 2 * Len(walk.kept) <= Len(pending[n]) + walk.again
    BY <1>2, WalkCounts
  <2> HIDE DEF walk
  <2>2. walk.kept \in Seq(Waiters) /\ walk.again \in Nat
    BY <2>1 DEF Walks
  <2> QED BY <2>1, <2>2
<1> HIDE DEF walk
<1>4. /\ alarms[n] - 1 + walk.again \in Nat
      /\ Len(walk.kept) <= alarms[n] - 1 + walk.again
  BY <1>1, <1>2, <1>3
<1>5. WaitingTyped'
  BY <1>1, <1>3, <1>4 DEF WaitingTyped
<1>6. ASSUME NEW m \in Node PROVE Len(pending'[m]) <= alarms'[m]
  BY <1>1, <1>4 DEF WaitingTyped, AlarmAhead
<1> QED BY <1>5, <1>6 DEF AlarmAhead

\* On every node there are never fewer alarms under way than requests that wait in
\* pendingConnections, although checkPendingMessages uses an alarm up, sets one
\* only for an entry it tries in vain, and skips the entry after a removed one: a
\* request that waits is always tried again or given up.
THEOREM AlarmsSuffice == ASSUME Limits PROVE Spec => []AlarmAhead
<1>1. Init => WaitingTyped /\ AlarmAhead
  BY DEF Init, WaitingTyped, AlarmAhead
<1>2. WaitingTyped /\ AlarmAhead /\ [Next]_vars => WaitingTyped' /\ AlarmAhead'
  <2> SUFFICES ASSUME WaitingTyped, AlarmAhead, [Next]_vars
               PROVE  WaitingTyped' /\ AlarmAhead'
    OBVIOUS
  <2>1. ASSUME UNCHANGED pendingVars PROVE WaitingTyped' /\ AlarmAhead'
    BY <2>1 DEF pendingVars, WaitingTyped, AlarmAhead
  <2>2. ASSUME NEW r \in Requests, CreateConnection(r) PROVE WaitingTyped' /\ AlarmAhead'
    BY <2>1, <2>2, EnqueueKeeps DEF CreateConnection
  <2>3. ASSUME NEW n \in Node, CheckPendingMessages(n) PROVE WaitingTyped' /\ AlarmAhead'
    BY <2>3, WalkKeeps
  <2>4. ASSUME NEW r \in Requests, \/ SetHBS(r) \/ TcpConnect(r) \/ ConnectionStablished(r)
                                   \/ ReceiveMessage(r) \/ SendMessage(r)
        PROVE  WaitingTyped' /\ AlarmAhead'
    BY <2>1, <2>4 DEF SetHBS, TcpConnect, ConnectionStablished, ReceiveMessage, SendMessage
  <2>5. ASSUME NEW v \in VM, \/ \E n \in Node : ManageCloseConnections(v, n)
                             \/ UnlinkVM(v) \/ LinkVM(v) \/ SetIOR(v) \/ CloseVMConnections(v)
        PROVE  WaitingTyped' /\ AlarmAhead'
    BY <2>1, <2>5 DEF ManageCloseConnections, UnlinkVM, LinkVM, SetIOR, CloseVMConnections
  <2>6. ASSUME NEW l \in load.listeners, ManageListen(l) PROVE WaitingTyped' /\ AlarmAhead'
    BY <2>1, <2>6 DEF ManageListen
  <2>7. CASE UNCHANGED vars
    BY <2>1, <2>7 DEF vars
  <2> QED BY <2>2, <2>3, <2>4, <2>5, <2>6, <2>7 DEF Next, Events
<1> QED BY <1>1, <1>2, PTL DEF Spec

-----------------------------------------------------------------------------
(* The invariant.                                                          *)

Entries    == [cells : Seq([virtualIP : Int, ipNode : Node, vmID : VM]),
               holesIP : Seq(Int), lastIP : Nat]
PortCells  == [vPort : Nat, rPort : Ports, user : User \cup VM, vmID : User \cup VM,
               operation : {"LISTEN", "CONNECT"}]
Linked     == [pid : VM, uid : User, virtualIP : Int]
PatPorts   == [rPort : Ports, vPort : Nat, connectionID : Requests \cup {NoConnection}]
Listeners  == [port : Ports, app : VM]

\* A route, whatever its fields are.
IsRoute(x) == \E a, b, c, d : x = [virtualIP |-> a, node |-> b, port |-> c, localPort |-> d]

CloudTyped ==
  /\ load \in Workloads
  /\ life \in [VM -> {"off", "up", "closing", "gone"}]
  /\ ready \subseteq VM /\ listened \subseteq load.listeners
  /\ toClose \in [VM -> SUBSET Node]
  /\ vms \in [Node -> Seq(Linked)]

TablesTyped ==
  /\ ipsCloud \in [User -> Entries]
  /\ portsPerNode \in [Node -> Seq(PortCells)]

PatTyped ==
  /\ DOMAIN vmPorts = Node
  /\ \A n \in Node : /\ DOMAIN vmPorts[n] \subseteq VM
                     /\ \A v \in DOMAIN vmPorts[n] : vmPorts[n][v] \in Seq(PatPorts)
  /\ portPtr \in [Node -> Ports] /\ portHoles \in [Node -> Seq(Ports)]
  /\ established \in [Node -> SUBSET Ports]

TcpTyped == listening \in [Node -> Seq(Listeners)] /\ inUse \in [Node -> SUBSET EphemeralPorts]

RequestsTyped ==
  /\ state \in [Requests -> States]
  /\ DOMAIN route = Requests /\ \A r \in Requests : IsRoute(route[r])
  /\ DOMAIN arrived = Requests
  /\ \A r \in Requests : state[r] = "connecting" => route[r].localPort \in EphemeralPorts

\* Only requests of the workload are made; each entry of pendingConnections is of
\* another one, which is pending, and not tried too often.
WaitingKept ==
  /\ \A r \in Requests : state[r] # "idle" => r \in load.requests
  /\ \A n \in Node : \A i \in 1 .. Len(pending[n]) :
       /\ pending[n][i].timesEnqueued \in 0 .. MaxTimes + 1
       /\ state[pending[n][i].req] = "pending"
       /\ \A j \in 1 .. Len(pending[n]) : pending[n][j].req = pending[n][i].req => i = j
  /\ \A n, m \in Node : \A i \in 1 .. Len(pending[n]), j \in 1 .. Len(pending[m]) :
       pending[n][i].req = pending[m][j].req => n = m

\* A node still has to do with a VM: it is up, or closing and the node has not closed it.
Serves(n, v) == n \in Places(v) /\ (life[v] = "up" \/ (life[v] = "closing" /\ n \in toClose[v]))

\* The VM has its address: it is up, or closing and no node has closed it.
Addressed(v) == life[v] = "up" \/ (life[v] = "closing" /\ toClose[v] = Places(v))

\* A VM asks when it is up, and closes when its requests are over, on the nodes that
\* serve it.
Closing ==
  /\ \A v \in VM :
       /\ toClose[v] \subseteq Places(v) /\ (toClose[v] # {} => life[v] = "closing")
       /\ life[v] \in {"closing", "gone"} =>
            \A r \in load.requests : v \in {r.vm, r.to} => Finished(r)
  /\ \A r \in load.requests : state[r] # "idle" => life[r.vm] # "off"

\* The translation of ports and the table of ports have only VMs that are served.
PortsKept ==
  \A n \in Node :
    /\ \A v \in DOMAIN vmPorts[n] : Serves(n, v)
    /\ \A i \in 1 .. Len(portsPerNode[n]) :
         LET v == portsPerNode[n][i].vmID
         IN v \in VM => Serves(n, v) /\ portsPerNode[n][i].user = OwnerOf[v]

\* Every VM with an address has one cell, with its owner.
CellsKept ==
  \A u \in User : LET cells == ipsCloud[u].cells IN
    /\ \A i \in 1 .. Len(cells) :
         /\ OwnerOf[cells[i].vmID] = u /\ cells[i].ipNode = Host[cells[i].vmID]
         /\ Addressed(cells[i].vmID)
    /\ \A i, j \in 1 .. Len(cells) : cells[i].vmID = cells[j].vmID => i = j

\* Every VM that is linked is in the list of its host, once; an address is that of
\* its cell, if it has one.
LinkedKept ==
  /\ \A n \in Node : \A i \in 1 .. Len(vms[n]) :
       LET a == vms[n][i] IN
       /\ Host[a.pid] = n /\ a.uid = OwnerOf[a.pid] /\ life[a.pid] \in {"up", "closing"}
       /\ \A j \in 1 .. Len(ipsCloud[a.uid].cells) :
            ipsCloud[a.uid].cells[j].vmID = a.pid => ipsCloud[a.uid].cells[j].virtualIP = a.virtualIP
       /\ \A j \in 1 .. Len(vms[n]) : vms[n][j].pid = a.pid => i = j
  /\ \A v \in VM : life[v] = "up" =>
       /\ \E i \in 1 .. Len(vms[Host[v]]) : vms[Host[v]][i].pid = v
       /\ \E i \in 1 .. Len(ipsCloud[OwnerOf[v]].cells) : ipsCloud[OwnerOf[v]].cells[i].vmID = v

\* Two numbers are addresses of one chain: each the hole of the one before.
Chained(a, b) == \E k \in Int : a = b + k * IpBasis

\* The addresses in use and the holes of a user are of different chains, each of
\* them of a chain that has been begun.
Chains(u) == LET c == ipsCloud[u].cells
                 h == ipsCloud[u].holesIP
                 Begun(a) == \E m \in IpBasis + 1 .. ipsCloud[u].lastIP : Chained(a, m)
  IN /\ IpBasis <= ipsCloud[u].lastIP
     /\ ipsCloud[u].lastIP <= IpBasis + Cardinality({v \in VM : OwnerOf[v] = u /\ life[v] # "off"})
     /\ \A i, j \in 1 .. Len(c) : Chained(c[i].virtualIP, c[j].virtualIP) => i = j
     /\ \A i, j \in 1 .. Len(h) : Chained(h[i], h[j]) => i = j
     /\ \A i \in 1 .. Len(c), j \in 1 .. Len(h) : ~Chained(c[i].virtualIP, h[j])
     /\ \A i \in 1 .. Len(c) : Begun(c[i].virtualIP)
     /\ \A i \in 1 .. Len(h) : Begun(h[i])
     /\ \A n \in Node : \A i \in 1 .. Len(vms[n]) : vms[n][i].uid = u => Begun(vms[n][i].virtualIP)

\* The address of a linked VM comes before what is left of its chain.
Forward ==
  /\ \A n \in Node : \A i \in 1 .. Len(vms[n]) :
       LET a == vms[n][i]
           c == ipsCloud[a.uid].cells
           h == ipsCloud[a.uid].holesIP
       IN /\ \A j \in 1 .. Len(c) : Chained(a.virtualIP, c[j].virtualIP) => c[j].virtualIP <= a.virtualIP
          /\ \A j \in 1 .. Len(h) : Chained(a.virtualIP, h[j]) => h[j] < a.virtualIP
  /\ \A n, m \in Node : \A i \in 1 .. Len(vms[n]), j \in 1 .. Len(vms[m]) :
       vms[n][i].uid = vms[m][j].uid /\ vms[n][i].virtualIP = vms[m][j].virtualIP
         => vms[n][i].pid = vms[m][j].pid

\* A real port has one listener, and leads to the VM that it is registered for.
ListenersKept ==
  \A n \in Node :
    /\ \A i, j \in 1 .. Len(listening[n]) : listening[n][i].port = listening[n][j].port => i = j
    /\ error = "none" => \A i \in 1 .. Len(portsPerNode[n]) :
         LET p == portsPerNode[n][i]
         IN p.vmID \in VM => \E j \in 1 .. Len(listening[n]) :
                               listening[n][j] = [port |-> p.rPort, app |-> p.vmID]

\* A connection between VMs that is under way has the node, the address and a port
\* of the VM that was asked for.
Routed ==
  \A r \in Requests :
    /\ state[r] \in {"sent", "over"} => r.op = "create"
    /\ state[r] \in {"forwarded", "connecting", "open", "sent"} /\ r.op = "create" =>
         /\ route[r].node = Host[r.to]
         /\ \E i \in 1 .. Len(vms[Host[r.to]]) :
              vms[Host[r.to]][i].pid = r.to /\ vms[Host[r.to]][i].virtualIP = route[r].virtualIP
         /\ \E i \in 1 .. Len(listening[Host[r.to]]) :
              listening[Host[r.to]][i] = [port |-> route[r].port, app |-> r.to]
    /\ state[r] = "cells" => r.op = "storage"

Typing == CloudTyped /\ TablesTyped /\ PatTyped /\ TcpTyped /\ RequestsTyped /\ WaitingTyped

IInv == /\ Typing /\ WaitingKept /\ Closing /\ PortsKept /\ CellsKept /\ LinkedKept
        /\ (\A u \in User : Chains(u)) /\ Forward /\ ListenersKept /\ Routed /\ ReachesTarget

\* No more VMs than the number of the first address, so that no chain meets the next
\* one's first address: in the octets of 10.0.0.1 (CloudManagerScheduler.ned:19) it is
\* 167772161.  Identifiers are those of OMNeT++ modules, of which a user and a VM are
\* two: the port of a client is registered with both of them in each other's place.
AddressRoom == IsFiniteSet(VM) /\ Cardinality(VM) <= IpBasis
IdsDiffer   == VM \cap User = {}

\* What the invariant says of a linked VM.
LEMMA LinkedFacts ==
  ASSUME IInv, NEW m \in Node, NEW i \in 1 .. Len(vms[m])
  PROVE  /\ vms[m] \in Seq(Linked) /\ Len(vms[m]) \in Nat
         /\ vms[m][i].pid \in VM /\ vms[m][i].uid \in User /\ vms[m][i].virtualIP \in Int
         /\ Host[vms[m][i].pid] = m /\ vms[m][i].uid = OwnerOf[vms[m][i].pid]
         /\ life[vms[m][i].pid] \in {"up", "closing"}
         /\ \A j \in 1 .. Len(ipsCloud[vms[m][i].uid].cells) :
              ipsCloud[vms[m][i].uid].cells[j].vmID = vms[m][i].pid
                => ipsCloud[vms[m][i].uid].cells[j].virtualIP = vms[m][i].virtualIP
         /\ \A j \in 1 .. Len(vms[m]) : vms[m][j].pid = vms[m][i].pid => i = j
<1>1. LinkedKept /\ vms \in [Node -> Seq(Linked)]
  BY DEF IInv, Typing, CloudTyped
<1>2. vms[m] \in Seq(Linked)
  BY <1>1
<1>3. vms[m][i] \in Linked /\ Len(vms[m]) \in Nat
  BY <1>2
<1>4. vms[m][i].pid \in VM /\ vms[m][i].uid \in User /\ vms[m][i].virtualIP \in Int
  BY <1>3 DEF Linked
<1>5. /\ Host[vms[m][i].pid] = m /\ vms[m][i].uid = OwnerOf[vms[m][i].pid]
      /\ life[vms[m][i].pid] \in {"up", "closing"}
      /\ \A j \in 1 .. Len(ipsCloud[vms[m][i].uid].cells) :
           ipsCloud[vms[m][i].uid].cells[j].vmID = vms[m][i].pid
             => ipsCloud[vms[m][i].uid].cells[j].virtualIP = vms[m][i].virtualIP
      /\ \A j \in 1 .. Len(vms[m]) : vms[m][j].pid = vms[m][i].pid => i = j
  <2>1. LinkedKept /\ m \in Node /\ i \in 1 .. Len(vms[m])
    BY <1>1
  <2>2. \A x \in Node : \A y \in 1 .. Len(vms[x]) :
           /\ Host[vms[x][y].pid] = x /\ vms[x][y].uid = OwnerOf[vms[x][y].pid]
           /\ life[vms[x][y].pid] \in {"up", "closing"}
           /\ \A j \in 1 .. Len(ipsCloud[vms[x][y].uid].cells) :
                ipsCloud[vms[x][y].uid].cells[j].vmID = vms[x][y].pid
                  => ipsCloud[vms[x][y].uid].cells[j].virtualIP = vms[x][y].virtualIP
           /\ \A j \in 1 .. Len(vms[x]) : vms[x][j].pid = vms[x][y].pid => y = j
    BY ZenonT(40), <2>1 DEF LinkedKept
  <2> QED BY ZenonT(40), <2>1, <2>2
<1> QED BY <1>2, <1>3, <1>4, <1>5

LEMMA LinkedHost ==
  ASSUME IInv, NEW m \in Node, NEW i \in 1 .. Len(vms[m])
  PROVE  /\ Host[vms[m][i].pid] = m /\ vms[m][i].uid = OwnerOf[vms[m][i].pid]
         /\ life[vms[m][i].pid] \in {"up", "closing"}
<1>1. LinkedKept
  BY DEF IInv
<1>2. \A x \in Node : \A y \in 1 .. Len(vms[x]) :
        /\ Host[vms[x][y].pid] = x /\ vms[x][y].uid = OwnerOf[vms[x][y].pid]
        /\ life[vms[x][y].pid] \in {"up", "closing"}
  BY <1>1, ZenonT(40) DEF LinkedKept
<1> QED BY <1>2, ZenonT(40)

LEMMA LinkedAddress ==
  ASSUME IInv, NEW m \in Node, NEW i \in 1 .. Len(vms[m])
  PROVE  \A j \in 1 .. Len(ipsCloud[vms[m][i].uid].cells) :
           ipsCloud[vms[m][i].uid].cells[j].vmID = vms[m][i].pid
             => ipsCloud[vms[m][i].uid].cells[j].virtualIP = vms[m][i].virtualIP
<1>1. LinkedKept
  BY DEF IInv
<1>2. \A x \in Node : \A y \in 1 .. Len(vms[x]) : \A j \in 1 .. Len(ipsCloud[vms[x][y].uid].cells) :
        ipsCloud[vms[x][y].uid].cells[j].vmID = vms[x][y].pid
          => ipsCloud[vms[x][y].uid].cells[j].virtualIP = vms[x][y].virtualIP
  BY <1>1, ZenonT(40) DEF LinkedKept
<1> QED BY <1>2, ZenonT(40)

\* An address of a user leads to one linked VM.
LEMMA AddressOnce ==
  ASSUME IInv, NEW m \in Node, NEW i \in 1 .. Len(vms[m]), NEW j \in 1 .. Len(vms[m]),
         vms[m][i].uid = vms[m][j].uid, vms[m][i].virtualIP = vms[m][j].virtualIP
  PROVE  vms[m][i].pid = vms[m][j].pid
<1>1. Forward
  BY DEF IInv
<1>2. \A n, o \in Node : \A k \in 1 .. Len(vms[n]), l \in 1 .. Len(vms[o]) :
        vms[n][k].uid = vms[o][l].uid /\ vms[n][k].virtualIP = vms[o][l].virtualIP
          => vms[n][k].pid = vms[o][l].pid
  BY <1>1, ZenonT(40) DEF Forward
<1> QED BY <1>2

-----------------------------------------------------------------------------
(* Chains of addresses.                                                    *)

LEMMA ChainedLaws ==
  ASSUME NEW a \in Int, NEW b \in Int, NEW c \in Int
  PROVE  /\ Chained(a, a) /\ Chained(a - IpBasis, a)
         /\ Chained(a, b) => Chained(b, a)
         /\ Chained(a, b) /\ Chained(b, c) => Chained(a, c)
<1>1. IpBasis \in Int
  BY BasisAssumption
<1>2. Chained(a, a)
  <2>1. 0 \in Int /\ a = a + 0 * IpBasis
    BY <1>1
  <2> QED BY <2>1 DEF Chained
<1>3. Chained(a - IpBasis, a)
  <2>1. -1 \in Int /\ a - IpBasis = a + (-1) * IpBasis
    BY <1>1
  <2> QED BY <2>1 DEF Chained
<1>4. Chained(a, b) => Chained(b, a)
  <2> SUFFICES ASSUME NEW k \in Int, a = b + k * IpBasis PROVE Chained(b, a)
    BY DEF Chained
  <2>1. -k \in Int /\ b = a + (-k) * IpBasis
    BY <1>1
  <2> QED BY <2>1 DEF Chained
<1>5. Chained(a, b) /\ Chained(b, c) => Chained(a, c)
  <2> SUFFICES ASSUME NEW k \in Int, a = b + k * IpBasis, NEW l \in Int, b = c + l * IpBasis
               PROVE  Chained(a, c)
    BY DEF Chained
  <2>1. k + l \in Int /\ a = c + (k + l) * IpBasis
    BY <1>1
  <2> QED BY <2>1 DEF Chained
<1> QED BY <1>2, <1>3, <1>4, <1>5

LEMMA ChainedFirst ==
  ASSUME NEW a \in IpBasis + 1 .. 2 * IpBasis, NEW b \in IpBasis + 1 .. 2 * IpBasis, Chained(a, b)
  PROVE  a = b
<1>1. IpBasis \in Nat /\ a \in Int /\ b \in Int /\ IpBasis < a /\ IpBasis < b
      /\ a <= 2 * IpBasis /\ b <= 2 * IpBasis
  BY BasisAssumption
<1>2. PICK k \in Int : a = b + k * IpBasis
  BY DEF Chained
<1>3. CASE k >= 1
  <2>1. k - 1 \in Nat /\ (k - 1) * IpBasis \in Nat /\ k * IpBasis = (k - 1) * IpBasis + IpBasis
    BY <1>1, <1>2, <1>3
  <2> QED BY <1>1, <1>2, <2>1
<1>4. CASE k <= -1
  <2> DEFINE l == -k - 1
  <2>1. l \in Nat
    BY <1>4
  <2> HIDE DEF l
  <2>2. l * IpBasis \in Nat
    BY <1>1, <2>1
  <2>3. k = -1 - l
    BY <1>2 DEF l
  <2>4. k * IpBasis = -IpBasis - l * IpBasis
    BY <1>1, <2>1, <2>3
  <2> QED BY <1>1, <1>2, <2>2, <2>4
<1>5. CASE k = 0
  BY <1>1, <1>2, <1>5
<1> QED BY <1>2, <1>3, <1>4, <1>5

-----------------------------------------------------------------------------
(* What is found in the tables.                                            *)

\* The place of a VM in the list of its owner's cells.
CellOfVM(u, v) == SelectInSeq(ipsCloud[u].cells, LAMBDA c : c.vmID = v)

LEMMA CellTypes ==
  ASSUME Typing, NEW u \in User
  PROVE  /\ ipsCloud[u] \in Entries
         /\ ipsCloud[u].cells \in Seq([virtualIP : Int, ipNode : Node, vmID : VM])
         /\ Len(ipsCloud[u].cells) \in Nat
         /\ \A i \in 1 .. Len(ipsCloud[u].cells) :
              /\ ipsCloud[u].cells[i].virtualIP \in Int /\ ipsCloud[u].cells[i].ipNode \in Node
              /\ ipsCloud[u].cells[i].vmID \in VM
         /\ ipsCloud[u].holesIP \in Seq(Int) /\ Len(ipsCloud[u].holesIP) \in Nat
         /\ \A i \in 1 .. Len(ipsCloud[u].holesIP) : ipsCloud[u].holesIP[i] \in Int
         /\ ipsCloud[u].lastIP \in Nat
<1>1. ipsCloud[u] \in Entries
  BY DEF Typing, TablesTyped
<1>2. /\ ipsCloud[u].cells \in Seq([virtualIP : Int, ipNode : Node, vmID : VM])
      /\ ipsCloud[u].holesIP \in Seq(Int) /\ ipsCloud[u].lastIP \in Nat
  BY <1>1 DEF Entries
<1> DEFINE S == [virtualIP : Int, ipNode : Node, vmID : VM]
<1>3. PICK c \in Seq(S), h \in Seq(Int) : c = ipsCloud[u].cells /\ h = ipsCloud[u].holesIP
  BY <1>2
<1>4. /\ Len(c) \in Nat /\ Len(h) \in Nat
      /\ \A i \in 1 .. Len(c) : c[i] \in S
      /\ \A i \in 1 .. Len(h) : h[i] \in Int
  <2> HIDE DEF S
  <2> QED OBVIOUS
<1>5. \A i \in 1 .. Len(c) : c[i].virtualIP \in Int /\ c[i].ipNode \in Node /\ c[i].vmID \in VM
  BY <1>4
<1> QED BY <1>1, <1>2, <1>3, <1>4, <1>5

LEMMA CellFound ==
  ASSUME Typing, NEW u \in User, NEW v
  PROVE  \/ /\ CellOfVM(u, v) = 0
            /\ \A i \in 1 .. Len(ipsCloud[u].cells) : ipsCloud[u].cells[i].vmID # v
         \/ /\ CellOfVM(u, v) \in 1 .. Len(ipsCloud[u].cells) /\ CellOfVM(u, v) # 0
            /\ ipsCloud[u].cells[CellOfVM(u, v)].vmID = v
<1> DEFINE c == ipsCloud[u].cells
           I == {i \in 1 .. Len(c) : c[i].vmID = v}
<1>1. Len(c) \in Nat
  BY CellTypes
<1>2. CellOfVM(u, v) = IF I # {} THEN Min(I) ELSE 0
  BY DEF CellOfVM, SelectInSeq
<1>3. CASE I = {}
  BY <1>2, <1>3
<1>4. CASE I # {}
  <2>1. Min(I) \in I
    BY <1>1, <1>4, MinIn
  <2> QED BY <1>1, <1>2, <1>4, <2>1
<1> QED BY <1>3, <1>4

\* An address of a cell leads to the node and the VM of the cell.
LEMMA AddressFound ==
  ASSUME Typing, NEW u \in User, Chains(u), NEW j \in 1 .. Len(ipsCloud[u].cells)
  PROVE  /\ SearchNodeIP(ipsCloud[u].cells[j].virtualIP, u) = ipsCloud[u].cells[j].ipNode
         /\ GetVMid(ipsCloud[u].cells[j].virtualIP, u) = ipsCloud[u].cells[j].vmID
<1> DEFINE c == ipsCloud[u].cells
           a == c[j].virtualIP
           I == {i \in 1 .. Len(c) : c[i].virtualIP = a}
<1>1. Len(c) \in Nat /\ a \in Int /\ j \in 1 .. Len(c)
  BY CellTypes
<1>2. CellOf(a, u) = IF I # {} THEN Min(I) ELSE 0
  BY DEF CellOf, SelectInSeq
<1>3. j \in I /\ I # {}
  BY <1>1
<1>4. Min(I) \in I
  BY <1>1, <1>3, MinIn
<1>5. ASSUME NEW i \in I PROVE i = j
  <2>1. Chained(a, a)
    BY <1>1, ChainedLaws
  <2> QED BY <1>1, <1>5, <2>1 DEF Chains
<1>6. CellOf(a, u) = j /\ j # 0
  <2> HIDE DEF I
  <2>1. Min(I) = j
    BY <1>4, <1>5
  <2> QED BY <1>1, <1>2, <1>3, <2>1
<1> HIDE DEF a
<1> QED BY <1>6 DEF SearchNodeIP, GetVMid, a

-----------------------------------------------------------------------------
(* What each part of the invariant depends on.                             *)

LEMMA WaitingFrame ==
  ASSUME WaitingKept, UNCHANGED <<state, load, pending>> PROVE WaitingKept'
BY DEF WaitingKept

LEMMA ClosingFrame ==
  ASSUME Closing, UNCHANGED <<state, load, toClose, life>> PROVE Closing'
BY DEF Closing, Places, Finished

LEMMA PortsFrame ==
  ASSUME PortsKept, UNCHANGED <<vmPorts, portsPerNode, life, toClose, load>> PROVE PortsKept'
BY DEF PortsKept, Serves, Places

LEMMA CellsFrame ==
  ASSUME CellsKept, UNCHANGED <<ipsCloud, life, toClose, load>> PROVE CellsKept'
<1>1. ASSUME NEW v PROVE Addressed(v)' <=> Addressed(v)
  BY DEF Addressed, Places
<1> QED BY <1>1 DEF CellsKept

LEMMA LinkedFrame ==
  ASSUME LinkedKept, UNCHANGED <<ipsCloud, life, vms>> PROVE LinkedKept'
BY DEF LinkedKept

LEMMA ChainsFrame ==
  ASSUME \A u \in User : Chains(u), UNCHANGED <<ipsCloud, life, vms>>
  PROVE  \A u \in User : Chains(u)'
<1> SUFFICES ASSUME NEW u \in User PROVE Chains(u)'
  OBVIOUS
<1>1. Chains(u) /\ ipsCloud' = ipsCloud /\ life' = life /\ vms' = vms
  OBVIOUS
<1> QED BY <1>1 DEF Chains

LEMMA ForwardFrame ==
  ASSUME Forward, UNCHANGED <<ipsCloud, vms>> PROVE Forward'
BY DEF Forward

LEMMA ListenersFrame ==
  ASSUME ListenersKept, Simulating, UNCHANGED <<listening, portsPerNode>> PROVE ListenersKept'
BY DEF ListenersKept, Simulating

LEMMA RoutedFrame ==
  ASSUME Routed, UNCHANGED <<state, route, vms, listening>> PROVE Routed'
BY DEF Routed

LEMMA ReachesFrame ==
  ASSUME ReachesTarget, UNCHANGED <<state, arrived>> PROVE ReachesTarget'
BY DEF ReachesTarget

\* Addresses and VMs of the cloud.
Addresses == CellsKept /\ LinkedKept /\ (\A u \in User : Chains(u)) /\ Forward

LEMMA AddressesFrame ==
  ASSUME Addresses, UNCHANGED <<ipsCloud, life, vms, toClose, load>> PROVE Addresses'
<1>1. /\ CellsKept /\ LinkedKept /\ (\A u \in User : Chains(u)) /\ Forward
  BY DEF Addresses
<1> QED BY <1>1, CellsFrame, LinkedFrame, ChainsFrame, ForwardFrame DEF Addresses

-----------------------------------------------------------------------------
(* A request goes a step further.                                          *)

LEMMA RequestMoves ==
  ASSUME Typing, WaitingKept, Closing, NEW r \in Requests, NEW s \in States,
         state[r] \in {"cells", "forwarded", "connecting", "open", "sent"},
         state[r] = "open" => r.op = "create", s # "idle",
         state' = [state EXCEPT ![r] = s], UNCHANGED <<load, toClose, life, pending>>
  PROVE  WaitingKept' /\ Closing' /\ state' \in [Requests -> States]
<1>1. /\ state \in [Requests -> States]
      /\ pending \in [Node -> Seq(Waiters)]
      /\ \A q \in Requests : q # r => state'[q] = state[q]
      /\ state'[r] = s
  BY DEF Typing, RequestsTyped, WaitingTyped
<1>2. ASSUME NEW n \in Node, NEW i \in 1 .. Len(pending[n])
      PROVE  state'[pending[n][i].req] = "pending"
  <2>1. pending[n][i] \in Waiters
    BY <1>1
  <2>2. pending[n][i].req \in Requests /\ state[pending[n][i].req] = "pending"
    BY <2>1 DEF Waiters, WaitingKept
  <2> QED BY <1>1, <2>2
<1>3. WaitingKept'
  BY <1>1, <1>2 DEF WaitingKept
<1>4. ~Finished(r)
  BY DEF Finished
<1>5. \A q \in load.requests : q \in Requests
  BY DEF Requests, Typing, CloudTyped
<1>6. Closing'
  BY <1>1, <1>4, <1>5 DEF Closing, Places, Finished
<1> QED BY <1>1, <1>3, <1>6

LEMMA SetHBSKeeps ==
  ASSUME IInv, NEW r \in Requests, SetHBS(r) PROVE IInv'
<1>1. /\ Simulating /\ state[r] = "cells" /\ state' = [state EXCEPT ![r] = "forwarded"]
      /\ UNCHANGED <<nmVars, cloudVars, patVars, pendingVars, tcpVars, route, arrived, error>>
  BY DEF SetHBS
<1>2. WaitingKept' /\ Closing' /\ state' \in [Requests -> States]
  BY <1>1, RequestMoves DEF IInv, cloudVars, pendingVars, States
<1>3. r.op = "storage" /\ \A q \in Requests : q # r => state'[q] = state[q]
  BY <1>1 DEF IInv, Routed, Typing, RequestsTyped
<1>4. state'[r] = "forwarded"
  BY <1>1 DEF IInv, Typing, RequestsTyped
<1>5. Routed'
  BY <1>1, <1>3, <1>4 DEF IInv, Routed, cloudVars, tcpVars
<1>6. ReachesTarget'
  BY <1>1, <1>3, <1>4 DEF IInv, ReachesTarget
<1>7. Typing'
  <2>1. RequestsTyped'
    BY <1>1, <1>2, <1>3, <1>4 DEF IInv, Typing, RequestsTyped, IsRoute
  <2> QED BY <1>1, <2>1 DEF IInv, Typing, CloudTyped, TablesTyped, PatTyped, TcpTyped, WaitingTyped,
             cloudVars, nmVars, patVars, tcpVars, pendingVars
<1> QED BY <1>1, <1>2, <1>5, <1>6, <1>7, PortsFrame, AddressesFrame, ListenersFrame
        DEF IInv, Addresses, cloudVars, nmVars, patVars, tcpVars

LEMMA SendMessageKeeps ==
  ASSUME IInv, NEW r \in Requests, SendMessage(r) PROVE IInv'
<1>1. /\ Simulating /\ state[r] = "open" /\ r.op = "create"
      /\ state' = [state EXCEPT ![r] = "sent"]
      /\ UNCHANGED <<nmVars, cloudVars, patVars, pendingVars, tcpVars, route, arrived, error>>
  BY DEF SendMessage
<1>2. WaitingKept' /\ Closing' /\ state' \in [Requests -> States]
  BY <1>1, RequestMoves DEF IInv, cloudVars, pendingVars, States
<1>3. \A q \in Requests : q # r => state'[q] = state[q]
  BY <1>1 DEF IInv, Routed, Typing, RequestsTyped
<1>4. state'[r] = "sent"
  BY <1>1 DEF IInv, Typing, RequestsTyped
<1>5. Routed'
  BY <1>1, <1>3, <1>4 DEF IInv, Routed, cloudVars, tcpVars
<1>6. ReachesTarget'
  BY <1>1, <1>3, <1>4 DEF IInv, ReachesTarget
<1>7. Typing'
  <2>1. RequestsTyped'
    BY <1>1, <1>2, <1>3, <1>4 DEF IInv, Typing, RequestsTyped, IsRoute
  <2> QED BY <1>1, <2>1 DEF IInv, Typing, CloudTyped, TablesTyped, PatTyped, TcpTyped, WaitingTyped,
             cloudVars, nmVars, patVars, tcpVars, pendingVars
<1> QED BY <1>1, <1>2, <1>5, <1>6, <1>7, PortsFrame, AddressesFrame, ListenersFrame
        DEF IInv, Addresses, cloudVars, nmVars, patVars, tcpVars

LEMMA TcpConnectKeeps ==
  ASSUME IInv, NEW r \in Requests, TcpConnect(r) PROVE IInv'
<1> DEFINE n == Host[r.vm]
<1>1. /\ Simulating /\ state[r] = "forwarded" /\ state' = [state EXCEPT ![r] = "connecting"]
      /\ UNCHANGED <<nmVars, cloudVars, patVars, pendingVars, listening, arrived, error>>
  BY DEF TcpConnect
<1>2. PICK p \in EphemeralPorts : /\ inUse' = [inUse EXCEPT ![n] = @ \cup {p}]
                                  /\ route' = [route EXCEPT ![r].localPort = p]
  BY DEF TcpConnect
<1>3. WaitingKept' /\ Closing' /\ state' \in [Requests -> States]
  BY <1>1, RequestMoves DEF IInv, cloudVars, pendingVars, States
<1>4. \A q \in Requests : q # r => state'[q] = state[q] /\ route'[q] = route[q]
  BY <1>1, <1>2 DEF IInv, Typing, RequestsTyped
<1>5. state'[r] = "connecting"
  BY <1>1 DEF IInv, Typing, RequestsTyped
<1>6. /\ IsRoute(route'[r]) /\ route'[r].localPort = p
      /\ route'[r].node = route[r].node /\ route'[r].virtualIP = route[r].virtualIP
      /\ route'[r].port = route[r].port
  <2>1. PICK a, b, c, d : route[r] = [virtualIP |-> a, node |-> b, port |-> c, localPort |-> d]
    BY DEF IInv, Typing, RequestsTyped, IsRoute
  <2>2. route'[r] = [virtualIP |-> a, node |-> b, port |-> c, localPort |-> p]
    BY <1>2, <2>1 DEF IInv, Typing, RequestsTyped
  <2>3. IsRoute(route'[r])
    BY <2>2 DEF IsRoute
  <2>4. /\ route'[r].localPort = p /\ route'[r].node = b
        /\ route'[r].virtualIP = a /\ route'[r].port = c
    BY <2>2
  <2> QED BY <2>1, <2>3, <2>4
<1>7. Routed'
  BY <1>1, <1>4, <1>5, <1>6 DEF IInv, Routed, cloudVars
<1>8. ReachesTarget'
  BY <1>1, <1>4, <1>5 DEF IInv, ReachesTarget
<1>9. Typing'
  <2>1. RequestsTyped'
    BY <1>1, <1>2, <1>3, <1>4, <1>5, <1>6 DEF IInv, Typing, RequestsTyped
  <2>2. TcpTyped'
    BY <1>1, <1>2 DEF IInv, Typing, TcpTyped
  <2> QED BY <1>1, <2>1, <2>2 DEF IInv, Typing, CloudTyped, TablesTyped, PatTyped, WaitingTyped,
             cloudVars, nmVars, patVars, pendingVars
<1> QED BY <1>1, <1>3, <1>7, <1>8, <1>9, PortsFrame, AddressesFrame, ListenersFrame
        DEF IInv, Addresses, cloudVars, nmVars, patVars

\* Listeners of other ports do not count.
LEMMA ReceiveMessageKeeps ==
  ASSUME IInv, NEW r \in Requests, ReceiveMessage(r) PROVE IInv'
<1> DEFINE n    == route[r].node
           gate == GetGateByVIP(n, route[r].virtualIP, OwnerOf[r.vm])
           app  == GetAppIndexFromPort(n, route[r].port)
<1>1. /\ Simulating /\ state[r] = "sent"
      /\ UNCHANGED <<nmVars, cloudVars, patVars, pendingVars, tcpVars, route>>
  BY DEF ReceiveMessage
<1>2. CASE app = -1 \/ gate = -1
  <2>1. UNCHANGED <<state, arrived>>
    BY <1>2 DEF ReceiveMessage
  <2>2. Typing'
    BY <1>1, <2>1 DEF IInv, Typing, RequestsTyped, IsRoute, CloudTyped, TablesTyped, PatTyped, TcpTyped,
             WaitingTyped, cloudVars, nmVars, patVars, tcpVars, pendingVars
  <2> QED BY <1>1, <2>1, <2>2, PortsFrame, AddressesFrame, ListenersFrame, WaitingFrame, ClosingFrame,
             RoutedFrame, ReachesFrame
          DEF IInv, Addresses, cloudVars, nmVars, patVars, tcpVars, pendingVars
<1>3. CASE app # -1 /\ gate # -1
  <2>1. /\ arrived' = [arrived EXCEPT ![r] = [vm |-> gate, app |-> app]]
        /\ state' = [state EXCEPT ![r] = "over"] /\ UNCHANGED error
    BY <1>3 DEF ReceiveMessage
  <2>2. WaitingKept' /\ Closing' /\ state' \in [Requests -> States]
    BY <1>1, <2>1, RequestMoves DEF IInv, cloudVars, pendingVars, States
  <2>3. \A q \in Requests : q # r => state'[q] = state[q] /\ arrived'[q] = arrived[q]
    BY <2>1 DEF IInv, Typing, RequestsTyped
  <2>4. state'[r] = "over" /\ arrived'[r] = [vm |-> gate, app |-> app] /\ DOMAIN arrived' = Requests
    BY <2>1 DEF IInv, Typing, RequestsTyped
  <2>5. r.op = "create" /\ n = Host[r.to]
    BY <1>1 DEF IInv, Routed
  <2>6. /\ r \in load.requests /\ r.to \in VM /\ r.vm \in VM /\ OwnerOf[r.to] = OwnerOf[r.vm]
        /\ Host[r.to] \in Node
    BY <1>1, <2>5, WorkloadAssumption DEF IInv, WaitingKept, Typing, CloudTyped
  <2>7. gate = r.to
    <3> DEFINE l == vms[n]
               I == {i \in 1 .. Len(l) : l[i].virtualIP = route[r].virtualIP /\ l[i].uid = OwnerOf[r.vm]}
    <3>1. l \in Seq(Linked) /\ Len(l) \in Nat
      BY <2>5, <2>6 DEF IInv, Typing, CloudTyped
    <3>2. PICK k \in 1 .. Len(l) : l[k].pid = r.to /\ l[k].virtualIP = route[r].virtualIP
      <4>1. \E i \in 1 .. Len(vms[Host[r.to]]) :
              vms[Host[r.to]][i].pid = r.to /\ vms[Host[r.to]][i].virtualIP = route[r].virtualIP
        BY <1>1, <2>5 DEF IInv, Routed
      <4>2. l = vms[Host[r.to]]
        BY <2>5
      <4> HIDE DEF l
      <4> QED BY <4>1, <4>2
    <3>3. l[k].uid = OwnerOf[r.to]
      BY <2>5, <2>6, <3>2, LinkedHost
    <3>4. k \in I
      BY <2>6, <3>2, <3>3
    <3>5. Min(I) \in I
      BY <3>1, <3>4, MinIn
    <3>6. ASSUME NEW i \in I PROVE l[i].pid = r.to
      <4>1. l[i].uid = l[k].uid /\ l[i].virtualIP = l[k].virtualIP /\ i \in 1 .. Len(l)
        BY <2>6, <3>2, <3>3
      <4> QED BY <2>5, <2>6, <3>2, <4>1, AddressOnce
    <3>7. SelectInSeq(l, LAMBDA c : c.virtualIP = route[r].virtualIP /\ c.uid = OwnerOf[r.vm]) = Min(I)
      BY <3>4 DEF SelectInSeq
    <3>8. Min(I) # 0 /\ l[Min(I)].pid = r.to
      <4>1. Min(I) \in 1 .. Len(l)
        BY <3>5
      <4> HIDE DEF I, l
      <4> QED BY <3>5, <3>6, <4>1
    <3> HIDE DEF I
    <3> QED BY <3>7, <3>8 DEF GetGateByVIP
  <2>8. app = r.to
    <3> DEFINE l == listening[n]
               I == {i \in 1 .. Len(l) : l[i].port = route[r].port}
    <3>1. l \in Seq(Listeners) /\ Len(l) \in Nat
      BY <2>5, <2>6 DEF IInv, Typing, TcpTyped
    <3>2. PICK k \in 1 .. Len(l) : l[k] = [port |-> route[r].port, app |-> r.to]
      BY <1>1, <2>5 DEF IInv, Routed
    <3>4. k \in I
      BY <3>2
    <3>5. Min(I) \in I
      BY <3>1, <3>4, MinIn
    <3>6. ASSUME NEW i \in I PROVE i = k
      <4>1. l[i].port = l[k].port /\ i \in 1 .. Len(l)
        BY <3>2
      <4> QED BY <2>5, <2>6, <4>1 DEF IInv, ListenersKept
    <3>7. SelectInSeq(l, LAMBDA c : c.port = route[r].port) = Min(I)
      BY <3>4 DEF SelectInSeq
    <3>8. Min(I) # 0 /\ l[Min(I)].app = r.to
      <4>1. Min(I) \in 1 .. Len(l)
        BY <3>5
      <4> HIDE DEF I, l
      <4> QED BY <3>2, <3>5, <3>6, <4>1
    <3> HIDE DEF I
    <3> QED BY <3>7, <3>8 DEF GetAppIndexFromPort
  <2> HIDE DEF gate, app
  <2>9. Routed'
    BY <1>1, <2>3, <2>4, <2>5 DEF IInv, Routed, cloudVars, tcpVars
  <2>10. ReachesTarget'
    BY <2>3, <2>4, <2>7, <2>8 DEF IInv, ReachesTarget
  <2>11. Typing'
    <3>1. RequestsTyped'
      BY <1>1, <2>2, <2>3, <2>4 DEF IInv, Typing, RequestsTyped, IsRoute
    <3> QED BY <1>1, <3>1 DEF IInv, Typing, CloudTyped, TablesTyped, PatTyped, TcpTyped, WaitingTyped,
               cloudVars, nmVars, patVars, tcpVars, pendingVars
  <2> QED BY <1>1, <2>2, <2>9, <2>10, <2>11, PortsFrame, AddressesFrame, ListenersFrame
          DEF IInv, Addresses, cloudVars, nmVars, patVars, tcpVars
<1> QED BY <1>2, <1>3

-----------------------------------------------------------------------------
(* A VM starts: it gets the address of a hole, or a fresh one.             *)

\* The VMs of a user that have been started.
Begun(u) == {w \in VM : OwnerOf[w] = u /\ life[w] # "off"}

LEMMA BegunMore ==
  ASSUME AddressRoom, NEW v \in VM, life[v] = "off"
  PROVE  /\ Cardinality(Begun(OwnerOf[v])) \in Nat
         /\ Cardinality(Begun(OwnerOf[v]) \cup {v}) = Cardinality(Begun(OwnerOf[v])) + 1
         /\ Cardinality(Begun(OwnerOf[v])) + 1 <= IpBasis
<1> DEFINE B == Begun(OwnerOf[v])
<1>1. B \subseteq VM /\ v \notin B /\ B \cup {v} \subseteq VM
  BY DEF Begun
<1> HIDE DEF B
<1>2. IsFiniteSet(VM) /\ IsFiniteSet(B) /\ Cardinality(B) \in Nat /\ Cardinality(VM) \in Nat
  BY <1>1, FS_Subset, FS_CardinalityType DEF AddressRoom
<1>3. Cardinality(B \cup {v}) = Cardinality(B) + 1
  BY <1>1, <1>2, FS_AddElement
<1>4. Cardinality(B \cup {v}) <= Cardinality(VM)
  BY <1>1, <1>2, FS_Subset
<1> QED BY <1>2, <1>3, <1>4, BasisAssumption DEF AddressRoom, B

\* What newVIP gives for a VM v of user u with entry e: an address ip of no other cell
\* or hole, and not that of a linked VM either, although one that is closing may have
\* had it; and the entry f after it.
NewFor(u, v, e, ip, f) ==
  /\ ip \in Int /\ f \in Entries /\ f.cells = e.cells
  /\ e.lastIP <= f.lastIP /\ f.lastIP <= IpBasis + Cardinality(Begun(u) \cup {v})
  /\ \A i \in 1 .. Len(e.cells) : ~Chained(e.cells[i].virtualIP, ip)
  /\ \E m \in IpBasis + 1 .. f.lastIP : Chained(ip, m)
  /\ \E at \in [1 .. Len(f.holesIP) -> 1 .. Len(e.holesIP)] :
       /\ \A i \in 1 .. Len(f.holesIP) : f.holesIP[i] = e.holesIP[at[i]]
       /\ \A i, j \in 1 .. Len(f.holesIP) : at[i] = at[j] => i = j
  /\ \A i \in 1 .. Len(f.holesIP) : ~Chained(ip, f.holesIP[i])
  /\ \A n \in Node : \A i \in 1 .. Len(vms[n]) :
       vms[n][i].uid = u /\ Chained(vms[n][i].virtualIP, ip) => ip < vms[n][i].virtualIP

LEMMA NewAddress ==
  ASSUME AddressRoom, Typing, Addresses, NEW v \in VM, life[v] = "off", OwnerOf[v] \in User
  PROVE  NewFor(OwnerOf[v], v, ipsCloud[OwnerOf[v]], NewVIP(ipsCloud[OwnerOf[v]]).ip,
                NewVIP(ipsCloud[OwnerOf[v]]).entry)
<1>a. PICK u \in User : u = OwnerOf[v]
  OBVIOUS
<1>0. PICK e, ip, f : u = OwnerOf[v] /\ e = ipsCloud[u] /\ ip = NewVIP(e).ip /\ f = NewVIP(e).entry
  BY <1>a
<1> SUFFICES NewFor(u, v, e, ip, f)
  BY <1>0
<1>1. PICK c \in Seq([virtualIP : Int, ipNode : Node, vmID : VM]), h \in Seq(Int), l \in Nat :
        /\ e = [cells |-> c, holesIP |-> h, lastIP |-> l]
        /\ e.cells = c /\ e.holesIP = h /\ e.lastIP = l
  BY <1>0, CellTypes DEF Entries
<1>2. /\ Len(c) \in Nat /\ \A i \in 1 .. Len(c) : c[i].virtualIP \in Int
      /\ Len(h) \in Nat /\ \A i \in 1 .. Len(h) : h[i] \in Int
  BY <1>0, <1>1, CellTypes
<1>3. /\ IpBasis \in Nat /\ IpBasis <= l /\ l <= IpBasis + Cardinality(Begun(u))
      /\ \A i, j \in 1 .. Len(h) : Chained(h[i], h[j]) => i = j
      /\ \A i \in 1 .. Len(c), j \in 1 .. Len(h) : ~Chained(c[i].virtualIP, h[j])
      /\ \A i \in 1 .. Len(c) : \E m \in IpBasis + 1 .. l : Chained(c[i].virtualIP, m)
      /\ \A i \in 1 .. Len(h) : \E m \in IpBasis + 1 .. l : Chained(h[i], m)
      /\ \A n \in Node : \A i \in 1 .. Len(vms[n]) : vms[n][i].uid = u =>
           \E m \in IpBasis + 1 .. l : Chained(vms[n][i].virtualIP, m)
  BY <1>0, <1>1, BasisAssumption DEF Addresses, Chains, Begun
<1>4. /\ Cardinality(Begun(u)) \in Nat
      /\ Cardinality(Begun(u) \cup {v}) = Cardinality(Begun(u)) + 1
      /\ Cardinality(Begun(u)) + 1 <= IpBasis
  BY <1>0, BegunMore
<1>5. \A n \in Node : \A i \in 1 .. Len(vms[n]) : vms[n][i].virtualIP \in Int
  <2> SUFFICES ASSUME NEW n \in Node, NEW i \in 1 .. Len(vms[n]) PROVE vms[n][i].virtualIP \in Int
    OBVIOUS
  <2>1. vms[n] \in Seq(Linked)
    BY DEF Typing, CloudTyped
  <2>2. vms[n][i] \in Linked
    BY <2>1
  <2> QED BY <2>2 DEF Linked
<1>6. CASE h # <<>>
  <2>1. Len(h) >= 1 /\ 1 \in 1 .. Len(h) /\ Head(h) = h[1]
    BY <1>2, <1>6
  <2>2. ip = h[1]
    BY <1>0, <1>1, <1>6, <2>1 DEF NewVIP
  <2>3. PICK t \in Seq(Int) : /\ t = Tail(h) /\ Len(t) = Len(h) - 1
                              /\ \A i \in 1 .. Len(t) : t[i] = h[i + 1]
    BY ZenonT(40), <1>6, HeadTailProperties
  <2>4. f = [cells |-> c, holesIP |-> t, lastIP |-> l]
    BY <1>0, <1>1, <1>6, <2>3 DEF NewVIP
  <2>5. f \in Entries /\ f.cells = c /\ f.holesIP = t /\ f.lastIP = l
    BY <2>4 DEF Entries
  <2>6. \A i \in 1 .. Len(t) : i + 1 \in 1 .. Len(h) /\ i + 1 # 1
    BY <1>2, <2>3
  <2>7. \E at \in [1 .. Len(t) -> 1 .. Len(h)] :
          /\ \A i \in 1 .. Len(t) : t[i] = h[at[i]]
          /\ \A i, j \in 1 .. Len(t) : at[i] = at[j] => i = j
    <3> DEFINE at == [i \in 1 .. Len(t) |-> i + 1]
    <3>1. at \in [1 .. Len(t) -> 1 .. Len(h)]
      BY <2>6
    <3>2. \A i \in 1 .. Len(t) : t[i] = h[at[i]]
      BY <2>3
    <3>3. \A i, j \in 1 .. Len(t) : at[i] = at[j] => i = j
      OBVIOUS
    <3> QED BY <3>1, <3>2, <3>3
  <2>8. \A i \in 1 .. Len(t) : ~Chained(ip, t[i])
    BY <1>3, <2>1, <2>2, <2>3, <2>6
  <2>9. \A n \in Node : \A i \in 1 .. Len(vms[n]) :
          vms[n][i].uid = u /\ Chained(vms[n][i].virtualIP, ip) => ip < vms[n][i].virtualIP
    <3> SUFFICES ASSUME NEW n \in Node, NEW i \in 1 .. Len(vms[n]), vms[n][i].uid = u,
                        Chained(vms[n][i].virtualIP, ip)
                 PROVE  ip < vms[n][i].virtualIP
      OBVIOUS
    <3>1. \A j \in 1 .. Len(ipsCloud[vms[n][i].uid].holesIP) :
            Chained(vms[n][i].virtualIP, ipsCloud[vms[n][i].uid].holesIP[j])
              => ipsCloud[vms[n][i].uid].holesIP[j] < vms[n][i].virtualIP
      BY DEF Addresses, Forward
    <3>2. ipsCloud[vms[n][i].uid].holesIP = h
      BY <1>0, <1>1
    <3> QED BY <2>1, <2>2, <3>1, <3>2
  <2>10. ip \in Int /\ \E m \in IpBasis + 1 .. l : Chained(ip, m)
    BY <1>2, <1>3, <2>1, <2>2
  <2>11. l <= IpBasis + Cardinality(Begun(u) \cup {v})
    BY <1>3, <1>4
  <2>12. \A i \in 1 .. Len(c) : ~Chained(c[i].virtualIP, ip)
    BY <1>3, <2>1, <2>2
  <2>13. e.lastIP <= f.lastIP
    BY <1>1, <2>5
  <2> HIDE DEF Entries
  <2>14. ip \in Int /\ f \in Entries /\ f.cells = e.cells
    BY <1>1, <2>5, <2>10
  <2>15. \A i \in 1 .. Len(e.cells) : ~Chained(e.cells[i].virtualIP, ip)
    BY <1>1, <2>12
  <2>16. \E m \in IpBasis + 1 .. f.lastIP : Chained(ip, m)
    BY <2>5, <2>10
  <2>17. \E at \in [1 .. Len(f.holesIP) -> 1 .. Len(e.holesIP)] :
           /\ \A i \in 1 .. Len(f.holesIP) : f.holesIP[i] = e.holesIP[at[i]]
           /\ \A i, j \in 1 .. Len(f.holesIP) : at[i] = at[j] => i = j
    <3>1. PICK at \in [1 .. Len(t) -> 1 .. Len(h)] :
            /\ \A i \in 1 .. Len(t) : t[i] = h[at[i]]
            /\ \A i, j \in 1 .. Len(t) : at[i] = at[j] => i = j
      BY <2>7
    <3>2. f.holesIP = t /\ e.holesIP = h
      BY <1>1, <2>5
    <3>3. at \in [1 .. Len(f.holesIP) -> 1 .. Len(e.holesIP)]
      BY <3>2
    <3>4. /\ \A i \in 1 .. Len(f.holesIP) : f.holesIP[i] = e.holesIP[at[i]]
          /\ \A i, j \in 1 .. Len(f.holesIP) : at[i] = at[j] => i = j
      BY <3>1, <3>2
    <3> QED BY <3>3, <3>4
  <2>18. \A i \in 1 .. Len(f.holesIP) : ~Chained(ip, f.holesIP[i])
    BY <2>5, <2>8
  <2>19. e.lastIP <= f.lastIP /\ f.lastIP <= IpBasis + Cardinality(Begun(u) \cup {v})
    BY <1>1, <2>5, <2>11
  <2> QED BY <2>14, <2>15, <2>16, <2>17, <2>18, <2>19, <2>9, Zenon DEF NewFor
<1>7. CASE h = <<>>
  <2>1. ip = l + 1 /\ f = [cells |-> c, holesIP |-> h, lastIP |-> l + 1]
    BY <1>0, <1>1, <1>7 DEF NewVIP
  <2>2. f \in Entries /\ f.cells = c /\ f.holesIP = h /\ f.lastIP = l + 1
    BY <2>1 DEF Entries
  <2>3. ip \in IpBasis + 1 .. 2 * IpBasis /\ \A m \in IpBasis + 1 .. l : m \in IpBasis + 1 .. 2 * IpBasis /\ m # ip
    BY <1>3, <1>4, <2>1
  <2>4. ASSUME NEW a \in Int, NEW m \in IpBasis + 1 .. l, Chained(a, m), Chained(a, ip) PROVE FALSE
    <3>1. ip \in Int /\ m \in Int
      BY <1>3, <2>3
    <3>2. Chained(m, a)
      BY <2>4, <3>1, ChainedLaws
    <3>3. Chained(m, ip)
      BY <2>4, <3>1, <3>2, ChainedLaws
    <3> QED BY <2>3, <3>3, ChainedFirst
  <2>5. \E at \in [1 .. Len(h) -> 1 .. Len(h)] :
          /\ \A i \in 1 .. Len(h) : h[i] = h[at[i]]
          /\ \A i, j \in 1 .. Len(h) : at[i] = at[j] => i = j
    <3> DEFINE at == [i \in 1 .. Len(h) |-> i]
    <3>1. at \in [1 .. Len(h) -> 1 .. Len(h)] /\ \A i \in 1 .. Len(h) : at[i] = i
      OBVIOUS
    <3> HIDE DEF at
    <3> QED BY <3>1
  <2>6. Chained(ip, ip) /\ ip \in IpBasis + 1 .. l + 1
    BY <1>3, <2>1, <2>3, ChainedLaws
  <2>7. \A i \in 1 .. Len(c) : ~Chained(c[i].virtualIP, ip)
    BY <1>2, <1>3, <2>4
  <2>8. \A n \in Node : \A i \in 1 .. Len(vms[n]) : vms[n][i].uid = u => ~Chained(vms[n][i].virtualIP, ip)
    BY <1>3, <1>5, <2>4
  <2>9. Len(h) = 0
    BY <1>7
  <2>10. ip \in Int /\ \E m \in IpBasis + 1 .. l + 1 : Chained(ip, m)
    BY <2>3, <2>6
  <2>11. l + 1 <= IpBasis + Cardinality(Begun(u) \cup {v}) /\ l <= l + 1
    BY <1>3, <1>4
  <2>12. \A i \in 1 .. Len(h) : ~Chained(ip, h[i])
    BY <2>9
  <2>13. \A n \in Node : \A i \in 1 .. Len(vms[n]) :
           vms[n][i].uid = u /\ Chained(vms[n][i].virtualIP, ip) => ip < vms[n][i].virtualIP
    BY <2>8
  <2> HIDE DEF Entries
  <2>14. ip \in Int /\ f \in Entries /\ f.cells = e.cells
    BY <1>1, <2>2, <2>10
  <2>15. \A i \in 1 .. Len(e.cells) : ~Chained(e.cells[i].virtualIP, ip)
    BY <1>1, <2>7
  <2>16. \E m \in IpBasis + 1 .. f.lastIP : Chained(ip, m)
    BY <2>2, <2>10
  <2>17. \E at \in [1 .. Len(f.holesIP) -> 1 .. Len(e.holesIP)] :
           /\ \A i \in 1 .. Len(f.holesIP) : f.holesIP[i] = e.holesIP[at[i]]
           /\ \A i, j \in 1 .. Len(f.holesIP) : at[i] = at[j] => i = j
    <3>1. PICK at \in [1 .. Len(h) -> 1 .. Len(h)] :
            /\ \A i \in 1 .. Len(h) : h[i] = h[at[i]]
            /\ \A i, j \in 1 .. Len(h) : at[i] = at[j] => i = j
      BY <2>5
    <3>2. f.holesIP = h /\ e.holesIP = h
      BY <1>1, <2>2
    <3>3. at \in [1 .. Len(f.holesIP) -> 1 .. Len(e.holesIP)]
      BY <3>2
    <3>4. /\ \A i \in 1 .. Len(f.holesIP) : f.holesIP[i] = e.holesIP[at[i]]
          /\ \A i, j \in 1 .. Len(f.holesIP) : at[i] = at[j] => i = j
      BY <3>1, <3>2
    <3> QED BY <3>3, <3>4
  <2>18. \A i \in 1 .. Len(f.holesIP) : ~Chained(ip, f.holesIP[i])
    BY <2>2, <2>12
  <2>19. e.lastIP <= f.lastIP /\ f.lastIP <= IpBasis + Cardinality(Begun(u) \cup {v})
    BY <1>1, <2>2, <2>11
  <2> QED BY <2>14, <2>15, <2>16, <2>17, <2>18, <2>19, <2>13, Zenon DEF NewFor
<1> QED BY <1>6, <1>7

\* What is known of a request of the workload.
LEMMA RequestFacts ==
  ASSUME IInv, NEW r \in load.requests
  PROVE  /\ r \in Requests /\ r.vm \in VM /\ r.port \in Nat /\ Host[r.vm] \in Node /\ OwnerOf[r.vm] \in User
         /\ \/ r.op = "create" /\ r.to \in VM /\ OwnerOf[r.to] = OwnerOf[r.vm] /\ Host[r.to] \in Node
            \/ r.op = "storage" /\ r.to \in Node
<1>1. load \in Workloads
  BY DEF IInv, Typing, CloudTyped
<1>2. r \in Requests
  BY <1>1 DEF Requests
<1> QED BY <1>1, <1>2, WorkloadAssumption

LEMMA LinkedOnce ==
  ASSUME LinkedKept
  PROVE  \A n \in Node : \A i, j \in 1 .. Len(vms[n]) : vms[n][j].pid = vms[n][i].pid => i = j
BY ZenonT(40) DEF LinkedKept

LEMMA OtherCells ==
  ASSUME NEW c, NEW h, NEW l, NEW d
  PROVE  [[cells |-> c, holesIP |-> h, lastIP |-> l] EXCEPT !.cells = d]
           = [cells |-> d, holesIP |-> h, lastIP |-> l]
OBVIOUS

LEMMA LinkKeeps ==
  ASSUME AddressRoom, IInv, NEW v \in VM, LinkVM(v) PROVE IInv'
<1>1. /\ Simulating /\ v \in load.vms /\ life[v] = "off" /\ life' = [life EXCEPT ![v] = "up"]
      /\ UNCHANGED <<portsPerNode, load, ready, listened, toClose, patVars, pendingVars, tcpVars, reqVars, error>>
  BY DEF LinkVM
<1>2. Typing /\ Addresses /\ life \in [VM -> {"off", "up", "closing", "gone"}]
      /\ DOMAIN ipsCloud = User /\ vms \in [Node -> Seq(Linked)]
  BY DEF IInv, Addresses, Typing, CloudTyped, TablesTyped
<1>3. PICK u \in User, n \in Node : u = OwnerOf[v] /\ n = Host[v]
  BY WorkloadAssumption
<1>0. PICK e \in Entries : e = ipsCloud[u]
  BY <1>2 DEF Typing, TablesTyped
<1>4. PICK ip, f : e = ipsCloud[u] /\ ip = NewVIP(e).ip /\ f = NewVIP(e).entry
  BY <1>0
<1>5. /\ ip \in Int /\ f \in Entries /\ f.cells = e.cells
      /\ e.lastIP <= f.lastIP /\ f.lastIP <= IpBasis + Cardinality(Begun(u) \cup {v})
      /\ \A i \in 1 .. Len(e.cells) : ~Chained(e.cells[i].virtualIP, ip)
      /\ \E m \in IpBasis + 1 .. f.lastIP : Chained(ip, m)
      /\ \E at \in [1 .. Len(f.holesIP) -> 1 .. Len(e.holesIP)] :
           /\ \A i \in 1 .. Len(f.holesIP) : f.holesIP[i] = e.holesIP[at[i]]
           /\ \A i, j \in 1 .. Len(f.holesIP) : at[i] = at[j] => i = j
      /\ \A i \in 1 .. Len(f.holesIP) : ~Chained(ip, f.holesIP[i])
      /\ \A m \in Node : \A i \in 1 .. Len(vms[m]) :
           vms[m][i].uid = u /\ Chained(vms[m][i].virtualIP, ip) => ip < vms[m][i].virtualIP
  <2>1. NewFor(u, v, e, ip, f)
    BY <1>1, <1>2, <1>3, <1>4, NewAddress
  <2> QED BY <2>1 DEF NewFor
<1>6. PICK at \in [1 .. Len(f.holesIP) -> 1 .. Len(e.holesIP)] :
        /\ \A i \in 1 .. Len(f.holesIP) : f.holesIP[i] = e.holesIP[at[i]]
        /\ \A i, j \in 1 .. Len(f.holesIP) : at[i] = at[j] => i = j
  BY <1>5
<1> DEFINE S    == [virtualIP : Int, ipNode : Node, vmID : VM]
           cell == [virtualIP |-> ip, ipNode |-> n, vmID |-> v]
           a    == [pid |-> v, uid |-> u, virtualIP |-> ip]
<1>7. PICK c \in Seq(S), h \in Seq(Int), l \in Nat :
        f = [cells |-> c, holesIP |-> h, lastIP |-> l] /\ c = e.cells
        /\ c = f.cells /\ h = f.holesIP /\ l = f.lastIP
  BY <1>5 DEF Entries
<1>8. PICK c2 \in Seq(S) : /\ c2 = Append(c, cell) /\ Len(c2) = Len(c) + 1 /\ c2[Len(c) + 1] = cell
                           /\ \A i \in 1 .. Len(c) : c2[i] = c[i]
  <2>1. cell \in S
    BY <1>5
  <2> HIDE DEF S, cell
  <2>2. Append(c, cell) \in Seq(S) /\ Len(Append(c, cell)) = Len(c) + 1
        /\ Append(c, cell)[Len(c) + 1] = cell /\ \A i \in 1 .. Len(c) : Append(c, cell)[i] = c[i]
    BY <2>1, AppendProperties
  <2> QED BY <2>2
<1>9. ipsCloud' = [ipsCloud EXCEPT ![u] = [cells |-> c2, holesIP |-> h, lastIP |-> l]]
  <2>1. ipsCloud' = [ipsCloud EXCEPT ![u] = [f EXCEPT !.cells = Append(@, cell)]]
    BY <1>3, <1>4 DEF LinkVM, AllocateVirtualIP
  <2>2. [f EXCEPT !.cells = Append(@, cell)] = [cells |-> c2, holesIP |-> h, lastIP |-> l]
    <3> HIDE DEF cell
    <3>1. [f EXCEPT !.cells = Append(@, cell)] = [f EXCEPT !.cells = c2]
      BY <1>7, <1>8, Zenon
    <3>2. f = [cells |-> c, holesIP |-> h, lastIP |-> l]
      BY <1>7
    <3>3. [[cells |-> c, holesIP |-> h, lastIP |-> l] EXCEPT !.cells = c2]
            = [cells |-> c2, holesIP |-> h, lastIP |-> l]
      BY OtherCells
    <3> QED BY <3>1, <3>2, <3>3, Zenon
  <2> HIDE DEF cell
  <2> QED BY <2>1, <2>2
<1>10. /\ ipsCloud'[u] = [cells |-> c2, holesIP |-> h, lastIP |-> l] /\ DOMAIN ipsCloud' = User
       /\ ipsCloud'[u].cells = c2 /\ ipsCloud'[u].holesIP = h /\ ipsCloud'[u].lastIP = l
       /\ \A x \in User : x # u => ipsCloud'[x] = ipsCloud[x]
  BY <1>2, <1>9
<1>11. vms' = [vms EXCEPT ![n] = Append(@, a)]
  <2>1. Last(ipsCloud'[u].cells).virtualIP = ip
    BY <1>8, <1>10 DEF Last
  <2> QED BY <1>3, <2>1 DEF LinkVM
<1>12. /\ vms' \in [Node -> Seq(Linked)]
       /\ \A m \in Node : m # n => vms'[m] = vms[m]
       /\ Len(vms[n]) \in Nat /\ Len(vms'[n]) = Len(vms[n]) + 1 /\ vms'[n][Len(vms[n]) + 1] = a
       /\ \A i \in 1 .. Len(vms[n]) : vms'[n][i] = vms[n][i]
  <2>1. a \in Linked
    BY <1>5 DEF Linked
  <2>2. PICK w \in Seq(Linked) : w = vms[n]
    BY <1>2
  <2> HIDE DEF a
  <2>3. /\ Append(w, a) \in Seq(Linked) /\ Len(w) \in Nat /\ Len(Append(w, a)) = Len(w) + 1
        /\ Append(w, a)[Len(w) + 1] = a /\ \A i \in 1 .. Len(w) : Append(w, a)[i] = w[i]
    BY <2>1, AppendProperties
  <2>4. vms'[n] = Append(w, a) /\ \A m \in Node : m # n => vms'[m] = vms[m]
    BY <1>2, <1>11, <2>2
  <2>5. vms' \in [Node -> Seq(Linked)]
    BY <1>2, <1>11, <2>2, <2>3
  <2> QED BY <2>2, <2>3, <2>4, <2>5
<1>13. \A m \in Node : \A i \in 1 .. Len(vms'[m]) :
         \/ i \in 1 .. Len(vms[m]) /\ vms'[m][i] = vms[m][i]
         \/ m = n /\ i = Len(vms[m]) + 1 /\ vms'[m][i] = a
  <2> HIDE DEF a
  <2> QED BY SMTT(30), <1>12
<1>14. \A x \in User : \A i \in 1 .. Len(ipsCloud'[x].cells) :
         \/ /\ i \in 1 .. Len(ipsCloud[x].cells) /\ ipsCloud'[x].cells[i] = ipsCloud[x].cells[i]
         \/ x = u /\ i = Len(c) + 1 /\ ipsCloud'[x].cells[i] = cell
  <2> SUFFICES ASSUME NEW x \in User, NEW i \in 1 .. Len(ipsCloud'[x].cells)
               PROVE  \/ i \in 1 .. Len(ipsCloud[x].cells) /\ ipsCloud'[x].cells[i] = ipsCloud[x].cells[i]
                      \/ x = u /\ i = Len(c) + 1 /\ ipsCloud'[x].cells[i] = cell
    OBVIOUS
  <2>1. CASE x # u
    BY <1>10, <2>1
  <2>2. CASE x = u
    <3> HIDE DEF cell, S
    <3>1. ipsCloud[x].cells = c /\ ipsCloud'[x].cells = c2 /\ Len(c) \in Nat
      <4>1. ipsCloud[x].cells = c
        BY <1>4, <1>7, <2>2, Zenon
      <4> QED BY <1>10, <2>2, <4>1
    <3>2. i \in 1 .. Len(c) + 1
      BY <1>8, <3>1
    <3> QED BY <1>8, <2>2, <3>1, <3>2
  <2> QED BY <2>1, <2>2
<1>15. \A w \in VM : w # v => life'[w] = life[w]
  BY <1>1, <1>2
<1>16. life'[v] = "up" /\ life' \in [VM -> {"off", "up", "closing", "gone"}]
  BY <1>1, <1>2
<1>17. \A w : Places(w)' = Places(w)
  BY <1>1 DEF Places
<1>18. Typing'
  <2>1. [cells |-> c2, holesIP |-> h, lastIP |-> l] \in Entries
    BY DEF Entries
  <2>2. TablesTyped'
    BY <1>1, <1>2, <1>9, <2>1 DEF Typing, TablesTyped
  <2>3. CloudTyped'
    BY <1>1, <1>12, <1>16 DEF IInv, Typing, CloudTyped
  <2>4. PatTyped' /\ TcpTyped' /\ WaitingTyped'
    BY <1>1 DEF IInv, Typing, PatTyped, TcpTyped, WaitingTyped, patVars, tcpVars, pendingVars
  <2>5. RequestsTyped'
    BY <1>1 DEF IInv, Typing, RequestsTyped, IsRoute, reqVars
  <2> QED BY <2>2, <2>3, <2>4, <2>5 DEF Typing
<1>19. Closing'
  <2>1. \A x \in VM : /\ toClose[x] \subseteq Places(x) /\ (toClose[x] # {} => life'[x] = "closing")
                      /\ life'[x] \in {"closing", "gone"} =>
                           \A r \in load.requests : x \in {r.vm, r.to} => Finished(r)
    BY <1>1, <1>15, <1>16 DEF IInv, Closing
  <2>2. \A r \in load.requests : state[r] # "idle" => life'[r.vm] # "off"
    BY <1>1, <1>2, <1>16, RequestFacts DEF IInv, Closing
  <2> QED BY <1>1, <1>17, <2>1, <2>2 DEF Closing, Finished, reqVars
<1>20. \A m \in Node, w \in VM : Serves(m, w) => Serves(m, w)' /\ w # v
  BY <1>1, <1>15, <1>17 DEF Serves
<1> DEFINE There(w) == {Host[w]} \cup {l0.node : l0 \in {k \in load'.listeners : k.vm = w}}
           Has(w) == life'[w] = "up" \/ (life'[w] = "closing" /\ toClose'[w] = There(w))
<1>21. \A w \in VM : Addressed(w) => Has(w) /\ w # v
  <2>1. \A w \in VM : There(w) = Places(w)
    BY <1>1 DEF Places
  <2> HIDE DEF There
  <2> QED BY <1>1, <1>15, <2>1 DEF Addressed
<1>22. PortsKept'
  BY <1>1, <1>20 DEF IInv, Typing, PatTyped, PortsKept, patVars
<1>23. Has(v) /\ OwnerOf[v] = u /\ Host[v] = n /\ cell.vmID = v /\ cell.ipNode = n
       /\ cell.virtualIP = ip /\ a.pid = v /\ a.uid = u /\ a.virtualIP = ip
  BY <1>3, <1>16
<1> HIDE DEF cell, a, S, Has
<1>24. \A x \in User : \A i \in 1 .. Len(ipsCloud[x].cells) :
         /\ ipsCloud[x].cells[i].vmID \in VM /\ ipsCloud[x].cells[i].vmID # v
         /\ ipsCloud[x].cells[i].virtualIP \in Int
         /\ i \in 1 .. Len(ipsCloud'[x].cells) /\ ipsCloud'[x].cells[i] = ipsCloud[x].cells[i]
  <2> SUFFICES ASSUME NEW x \in User, NEW i \in 1 .. Len(ipsCloud[x].cells)
               PROVE  /\ ipsCloud[x].cells[i].vmID \in VM /\ ipsCloud[x].cells[i].vmID # v
                      /\ ipsCloud[x].cells[i].virtualIP \in Int
                      /\ i \in 1 .. Len(ipsCloud'[x].cells)
                      /\ ipsCloud'[x].cells[i] = ipsCloud[x].cells[i]
    OBVIOUS
  <2>1. ipsCloud[x].cells[i].vmID \in VM /\ ipsCloud[x].cells[i].virtualIP \in Int
    BY <1>2, CellTypes
  <2>2. ipsCloud[x].cells[i].vmID # v
    BY <1>21, <2>1 DEF IInv, CellsKept
  <2>3. i \in 1 .. Len(ipsCloud'[x].cells) /\ ipsCloud'[x].cells[i] = ipsCloud[x].cells[i]
    <3>1. CASE x # u
      BY <1>10, <3>1
    <3>2. CASE x = u
      <4>1. ipsCloud[x].cells = c /\ ipsCloud'[x].cells = c2 /\ Len(c) \in Nat
        <5>1. ipsCloud[x].cells = c
          BY <1>4, <1>7, <3>2, Zenon
        <5> QED BY <1>10, <3>2, <5>1
      <4> QED BY <1>8, <4>1
    <3> QED BY <3>1, <3>2
  <2> QED BY <2>1, <2>2, <2>3
<1>25. /\ Len(c) \in Nat /\ Len(c) + 1 \in 1 .. Len(ipsCloud'[u].cells)
       /\ ipsCloud'[u].cells[Len(c) + 1] = cell
  BY <1>8, <1>10
<1>26. CellsKept'
  <2>1. ASSUME NEW x \in User, NEW i \in 1 .. Len(ipsCloud'[x].cells)
        PROVE  /\ OwnerOf[ipsCloud'[x].cells[i].vmID] = x
               /\ ipsCloud'[x].cells[i].ipNode = Host[ipsCloud'[x].cells[i].vmID]
               /\ Has(ipsCloud'[x].cells[i].vmID)
    <3>1. CASE i \in 1 .. Len(ipsCloud[x].cells) /\ ipsCloud'[x].cells[i] = ipsCloud[x].cells[i]
      <4>1. /\ OwnerOf[ipsCloud[x].cells[i].vmID] = x
            /\ ipsCloud[x].cells[i].ipNode = Host[ipsCloud[x].cells[i].vmID]
            /\ Addressed(ipsCloud[x].cells[i].vmID)
        BY <3>1 DEF IInv, CellsKept
      <4> QED BY <1>21, <1>24, <3>1, <4>1
    <3>2. CASE x = u /\ ipsCloud'[x].cells[i] = cell
      BY <1>23, <3>2
    <3> QED BY <1>14, <3>1, <3>2
  <2>2. ASSUME NEW x \in User, NEW i \in 1 .. Len(ipsCloud'[x].cells),
               NEW j \in 1 .. Len(ipsCloud'[x].cells), ipsCloud'[x].cells[i].vmID = ipsCloud'[x].cells[j].vmID
        PROVE  i = j
    <3>1. CASE /\ i \in 1 .. Len(ipsCloud[x].cells) /\ ipsCloud'[x].cells[i] = ipsCloud[x].cells[i]
               /\ j \in 1 .. Len(ipsCloud[x].cells) /\ ipsCloud'[x].cells[j] = ipsCloud[x].cells[j]
      BY SMTT(30), <2>2, <3>1 DEF IInv, CellsKept
    <3>2. CASE /\ i \in 1 .. Len(ipsCloud[x].cells) /\ ipsCloud'[x].cells[i] = ipsCloud[x].cells[i]
               /\ ipsCloud'[x].cells[j] = cell
      BY <1>23, <1>24, <2>2, <3>2
    <3>3. CASE /\ j \in 1 .. Len(ipsCloud[x].cells) /\ ipsCloud'[x].cells[j] = ipsCloud[x].cells[j]
               /\ ipsCloud'[x].cells[i] = cell
      BY <1>23, <1>24, <2>2, <3>3
    <3>4. CASE i = Len(c) + 1 /\ j = Len(c) + 1
      BY <3>4
    <3> QED BY <1>14, <3>1, <3>2, <3>3, <3>4
  <2>3. \A x \in User : LET cells == ipsCloud'[x].cells IN
          /\ \A i \in 1 .. Len(cells) :
               /\ OwnerOf[cells[i].vmID] = x /\ cells[i].ipNode = Host[cells[i].vmID]
               /\ Has(cells[i].vmID)
          /\ \A i, j \in 1 .. Len(cells) : cells[i].vmID = cells[j].vmID => i = j
    BY <2>1, <2>2
  <2> QED BY <2>3 DEF CellsKept, Addressed, Places, Has
<1>27. \A m \in Node : \A i \in 1 .. Len(vms[m]) :
         /\ vms[m][i].pid \in VM /\ vms[m][i].pid # v /\ vms[m][i].uid \in User
         /\ vms[m][i].virtualIP \in Int
         /\ i \in 1 .. Len(vms'[m]) /\ vms'[m][i] = vms[m][i]
  <2> SUFFICES ASSUME NEW m \in Node, NEW i \in 1 .. Len(vms[m])
               PROVE  /\ vms[m][i].pid \in VM /\ vms[m][i].pid # v /\ vms[m][i].uid \in User
                      /\ vms[m][i].virtualIP \in Int
                      /\ i \in 1 .. Len(vms'[m]) /\ vms'[m][i] = vms[m][i]
    OBVIOUS
  <2>1. vms[m][i].pid \in VM /\ vms[m][i].uid \in User /\ vms[m][i].virtualIP \in Int
        /\ life[vms[m][i].pid] # "off"
    BY LinkedFacts
  <2>2. i \in 1 .. Len(vms'[m]) /\ vms'[m][i] = vms[m][i]
    <3>1. CASE m = n
      BY <1>12, <3>1
    <3>2. CASE m # n
      BY <1>12, <3>2
    <3> QED BY <3>1, <3>2
  <2> QED BY <1>1, <2>1, <2>2
<1>28. LinkedKept'
  <2>1. ASSUME NEW m \in Node, NEW i \in 1 .. Len(vms'[m])
        PROVE  /\ Host[vms'[m][i].pid] = m /\ vms'[m][i].uid = OwnerOf[vms'[m][i].pid]
               /\ life'[vms'[m][i].pid] \in {"up", "closing"}
    <3>1. CASE i \in 1 .. Len(vms[m]) /\ vms'[m][i] = vms[m][i]
      <4>1. /\ Host[vms[m][i].pid] = m /\ vms[m][i].uid = OwnerOf[vms[m][i].pid]
            /\ life[vms[m][i].pid] \in {"up", "closing"}
        BY <3>1, LinkedHost
      <4>2. life'[vms[m][i].pid] = life[vms[m][i].pid]
        BY <1>15, <1>27, <3>1
      <4> QED BY <3>1, <4>1, <4>2
    <3>2. CASE m = n /\ vms'[m][i] = a
      BY <1>16, <1>23, <3>2
    <3> QED BY <1>13, <3>1, <3>2
  <2>2. ASSUME NEW m \in Node, NEW i \in 1 .. Len(vms'[m]),
               NEW j \in 1 .. Len(ipsCloud'[vms'[m][i].uid].cells),
               ipsCloud'[vms'[m][i].uid].cells[j].vmID = vms'[m][i].pid
        PROVE  ipsCloud'[vms'[m][i].uid].cells[j].virtualIP = vms'[m][i].virtualIP
    <3>1. PICK x : x = vms'[m][i].uid
      OBVIOUS
    <3>2. CASE i \in 1 .. Len(vms[m]) /\ vms'[m][i] = vms[m][i]
      <4>1. x \in User /\ vms[m][i].pid # v
        BY <1>27, <3>1, <3>2
      <4>2. CASE j \in 1 .. Len(ipsCloud[x].cells) /\ ipsCloud'[x].cells[j] = ipsCloud[x].cells[j]
        <5>1. vms[m][i].uid = x /\ ipsCloud[x].cells[j].vmID = vms[m][i].pid
          BY <2>2, <3>1, <3>2, <4>2
        <5>2. ipsCloud[x].cells[j].virtualIP = vms[m][i].virtualIP
          <6>1. \A k \in 1 .. Len(ipsCloud[vms[m][i].uid].cells) :
                  ipsCloud[vms[m][i].uid].cells[k].vmID = vms[m][i].pid
                    => ipsCloud[vms[m][i].uid].cells[k].virtualIP = vms[m][i].virtualIP
            BY <3>2, LinkedFacts
          <6> QED BY <4>2, <5>1, <6>1
        <5> QED BY <3>1, <3>2, <4>2, <5>2
      <4>3. CASE ipsCloud'[x].cells[j] = cell
        BY <1>23, <2>2, <3>1, <3>2, <4>1, <4>3
      <4>4. j \in 1 .. Len(ipsCloud'[x].cells)
        BY <3>1
      <4> QED BY <1>14, <4>1, <4>2, <4>3, <4>4
    <3>3. CASE m = n /\ vms'[m][i] = a
      <4>1. x = u /\ x \in User /\ j \in 1 .. Len(ipsCloud'[x].cells) /\ ipsCloud'[x].cells[j].vmID = v
        BY <1>23, <2>2, <3>1, <3>3
      <4>2. ipsCloud'[x].cells[j] = cell
        BY <1>14, <1>24, <4>1
      <4> QED BY <1>23, <3>1, <3>3, <4>1, <4>2
    <3> QED BY <1>13, <3>2, <3>3
  <2>3. ASSUME NEW m \in Node, NEW i \in 1 .. Len(vms'[m]), NEW j \in 1 .. Len(vms'[m]),
               vms'[m][j].pid = vms'[m][i].pid
        PROVE  i = j
    <3>1. CASE /\ i \in 1 .. Len(vms[m]) /\ vms'[m][i] = vms[m][i]
               /\ j \in 1 .. Len(vms[m]) /\ vms'[m][j] = vms[m][j]
      <4>1. \A k \in 1 .. Len(vms[m]) : vms[m][k].pid = vms[m][i].pid => i = k
        BY <3>1, LinkedOnce DEF IInv
      <4> QED BY <2>3, <3>1, <4>1
    <3>2. CASE i \in 1 .. Len(vms[m]) /\ vms'[m][i] = vms[m][i] /\ vms'[m][j] = a
      BY <1>23, <1>27, <2>3, <3>2
    <3>3. CASE j \in 1 .. Len(vms[m]) /\ vms'[m][j] = vms[m][j] /\ vms'[m][i] = a
      BY <1>23, <1>27, <2>3, <3>3
    <3>4. CASE i = Len(vms[m]) + 1 /\ j = Len(vms[m]) + 1
      BY <3>4
    <3> QED BY <1>13, <3>1, <3>2, <3>3, <3>4
  <2>4. ASSUME NEW w \in VM, life'[w] = "up"
        PROVE  /\ \E i \in 1 .. Len(vms'[Host[w]]) : vms'[Host[w]][i].pid = w
               /\ \E i \in 1 .. Len(ipsCloud'[OwnerOf[w]].cells) : ipsCloud'[OwnerOf[w]].cells[i].vmID = w
    <3>1. CASE w = v
      <4>1. Len(vms[n]) + 1 \in 1 .. Len(vms'[n])
        BY <1>12
      <4> QED BY <1>12, <1>23, <1>25, <3>1, <4>1
    <3>2. CASE w # v
      <4>1. Host[w] \in Node /\ OwnerOf[w] \in User
        BY WorkloadAssumption
      <4>2. life[w] = "up"
        BY <1>15, <2>4, <3>2
      <4>3. PICK i \in 1 .. Len(vms[Host[w]]) : vms[Host[w]][i].pid = w
        BY <4>2 DEF IInv, LinkedKept
      <4>4. PICK j \in 1 .. Len(ipsCloud[OwnerOf[w]].cells) : ipsCloud[OwnerOf[w]].cells[j].vmID = w
        BY <4>2 DEF IInv, LinkedKept
      <4>5. i \in 1 .. Len(vms'[Host[w]]) /\ vms'[Host[w]][i].pid = w
        BY <1>27, <4>1, <4>3
      <4>6. j \in 1 .. Len(ipsCloud'[OwnerOf[w]].cells) /\ ipsCloud'[OwnerOf[w]].cells[j].vmID = w
        BY <1>24, <4>1, <4>4
      <4> QED BY <4>5, <4>6
    <3> QED BY <3>1, <3>2
  <2>5. ASSUME NEW m \in Node, NEW i \in 1 .. Len(vms'[m])
        PROVE  LET b == vms'[m][i] IN
               /\ Host[b.pid] = m /\ b.uid = OwnerOf[b.pid] /\ life'[b.pid] \in {"up", "closing"}
               /\ \A j \in 1 .. Len(ipsCloud'[b.uid].cells) :
                    ipsCloud'[b.uid].cells[j].vmID = b.pid => ipsCloud'[b.uid].cells[j].virtualIP = b.virtualIP
               /\ \A j \in 1 .. Len(vms'[m]) : vms'[m][j].pid = b.pid => i = j
    <3>1. /\ Host[vms'[m][i].pid] = m /\ vms'[m][i].uid = OwnerOf[vms'[m][i].pid]
          /\ life'[vms'[m][i].pid] \in {"up", "closing"}
      BY <2>1
    <3>2. \A j \in 1 .. Len(ipsCloud'[vms'[m][i].uid].cells) :
            ipsCloud'[vms'[m][i].uid].cells[j].vmID = vms'[m][i].pid
              => ipsCloud'[vms'[m][i].uid].cells[j].virtualIP = vms'[m][i].virtualIP
      BY <2>2
    <3>3. \A j \in 1 .. Len(vms'[m]) : vms'[m][j].pid = vms'[m][i].pid => i = j
      BY <2>3
    <3> QED BY <3>1, <3>2, <3>3, Zenon
  <2> QED BY <2>4, <2>5, Zenon DEF LinkedKept
<1>29. ASSUME NEW x \in User, x # u PROVE Chains(x)'
  <2>1. /\ ipsCloud'[x] = ipsCloud[x]
        /\ {w \in VM : OwnerOf[w] = x /\ life'[w] # "off"} = {w \in VM : OwnerOf[w] = x /\ life[w] # "off"}
    BY <1>3, <1>10, <1>15, <1>29
  <2>2. ASSUME NEW m \in Node, NEW i \in 1 .. Len(vms'[m]), vms'[m][i].uid = x
        PROVE  i \in 1 .. Len(vms[m]) /\ vms'[m][i] = vms[m][i]
    BY <1>13, <1>23, <1>29, <2>2
  <2>3. Chains(x)
    BY DEF IInv
  <2>4. \A m \in Node : \A i \in 1 .. Len(vms'[m]) : vms'[m][i].uid = x =>
          \E k \in IpBasis + 1 .. ipsCloud[x].lastIP : Chained(vms'[m][i].virtualIP, k)
    BY <2>2, <2>3 DEF Chains
  <2> QED BY <2>1, <2>3, <2>4 DEF Chains
<1>30. /\ IpBasis \in Nat /\ e.lastIP \in Nat /\ IpBasis <= e.lastIP /\ e.lastIP <= l
       /\ \A i, j \in 1 .. Len(c) : Chained(c[i].virtualIP, c[j].virtualIP) => i = j
       /\ \A i, j \in 1 .. Len(e.holesIP) : Chained(e.holesIP[i], e.holesIP[j]) => i = j
       /\ \A i \in 1 .. Len(c), j \in 1 .. Len(e.holesIP) : ~Chained(c[i].virtualIP, e.holesIP[j])
       /\ \A i \in 1 .. Len(c) : \E k \in IpBasis + 1 .. e.lastIP : Chained(c[i].virtualIP, k)
       /\ \A i \in 1 .. Len(e.holesIP) : \E k \in IpBasis + 1 .. e.lastIP : Chained(e.holesIP[i], k)
       /\ \A m \in Node : \A i \in 1 .. Len(vms[m]) : vms[m][i].uid = u =>
            \E k \in IpBasis + 1 .. e.lastIP : Chained(vms[m][i].virtualIP, k)
  <2>1. Chains(u) /\ e = ipsCloud[u] /\ c = ipsCloud[u].cells
    BY <1>4, <1>7 DEF IInv
  <2>2. e.lastIP \in Nat
    BY <1>2, <1>4, CellTypes
  <2> QED BY <1>5, <1>7, <2>1, <2>2, BasisAssumption DEF Chains
<1>31. \A k \in IpBasis + 1 .. e.lastIP : k \in IpBasis + 1 .. l
  BY <1>30
<1>32. /\ \A i \in 1 .. Len(h) : h[i] = e.holesIP[at[i]] /\ at[i] \in 1 .. Len(e.holesIP) /\ h[i] \in Int
       /\ \A i, j \in 1 .. Len(h) : at[i] = at[j] => i = j
       /\ \A i \in 1 .. Len(h) : ~Chained(ip, h[i])
       /\ \A i \in 1 .. Len(c) : c[i].virtualIP \in Int /\ ~Chained(c[i].virtualIP, ip)
       /\ \E k \in IpBasis + 1 .. l : Chained(ip, k)
       /\ ip \in Int
  <2>1. \A i \in 1 .. Len(h) : h[i] \in Int
    OBVIOUS
  <2>2. \A i \in 1 .. Len(c) : c[i].virtualIP \in Int
    BY <1>4, <1>7, <1>24
  <2> QED BY <1>5, <1>6, <1>7, <2>1, <2>2
<1>33. Chains(u)'
  <2>1. /\ IpBasis <= l /\ l <= IpBasis + Cardinality({w \in VM : OwnerOf[w] = u /\ life'[w] # "off"})
    <3>1. {w \in VM : OwnerOf[w] = u /\ life'[w] # "off"} = Begun(u) \cup {v}
      BY <1>3, <1>15, <1>16 DEF Begun
    <3>2. f.lastIP <= IpBasis + Cardinality(Begun(u) \cup {v})
      BY <1>5
    <3>3. IpBasis <= l
      BY <1>30
    <3> QED BY <1>7, <3>1, <3>2, <3>3, Zenon
  <2>2. ASSUME NEW i \in 1 .. Len(c2), NEW j \in 1 .. Len(c2), Chained(c2[i].virtualIP, c2[j].virtualIP)
        PROVE  i = j
    <3>1. CASE i \in 1 .. Len(c) /\ j \in 1 .. Len(c)
      BY <1>8, <1>30, <2>2, <3>1
    <3>2. CASE i \in 1 .. Len(c) /\ j = Len(c) + 1
      BY <1>8, <1>23, <1>32, <2>2, <3>2
    <3>3. CASE j \in 1 .. Len(c) /\ i = Len(c) + 1
      <4>1. c2[i].virtualIP = ip /\ c2[j].virtualIP = c[j].virtualIP
        BY <1>8, <1>23, <3>3
      <4>2. Chained(c[j].virtualIP, ip)
        BY <1>32, <2>2, <3>3, <4>1, ChainedLaws
      <4> QED BY <1>32, <3>3, <4>2
    <3>4. CASE i = Len(c) + 1 /\ j = Len(c) + 1
      BY <3>4
    <3>5. /\ i \in 1 .. Len(c) \/ i = Len(c) + 1
          /\ j \in 1 .. Len(c) \/ j = Len(c) + 1
      BY <1>8, <1>25
    <3> QED BY <3>1, <3>2, <3>3, <3>4, <3>5
  <2>3. ASSUME NEW i \in 1 .. Len(h), NEW j \in 1 .. Len(h), Chained(h[i], h[j]) PROVE i = j
    <3>1. Chained(e.holesIP[at[i]], e.holesIP[at[j]])
      BY <1>32, <2>3
    <3>2. at[i] = at[j]
      BY <1>30, <1>32, <3>1
    <3> QED BY <1>32, <3>2
  <2>4. ASSUME NEW i \in 1 .. Len(c2), NEW j \in 1 .. Len(h) PROVE ~Chained(c2[i].virtualIP, h[j])
    <3>1. CASE i \in 1 .. Len(c)
      BY ZenonT(40), <1>8, <1>30, <1>32, <3>1
    <3>2. CASE i = Len(c) + 1
      BY <1>8, <1>23, <1>32, <3>2
    <3> QED BY <1>8, <1>25, <3>1, <3>2
  <2>5. ASSUME NEW i \in 1 .. Len(c2) PROVE \E k \in IpBasis + 1 .. l : Chained(c2[i].virtualIP, k)
    <3>1. CASE i \in 1 .. Len(c)
      BY <1>8, <1>30, <1>31, <3>1
    <3>2. CASE i = Len(c) + 1
      BY <1>8, <1>23, <1>32, <3>2
    <3> QED BY <1>8, <1>25, <3>1, <3>2
  <2>6. ASSUME NEW i \in 1 .. Len(h) PROVE \E k \in IpBasis + 1 .. l : Chained(h[i], k)
    BY <1>30, <1>31, <1>32
  <2>7. ASSUME NEW m \in Node, NEW i \in 1 .. Len(vms'[m]), vms'[m][i].uid = u
        PROVE  \E k \in IpBasis + 1 .. l : Chained(vms'[m][i].virtualIP, k)
    <3>1. CASE i \in 1 .. Len(vms[m]) /\ vms'[m][i] = vms[m][i]
      BY <1>30, <1>31, <2>7, <3>1
    <3>2. CASE vms'[m][i] = a
      BY <1>23, <1>32, <3>2
    <3> QED BY <1>13, <3>1, <3>2
  <2>8. LET x == ipsCloud'[u] IN x.cells = c2 /\ x.holesIP = h /\ x.lastIP = l
    BY <1>10
  <2> QED BY <2>1, <2>2, <2>3, <2>4, <2>5, <2>6, <2>7, <2>8 DEF Chains
<1>34. Forward'
  <2>1. ASSUME NEW m \in Node, NEW i \in 1 .. Len(vms'[m]), NEW x \in User, x = vms'[m][i].uid,
               NEW j \in 1 .. Len(ipsCloud'[x].cells),
               Chained(vms'[m][i].virtualIP, ipsCloud'[x].cells[j].virtualIP)
        PROVE  ipsCloud'[x].cells[j].virtualIP <= vms'[m][i].virtualIP
    <3>1. CASE i \in 1 .. Len(vms[m]) /\ vms'[m][i] = vms[m][i]
      <4>1. CASE j \in 1 .. Len(ipsCloud[x].cells) /\ ipsCloud'[x].cells[j] = ipsCloud[x].cells[j]
        BY <2>1, <3>1, <4>1 DEF IInv, Forward
      <4>2. CASE x = u /\ ipsCloud'[x].cells[j] = cell
        <5>1. ip < vms[m][i].virtualIP
          BY <1>5, <1>23, <2>1, <3>1, <4>2
        <5> QED BY <1>23, <1>27, <1>32, <3>1, <4>2, <5>1
      <4> QED BY <1>14, <4>1, <4>2
    <3>2. CASE vms'[m][i] = a
      <4>1. CASE j \in 1 .. Len(ipsCloud[x].cells) /\ ipsCloud'[x].cells[j] = ipsCloud[x].cells[j]
        <5>1. x = u /\ ipsCloud[x].cells = c
          <6>1. x = u
            BY <1>23, <2>1, <3>2
          <6> QED BY <1>4, <1>7, <6>1, Zenon
        <5>2. Chained(ip, c[j].virtualIP) /\ j \in 1 .. Len(c)
          BY <1>23, <2>1, <3>2, <4>1, <5>1
        <5> QED BY <1>32, <5>2, ChainedLaws
      <4>2. CASE ipsCloud'[x].cells[j] = cell
        BY <1>23, <1>32, <3>2, <4>2
      <4> QED BY <1>14, <4>1, <4>2
    <3> QED BY <1>13, <3>1, <3>2
  <2>2. ASSUME NEW m \in Node, NEW i \in 1 .. Len(vms'[m]), NEW x \in User, x = vms'[m][i].uid,
               NEW j \in 1 .. Len(ipsCloud'[x].holesIP), Chained(vms'[m][i].virtualIP, ipsCloud'[x].holesIP[j])
        PROVE  ipsCloud'[x].holesIP[j] < vms'[m][i].virtualIP
    <3>1. CASE x = u
      <4>1. j \in 1 .. Len(h) /\ ipsCloud'[x].holesIP[j] = e.holesIP[at[j]] /\ at[j] \in 1 .. Len(e.holesIP)
            /\ h[j] = ipsCloud'[x].holesIP[j] /\ e = ipsCloud[x]
        BY <1>4, <1>10, <1>32, <3>1
      <4>2. CASE i \in 1 .. Len(vms[m]) /\ vms'[m][i] = vms[m][i]
        BY ZenonT(40), <2>2, <4>1, <4>2 DEF IInv, Forward
      <4>3. CASE vms'[m][i] = a
        BY <1>23, <1>32, <2>2, <4>1, <4>3
      <4> QED BY <1>13, <4>2, <4>3
    <3>2. CASE x # u
      <4>1. i \in 1 .. Len(vms[m]) /\ vms'[m][i] = vms[m][i] /\ ipsCloud'[x] = ipsCloud[x]
        BY <1>10, <1>13, <1>23, <2>2, <3>2
      <4> QED BY <2>2, <4>1 DEF IInv, Forward
    <3> QED BY <3>1, <3>2
  <2>3. ASSUME NEW m \in Node, NEW o \in Node, NEW i \in 1 .. Len(vms'[m]), NEW j \in 1 .. Len(vms'[o]),
               vms'[m][i].uid = vms'[o][j].uid, vms'[m][i].virtualIP = vms'[o][j].virtualIP
        PROVE  vms'[m][i].pid = vms'[o][j].pid
    <3>1. CASE /\ i \in 1 .. Len(vms[m]) /\ vms'[m][i] = vms[m][i]
               /\ j \in 1 .. Len(vms[o]) /\ vms'[o][j] = vms[o][j]
      BY <2>3, <3>1 DEF IInv, Forward
    <3>2. ASSUME NEW q \in Node, NEW k \in 1 .. Len(vms[q]), vms[q][k].uid = u, vms[q][k].virtualIP = ip
          PROVE  FALSE
      <4>1. Chained(vms[q][k].virtualIP, ip) /\ vms[q][k].virtualIP \in Int
        BY <1>27, <1>32, <3>2, ChainedLaws
      <4>2. ip < vms[q][k].virtualIP
        BY <1>5, <3>2, <4>1
      <4> QED BY <1>32, <3>2, <4>2
    <3>3. CASE i \in 1 .. Len(vms[m]) /\ vms'[m][i] = vms[m][i] /\ vms'[o][j] = a
      BY <1>23, <2>3, <3>2, <3>3
    <3>4. CASE j \in 1 .. Len(vms[o]) /\ vms'[o][j] = vms[o][j] /\ vms'[m][i] = a
      BY <1>23, <2>3, <3>2, <3>4
    <3>5. CASE vms'[m][i] = a /\ vms'[o][j] = a
      BY <3>5
    <3> QED BY <1>13, <3>1, <3>3, <3>4, <3>5
  <2>4. \A m \in Node : \A i \in 1 .. Len(vms'[m]) : vms'[m][i].uid \in User
    <3> SUFFICES ASSUME NEW m \in Node, NEW i \in 1 .. Len(vms'[m]) PROVE vms'[m][i].uid \in User
      OBVIOUS
    <3>1. CASE i \in 1 .. Len(vms[m]) /\ vms'[m][i] = vms[m][i]
      BY <1>27, <3>1
    <3>2. CASE vms'[m][i] = a
      BY <1>23, <3>2
    <3> QED BY <1>13, <3>1, <3>2
  <2>5. \A m \in Node : \A i \in 1 .. Len(vms'[m]) :
          /\ \A j \in 1 .. Len(ipsCloud'[vms'[m][i].uid].cells) :
               Chained(vms'[m][i].virtualIP, ipsCloud'[vms'[m][i].uid].cells[j].virtualIP)
                 => ipsCloud'[vms'[m][i].uid].cells[j].virtualIP <= vms'[m][i].virtualIP
          /\ \A j \in 1 .. Len(ipsCloud'[vms'[m][i].uid].holesIP) :
               Chained(vms'[m][i].virtualIP, ipsCloud'[vms'[m][i].uid].holesIP[j])
                 => ipsCloud'[vms'[m][i].uid].holesIP[j] < vms'[m][i].virtualIP
    BY <2>1, <2>2, <2>4
  <2> QED BY ZenonT(40), <2>3, <2>5 DEF Forward
<1>35. Routed'
  <2>1. UNCHANGED <<state, route, listening>>
    BY <1>1 DEF reqVars, tcpVars
  <2>2. ASSUME NEW r \in Requests, state[r] \in {"forwarded", "connecting", "open", "sent"}, r.op = "create"
        PROVE  \E i \in 1 .. Len(vms'[Host[r.to]]) :
                 vms'[Host[r.to]][i].pid = r.to /\ vms'[Host[r.to]][i].virtualIP = route[r].virtualIP
    <3>1. PICK i \in 1 .. Len(vms[Host[r.to]]) :
            vms[Host[r.to]][i].pid = r.to /\ vms[Host[r.to]][i].virtualIP = route[r].virtualIP
      BY <2>2 DEF IInv, Routed
    <3>2. r \in load.requests
      BY <2>2 DEF IInv, WaitingKept
    <3>3. Host[r.to] \in Node
      BY <2>2, <3>2, WorkloadAssumption DEF IInv, Typing, CloudTyped
    <3> QED BY <1>27, <3>1, <3>3
  <2> QED BY <2>1, <2>2 DEF IInv, Routed
<1>36. WaitingKept' /\ ListenersKept' /\ ReachesTarget'
  BY <1>1, WaitingFrame, ListenersFrame, ReachesFrame DEF IInv, reqVars, pendingVars, tcpVars
<1>37. \A x \in User : Chains(x)'
  BY <1>29, <1>33
<1> QED BY <1>18, <1>19, <1>22, <1>26, <1>28, <1>34, <1>35, <1>36, <1>37 DEF IInv

-----------------------------------------------------------------------------
(* The files of a VM are set; it closes its connections; it is unlinked.   *)

LEMMA WithVMTypes ==
  ASSUME NEW S, NEW known, DOMAIN known \subseteq VM, \A w \in DOMAIN known : known[w] \in Seq(S),
         NEW v \in VM
  PROVE  /\ DOMAIN WithVM(known, v) = DOMAIN known \cup {v}
         /\ \A w \in DOMAIN WithVM(known, v) : WithVM(known, v)[w] \in Seq(S)
         /\ \A w \in DOMAIN known : WithVM(known, v)[w] = known[w]
<1>1. <<>> \in Seq(S)
  OBVIOUS
<1> QED BY <1>1 DEF WithVM

LEMMA SetIORKeeps ==
  ASSUME IInv, NEW v \in VM, SetIOR(v) PROVE IInv'
<1>1. /\ Simulating /\ life[v] = "up" /\ ready' = ready \cup {v}
      /\ vmPorts' = [vmPorts EXCEPT ![Host[v]] = WithVM(@, v)]
      /\ UNCHANGED <<nmVars, load, life, listened, toClose, vms, portPtr, portHoles, established,
                     pendingVars, tcpVars, reqVars, error>>
  BY DEF SetIOR
<1>2. PICK n \in Node : n = Host[v]
  BY WorkloadAssumption
<1>3. DOMAIN vmPorts = Node /\ DOMAIN vmPorts[n] \subseteq VM
      /\ \A w \in DOMAIN vmPorts[n] : vmPorts[n][w] \in Seq(PatPorts)
  BY DEF IInv, Typing, PatTyped
<1>4. PICK k : k = WithVM(vmPorts[n], v)
  OBVIOUS
<1>5. DOMAIN k = DOMAIN vmPorts[n] \cup {v} /\ \A w \in DOMAIN k : k[w] \in Seq(PatPorts)
  BY <1>3, <1>4, WithVMTypes
<1>6. DOMAIN vmPorts' = Node /\ vmPorts'[n] = k /\ \A m \in Node : m # n => vmPorts'[m] = vmPorts[m]
  BY <1>1, <1>2, <1>3, <1>4
<1>7. Typing'
  <2>1. PatTyped'
    BY <1>1, <1>3, <1>5, <1>6 DEF IInv, Typing, PatTyped
  <2> QED BY <1>1, <2>1 DEF IInv, Typing, CloudTyped, TablesTyped, TcpTyped, WaitingTyped, RequestsTyped,
             IsRoute, nmVars, tcpVars, pendingVars, reqVars
<1>8. \A m \in Node, w \in VM : Serves(m, w)' = Serves(m, w)
  BY <1>1 DEF Serves, Places
<1>9. Serves(n, v)
  BY <1>1, <1>2 DEF Serves, Places
<1>10. PortsKept'
  <2>1. ASSUME NEW m \in Node, NEW w \in DOMAIN vmPorts'[m] PROVE Serves(m, w)'
    <3>1. w \in VM /\ (w \in DOMAIN vmPorts[m] \/ (m = n /\ w = v))
      BY <1>3, <1>5, <1>6 DEF IInv, Typing, PatTyped
    <3>2. Serves(m, w)
      BY <1>9, <3>1 DEF IInv, PortsKept
    <3> QED BY <1>8, <3>1, <3>2
  <2>2. \A m \in Node : \A i \in 1 .. Len(portsPerNode[m]) :
          portsPerNode[m][i].vmID \in VM =>
            Serves(m, portsPerNode[m][i].vmID) /\ portsPerNode[m][i].user = OwnerOf[portsPerNode[m][i].vmID]
    BY DEF IInv, PortsKept
  <2> QED BY <1>1, <1>8, <2>1, <2>2 DEF PortsKept, nmVars
<1> QED BY <1>1, <1>7, <1>10, WaitingFrame, ClosingFrame, AddressesFrame, ListenersFrame, RoutedFrame,
           ReachesFrame
        DEF IInv, Addresses, nmVars, tcpVars, pendingVars, reqVars

LEMMA CloseVMConnectionsKeeps ==
  ASSUME IInv, NEW v \in VM, CloseVMConnections(v) PROVE IInv'
<1>1. /\ Simulating /\ life[v] = "up" /\ life' = [life EXCEPT ![v] = "closing"]
      /\ toClose' = [toClose EXCEPT ![v] = Places(v)]
      /\ \A r \in load.requests : v \in {r.vm, r.to} => Finished(r)
      /\ UNCHANGED <<nmVars, load, ready, listened, vms, patVars, pendingVars, tcpVars, reqVars, error>>
  BY DEF CloseVMConnections
<1>2. life \in [VM -> {"off", "up", "closing", "gone"}] /\ toClose \in [VM -> SUBSET Node]
  BY DEF IInv, Typing, CloudTyped
<1>3. /\ life'[v] = "closing" /\ toClose'[v] = Places(v)
      /\ \A w \in VM : w # v => life'[w] = life[w] /\ toClose'[w] = toClose[w]
      /\ life' \in [VM -> {"off", "up", "closing", "gone"}]
  BY <1>1, <1>2
<1>4. \A w : Places(w)' = Places(w)
  BY <1>1 DEF Places
<1>5. Places(v) \subseteq Node
  <2>1. load \in Workloads
    BY DEF IInv, Typing, CloudTyped
  <2> QED BY <2>1, WorkloadAssumption DEF Places
<1>6. Typing'
  <2>1. toClose' \in [VM -> SUBSET Node]
    BY <1>1, <1>2, <1>5
  <2>2. CloudTyped'
    BY <1>1, <1>3, <2>1 DEF IInv, Typing, CloudTyped
  <2> QED BY <1>1, <2>2 DEF IInv, Typing, PatTyped, TablesTyped, TcpTyped, WaitingTyped, RequestsTyped,
             IsRoute, nmVars, patVars, tcpVars, pendingVars, reqVars
<1>7. Closing'
  <2>1. ASSUME NEW w \in VM
        PROVE  /\ toClose'[w] \subseteq Places(w) /\ (toClose'[w] # {} => life'[w] = "closing")
               /\ life'[w] \in {"closing", "gone"} =>
                    \A r \in load.requests : w \in {r.vm, r.to} => Finished(r)
    <3>1. CASE w = v
      BY <1>1, <1>3, <3>1
    <3>2. CASE w # v
      BY <1>3, <3>2 DEF IInv, Closing
    <3> QED BY <3>1, <3>2
  <2>2. \A r \in load.requests : state[r] # "idle" => life'[r.vm] # "off"
    BY <1>3, RequestFacts DEF IInv, Closing
  <2> QED BY <1>1, <1>4, <2>1, <2>2 DEF Closing, Finished, reqVars
<1>8. \A m \in Node, w \in VM : Serves(m, w) => Serves(m, w)'
  BY <1>1, <1>3, <1>4 DEF Serves
<1>9. PortsKept'
  <2>1. \A m \in Node : \A w \in DOMAIN vmPorts[m] : w \in VM /\ Serves(m, w)
    BY DEF IInv, PortsKept, Typing, PatTyped
  <2>2. \A m \in Node : \A i \in 1 .. Len(portsPerNode[m]) :
          portsPerNode[m][i].vmID \in VM =>
            Serves(m, portsPerNode[m][i].vmID) /\ portsPerNode[m][i].user = OwnerOf[portsPerNode[m][i].vmID]
    BY DEF IInv, PortsKept
  <2> QED BY <1>1, <1>8, <2>1, <2>2 DEF PortsKept, patVars, nmVars
<1>10. \A w \in VM : Addressed(w) => Addressed(w)'
  BY <1>1, <1>3, <1>4 DEF Addressed
<1>11. CellsKept'
  <2>1. \A u \in User : \A i \in 1 .. Len(ipsCloud[u].cells) :
          /\ ipsCloud[u].cells[i].vmID \in VM /\ Addressed(ipsCloud[u].cells[i].vmID)
    BY CellTypes DEF IInv, CellsKept
  <2>2. UNCHANGED ipsCloud
    BY <1>1 DEF nmVars
  <2> QED BY <1>10, <2>1, <2>2 DEF IInv, CellsKept
<1>12. LinkedKept'
  <2>1. \A w \in VM : /\ life[w] \in {"up", "closing"} => life'[w] \in {"up", "closing"}
                      /\ life'[w] = "up" => life[w] = "up"
    BY <1>1, <1>3
  <2>2. ASSUME NEW m \in Node, NEW i \in 1 .. Len(vms[m]) PROVE life'[vms[m][i].pid] \in {"up", "closing"}
    BY <2>1, LinkedFacts
  <2>3. UNCHANGED <<ipsCloud, vms>>
    BY <1>1 DEF nmVars
  <2>4. LinkedKept
    BY DEF IInv
  <2>5. \A w \in VM : life'[w] = "up" =>
          /\ \E i \in 1 .. Len(vms'[Host[w]]) : vms'[Host[w]][i].pid = w
          /\ \E i \in 1 .. Len(ipsCloud'[OwnerOf[w]].cells) : ipsCloud'[OwnerOf[w]].cells[i].vmID = w
    BY <2>1, <2>3, <2>4 DEF LinkedKept
  <2>6. ASSUME NEW m \in Node, NEW i \in 1 .. Len(vms'[m])
        PROVE  /\ Host[vms'[m][i].pid] = m /\ vms'[m][i].uid = OwnerOf[vms'[m][i].pid]
               /\ life'[vms'[m][i].pid] \in {"up", "closing"}
               /\ \A j \in 1 .. Len(ipsCloud'[vms'[m][i].uid].cells) :
                    ipsCloud'[vms'[m][i].uid].cells[j].vmID = vms'[m][i].pid
                      => ipsCloud'[vms'[m][i].uid].cells[j].virtualIP = vms'[m][i].virtualIP
    <3>1. i \in 1 .. Len(vms[m])
      BY <2>3
    <3>2. /\ Host[vms[m][i].pid] = m /\ vms[m][i].uid = OwnerOf[vms[m][i].pid]
          /\ \A j \in 1 .. Len(ipsCloud[vms[m][i].uid].cells) :
               ipsCloud[vms[m][i].uid].cells[j].vmID = vms[m][i].pid
                 => ipsCloud[vms[m][i].uid].cells[j].virtualIP = vms[m][i].virtualIP
      BY SMTT(30), <3>1, LinkedFacts
    <3> QED BY <2>2, <2>3, <3>1, <3>2
  <2>7. ASSUME NEW m \in Node, NEW i \in 1 .. Len(vms'[m]), NEW j \in 1 .. Len(vms'[m]),
               vms'[m][j].pid = vms'[m][i].pid
        PROVE  i = j
    BY <2>3, <2>4, <2>7, LinkedOnce
  <2>8. ASSUME NEW m \in Node, NEW i \in 1 .. Len(vms'[m])
        PROVE  LET b == vms'[m][i] IN
               /\ Host[b.pid] = m /\ b.uid = OwnerOf[b.pid] /\ life'[b.pid] \in {"up", "closing"}
               /\ \A j \in 1 .. Len(ipsCloud'[b.uid].cells) :
                    ipsCloud'[b.uid].cells[j].vmID = b.pid => ipsCloud'[b.uid].cells[j].virtualIP = b.virtualIP
               /\ \A j \in 1 .. Len(vms'[m]) : vms'[m][j].pid = b.pid => i = j
    <3>1. /\ Host[vms'[m][i].pid] = m /\ vms'[m][i].uid = OwnerOf[vms'[m][i].pid]
          /\ life'[vms'[m][i].pid] \in {"up", "closing"}
      BY <2>6
    <3>2. \A j \in 1 .. Len(ipsCloud'[vms'[m][i].uid].cells) :
            ipsCloud'[vms'[m][i].uid].cells[j].vmID = vms'[m][i].pid
              => ipsCloud'[vms'[m][i].uid].cells[j].virtualIP = vms'[m][i].virtualIP
      BY <2>6
    <3>3. \A j \in 1 .. Len(vms'[m]) : vms'[m][j].pid = vms'[m][i].pid => i = j
      BY <2>7
    <3> QED BY <3>1, <3>2, <3>3, Zenon
  <2> QED BY <2>5, <2>8, Zenon DEF LinkedKept
<1>13. \A u \in User : Chains(u)'
  <2> SUFFICES ASSUME NEW u \in User PROVE Chains(u)'
    OBVIOUS
  <2>1. {w \in VM : OwnerOf[w] = u /\ life'[w] # "off"} = {w \in VM : OwnerOf[w] = u /\ life[w] # "off"}
    BY <1>1, <1>3
  <2>2. UNCHANGED <<ipsCloud, vms>> /\ Chains(u)
    BY <1>1 DEF IInv, nmVars
  <2> QED BY <2>1, <2>2 DEF Chains
<1> QED BY <1>1, <1>6, <1>7, <1>9, <1>11, <1>12, <1>13, WaitingFrame, ForwardFrame, ListenersFrame,
           RoutedFrame, ReachesFrame
        DEF IInv, nmVars, tcpVars, pendingVars, reqVars

LEMMA UnlinkKeeps ==
  ASSUME IInv, NEW v \in VM, UnlinkVM(v) PROVE IInv'
<1>1. /\ Simulating /\ life[v] = "closing" /\ toClose[v] = {} /\ life' = [life EXCEPT ![v] = "gone"]
      /\ vms' = [vms EXCEPT ![Host[v]] = Within(@, {c \in Range(@) : c.pid # v})]
      /\ UNCHANGED <<nmVars, load, ready, listened, toClose, patVars, pendingVars, tcpVars, reqVars, error>>
  BY DEF UnlinkVM
<1>2. PICK n \in Node : n = Host[v]
  BY WorkloadAssumption
<1>3. /\ life \in [VM -> {"off", "up", "closing", "gone"}] /\ vms \in [Node -> Seq(Linked)]
      /\ vms[n] \in Seq(Linked) /\ Len(vms[n]) \in Nat
  BY DEF IInv, Typing, CloudTyped
<1>4. PICK T : T = {c \in Range(vms[n]) : c.pid # v}
  OBVIOUS
<1>5. PICK w : w = Within(vms[n], T)
  OBVIOUS
<1>6. /\ w \in Seq(Linked \cap T)
      /\ \E at \in [1 .. Len(w) -> 1 .. Len(vms[n])] :
           /\ \A i \in 1 .. Len(w) : w[i] = vms[n][at[i]]
           /\ \A i, j \in 1 .. Len(w) : i < j => at[i] < at[j]
           /\ \A k \in 1 .. Len(vms[n]) : vms[n][k] \in T => \E i \in 1 .. Len(w) : at[i] = k
  <2>1. PICK s : s \in Seq(Linked) /\ s = vms[n]
    BY <1>3
  <2>2. s \in Seq(Linked) /\ w = Within(s, T)
    BY <1>5, <2>1
  <2>3. /\ w \in Seq(Linked \cap T)
        /\ \E at \in [1 .. Len(w) -> 1 .. Len(s)] :
             /\ \A i \in 1 .. Len(w) : w[i] = s[at[i]]
             /\ \A i, j \in 1 .. Len(w) : i < j => at[i] < at[j]
             /\ \A k \in 1 .. Len(s) : s[k] \in T => \E i \in 1 .. Len(w) : at[i] = k
    BY <2>2, WithinPlaces, SMTT(30)
  <2>4. s = vms[n]
    BY <2>1
  <2> QED BY ZenonT(40), <2>3, <2>4
<1>7. PICK at \in [1 .. Len(w) -> 1 .. Len(vms[n])] :
        /\ \A i \in 1 .. Len(w) : w[i] = vms[n][at[i]]
        /\ \A i, j \in 1 .. Len(w) : i < j => at[i] < at[j]
        /\ \A k \in 1 .. Len(vms[n]) : vms[n][k] \in T => \E i \in 1 .. Len(w) : at[i] = k
  BY <1>6
<1>8. w \in Seq(Linked) /\ Len(w) \in Nat /\ \A i \in 1 .. Len(w) : w[i].pid # v
  <2>1. Linked \cap T \subseteq Linked
    OBVIOUS
  <2>2. w \in Seq(Linked) /\ Len(w) \in Nat
    BY <1>6, <2>1
  <2>3. \A i \in 1 .. Len(w) : w[i] \in T
    BY <1>6
  <2> QED BY <1>4, <2>2, <2>3
<1>9. vms' \in [Node -> Seq(Linked)] /\ vms'[n] = w /\ \A m \in Node : m # n => vms'[m] = vms[m]
  <2>1. vms' = [vms EXCEPT ![n] = w]
    BY <1>1, <1>2, <1>4, <1>5
  <2> QED BY <1>3, <1>8, <2>1
<1>10. ASSUME NEW i \in 1 .. Len(w), NEW j \in 1 .. Len(w), at[i] = at[j] PROVE i = j
  BY <1>7, <1>8, <1>10
\* Who is still linked was linked, and only v is not linked any more.
<1>11. ASSUME NEW m \in Node, NEW i \in 1 .. Len(vms'[m])
       PROVE  \E k \in 1 .. Len(vms[m]) : vms'[m][i] = vms[m][k] /\ vms[m][k].pid # v
  <2>1. CASE m = n
    <3>1. i \in 1 .. Len(w) /\ at[i] \in 1 .. Len(vms[n]) /\ vms'[m][i] = vms[m][at[i]] /\ w[i].pid # v
      BY <1>7, <1>8, <1>9, <2>1
    <3>2. w[i] = vms[n][at[i]]
      BY <1>7, <3>1
    <3> QED BY <2>1, <3>1, <3>2
  <2>2. CASE m # n
    <3>1. i \in 1 .. Len(vms[m]) /\ vms'[m][i] = vms[m][i]
      BY <1>9, <2>2
    <3>2. Host[vms[m][i].pid] = m
      BY <3>1, LinkedFacts
    <3> QED BY <1>2, <2>2, <3>1, <3>2
  <2> QED BY <2>1, <2>2
<1>12. ASSUME NEW m \in Node, NEW k \in 1 .. Len(vms[m]), vms[m][k].pid # v
       PROVE  \E i \in 1 .. Len(vms'[m]) : vms'[m][i] = vms[m][k]
  <2>1. CASE m = n
    <3>1. vms[n][k] \in T
      <4>1. k \in 1 .. Len(vms[n]) /\ vms[n][k].pid # v
        BY <1>12, <2>1
      <4>2. vms[n][k] \in Range(vms[n])
        BY <1>3, <4>1 DEF Range
      <4> QED BY <1>4, <4>1, <4>2
    <3>2. PICK i \in 1 .. Len(w) : at[i] = k
      BY <1>7, <2>1, <3>1
    <3>3. w[i] = vms[n][k]
      BY <1>7, <3>2
    <3> QED BY <1>9, <2>1, <3>3
  <2>2. CASE m # n
    BY <1>9, <2>2
  <2> QED BY <2>1, <2>2
<1>13. ASSUME NEW m \in Node, NEW i \in 1 .. Len(vms'[m]), NEW j \in 1 .. Len(vms'[m]),
              vms'[m][j].pid = vms'[m][i].pid
       PROVE  i = j
  <2>1. \A y, z \in 1 .. Len(vms[m]) : vms[m][z].pid = vms[m][y].pid => y = z
    BY LinkedOnce DEF IInv
  <2>2. CASE m = n
    <3>1. i \in 1 .. Len(w) /\ j \in 1 .. Len(w) /\ w[j].pid = w[i].pid
      BY <1>9, <1>13, <2>2
    <3>2. at[i] = at[j]
      BY <1>7, <2>1, <2>2, <3>1
    <3> QED BY <1>10, <3>1, <3>2
  <2>3. CASE m # n
    BY <1>9, <1>13, <2>1, <2>3
  <2> QED BY <2>2, <2>3
<1>14. /\ life' \in [VM -> {"off", "up", "closing", "gone"}] /\ life'[v] = "gone"
       /\ \A x \in VM : x # v => life'[x] = life[x]
  BY <1>1, <1>3
<1>15. \A x : Places(x)' = Places(x)
  BY <1>1 DEF Places
<1>16. Typing'
  <2>1. CloudTyped'
    BY <1>1, <1>9, <1>14 DEF IInv, Typing, CloudTyped
  <2> QED BY <1>1, <2>1 DEF IInv, Typing, PatTyped, TablesTyped, TcpTyped, WaitingTyped, RequestsTyped,
             IsRoute, nmVars, patVars, tcpVars, pendingVars, reqVars
<1>17. Closing'
  <2>1. ASSUME NEW x \in VM
        PROVE  /\ toClose[x] \subseteq Places(x) /\ (toClose[x] # {} => life'[x] = "closing")
               /\ life'[x] \in {"closing", "gone"} =>
                    \A r \in load.requests : x \in {r.vm, r.to} => Finished(r)
    <3>1. life'[x] \in {"closing", "gone"} => life[x] \in {"closing", "gone"}
      BY <1>1, <1>14
    <3>2. toClose[x] # {} => life'[x] = "closing"
      BY <1>1, <1>14 DEF IInv, Closing
    <3> QED BY <3>1, <3>2 DEF IInv, Closing
  <2>2. \A r \in load.requests : state[r] # "idle" => life'[r.vm] # "off"
    BY <1>14, RequestFacts DEF IInv, Closing
  <2> QED BY <1>1, <1>15, <2>1, <2>2 DEF Closing, Finished, reqVars
<1>18. \A m \in Node, x \in VM : Serves(m, x) => Serves(m, x)'
  BY <1>1, <1>14, <1>15 DEF Serves
<1>19. PortsKept'
  <2>1. \A m \in Node : \A x \in DOMAIN vmPorts[m] : x \in VM /\ Serves(m, x)
    BY DEF IInv, PortsKept, Typing, PatTyped
  <2>2. \A m \in Node : \A i \in 1 .. Len(portsPerNode[m]) :
          portsPerNode[m][i].vmID \in VM =>
            Serves(m, portsPerNode[m][i].vmID) /\ portsPerNode[m][i].user = OwnerOf[portsPerNode[m][i].vmID]
    BY DEF IInv, PortsKept
  <2> QED BY <1>1, <1>18, <2>1, <2>2 DEF PortsKept, patVars, nmVars
<1>20. \A x \in VM : Addressed(x) => Addressed(x)'
  <2>1. ~Addressed(v)
    <3>1. Host[v] \in Places(v)
      BY DEF Places
    <3> QED BY <1>1, <3>1 DEF Addressed
  <2>2. \A x \in VM : x # v => Addressed(x)' = Addressed(x)
    BY <1>1, <1>14, <1>15 DEF Addressed
  <2> QED BY <2>1, <2>2
<1>21. CellsKept'
  <2>1. \A u \in User : \A i \in 1 .. Len(ipsCloud[u].cells) :
          /\ ipsCloud[u].cells[i].vmID \in VM /\ Addressed(ipsCloud[u].cells[i].vmID)
    BY CellTypes DEF IInv, CellsKept
  <2>2. UNCHANGED ipsCloud
    BY <1>1 DEF nmVars
  <2> QED BY <1>20, <2>1, <2>2 DEF IInv, CellsKept
<1>22. ipsCloud' = ipsCloud
  BY <1>1 DEF nmVars
<1>23. LinkedKept'
  <2>1. ASSUME NEW m \in Node, NEW i \in 1 .. Len(vms'[m])
        PROVE  /\ Host[vms'[m][i].pid] = m /\ vms'[m][i].uid = OwnerOf[vms'[m][i].pid]
               /\ life'[vms'[m][i].pid] \in {"up", "closing"}
               /\ \A j \in 1 .. Len(ipsCloud[vms'[m][i].uid].cells) :
                    ipsCloud[vms'[m][i].uid].cells[j].vmID = vms'[m][i].pid
                      => ipsCloud[vms'[m][i].uid].cells[j].virtualIP = vms'[m][i].virtualIP
    <3>1. PICK k \in 1 .. Len(vms[m]) : vms'[m][i] = vms[m][k] /\ vms[m][k].pid # v
      BY <1>11
    <3>2. /\ vms[m][k].pid \in VM /\ life[vms[m][k].pid] \in {"up", "closing"}
          /\ Host[vms[m][k].pid] = m /\ vms[m][k].uid = OwnerOf[vms[m][k].pid]
          /\ \A j \in 1 .. Len(ipsCloud[vms[m][k].uid].cells) :
               ipsCloud[vms[m][k].uid].cells[j].vmID = vms[m][k].pid
                 => ipsCloud[vms[m][k].uid].cells[j].virtualIP = vms[m][k].virtualIP
      BY LinkedFacts
    <3> QED BY <1>14, <3>1, <3>2
  <2>2. ASSUME NEW x \in VM, life'[x] = "up"
        PROVE  /\ \E i \in 1 .. Len(vms'[Host[x]]) : vms'[Host[x]][i].pid = x
               /\ \E i \in 1 .. Len(ipsCloud[OwnerOf[x]].cells) : ipsCloud[OwnerOf[x]].cells[i].vmID = x
    <3>1. x # v /\ life[x] = "up" /\ Host[x] \in Node
      BY <1>14, <2>2, WorkloadAssumption
    <3>2. /\ \E i \in 1 .. Len(vms[Host[x]]) : vms[Host[x]][i].pid = x
          /\ \E i \in 1 .. Len(ipsCloud[OwnerOf[x]].cells) : ipsCloud[OwnerOf[x]].cells[i].vmID = x
      BY <3>1 DEF IInv, LinkedKept
    <3>3. PICK k \in 1 .. Len(vms[Host[x]]) : vms[Host[x]][k].pid = x
      BY <3>2
    <3>4. \E i \in 1 .. Len(vms'[Host[x]]) : vms'[Host[x]][i] = vms[Host[x]][k]
      BY <1>12, <3>1, <3>3
    <3> QED BY <3>2, <3>3, <3>4
  <2>3. ASSUME NEW m \in Node, NEW i \in 1 .. Len(vms'[m])
        PROVE  LET b == vms'[m][i] IN
               /\ Host[b.pid] = m /\ b.uid = OwnerOf[b.pid] /\ life'[b.pid] \in {"up", "closing"}
               /\ \A j \in 1 .. Len(ipsCloud'[b.uid].cells) :
                    ipsCloud'[b.uid].cells[j].vmID = b.pid => ipsCloud'[b.uid].cells[j].virtualIP = b.virtualIP
               /\ \A j \in 1 .. Len(vms'[m]) : vms'[m][j].pid = b.pid => i = j
    <3>1. /\ Host[vms'[m][i].pid] = m /\ vms'[m][i].uid = OwnerOf[vms'[m][i].pid]
          /\ life'[vms'[m][i].pid] \in {"up", "closing"}
      BY ZenonT(40), <2>1
    <3>2. \A j \in 1 .. Len(ipsCloud'[vms'[m][i].uid].cells) :
            ipsCloud'[vms'[m][i].uid].cells[j].vmID = vms'[m][i].pid
              => ipsCloud'[vms'[m][i].uid].cells[j].virtualIP = vms'[m][i].virtualIP
      BY <1>22, <2>1
    <3>3. \A j \in 1 .. Len(vms'[m]) : vms'[m][j].pid = vms'[m][i].pid => i = j
      BY <1>13
    <3> QED BY <3>1, <3>2, <3>3, Zenon
  <2>4. ASSUME NEW x \in VM, life'[x] = "up"
        PROVE  /\ \E i \in 1 .. Len(vms'[Host[x]]) : vms'[Host[x]][i].pid = x
               /\ \E i \in 1 .. Len(ipsCloud'[OwnerOf[x]].cells) : ipsCloud'[OwnerOf[x]].cells[i].vmID = x
    BY <1>22, <2>2, <2>4
  <2> QED BY <2>3, <2>4, Zenon DEF LinkedKept
<1>24. \A u \in User : Chains(u)'
  <2> SUFFICES ASSUME NEW u \in User PROVE Chains(u)'
    OBVIOUS
  <2>1. {x \in VM : OwnerOf[x] = u /\ life'[x] # "off"} = {x \in VM : OwnerOf[x] = u /\ life[x] # "off"}
    BY <1>1, <1>14
  <2>2. Chains(u)
    BY DEF IInv
  <2>3. \A m \in Node : \A i \in 1 .. Len(vms'[m]) : vms'[m][i].uid = u =>
          \E k \in IpBasis + 1 .. ipsCloud[u].lastIP : Chained(vms'[m][i].virtualIP, k)
    <3> SUFFICES ASSUME NEW m \in Node, NEW i \in 1 .. Len(vms'[m]), vms'[m][i].uid = u
                 PROVE  \E k \in IpBasis + 1 .. ipsCloud[u].lastIP : Chained(vms'[m][i].virtualIP, k)
      OBVIOUS
    <3>1. PICK k \in 1 .. Len(vms[m]) : vms'[m][i] = vms[m][k]
      BY <1>11
    <3> QED BY <2>2, <3>1 DEF Chains
  <2> QED BY <1>22, <2>1, <2>2, <2>3 DEF Chains
<1>25. Forward'
  <2>1. ASSUME NEW m \in Node, NEW i \in 1 .. Len(vms'[m])
        PROVE  /\ \A j \in 1 .. Len(ipsCloud[vms'[m][i].uid].cells) :
                    Chained(vms'[m][i].virtualIP, ipsCloud[vms'[m][i].uid].cells[j].virtualIP)
                      => ipsCloud[vms'[m][i].uid].cells[j].virtualIP <= vms'[m][i].virtualIP
               /\ \A j \in 1 .. Len(ipsCloud[vms'[m][i].uid].holesIP) :
                    Chained(vms'[m][i].virtualIP, ipsCloud[vms'[m][i].uid].holesIP[j])
                      => ipsCloud[vms'[m][i].uid].holesIP[j] < vms'[m][i].virtualIP
    <3>1. PICK k \in 1 .. Len(vms[m]) : vms'[m][i] = vms[m][k]
      BY <1>11
    <3>2. Forward
      BY DEF IInv
    <3>3. /\ \A j \in 1 .. Len(ipsCloud[vms[m][k].uid].cells) :
                    Chained(vms[m][k].virtualIP, ipsCloud[vms[m][k].uid].cells[j].virtualIP)
                      => ipsCloud[vms[m][k].uid].cells[j].virtualIP <= vms[m][k].virtualIP
          /\ \A j \in 1 .. Len(ipsCloud[vms[m][k].uid].holesIP) :
                    Chained(vms[m][k].virtualIP, ipsCloud[vms[m][k].uid].holesIP[j])
                      => ipsCloud[vms[m][k].uid].holesIP[j] < vms[m][k].virtualIP
      BY <3>2 DEF Forward
    <3> QED BY <3>1, <3>3, Zenon
  <2>2. ASSUME NEW m \in Node, NEW o \in Node, NEW i \in 1 .. Len(vms'[m]), NEW j \in 1 .. Len(vms'[o]),
               vms'[m][i].uid = vms'[o][j].uid, vms'[m][i].virtualIP = vms'[o][j].virtualIP
        PROVE  vms'[m][i].pid = vms'[o][j].pid
    <3>1. PICK k \in 1 .. Len(vms[m]) : vms'[m][i] = vms[m][k]
      BY <1>11
    <3>2. PICK l \in 1 .. Len(vms[o]) : vms'[o][j] = vms[o][l]
      BY <1>11
    <3> QED BY <2>2, <3>1, <3>2 DEF IInv, Forward
  <2> QED BY ZenonT(40), <1>22, <2>1, <2>2 DEF Forward
<1>26. Routed'
  <2>1. UNCHANGED <<state, route, listening>>
    BY <1>1 DEF reqVars, tcpVars
  <2>2. ASSUME NEW r \in Requests, state[r] \in {"forwarded", "connecting", "open", "sent"}, r.op = "create"
        PROVE  \E i \in 1 .. Len(vms'[Host[r.to]]) :
                 vms'[Host[r.to]][i].pid = r.to /\ vms'[Host[r.to]][i].virtualIP = route[r].virtualIP
    <3>1. PICK k \in 1 .. Len(vms[Host[r.to]]) :
            vms[Host[r.to]][k].pid = r.to /\ vms[Host[r.to]][k].virtualIP = route[r].virtualIP
      BY <2>2 DEF IInv, Routed
    <3>2. r \in load.requests
      BY <2>2 DEF IInv, WaitingKept
    <3>3. Host[r.to] \in Node
      BY <2>2, <3>2, WorkloadAssumption DEF IInv, Typing, CloudTyped
    <3>4. r.to # v
      BY <1>1, <2>2, <3>2 DEF IInv, Closing, Finished
    <3>5. \E i \in 1 .. Len(vms'[Host[r.to]]) : vms'[Host[r.to]][i] = vms[Host[r.to]][k]
      BY <1>12, <3>1, <3>3, <3>4
    <3> QED BY <3>1, <3>5
  <2> QED BY <2>1, <2>2 DEF IInv, Routed
<1> QED BY <1>1, <1>16, <1>17, <1>19, <1>21, <1>23, <1>24, <1>25, <1>26, WaitingFrame, ListenersFrame,
           ReachesFrame
        DEF IInv, nmVars, tcpVars, pendingVars, reqVars

-----------------------------------------------------------------------------
(* An application listens.                                                 *)

LEMMA AppendedAt ==
  ASSUME NEW S, NEW g \in [Node -> Seq(S)], NEW n \in Node, NEW e \in S
  PROVE  LET h == [g EXCEPT ![n] = Append(@, e)] IN
         /\ h \in [Node -> Seq(S)] /\ \A m \in Node : m # n => h[m] = g[m]
         /\ Len(g[n]) \in Nat /\ Len(h[n]) = Len(g[n]) + 1 /\ h[n][Len(g[n]) + 1] = e
         /\ \A i \in 1 .. Len(g[n]) : h[n][i] = g[n][i]
<1>1. PICK s \in Seq(S) : s = g[n]
  OBVIOUS
<1>2. PICK t \in Seq(S) : /\ t = Append(s, e) /\ Len(t) = Len(s) + 1 /\ t[Len(s) + 1] = e
                          /\ \A i \in 1 .. Len(s) : t[i] = s[i]
  <2>1. Append(s, e) \in Seq(S) /\ Len(Append(s, e)) = Len(s) + 1 /\ Append(s, e)[Len(s) + 1] = e
        /\ \A i \in 1 .. Len(s) : Append(s, e)[i] = s[i]
    BY AppendProperties
  <2> QED BY <2>1
<1>3. [g EXCEPT ![n] = Append(@, e)] = [g EXCEPT ![n] = t]
  BY <1>1, <1>2
<1>4. PICK h : h = [g EXCEPT ![n] = t]
  OBVIOUS
<1>5. h \in [Node -> Seq(S)] /\ h[n] = t /\ \A m \in Node : m # n => h[m] = g[m]
  BY <1>4
<1>6. Len(s) \in Nat
  OBVIOUS
<1>7. /\ h \in [Node -> Seq(S)] /\ \A m \in Node : m # n => h[m] = g[m]
      /\ Len(g[n]) \in Nat /\ Len(h[n]) = Len(g[n]) + 1 /\ h[n][Len(g[n]) + 1] = e
      /\ \A i \in 1 .. Len(g[n]) : h[n][i] = g[n][i]
  BY <1>1, <1>2, <1>5, <1>6
<1> QED BY <1>3, <1>4, <1>7

LEMMA GetNewPortTypes ==
  ASSUME PatTyped, NEW n \in Node, ~NoPorts(n), NEW p \in Ports, GetNewPort(n, p)
  PROVE  /\ portPtr' \in [Node -> Ports] /\ portHoles' \in [Node -> Seq(Ports)]
         /\ established' \in [Node -> SUBSET Ports]
<1>1. portPtr \in [Node -> Ports] /\ portHoles \in [Node -> Seq(Ports)]
      /\ established \in [Node -> SUBSET Ports]
  BY DEF PatTyped
<1>2. established' \in [Node -> SUBSET Ports]
  BY <1>1 DEF GetNewPort
<1>3. CASE portHoles[n] # <<>>
  <2>1. PICK h \in Seq(Ports) : h = portHoles[n]
    BY <1>1
  <2>2. Tail(h) \in Seq(Ports)
    BY <1>3, <2>1
  <2>3. portHoles' = [portHoles EXCEPT ![n] = Tail(h)] /\ portPtr' = portPtr
    BY <1>3, <2>1 DEF GetNewPort
  <2> QED BY <1>1, <1>2, <2>2, <2>3
<1>4. CASE portHoles[n] = <<>>
  <2> DEFINE free == {q \in portPtr[n] .. LastPort - 1 : q \notin established[n]}
  <2>1. /\ p = NextFreePort(n) /\ portPtr' = [portPtr EXCEPT ![n] = p + 1] /\ portHoles' = portHoles
    BY <1>4 DEF GetNewPort
  <2>2. portPtr[n] \in Nat /\ FirstPort <= portPtr[n] /\ FirstPort \in Nat /\ LastPort \in Nat
    BY <1>1, PortAssumption DEF Ports
  <2>3. free # {} /\ free \in SUBSET Nat
    BY <1>4, <2>2 DEF NoPorts
  <2>4. \E x \in free : \A y \in free : x <= y
    BY <2>3, Least
  <2>5. NextFreePort(n) \in free
    BY <2>4 DEF NextFreePort
  <2>6. p + 1 \in Ports
    BY <2>1, <2>2, <2>5 DEF Ports
  <2> QED BY <1>1, <1>2, <2>1, <2>6
<1> QED BY <1>2, <1>3, <1>4

\* One more port of a VM in the PAT of a node.
LEMMA PortAdded ==
  ASSUME NEW v \in VM, NEW x \in PatPorts, NEW known, DOMAIN known \subseteq VM,
         \A w \in DOMAIN known : known[w] \in Seq(PatPorts)
  PROVE  /\ DOMAIN AddPort(known, v, x) = DOMAIN known \cup {v}
         /\ \A w \in DOMAIN AddPort(known, v, x) : AddPort(known, v, x)[w] \in Seq(PatPorts)
<1>1. PICK g : g = WithVM(known, v)
  OBVIOUS
<1>2. DOMAIN g = DOMAIN known \cup {v} /\ \A w \in DOMAIN g : g[w] \in Seq(PatPorts)
  BY <1>1, WithVMTypes
<1>3. g[v] \in Seq(PatPorts)
  BY <1>2
<1>4. Append(g[v], x) \in Seq(PatPorts)
  BY <1>3
<1>5. PICK a : a = Append(g[v], x)
  OBVIOUS
<1>6. DOMAIN [g EXCEPT ![v] = a] = DOMAIN g
      /\ \A w \in DOMAIN g : [g EXCEPT ![v] = a][w] \in Seq(PatPorts)
  BY <1>2, <1>4, <1>5
<1>7. AddPort(known, v, x) = [g EXCEPT ![v] = a]
  BY <1>1, <1>5 DEF AddPort
<1> QED BY <1>2, <1>6, <1>7

LEMMA ManageListenKeeps ==
  ASSUME IInv, NEW l \in load.listeners, ManageListen(l) PROVE IInv'
<1>1. /\ Simulating /\ l \notin listened /\ life[l.vm] = "up"
      /\ UNCHANGED <<ipsCloud, load, life, ready, toClose, vms, pendingVars, inUse, reqVars>>
  BY DEF ManageListen
<1>2. /\ l.vm \in VM /\ l.node \in Node /\ l.port \in Nat
  <2>1. load \in Workloads
    BY DEF IInv, Typing, CloudTyped
  <2> QED BY <2>1, WorkloadAssumption
<1>3. PICK v \in VM, n \in Node, q \in Nat, u \in User : v = l.vm /\ n = l.node /\ q = l.port /\ u = OwnerOf[v]
  BY <1>2, WorkloadAssumption
<1>4. Serves(n, v) /\ \A m \in Node, w \in VM : Serves(m, w)' = Serves(m, w)
  <2>1. n \in Places(v)
    BY <1>3 DEF Places
  <2>2. \A m \in Node, w \in VM : Serves(m, w)' = Serves(m, w)
    BY <1>1 DEF Serves, Places
  <2> QED BY <1>1, <1>3, <2>1, <2>2 DEF Serves
<1>5. WaitingKept' /\ Closing' /\ Addresses' /\ ReachesTarget'
  BY <1>1, WaitingFrame, ClosingFrame, AddressesFrame, ReachesFrame
     DEF IInv, Addresses, pendingVars, reqVars
<1>6. CASE NoPorts(l.node)
  <2>1. error' # "none" /\ UNCHANGED <<portsPerNode, listened, patVars, listening>>
    BY <1>6 DEF ManageListen
  <2>2. Typing'
    BY <1>1, <2>1 DEF IInv, Typing, CloudTyped, TablesTyped, PatTyped, TcpTyped, WaitingTyped,
                      RequestsTyped, IsRoute, patVars, pendingVars, reqVars
  <2>3. PortsKept' /\ Routed'
    BY <1>1, <2>1, PortsFrame, RoutedFrame DEF IInv, patVars, reqVars
  <2>4. ListenersKept'
    BY <2>1 DEF IInv, ListenersKept
  <2> QED BY <1>5, <2>2, <2>3, <2>4 DEF IInv, Addresses
<1>7. CASE ~NoPorts(l.node)
  <2>1. /\ listened' = listened \cup {l}
        /\ \E p \in Ports :
             /\ GetNewPort(n, p)
             /\ vmPorts' = [vmPorts EXCEPT ![n] =
                  AddPort(@, v, [rPort |-> p, vPort |-> q, connectionID |-> NoConnection])]
             /\ RegisterPort(u, n, v, p, q, "LISTEN")
             /\ NewListenConnection(n, p, v)
    BY <1>3, <1>7 DEF ManageListen
  <2>2. PICK p \in Ports :
             /\ GetNewPort(n, p)
             /\ vmPorts' = [vmPorts EXCEPT ![n] =
                  AddPort(@, v, [rPort |-> p, vPort |-> q, connectionID |-> NoConnection])]
             /\ RegisterPort(u, n, v, p, q, "LISTEN")
             /\ NewListenConnection(n, p, v)
    BY <2>1
  <2>3. PICK x \in PatPorts, cell \in PortCells, c \in Listeners :
          /\ x = [rPort |-> p, vPort |-> q, connectionID |-> NoConnection]
          /\ cell = [vPort |-> q, rPort |-> p, user |-> u, vmID |-> v, operation |-> "LISTEN"]
          /\ c = [port |-> p, app |-> v]
    BY DEF PatPorts, PortCells, Listeners
  <2>4. cell.vmID = v /\ cell.user = u /\ cell.rPort = p /\ c.port = p
    BY <2>3
  <2>5. PICK k : k = AddPort(vmPorts[n], v, x)
    OBVIOUS
  <2>6. /\ DOMAIN k = DOMAIN vmPorts[n] \cup {v} /\ \A w \in DOMAIN k : k[w] \in Seq(PatPorts)
        /\ DOMAIN vmPorts[n] \subseteq VM /\ DOMAIN vmPorts = Node
    <3>1. /\ DOMAIN vmPorts[n] \subseteq VM /\ \A w \in DOMAIN vmPorts[n] : vmPorts[n][w] \in Seq(PatPorts)
          /\ DOMAIN vmPorts = Node
      BY DEF IInv, Typing, PatTyped
    <3> QED BY <2>5, <3>1, PortAdded
  <2>7. DOMAIN vmPorts' = Node /\ vmPorts'[n] = k /\ \A m \in Node : m # n => vmPorts'[m] = vmPorts[m]
    <3>1. vmPorts' = [vmPorts EXCEPT ![n] = k]
      BY <2>2, <2>3, <2>5
    <3> QED BY <2>6, <3>1
  <2>8. PatTyped'
    <3>1. PatTyped /\ ~NoPorts(n)
      BY <1>3, <1>7 DEF IInv, Typing
    <3>2. /\ portPtr' \in [Node -> Ports] /\ portHoles' \in [Node -> Seq(Ports)]
          /\ established' \in [Node -> SUBSET Ports]
      BY <2>2, <3>1, GetNewPortTypes
    <3>3. \A m \in Node : /\ DOMAIN vmPorts'[m] \subseteq VM
                          /\ \A w \in DOMAIN vmPorts'[m] : vmPorts'[m][w] \in Seq(PatPorts)
      BY <2>6, <2>7, <3>1 DEF PatTyped
    <3> QED BY <2>7, <3>2, <3>3 DEF PatTyped
  <2>9. /\ portsPerNode' \in [Node -> Seq(PortCells)]
        /\ \A m \in Node : m # n => portsPerNode'[m] = portsPerNode[m]
        /\ Len(portsPerNode[n]) \in Nat /\ Len(portsPerNode'[n]) = Len(portsPerNode[n]) + 1
        /\ portsPerNode'[n][Len(portsPerNode[n]) + 1] = cell
        /\ \A i \in 1 .. Len(portsPerNode[n]) : portsPerNode'[n][i] = portsPerNode[n][i]
    <3>1. portsPerNode' = [portsPerNode EXCEPT ![n] = Append(@, cell)]
      BY <2>2, <2>3 DEF RegisterPort
    <3>2. portsPerNode \in [Node -> Seq(PortCells)]
      BY DEF IInv, Typing, TablesTyped
    <3> QED BY <3>1, <3>2, AppendedAt
  <2>10. \A m \in Node : \A i \in 1 .. Len(portsPerNode'[m]) :
           \/ i \in 1 .. Len(portsPerNode[m]) /\ portsPerNode'[m][i] = portsPerNode[m][i]
           \/ m = n /\ portsPerNode'[m][i] = cell
    BY <2>9
  <2>11. listening \in [Node -> Seq(Listeners)]
    BY DEF IInv, Typing, TcpTyped
  <2>12. \/ error' # "none" /\ listening' = listening
         \/ /\ ~ExistsConnection(n, p) /\ error' = error
            /\ listening' = [listening EXCEPT ![n] = Append(@, c)]
    BY <2>2, <2>3 DEF NewListenConnection
  <2>13. /\ listening' \in [Node -> Seq(Listeners)]
         /\ \A m \in Node : \A i \in 1 .. Len(listening[m]) :
              i \in 1 .. Len(listening'[m]) /\ listening'[m][i] = listening[m][i]
    <3>1. CASE listening' = listening
      BY <2>11, <3>1
    <3>2. CASE listening' = [listening EXCEPT ![n] = Append(@, c)]
      <4>1. /\ listening' \in [Node -> Seq(Listeners)]
            /\ \A m \in Node : m # n => listening'[m] = listening[m]
            /\ Len(listening[n]) \in Nat /\ Len(listening'[n]) = Len(listening[n]) + 1
            /\ \A i \in 1 .. Len(listening[n]) : listening'[n][i] = listening[n][i]
        BY <2>11, <3>2, AppendedAt
      <4> QED BY <4>1
    <3> QED BY <2>12, <3>1, <3>2
  <2>14. ListenersKept'
    <3>1. CASE error' # "none" /\ listening' = listening
      BY <3>1 DEF IInv, ListenersKept
    <3>2. CASE /\ ~ExistsConnection(n, p) /\ error' = error
               /\ listening' = [listening EXCEPT ![n] = Append(@, c)]
      <4>1. /\ \A m \in Node : m # n => listening'[m] = listening[m]
            /\ Len(listening[n]) \in Nat /\ Len(listening'[n]) = Len(listening[n]) + 1
            /\ listening'[n][Len(listening[n]) + 1] = c
            /\ \A i \in 1 .. Len(listening[n]) : listening'[n][i] = listening[n][i]
        BY <2>11, <3>2, AppendedAt
      <4>2. \A m \in Node : \A i \in 1 .. Len(listening'[m]) :
              \/ i \in 1 .. Len(listening[m]) /\ listening'[m][i] = listening[m][i]
              \/ m = n /\ i = Len(listening[m]) + 1 /\ listening'[m][i] = c
        BY <4>1
      <4>3. \A i \in 1 .. Len(listening[n]) : listening[n][i].port # c.port
        BY <2>4, <2>11, <3>2 DEF ExistsConnection
      <4>4. ASSUME NEW m \in Node, NEW i \in 1 .. Len(listening'[m]), NEW j \in 1 .. Len(listening'[m]),
                   listening'[m][i].port = listening'[m][j].port
            PROVE  i = j
        <5>1. \A y, z \in 1 .. Len(listening[m]) : listening[m][y].port = listening[m][z].port => y = z
          BY DEF IInv, ListenersKept
        <5>2. CASE i \in 1 .. Len(listening[m]) /\ listening'[m][i] = listening[m][i]
          <6>1. CASE j \in 1 .. Len(listening[m]) /\ listening'[m][j] = listening[m][j]
            BY <4>4, <5>1, <5>2, <6>1
          <6>2. CASE m = n /\ listening'[m][j] = c
            BY <4>3, <4>4, <5>2, <6>2
          <6> QED BY <4>2, <6>1, <6>2
        <5>3. CASE m = n /\ i = Len(listening[m]) + 1 /\ listening'[m][i] = c
          <6>1. CASE j \in 1 .. Len(listening[m]) /\ listening'[m][j] = listening[m][j]
            BY <4>3, <4>4, <5>3, <6>1
          <6>2. CASE j = Len(listening[m]) + 1
            BY <5>3, <6>2
          <6> QED BY <4>2, <6>1, <6>2
        <5> QED BY <4>2, <5>2, <5>3
      <4>5. ASSUME NEW m \in Node, NEW i \in 1 .. Len(portsPerNode'[m]), portsPerNode'[m][i].vmID \in VM
            PROVE  \E j \in 1 .. Len(listening'[m]) :
                     listening'[m][j] = [port |-> portsPerNode'[m][i].rPort, app |-> portsPerNode'[m][i].vmID]
        <5>1. CASE i \in 1 .. Len(portsPerNode[m]) /\ portsPerNode'[m][i] = portsPerNode[m][i]
          <6>1. PICK j \in 1 .. Len(listening[m]) :
                  listening[m][j] = [port |-> portsPerNode[m][i].rPort, app |-> portsPerNode[m][i].vmID]
            BY <1>1, <4>5, <5>1 DEF IInv, ListenersKept, Simulating
          <6> QED BY <2>13, <5>1, <6>1
        <5>2. CASE m = n /\ portsPerNode'[m][i] = cell
          <6>1. /\ Len(listening[n]) + 1 \in 1 .. Len(listening'[n])
                /\ listening'[n][Len(listening[n]) + 1] = [port |-> p, app |-> v]
            BY <2>3, <4>1
          <6> QED BY <2>4, <5>2, <6>1
        <5> QED BY <2>10, <5>1, <5>2
      <4> QED BY <4>4, <4>5 DEF ListenersKept
    <3> QED BY <2>12, <3>1, <3>2
  <2>15. PortsKept'
    <3>1. ASSUME NEW m \in Node, NEW w \in DOMAIN vmPorts'[m] PROVE Serves(m, w)'
      <4>1. w \in VM /\ (w \in DOMAIN vmPorts[m] \/ (m = n /\ w = v))
        BY <2>6, <2>7 DEF IInv, Typing, PatTyped
      <4>2. Serves(m, w)
        BY <1>4, <4>1 DEF IInv, PortsKept
      <4> QED BY <1>4, <4>1, <4>2
    <3>2. ASSUME NEW m \in Node, NEW i \in 1 .. Len(portsPerNode'[m]), NEW w \in VM,
                 w = portsPerNode'[m][i].vmID
          PROVE  Serves(m, w)' /\ portsPerNode'[m][i].user = OwnerOf[w]
      <4>1. CASE i \in 1 .. Len(portsPerNode[m]) /\ portsPerNode'[m][i] = portsPerNode[m][i]
        BY <1>4, <3>2, <4>1 DEF IInv, PortsKept
      <4>2. CASE m = n /\ portsPerNode'[m][i] = cell
        BY <1>3, <1>4, <2>4, <3>2, <4>2
      <4> QED BY <2>10, <4>1, <4>2
    <3>3. \A m \in Node, w \in VM : Serves(m, w)' <=>
            (m \in {Host[w]} \cup {k0.node : k0 \in {j0 \in load'.listeners : j0.vm = w}})
            /\ (life'[w] = "up" \/ (life'[w] = "closing" /\ m \in toClose'[w]))
      BY DEF Serves, Places
    <3> QED BY <3>1, <3>2, <3>3 DEF PortsKept, Serves, Places
  <2>16. Routed'
    <3>1. UNCHANGED <<state, route, vms>>
      BY <1>1 DEF reqVars
    <3>2. ASSUME NEW r \in Requests, state[r] \in {"forwarded", "connecting", "open", "sent"}, r.op = "create"
          PROVE  \E i \in 1 .. Len(listening'[Host[r.to]]) :
                   listening'[Host[r.to]][i] = [port |-> route[r].port, app |-> r.to]
      <4>1. PICK i \in 1 .. Len(listening[Host[r.to]]) :
              listening[Host[r.to]][i] = [port |-> route[r].port, app |-> r.to]
        BY <3>2 DEF IInv, Routed
      <4>2. r \in load.requests
        BY <3>2 DEF IInv, WaitingKept
      <4>3. Host[r.to] \in Node
        BY <3>2, <4>2, WorkloadAssumption DEF IInv, Typing, CloudTyped
      <4> QED BY <2>13, <4>1, <4>3
    <3> QED BY <3>1, <3>2 DEF IInv, Routed
  <2>17. Typing'
    <3>1. CloudTyped'
      BY <1>1, <2>1 DEF IInv, Typing, CloudTyped
    <3>2. TcpTyped' /\ TablesTyped'
      BY <1>1, <2>9, <2>13 DEF IInv, Typing, TcpTyped, TablesTyped
    <3> QED BY <1>1, <2>8, <3>1, <3>2 DEF IInv, Typing, WaitingTyped, RequestsTyped, IsRoute,
               pendingVars, reqVars
  <2> QED BY <1>5, <2>14, <2>15, <2>16, <2>17 DEF IInv, Addresses
<1> QED BY <1>6, <1>7

-----------------------------------------------------------------------------
(* An application asks for a connection, and gets it.                      *)

\* A port that getRealPort finds is that of an entry for the user and the VM.
LEMMA PortOf ==
  ASSUME Typing, NEW n \in Node, NEW q, NEW u, NEW v, GetRealPort(n, q, u, v) # PortNotFound
  PROVE  \E i \in 1 .. Len(portsPerNode[n]) :
           /\ portsPerNode[n][i].user = u /\ portsPerNode[n][i].vmID = v
           /\ portsPerNode[n][i].rPort = GetRealPort(n, q, u, v)
<1> DEFINE l == portsPerNode[n]
           I == {i \in 1 .. Len(l) : l[i].vPort = q /\ l[i].user = u /\ l[i].vmID = v}
           k == SelectInSeq(l, LAMBDA p : p.vPort = q /\ p.user = u /\ p.vmID = v)
<1>1. l \in Seq(PortCells)
  BY DEF Typing, TablesTyped
<1>2. Len(l) \in Nat
  <2> HIDE DEF l
  <2> QED BY <1>1
<1>3. k = IF I # {} THEN Min(I) ELSE 0
  BY DEF SelectInSeq
<1>4. GetRealPort(n, q, u, v) = IF k = 0 THEN PortNotFound ELSE l[k].rPort
  BY DEF GetRealPort
<1>5. k # 0 /\ GetRealPort(n, q, u, v) = l[k].rPort
  <2> HIDE DEF k, l
  <2> QED BY <1>4
<1>6. I # {} /\ k = Min(I)
  <2> HIDE DEF k, I
  <2> QED BY <1>3, <1>5
<1>7. Min(I) \in I
  BY <1>2, <1>6, MinIn
<1>8. k \in I
  <2> HIDE DEF k, I
  <2> QED BY <1>6, <1>7
<1>9. k \in 1 .. Len(l) /\ l[k].user = u /\ l[k].vmID = v
  <2> HIDE DEF k, l
  <2> QED BY <1>8
<1> HIDE DEF k
<1> QED BY <1>5, <1>9

\* Where a `create` is led to: to the VM that was asked for.
LEMMA CreateTarget ==
  ASSUME IInv, Simulating, NEW r \in load.requests, r.op = "create", life[r.to] = "up",
         Target(r, AddressOf(r.to)).port # PortNotFound
  PROVE  /\ Target(r, AddressOf(r.to)).node = Host[r.to]
         /\ Target(r, AddressOf(r.to)).virtualIP = AddressOf(r.to)
         /\ \E i \in 1 .. Len(vms[Host[r.to]]) :
              vms[Host[r.to]][i].pid = r.to /\ vms[Host[r.to]][i].virtualIP = AddressOf(r.to)
         /\ \E i \in 1 .. Len(listening[Host[r.to]]) :
              listening[Host[r.to]][i] = [port |-> Target(r, AddressOf(r.to)).port, app |-> r.to]
<1>0. PICK v \in VM, u \in User, n \in Node : v = r.to /\ u = OwnerOf[v] /\ n = Host[v] /\ u = OwnerOf[r.vm]
  BY RequestFacts, WorkloadAssumption
<1>1. PICK vip : v = r.to /\ u = OwnerOf[v] /\ n = Host[v] /\ u = OwnerOf[r.vm] /\ vip = AddressOf(v)
  BY <1>0
<1>2. PICK j : j = CellOfVM(u, v)
  OBVIOUS
<1>3. j \in 1 .. Len(ipsCloud[u].cells) /\ ipsCloud[u].cells[j].vmID = v
  <2>1. LinkedKept /\ Typing /\ life[v] = "up"
    BY <1>1 DEF IInv
  <2>2. \E i \in 1 .. Len(ipsCloud[OwnerOf[v]].cells) : ipsCloud[OwnerOf[v]].cells[i].vmID = v
    BY <2>1, Zenon DEF LinkedKept
  <2>3. \E i \in 1 .. Len(ipsCloud[u].cells) : ipsCloud[u].cells[i].vmID = v
    BY <1>1, <2>2
  <2> QED BY <1>2, <2>1, <2>3, CellFound
<1>4. vip = ipsCloud[u].cells[j].virtualIP
  BY <1>1, <1>2 DEF AddressOf, CellOfVM
<1>5. ipsCloud[u].cells[j].ipNode = n
  BY <1>1, <1>3 DEF IInv, CellsKept
<1>6. SearchNodeIP(vip, u) = n /\ GetVMid(vip, u) = v
  <2>1. Typing /\ Chains(u)
    BY DEF IInv
  <2> QED BY <1>3, <1>4, <1>5, <2>1, AddressFound
<1>7. PICK p : p = GetRealPort(n, r.port, u, v)
  OBVIOUS
<1>8. Target(r, vip) = [virtualIP |-> vip, node |-> n, port |-> p, localPort |-> PortNotFound]
  BY <1>1, <1>6, <1>7 DEF Target
<1>9. p # PortNotFound
  BY <1>1, <1>8
<1>10. PICK i \in 1 .. Len(portsPerNode[n]) :
         portsPerNode[n][i].user = u /\ portsPerNode[n][i].vmID = v /\ portsPerNode[n][i].rPort = p
  BY <1>7, <1>9, PortOf DEF IInv
<1>11. \E k \in 1 .. Len(listening[n]) : listening[n][k] = [port |-> p, app |-> v]
  <2>1. \E k \in 1 .. Len(listening[n]) :
          listening[n][k] = [port |-> portsPerNode[n][i].rPort, app |-> portsPerNode[n][i].vmID]
    BY <1>10 DEF IInv, ListenersKept, Simulating
  <2> QED BY <1>10, <2>1
<1>12. \E k \in 1 .. Len(vms[n]) : vms[n][k].pid = v /\ vms[n][k].virtualIP = vip
  <2>1. PICK k \in 1 .. Len(vms[n]) : vms[n][k].pid = v
    BY <1>1 DEF IInv, LinkedKept
  <2>2. /\ vms[n][k].uid = OwnerOf[vms[n][k].pid]
        /\ \A x \in 1 .. Len(ipsCloud[vms[n][k].uid].cells) :
             ipsCloud[vms[n][k].uid].cells[x].vmID = vms[n][k].pid
               => ipsCloud[vms[n][k].uid].cells[x].virtualIP = vms[n][k].virtualIP
    BY LinkedFacts
  <2>3. vms[n][k].uid = u
    BY <1>1, <2>1, <2>2
  <2>4. ipsCloud[u].cells[j].virtualIP = vms[n][k].virtualIP
    BY <1>3, <2>1, <2>2, <2>3
  <2> QED BY <1>4, <2>1, <2>4
<1>13. /\ Target(r, vip).node = n /\ Target(r, vip).virtualIP = vip /\ Target(r, vip).port = p
  BY <1>8
<1> QED BY <1>1, <1>11, <1>12, <1>13

LEMMA CreateConnectionKeeps ==
  ASSUME Limits, IInv, NEW r \in Requests, CreateConnection(r) PROVE IInv'
<1> DEFINE vip == IF r.op = "create" THEN AddressOf(r.to) ELSE -1
           t   == Target(r, vip)
<1>1. /\ Simulating /\ r \in load.requests /\ state[r] = "idle" /\ life[r.vm] = "up"
      /\ r.op = "create" => life[r.to] = "up"
      /\ UNCHANGED <<nmVars, cloudVars, patVars, tcpVars, arrived, error>>
  BY DEF CreateConnection
<1>2. PICK n \in Node : n = Host[r.vm]
  BY <1>1, RequestFacts
<1>3. state \in [Requests -> States] /\ DOMAIN route = Requests /\ \A q \in Requests : IsRoute(route[q])
      /\ pending \in [Node -> Seq(Waiters)] /\ alarms \in [Node -> Nat]
  BY DEF IInv, Typing, RequestsTyped, WaitingTyped
<1>4. \A w \in VM : life[w] \in {"closing", "gone"} => w # r.vm /\ w # r.to
  <2>1. ~Finished(r)
    BY <1>1 DEF Finished
  <2> QED BY <1>1, <2>1 DEF IInv, Closing
<1>5. ASSUME NEW s \in States, s # "idle", state' = [state EXCEPT ![r] = s]
      PROVE  /\ Closing' /\ state' \in [Requests -> States] /\ state'[r] = s
             /\ \A q \in Requests : q # r => state'[q] = state[q]
             /\ s # "over" => ReachesTarget'
  <2>1. state' \in [Requests -> States] /\ state'[r] = s /\ \A q \in Requests : q # r => state'[q] = state[q]
    BY <1>3, <1>5
  <2>2. \A q \in load.requests : q \in Requests
    BY RequestFacts
  <2>3. UNCHANGED <<load, toClose, life>> /\ \A w : Places(w)' = Places(w)
    BY <1>1 DEF cloudVars, Places
  <2>4. \A w \in VM : /\ toClose[w] \subseteq Places(w) /\ (toClose[w] # {} => life[w] = "closing")
                      /\ life[w] \in {"closing", "gone"} =>
                           \A q \in load.requests : w \in {q.vm, q.to} => q # r /\ Finished(q)
    BY <1>4 DEF IInv, Closing
  <2>5. \A q \in load.requests : state'[q] # "idle" => life[q.vm] # "off"
    BY <1>1, <2>1, <2>2 DEF IInv, Closing
  <2>6. \A q \in load.requests : q # r => (Finished(q)' <=> Finished(q))
    BY <2>1, <2>2 DEF Finished
  <2>7. Closing'
    BY <2>2, <2>3, <2>4, <2>5, <2>6 DEF Closing
  <2>8. s # "over" => ReachesTarget'
    BY <1>1, <2>1 DEF IInv, ReachesTarget
  <2> QED BY <2>1, <2>7, <2>8
<1>6. PortsKept' /\ Addresses' /\ ListenersKept'
  BY <1>1, PortsFrame, AddressesFrame, ListenersFrame DEF IInv, Addresses, cloudVars, nmVars, patVars, tcpVars
<1>7. CloudTyped' /\ TablesTyped' /\ PatTyped' /\ TcpTyped'
  BY <1>1 DEF IInv, Typing, CloudTyped, TablesTyped, PatTyped, TcpTyped, cloudVars, nmVars, patVars, tcpVars
<1>8. CASE t.port = PortNotFound
  <2>1. /\ EnqueuePendingMessage(n, r) /\ state' = [state EXCEPT ![r] = "pending"]
        /\ route' = [route EXCEPT ![r].virtualIP = vip]
    BY <1>2, <1>8 DEF CreateConnection
  <2>2. PICK e \in Waiters : e = [req |-> r, timesEnqueued |-> 0] /\ e.req = r /\ e.timesEnqueued = 0
    <3>1. [req |-> r, timesEnqueued |-> 0] \in Waiters
      BY DEF Waiters
    <3>2. [req |-> r, timesEnqueued |-> 0].req = r /\ [req |-> r, timesEnqueued |-> 0].timesEnqueued = 0
      OBVIOUS
    <3> QED BY <3>1, <3>2
  <2>3. pending' = [pending EXCEPT ![n] = Append(@, e)] /\ alarms' = [alarms EXCEPT ![n] = @ + 1]
    BY <2>1, <2>2 DEF EnqueuePendingMessage
  <2>4. /\ pending' \in [Node -> Seq(Waiters)]
        /\ \A m \in Node : m # n => pending'[m] = pending[m]
        /\ Len(pending[n]) \in Nat /\ Len(pending'[n]) = Len(pending[n]) + 1
        /\ pending'[n][Len(pending[n]) + 1] = e
        /\ \A i \in 1 .. Len(pending[n]) : pending'[n][i] = pending[n][i]
    BY <1>3, <2>3, AppendedAt
  <2>5. \A m \in Node : \A i \in 1 .. Len(pending'[m]) :
          \/ i \in 1 .. Len(pending[m]) /\ pending'[m][i] = pending[m][i]
          \/ m = n /\ i = Len(pending[n]) + 1 /\ pending'[m][i] = e
    BY <2>4
  <2>6. /\ Closing' /\ state' \in [Requests -> States] /\ state'[r] = "pending" /\ ReachesTarget'
        /\ \A q \in Requests : q # r => state'[q] = state[q]
    BY <1>5, <2>1 DEF States
  <2>7. ASSUME NEW m \in Node, NEW i \in 1 .. Len(pending[m])
        PROVE  /\ pending[m][i].req \in Requests /\ pending[m][i].req # r
               /\ state[pending[m][i].req] = "pending"
               /\ pending[m][i].timesEnqueued \in 0 .. MaxTimes + 1
    <3>1. pending[m] \in Seq(Waiters)
      BY <1>3
    <3>2. pending[m][i] \in Waiters
      BY <3>1
    <3> QED BY <1>1, <3>2 DEF IInv, WaitingKept, Waiters
  <2>8. WaitingKept'
    <3>1. \A q \in Requests : state'[q] # "idle" => q \in load'.requests
      BY <1>1, <2>6 DEF IInv, WaitingKept, cloudVars
    <3>2. ASSUME NEW m \in Node, NEW i \in 1 .. Len(pending'[m])
          PROVE  /\ pending'[m][i].timesEnqueued \in 0 .. MaxTimes + 1
                 /\ state'[pending'[m][i].req] = "pending"
      <4>1. CASE i \in 1 .. Len(pending[m]) /\ pending'[m][i] = pending[m][i]
        BY <2>6, <2>7, <4>1
      <4>2. CASE pending'[m][i] = e
        BY <2>2, <2>6, <4>2 DEF Limits
      <4> QED BY <2>5, <4>1, <4>2
    <3>3. ASSUME NEW m \in Node, NEW i \in 1 .. Len(pending'[m]), NEW j \in 1 .. Len(pending'[m]),
                 pending'[m][j].req = pending'[m][i].req
          PROVE  i = j
      <4>1. CASE /\ i \in 1 .. Len(pending[m]) /\ pending'[m][i] = pending[m][i]
                 /\ j \in 1 .. Len(pending[m]) /\ pending'[m][j] = pending[m][j]
        BY <3>3, <4>1 DEF IInv, WaitingKept
      <4>2. CASE i \in 1 .. Len(pending[m]) /\ pending'[m][i] = pending[m][i] /\ pending'[m][j] = e
        BY <2>2, <2>7, <3>3, <4>2
      <4>3. CASE j \in 1 .. Len(pending[m]) /\ pending'[m][j] = pending[m][j] /\ pending'[m][i] = e
        BY <2>2, <2>7, <3>3, <4>3
      <4>4. CASE i = Len(pending[n]) + 1 /\ j = Len(pending[n]) + 1
        BY <4>4
      <4> QED BY <2>5, <4>1, <4>2, <4>3, <4>4
    <3>4. ASSUME NEW m \in Node, NEW o \in Node, NEW i \in 1 .. Len(pending'[m]), NEW j \in 1 .. Len(pending'[o]),
                 pending'[m][i].req = pending'[o][j].req
          PROVE  m = o
      <4>1. CASE /\ i \in 1 .. Len(pending[m]) /\ pending'[m][i] = pending[m][i]
                 /\ j \in 1 .. Len(pending[o]) /\ pending'[o][j] = pending[o][j]
        BY <3>4, <4>1 DEF IInv, WaitingKept
      <4>2. CASE i \in 1 .. Len(pending[m]) /\ pending'[m][i] = pending[m][i] /\ pending'[o][j] = e
        BY <2>2, <2>7, <3>4, <4>2
      <4>3. CASE j \in 1 .. Len(pending[o]) /\ pending'[o][j] = pending[o][j] /\ pending'[m][i] = e
        BY <2>2, <2>7, <3>4, <4>3
      <4>4. CASE m = n /\ o = n
        BY <4>4
      <4> QED BY <2>5, <4>1, <4>2, <4>3, <4>4
    <3>5. \A m \in Node : \A i \in 1 .. Len(pending'[m]) :
            /\ pending'[m][i].timesEnqueued \in 0 .. MaxTimes + 1
            /\ state'[pending'[m][i].req] = "pending"
            /\ \A j \in 1 .. Len(pending'[m]) : pending'[m][j].req = pending'[m][i].req => i = j
      BY <3>2, <3>3
    <3> QED BY <3>1, <3>4, <3>5, Zenon DEF WaitingKept
  <2>9. /\ DOMAIN route' = Requests /\ IsRoute(route'[r])
        /\ \A q \in Requests : q # r => route'[q] = route[q]
    <3> HIDE DEF vip
    <3>1. PICK a, b, c, d : route[r] = [virtualIP |-> a, node |-> b, port |-> c, localPort |-> d]
      BY <1>3 DEF IsRoute
    <3>2. route'[r] = [virtualIP |-> vip, node |-> b, port |-> c, localPort |-> d]
      BY <1>3, <2>1, <3>1
    <3>3. DOMAIN route' = Requests /\ \A q \in Requests : q # r => route'[q] = route[q]
      BY <1>3, <2>1
    <3> QED BY <3>2, <3>3 DEF IsRoute
  <2>10. Routed'
    BY <1>1, <2>6, <2>9 DEF IInv, Routed, cloudVars, tcpVars
  <2>11. Typing'
    <3>1. RequestsTyped'
      BY <1>1, <1>3, <2>6, <2>9 DEF IInv, Typing, RequestsTyped
    <3>2. WaitingTyped'
      BY <1>3, <2>3, <2>4 DEF WaitingTyped
    <3> QED BY <1>7, <3>1, <3>2 DEF Typing
  <2> QED BY <1>6, <2>6, <2>8, <2>10, <2>11 DEF IInv, Addresses
<1>9. CASE t.port # PortNotFound
  <2>1. /\ state' = [state EXCEPT ![r] = Forwarded(r)] /\ route' = [route EXCEPT ![r] = t]
        /\ UNCHANGED pendingVars
    BY <1>9 DEF CreateConnection
  <2>2. PICK s \in {"cells", "forwarded"} : s = Forwarded(r) /\ (s = "cells" <=> r.op = "storage")
    BY DEF Forwarded
  <2>3. /\ Closing' /\ state' \in [Requests -> States] /\ state'[r] = s /\ ReachesTarget'
        /\ \A q \in Requests : q # r => state'[q] = state[q]
    BY <1>5, <2>1, <2>2 DEF States
  <2>4. IsRoute(t)
    BY DEF Target, IsRoute
  <2> HIDE DEF t
  <2>5. /\ DOMAIN route' = Requests /\ route'[r] = t
        /\ \A q \in Requests : q # r => route'[q] = route[q]
    BY <1>3, <2>1
  <2>6. WaitingKept'
    <3>1. ASSUME NEW m \in Node, NEW i \in 1 .. Len(pending[m])
          PROVE  state'[pending[m][i].req] = "pending"
      <4>1. pending[m] \in Seq(Waiters)
        BY <1>3
      <4>2. pending[m][i] \in Waiters
        BY <4>1
      <4> QED BY <1>1, <2>3, <4>2 DEF IInv, WaitingKept, Waiters
    <3> QED BY <1>1, <2>1, <2>3, <3>1 DEF IInv, WaitingKept, pendingVars, cloudVars
  <2>7. ASSUME r.op = "create"
        PROVE  /\ route'[r].node = Host[r.to]
               /\ \E i \in 1 .. Len(vms[Host[r.to]]) :
                    vms[Host[r.to]][i].pid = r.to /\ vms[Host[r.to]][i].virtualIP = route'[r].virtualIP
               /\ \E i \in 1 .. Len(listening[Host[r.to]]) :
                    listening[Host[r.to]][i] = [port |-> route'[r].port, app |-> r.to]
    <3>1. t = Target(r, AddressOf(r.to))
      BY <2>7 DEF t
    <3>2. /\ t.node = Host[r.to] /\ t.virtualIP = AddressOf(r.to)
          /\ \E i \in 1 .. Len(vms[Host[r.to]]) :
               vms[Host[r.to]][i].pid = r.to /\ vms[Host[r.to]][i].virtualIP = AddressOf(r.to)
          /\ \E i \in 1 .. Len(listening[Host[r.to]]) :
               listening[Host[r.to]][i] = [port |-> t.port, app |-> r.to]
      BY <1>1, <1>9, <2>7, <3>1, CreateTarget
    <3> QED BY <2>5, <3>2
  <2>8. Routed'
    <3>1. UNCHANGED <<vms, listening>>
      BY <1>1 DEF cloudVars, tcpVars
    <3>2. ASSUME NEW q \in Requests
          PROVE  /\ state'[q] \in {"sent", "over"} => q.op = "create"
                 /\ state'[q] \in {"forwarded", "connecting", "open", "sent"} /\ q.op = "create" =>
                    /\ route'[q].node = Host[q.to]
                    /\ \E i \in 1 .. Len(vms[Host[q.to]]) :
                         vms[Host[q.to]][i].pid = q.to /\ vms[Host[q.to]][i].virtualIP = route'[q].virtualIP
                    /\ \E i \in 1 .. Len(listening[Host[q.to]]) :
                         listening[Host[q.to]][i] = [port |-> route'[q].port, app |-> q.to]
                 /\ state'[q] = "cells" => q.op = "storage"
      <4>1. CASE q = r
        BY <2>2, <2>3, <2>7, <4>1
      <4>2. CASE q # r
        BY <2>3, <2>5, <4>2 DEF IInv, Routed
      <4> QED BY <4>1, <4>2
    <3> QED BY <3>1, <3>2 DEF Routed
  <2>9. Typing'
    <3>1. RequestsTyped'
      BY <1>1, <1>3, <2>2, <2>3, <2>4, <2>5 DEF IInv, Typing, RequestsTyped
    <3>2. WaitingTyped'
      BY <2>1 DEF IInv, Typing, WaitingTyped, pendingVars
    <3> QED BY <1>7, <3>1, <3>2 DEF Typing
  <2> QED BY <1>6, <2>3, <2>6, <2>8, <2>9 DEF IInv, Addresses
<1> QED BY <1>8, <1>9

\* The connection is there: its port is registered, for the user, and so for nobody
\* that asks for a VM.
LEMMA ConnectionStablishedKeeps ==
  ASSUME IdsDiffer, IInv, NEW r \in Requests, ConnectionStablished(r) PROVE IInv'
<1>1. /\ Simulating /\ state[r] = "connecting" /\ state' = [state EXCEPT ![r] = "open"]
      /\ UNCHANGED <<ipsCloud, cloudVars, portPtr, portHoles, pendingVars, tcpVars, route, arrived, error>>
  BY DEF ConnectionStablished
<1>2. r \in load.requests
  BY <1>1 DEF IInv, WaitingKept
<1>0. PICK v \in VM, n \in Node, u \in User : v = r.vm /\ n = Host[v] /\ u = OwnerOf[v]
  BY <1>2, RequestFacts
<1>3. PICK p : v = r.vm /\ n = Host[v] /\ u = OwnerOf[v] /\ p = route[r].localPort
  BY <1>0
<1>4. p \in EphemeralPorts /\ p \in Ports /\ p \in Nat
  <2>1. p \in EphemeralPorts
    BY <1>1, <1>3 DEF IInv, Typing, RequestsTyped
  <2> QED BY <2>1, PortAssumption DEF Ports
<1>5. Serves(n, v) /\ \A m \in Node, w \in VM : Serves(m, w)' = Serves(m, w)
  <2>1. ~Finished(r)
    BY <1>1 DEF Finished
  <2>2. life[v] = "up"
    BY <1>1, <1>2, <1>3, <2>1 DEF IInv, Closing, Typing, CloudTyped
  <2>3. n \in Places(v)
    BY <1>3 DEF Places
  <2>4. \A m \in Node, w \in VM : Serves(m, w)' = Serves(m, w)
    BY <1>1 DEF Serves, Places, cloudVars
  <2> QED BY <2>2, <2>3, <2>4 DEF Serves
<1>6. WaitingKept' /\ Closing' /\ state' \in [Requests -> States]
  BY <1>1, RequestMoves DEF IInv, cloudVars, pendingVars, States
<1>7. state'[r] = "open" /\ \A q \in Requests : q # r => state'[q] = state[q]
  BY <1>1 DEF IInv, Typing, RequestsTyped
<1>8. Addresses'
  BY <1>1, AddressesFrame DEF IInv, Addresses, cloudVars
<1>9. Routed' /\ ReachesTarget'
  <2>1. Routed'
    BY <1>1, <1>7 DEF IInv, Routed, cloudVars, tcpVars
  <2>2. ReachesTarget'
    BY <1>1, <1>7 DEF IInv, ReachesTarget
  <2> QED BY <2>1, <2>2
<1>10. PICK x \in PatPorts, cell \in PortCells :
          /\ x = [rPort |-> p, vPort |-> p, connectionID |-> r]
          /\ cell = [vPort |-> p, rPort |-> p, user |-> v, vmID |-> u, operation |-> "CONNECT"]
  BY <1>4 DEF PatPorts, PortCells
<1>11. cell.vmID = u /\ u \notin VM
  BY <1>10 DEF IdsDiffer
<1>12. PICK k : k = AddPort(vmPorts[n], v, x)
  OBVIOUS
<1>13. /\ DOMAIN k = DOMAIN vmPorts[n] \cup {v} /\ \A w \in DOMAIN k : k[w] \in Seq(PatPorts)
       /\ DOMAIN vmPorts[n] \subseteq VM /\ DOMAIN vmPorts = Node
  <2>1. /\ DOMAIN vmPorts[n] \subseteq VM /\ \A w \in DOMAIN vmPorts[n] : vmPorts[n][w] \in Seq(PatPorts)
        /\ DOMAIN vmPorts = Node
    BY DEF IInv, Typing, PatTyped
  <2> QED BY <1>12, <2>1, PortAdded
<1>14. DOMAIN vmPorts' = Node /\ vmPorts'[n] = k /\ \A m \in Node : m # n => vmPorts'[m] = vmPorts[m]
  <2>1. vmPorts' = [vmPorts EXCEPT ![n] = k]
    BY <1>3, <1>10, <1>12 DEF ConnectionStablished
  <2> QED BY <1>13, <2>1
<1>15. PatTyped'
  <2>1. PatTyped
    BY DEF IInv, Typing
  <2>2. established' \in [Node -> SUBSET Ports]
    BY <1>3, <1>4, <2>1 DEF PatTyped, ConnectionStablished
  <2>3. \A m \in Node : /\ DOMAIN vmPorts'[m] \subseteq VM
                        /\ \A w \in DOMAIN vmPorts'[m] : vmPorts'[m][w] \in Seq(PatPorts)
    BY <1>13, <1>14, <2>1 DEF PatTyped
  <2> QED BY <1>1, <1>14, <2>1, <2>2, <2>3 DEF PatTyped
<1>16. /\ portsPerNode' \in [Node -> Seq(PortCells)]
       /\ \A m \in Node : m # n => portsPerNode'[m] = portsPerNode[m]
       /\ Len(portsPerNode[n]) \in Nat /\ Len(portsPerNode'[n]) = Len(portsPerNode[n]) + 1
       /\ portsPerNode'[n][Len(portsPerNode[n]) + 1] = cell
       /\ \A i \in 1 .. Len(portsPerNode[n]) : portsPerNode'[n][i] = portsPerNode[n][i]
  <2>1. portsPerNode' = [portsPerNode EXCEPT ![n] = Append(@, cell)]
    BY <1>3, <1>10 DEF RegisterPort, ConnectionStablished
  <2>2. portsPerNode \in [Node -> Seq(PortCells)]
    BY DEF IInv, Typing, TablesTyped
  <2> QED BY <2>1, <2>2, AppendedAt
<1>17. \A m \in Node : \A i \in 1 .. Len(portsPerNode'[m]) :
         portsPerNode'[m][i].vmID \in VM =>
           i \in 1 .. Len(portsPerNode[m]) /\ portsPerNode'[m][i] = portsPerNode[m][i]
  <2>1. \A m \in Node : \A i \in 1 .. Len(portsPerNode'[m]) :
           \/ i \in 1 .. Len(portsPerNode[m]) /\ portsPerNode'[m][i] = portsPerNode[m][i]
           \/ portsPerNode'[m][i] = cell
    BY <1>16
  <2> QED BY <1>11, <2>1
<1>18. ListenersKept'
  <2>1. listening' = listening /\ error' = "none" /\ error = "none"
    BY <1>1 DEF tcpVars, Simulating
  <2>2. ListenersKept
    BY DEF IInv
  <2>3. ASSUME NEW m \in Node, NEW i \in 1 .. Len(portsPerNode'[m]), portsPerNode'[m][i].vmID \in VM
        PROVE  \E j \in 1 .. Len(listening[m]) :
                 listening[m][j] = [port |-> portsPerNode'[m][i].rPort, app |-> portsPerNode'[m][i].vmID]
    <3>1. i \in 1 .. Len(portsPerNode[m]) /\ portsPerNode'[m][i] = portsPerNode[m][i]
      BY <1>17, <2>3
    <3>2. portsPerNode[m][i].vmID \in VM
      BY <2>3, <3>1
    <3>3. \E j \in 1 .. Len(listening[m]) :
            listening[m][j] = [port |-> portsPerNode[m][i].rPort, app |-> portsPerNode[m][i].vmID]
      BY <2>1, <2>2, <3>1, <3>2 DEF ListenersKept
    <3> QED BY <3>1, <3>3
  <2> QED BY <2>1, <2>2, <2>3 DEF ListenersKept
<1>19. PortsKept'
  <2>1. ASSUME NEW m \in Node, NEW w \in DOMAIN vmPorts'[m] PROVE Serves(m, w)'
    <3>1. w \in VM /\ (w \in DOMAIN vmPorts[m] \/ (m = n /\ w = v))
      BY <1>13, <1>14 DEF IInv, Typing, PatTyped
    <3>2. Serves(m, w)
      BY <1>5, <3>1 DEF IInv, PortsKept
    <3> QED BY <1>5, <3>1, <3>2
  <2>2. ASSUME NEW m \in Node, NEW i \in 1 .. Len(portsPerNode'[m]), NEW w \in VM,
               w = portsPerNode'[m][i].vmID
        PROVE  Serves(m, w)' /\ portsPerNode'[m][i].user = OwnerOf[w]
    BY <1>5, <1>17, <2>2 DEF IInv, PortsKept
  <2>3. \A m \in Node, w \in VM : Serves(m, w)' <=>
          (m \in {Host[w]} \cup {k0.node : k0 \in {j0 \in load'.listeners : j0.vm = w}})
          /\ (life'[w] = "up" \/ (life'[w] = "closing" /\ m \in toClose'[w]))
    BY DEF Serves, Places
  <2> QED BY <2>1, <2>2, <2>3 DEF PortsKept, Serves, Places
<1>20. Typing'
  <2>1. RequestsTyped'
    BY <1>1, <1>6, <1>7 DEF IInv, Typing, RequestsTyped, IsRoute
  <2>2. TablesTyped'
    BY <1>1, <1>16 DEF IInv, Typing, TablesTyped
  <2> QED BY <1>1, <1>15, <2>1, <2>2 DEF IInv, Typing, CloudTyped, TcpTyped, WaitingTyped,
             cloudVars, tcpVars, pendingVars
<1> QED BY <1>6, <1>8, <1>9, <1>18, <1>19, <1>20 DEF IInv, Addresses

-----------------------------------------------------------------------------
(* The requests that wait are tried again.                                 *)

\* An entry d that stands for e: as it was, or tried once more.
Tried(e, d) ==
  /\ d.req = e.req
  /\ \/ d.timesEnqueued = e.timesEnqueued
     \/ e.timesEnqueued <= MaxTimes /\ d.timesEnqueued = e.timesEnqueued + 1

\* The walk w over the first m entries: the places of the entries it has kept, and
\* every outcome is that of an entry it has not.
Sorted(list, m, w, at) ==
  /\ at \in [1 .. Len(w.kept) -> 1 .. m]
  /\ \A i \in 1 .. Len(w.kept) : Tried(list[at[i]], w.kept[i])
  /\ \A i, j \in 1 .. Len(w.kept) : at[i] = at[j] => i = j
  /\ \A x \in w.outcomes :
       /\ x[2] = "cells" => x[1].op = "storage"
       /\ \E j \in 1 .. m : list[j].req = x[1] /\ \A i \in 1 .. Len(w.kept) : at[i] # j

LEMMA EntrySorted ==
  ASSUME Limits, NEW list \in Seq(Waiters), NEW m \in Nat, m + 1 \in 1 .. Len(list),
         NEW w \in Walks, NEW at, Sorted(list, m, w, at)
  PROVE  \E b : Sorted(list, m + 1, WalkedEntry(w, list[m + 1]), b)
<1>1. PICK e \in Waiters : e = list[m + 1]
  OBVIOUS
<1>2. PICK x \in Walks : x = WalkedEntry(w, e)
  BY EntryCases
<1>3. PICK k \in Seq(Waiters), l \in Nat : k = w.kept /\ l = Len(k)
  BY DEF Walks
<1>4. e.req \in Requests /\ e.timesEnqueued \in Int
  BY DEF Waiters
<1>5. /\ at \in [1 .. l -> 1 .. m]
      /\ \A i \in 1 .. l : Tried(list[at[i]], k[i])
      /\ \A i, j \in 1 .. l : at[i] = at[j] => i = j
      /\ \A y \in w.outcomes :
           /\ y[2] = "cells" => y[1].op = "storage"
           /\ \E j \in 1 .. m : list[j].req = y[1] /\ \A i \in 1 .. l : at[i] # j
  BY <1>3 DEF Sorted
<1>6. \A j \in 1 .. m : j \in 1 .. m + 1 /\ j # m + 1
  OBVIOUS
<1>7. m + 1 \in 1 .. m + 1
  OBVIOUS
<1>8. ASSUME NEW d \in Waiters, Tried(e, d), x.kept = Append(k, d), x.outcomes = w.outcomes
      PROVE  \E b : Sorted(list, m + 1, x, b)
  <2> DEFINE b == [i \in 1 .. l + 1 |-> IF i = l + 1 THEN m + 1 ELSE at[i]]
  <2>1. PICK g \in Seq(Waiters) : /\ g = x.kept /\ Len(g) = l + 1 /\ g[l + 1] = d
                                  /\ \A i \in 1 .. l : g[i] = k[i]
    <3>1. /\ Append(k, d) \in Seq(Waiters) /\ Len(Append(k, d)) = Len(k) + 1
          /\ Append(k, d)[Len(k) + 1] = d /\ \A i \in 1 .. Len(k) : Append(k, d)[i] = k[i]
      BY AppendProperties
    <3> QED BY <1>3, <1>8, <3>1
  <2>2. b \in [1 .. l + 1 -> 1 .. m + 1] /\ b[l + 1] = m + 1 /\ \A i \in 1 .. l : b[i] = at[i]
    BY <1>5, <1>6, <1>7
  <2> HIDE DEF b
  <2>3. \A i \in 1 .. l + 1 : i = l + 1 \/ i \in 1 .. l
    OBVIOUS
  <2>4. \A i \in 1 .. l + 1 : Tried(list[b[i]], g[i])
    BY <1>1, <1>5, <1>8, <2>1, <2>2, <2>3
  <2>5. ASSUME NEW i \in 1 .. l + 1, NEW j \in 1 .. l + 1, b[i] = b[j] PROVE i = j
    <3>1. \A h \in 1 .. l : b[h] # m + 1
      BY <1>5, <1>6, <2>2
    <3> QED BY <1>5, <2>2, <2>3, <2>5, <3>1
  <2>6. ASSUME NEW y \in w.outcomes
        PROVE  /\ y[2] = "cells" => y[1].op = "storage"
               /\ \E j \in 1 .. m + 1 : list[j].req = y[1] /\ \A i \in 1 .. l + 1 : b[i] # j
    <3>1. PICK j \in 1 .. m : list[j].req = y[1] /\ \A i \in 1 .. l : at[i] # j
      BY <1>5
    <3>2. j \in 1 .. m + 1 /\ \A i \in 1 .. l + 1 : b[i] # j
      BY <1>6, <2>2, <2>3, <3>1
    <3> QED BY <1>5, <3>1, <3>2
  <2>7. Sorted(list, m + 1, x, b)
    BY <1>8, <2>1, <2>2, <2>4, <2>5, <2>6 DEF Sorted
  <2> QED BY <2>7
<1>9. ASSUME x.kept = k, Answers(w, x, e) PROVE \E b : Sorted(list, m + 1, x, b)
  <2>1. PICK o \in {"expired", "cells", "lost"} :
          x.outcomes = w.outcomes \cup {<<e.req, o>>} /\ (o = "cells" => e.req.op = "storage")
    BY <1>9 DEF Answers
  <2>2. ASSUME NEW y \in x.outcomes
        PROVE  /\ y[2] = "cells" => y[1].op = "storage"
               /\ \E j \in 1 .. m + 1 : list[j].req = y[1] /\ \A i \in 1 .. l : at[i] # j
    <3>1. CASE y \in w.outcomes
      BY <1>5, <1>6, <3>1
    <3>2. CASE y = <<e.req, o>>
      <4>1. y[1] = e.req /\ y[2] = o
        BY <3>2
      <4>2. list[m + 1].req = y[1] /\ \A i \in 1 .. l : at[i] # m + 1
        BY <1>1, <1>5, <1>6, <4>1
      <4> QED BY <1>7, <2>1, <4>1, <4>2
    <3> QED BY <2>1, <3>1, <3>2
  <2>3. at \in [1 .. l -> 1 .. m + 1]
    BY <1>5, <1>6
  <2>4. Sorted(list, m + 1, x, at)
    BY <1>3, <1>5, <1>9, <2>2, <2>3 DEF Sorted
  <2> QED BY <2>4
<1>10. \/ x.kept = Append(k, e) /\ x.outcomes = w.outcomes
       \/ /\ x.kept = Append(k, [e EXCEPT !.timesEnqueued = @ + 1]) /\ e.timesEnqueued <= MaxTimes
          /\ x.outcomes = w.outcomes
       \/ x.kept = k /\ Answers(w, x, e)
  BY <1>2, <1>3, EntryCases
<1>11. CASE x.kept = Append(k, e) /\ x.outcomes = w.outcomes
  <2>1. Tried(e, e)
    BY DEF Tried
  <2> QED BY <1>1, <1>2, <1>8, <1>11, <2>1
<1>12. CASE /\ x.kept = Append(k, [e EXCEPT !.timesEnqueued = @ + 1]) /\ e.timesEnqueued <= MaxTimes
            /\ x.outcomes = w.outcomes
  <2>1. PICK d : d = [e EXCEPT !.timesEnqueued = @ + 1]
    OBVIOUS
  <2>2. d \in Waiters /\ d.req = e.req /\ d.timesEnqueued = e.timesEnqueued + 1
    BY SMTT(30), <1>4, <2>1 DEF Waiters
  <2>3. Tried(e, d)
    BY <1>12, <2>2 DEF Tried
  <2> QED BY <1>1, <1>2, <1>8, <1>12, <2>1, <2>2, <2>3
<1> QED BY <1>1, <1>2, <1>9, <1>10, <1>11, <1>12

LEMMA WalkSorted ==
  ASSUME Limits, NEW list \in Seq(Waiters)
  PROVE  \E at : Sorted(list, Len(list), Walk(list), at)
<1>1. PICK n \in Nat : n = Len(list)
  OBVIOUS
<1>2. PICK f \in [0 .. n -> Walks] :
        /\ f[0] = FirstWalk /\ Walk(list) = f[n]
        /\ \A i \in 1 .. n : f[i] = WalkedEntry(f[i - 1], list[i])
  BY <1>1, WalkSteps
<1> DEFINE T == {m \in 0 .. n : \E at : Sorted(list, m, f[m], at)}
<1>3. 0 \in T
  <2> DEFINE at == [i \in 1 .. 0 |-> 1]
  <2>1. FirstWalk.kept = <<>> /\ FirstWalk.outcomes = {} /\ Len(FirstWalk.kept) = 0
    BY DEF FirstWalk
  <2>2. Sorted(list, 0, FirstWalk, at)
    BY <2>1 DEF Sorted
  <2> HIDE DEF at
  <2> QED BY <1>2, <2>2
<1>4. ASSUME NEW m \in 0 .. n - 1, m \in T PROVE m + 1 \in T
  <2>1. PICK at : Sorted(list, m, f[m], at)
    BY <1>4
  <2>2. /\ m \in Nat /\ m + 1 \in 1 .. n /\ m + 1 \in 0 .. n /\ m \in 0 .. n /\ (m + 1) - 1 = m
        /\ f[m] \in Walks
    BY <1>2
  <2>3. f[m + 1] = WalkedEntry(f[m], list[m + 1])
    BY <1>2, <2>2
  <2>4. \E b : Sorted(list, m + 1, f[m + 1], b)
    BY <1>1, <2>1, <2>2, <2>3, EntrySorted
  <2> QED BY <2>2, <2>4
<1> HIDE DEF T
<1>5. \A m \in 0 .. n : m \in T
  BY <1>3, <1>4, UpTo
<1>6. n \in T
  BY <1>5
<1> QED BY <1>1, <1>2, <1>6 DEF T

LEMMA CheckPendingMessagesKeeps ==
  ASSUME Limits, IInv, NEW n \in Node, CheckPendingMessages(n) PROVE IInv'
<1> DEFINE walk == Walk(pending[n])
           out == walk.outcomes
<1>1. /\ Simulating
      /\ pending' = [pending EXCEPT ![n] = walk.kept]
      /\ alarms' = [alarms EXCEPT ![n] = @ - 1 + walk.again]
      /\ alarms[n] > 0
      /\ state' = [r \in Requests |-> IF \E o \in States : <<r, o>> \in out
                                      THEN CHOOSE o \in States : <<r, o>> \in out ELSE state[r]]
      /\ route' = [r \in Requests |-> IF <<r, "cells">> \in out THEN Target(r, route[r].virtualIP)
                                      ELSE route[r]]
      /\ UNCHANGED <<nmVars, cloudVars, patVars, tcpVars, arrived, error>>
  BY DEF CheckPendingMessages
<1>2. /\ pending \in [Node -> Seq(Waiters)] /\ alarms \in [Node -> Nat]
      /\ state \in [Requests -> States] /\ \A r \in Requests : IsRoute(route[r])
  BY DEF IInv, Typing, WaitingTyped, RequestsTyped
<1>3. /\ walk \in Walks /\ \E at : Sorted(pending[n], Len(pending[n]), walk, at)
  BY <1>2, WalkCounts, WalkSorted
<1>4. PICK list \in Seq(Waiters), k \in Seq(Waiters), again \in Nat :
        list = pending[n] /\ k = walk.kept /\ again = walk.again
  <2> HIDE DEF walk
  <2>1. walk.kept \in Seq(Waiters) /\ walk.again \in Nat
    BY <1>3 DEF Walks
  <2> QED BY <1>2, <2>1
<1>5. out \in SUBSET (Requests \X {"expired", "cells", "lost"})
  <2> HIDE DEF walk
  <2> QED BY <1>3 DEF Walks
<1>6. PICK at :
        /\ at \in [1 .. Len(k) -> 1 .. Len(list)]
        /\ \A i \in 1 .. Len(k) : Tried(list[at[i]], k[i])
        /\ \A i, j \in 1 .. Len(k) : at[i] = at[j] => i = j
        /\ \A x \in out :
             /\ x[2] = "cells" => x[1].op = "storage"
             /\ \E j \in 1 .. Len(list) : list[j].req = x[1] /\ \A i \in 1 .. Len(k) : at[i] # j
  BY SMTT(30), <1>3, <1>4 DEF Sorted
<1> HIDE DEF walk
<1>7. /\ pending' \in [Node -> Seq(Waiters)] /\ pending'[n] = k
      /\ \A m \in Node : m # n => pending'[m] = pending[m]
  BY <1>1, <1>2, <1>4
<1>8. alarms' \in [Node -> Nat]
  <2>1. alarms[n] - 1 + again \in Nat
    BY <1>1, <1>2
  <2> QED BY <1>1, <1>2, <1>4, <2>1
<1>9. Len(k) \in Nat /\ Len(list) \in Nat /\ \A i \in 1 .. Len(list) : list[i] \in Waiters
  OBVIOUS
\* An entry that is left stands for one of the same node.
<1>10. ASSUME NEW m \in Node, NEW i \in 1 .. Len(pending'[m])
       PROVE  \E j \in 1 .. Len(pending[m]) : Tried(pending[m][j], pending'[m][i])
  <2>1. CASE m = n
    BY <1>4, <1>6, <1>7, <2>1
  <2>2. CASE m # n
    BY <1>7, <2>2 DEF Tried
  <2> QED BY <2>1, <2>2
\* A request with an outcome waited, and does not wait any more.
<1>11. ASSUME NEW r \in Requests, NEW o, <<r, o>> \in out
       PROVE  /\ state[r] = "pending" /\ o \in {"expired", "cells", "lost"}
              /\ o = "cells" => r.op = "storage"
              /\ \A m \in Node : \A i \in 1 .. Len(pending'[m]) : pending'[m][i].req # r
  <2>1. o \in {"expired", "cells", "lost"}
    BY <1>5, <1>11
  <2>2. PICK j \in 1 .. Len(list) : list[j].req = r /\ \A i \in 1 .. Len(k) : at[i] # j
    BY <1>6, <1>11
  <2>3. o = "cells" => r.op = "storage"
    BY <1>6, <1>11
  <2>4. WaitingKept
    BY DEF IInv
  <2>5. state[r] = "pending"
    BY <1>4, <2>2, <2>4 DEF WaitingKept
  <2>6. ASSUME NEW m \in Node, NEW i \in 1 .. Len(pending'[m]), pending'[m][i].req = r
        PROVE  FALSE
    <3>1. CASE m = n
      <4>1. i \in 1 .. Len(k) /\ k[i].req = r
        BY <1>7, <2>6, <3>1
      <4>2. at[i] \in 1 .. Len(list) /\ list[at[i]].req = r
        BY <1>6, <4>1 DEF Tried
      <4>3. at[i] = j
        BY <1>4, <2>2, <2>4, <4>2 DEF WaitingKept
      <4> QED BY <2>2, <4>1, <4>3
    <3>2. CASE m # n
      <4>1. i \in 1 .. Len(pending[m]) /\ pending[m][i].req = pending[n][j].req /\ j \in 1 .. Len(pending[n])
        BY <1>4, <1>7, <2>2, <2>6, <3>2
      <4> QED BY <2>4, <3>2, <4>1 DEF WaitingKept
    <3> QED BY <3>1, <3>2
  <2> QED BY <2>1, <2>3, <2>5, <2>6
\* What becomes of a request.
<1>12. ASSUME NEW r \in Requests
       PROVE  \/ /\ state'[r] = state[r] /\ route'[r] = route[r]
              \/ /\ state[r] = "pending" /\ state'[r] \in {"expired", "cells", "lost"}
                 /\ state'[r] = "cells" => r.op = "storage"
                 /\ IsRoute(route'[r])
                 /\ \A m \in Node : \A i \in 1 .. Len(pending'[m]) : pending'[m][i].req # r
  <2>1. CASE \E o \in States : <<r, o>> \in out
    <3>1. PICK o \in States : state'[r] = o /\ <<r, o>> \in out
      <4> DEFINE O == CHOOSE o \in States : <<r, o>> \in out
      <4>1. O \in States /\ <<r, O>> \in out
        BY <2>1
      <4>2. state'[r] = O
        BY <1>1, <2>1
      <4> HIDE DEF O
      <4> QED BY <4>1, <4>2
    <3>2. IsRoute(route'[r])
      <4>1. IsRoute(Target(r, route[r].virtualIP))
        BY DEF IsRoute, Target
      <4> QED BY <1>1, <1>2, <4>1
    <3> QED BY <1>11, <3>1, <3>2
  <2>2. CASE ~\E o \in States : <<r, o>> \in out
    <3>1. <<r, "cells">> \notin out
      BY <2>2 DEF States
    <3> QED BY <1>1, <2>2, <3>1
  <2> QED BY <2>1, <2>2
<1>13. state' \in [Requests -> States]
  <2>1. \A r \in Requests : state'[r] \in States
    BY <1>2, <1>12 DEF States
  <2> QED BY <1>1, <2>1
<1>14. WaitingKept'
  <2>1. WaitingKept
    BY DEF IInv
  <2>2. \A r \in Requests : state'[r] # "idle" => r \in load'.requests
    BY <1>1, <1>12, <2>1 DEF WaitingKept, cloudVars
  <2>3. ASSUME NEW m \in Node, NEW i \in 1 .. Len(pending'[m])
        PROVE  /\ pending'[m][i].timesEnqueued \in 0 .. MaxTimes + 1
               /\ state'[pending'[m][i].req] = "pending"
    <3>1. PICK j \in 1 .. Len(pending[m]) : Tried(pending[m][j], pending'[m][i])
      BY <1>10
    <3>2. pending[m][j].timesEnqueued \in 0 .. MaxTimes + 1 /\ state[pending[m][j].req] = "pending"
      BY <2>1 DEF WaitingKept
    <3>3. pending'[m][i].timesEnqueued \in 0 .. MaxTimes + 1
      <4>1. PICK a, b : a = pending[m][j].timesEnqueued /\ b = pending'[m][i].timesEnqueued
        OBVIOUS
      <4>2. a \in 0 .. MaxTimes + 1 /\ (b = a \/ (a <= MaxTimes /\ b = a + 1))
        BY <3>1, <3>2, <4>1 DEF Tried
      <4>3. b \in 0 .. MaxTimes + 1
        BY <4>2 DEF Limits
      <4> QED BY <4>1, <4>3
    <3>4. pending'[m][i] \in Waiters
      <4>1. pending'[m] \in Seq(Waiters)
        BY <1>7
      <4> QED BY <4>1
    <3>5. pending'[m][i].req \in Requests /\ state[pending'[m][i].req] = "pending"
      BY <3>1, <3>2, <3>4 DEF Tried, Waiters
    <3> QED BY <1>12, <3>3, <3>5
  <2>4. ASSUME NEW m \in Node, NEW i \in 1 .. Len(pending'[m]), NEW j \in 1 .. Len(pending'[m]),
               pending'[m][j].req = pending'[m][i].req
        PROVE  i = j
    <3>1. CASE m = n
      <4>1. i \in 1 .. Len(k) /\ j \in 1 .. Len(k) /\ k[i].req = k[j].req
        BY <1>7, <2>4, <3>1
      <4>2. /\ at[i] \in 1 .. Len(list) /\ at[j] \in 1 .. Len(list)
            /\ list[at[j]].req = list[at[i]].req
        BY <1>6, <4>1 DEF Tried
      <4>3. at[i] = at[j]
        BY <1>4, <2>1, <4>2 DEF WaitingKept
      <4> QED BY <1>6, <4>1, <4>3
    <3>2. CASE m # n
      BY <1>7, <2>1, <2>4, <3>2 DEF WaitingKept
    <3> QED BY <3>1, <3>2
  <2>5. ASSUME NEW m \in Node, NEW o \in Node, NEW i \in 1 .. Len(pending'[m]), NEW j \in 1 .. Len(pending'[o]),
               pending'[m][i].req = pending'[o][j].req
        PROVE  m = o
    <3>1. PICK x \in 1 .. Len(pending[m]) : Tried(pending[m][x], pending'[m][i])
      BY <1>10
    <3>2. PICK y \in 1 .. Len(pending[o]) : Tried(pending[o][y], pending'[o][j])
      BY <1>10
    <3>3. pending[m][x].req = pending[o][y].req
      BY <2>5, <3>1, <3>2 DEF Tried
    <3> QED BY <2>1, <3>3 DEF WaitingKept
  <2>6. \A m \in Node : \A i \in 1 .. Len(pending'[m]) :
            /\ pending'[m][i].timesEnqueued \in 0 .. MaxTimes + 1
            /\ state'[pending'[m][i].req] = "pending"
            /\ \A j \in 1 .. Len(pending'[m]) : pending'[m][j].req = pending'[m][i].req => i = j
    BY <2>3, <2>4
  <2> QED BY <2>2, <2>5, <2>6, Zenon DEF WaitingKept
<1>15. Closing'
  <2>1. \A q \in load.requests : q \in Requests
    BY RequestFacts
  <2>2. UNCHANGED <<load, toClose, life>> /\ \A w : Places(w)' = Places(w)
    BY <1>1 DEF cloudVars, Places
  <2>3. ASSUME NEW q \in load.requests, Finished(q) PROVE Finished(q)'
    <3>1. state[q] # "pending"
      BY <2>3 DEF Finished
    <3> QED BY <1>12, <2>1, <2>3, <3>1 DEF Finished
  <2>4. \A q \in load.requests : state'[q] # "idle" => life[q.vm] # "off"
    BY <1>12, <2>1 DEF IInv, Closing
  <2>5. \A w \in VM : /\ toClose[w] \subseteq Places(w) /\ (toClose[w] # {} => life[w] = "closing")
                      /\ life[w] \in {"closing", "gone"} =>
                           \A q \in load.requests : w \in {q.vm, q.to} => Finished(q)
    BY DEF IInv, Closing
  <2> QED BY <2>2, <2>3, <2>4, <2>5 DEF Closing
<1>16. PortsKept' /\ Addresses' /\ ListenersKept'
  BY <1>1, PortsFrame, AddressesFrame, ListenersFrame DEF IInv, Addresses, cloudVars, nmVars, patVars, tcpVars
<1>17. Routed'
  <2>1. UNCHANGED <<vms, listening>>
    BY <1>1 DEF cloudVars, tcpVars
  <2>2. Routed
    BY DEF IInv
  <2>3. ASSUME NEW q \in Requests
        PROVE  /\ state'[q] \in {"sent", "over"} => q.op = "create"
               /\ state'[q] \in {"forwarded", "connecting", "open", "sent"} /\ q.op = "create" =>
                  /\ route'[q].node = Host[q.to]
                  /\ \E i \in 1 .. Len(vms[Host[q.to]]) :
                       vms[Host[q.to]][i].pid = q.to /\ vms[Host[q.to]][i].virtualIP = route'[q].virtualIP
                  /\ \E i \in 1 .. Len(listening[Host[q.to]]) :
                       listening[Host[q.to]][i] = [port |-> route'[q].port, app |-> q.to]
               /\ state'[q] = "cells" => q.op = "storage"
    <3>1. CASE state'[q] = state[q] /\ route'[q] = route[q]
      BY <2>2, <3>1 DEF Routed
    <3>2. CASE state'[q] \in {"expired", "cells", "lost"} /\ (state'[q] = "cells" => q.op = "storage")
      BY <3>2
    <3> QED BY <1>12, <3>1, <3>2
  <2> QED BY <2>1, <2>3 DEF Routed
<1>18. ReachesTarget'
  <2>1. \A r \in Requests : state'[r] = "over" => state[r] = "over"
    BY <1>12
  <2> QED BY <1>1, <2>1 DEF IInv, ReachesTarget
<1>19. Typing'
  <2>1. RequestsTyped'
    <3>1. DOMAIN route' = Requests /\ \A r \in Requests : IsRoute(route'[r])
      BY <1>1, <1>2, <1>12
    <3>2. \A r \in Requests : state'[r] = "connecting" => route'[r].localPort \in EphemeralPorts
      BY <1>12 DEF IInv, Typing, RequestsTyped
    <3>3. DOMAIN arrived' = Requests
      BY <1>1 DEF IInv, Typing, RequestsTyped
    <3> QED BY <1>13, <3>1, <3>2, <3>3 DEF RequestsTyped, IsRoute
  <2>2. WaitingTyped'
    BY <1>7, <1>8 DEF WaitingTyped
  <2> QED BY <1>1, <2>1, <2>2 DEF IInv, Typing, CloudTyped, TablesTyped, PatTyped, TcpTyped,
             cloudVars, nmVars, patVars, tcpVars
<1> QED BY <1>14, <1>15, <1>16, <1>17, <1>18, <1>19 DEF IInv, Addresses

-----------------------------------------------------------------------------
(* A node closes the connections of a VM.                                  *)

\* The entry f of a user is e without the cell of v, whose address is a hole now.
WithoutCell(e, f, v, at) ==
  /\ f \in Entries /\ f.lastIP = e.lastIP
  /\ at \in [1 .. Len(f.cells) -> 1 .. Len(e.cells)]
  /\ \A i \in 1 .. Len(f.cells) : f.cells[i] = e.cells[at[i]] /\ e.cells[at[i]].vmID # v
  /\ \A i, j \in 1 .. Len(f.cells) : at[i] = at[j] => i = j
  /\ \A k \in 1 .. Len(e.cells) : e.cells[k].vmID # v => \E i \in 1 .. Len(f.cells) : at[i] = k
  /\ \A i \in 1 .. Len(f.holesIP) :
       \/ i \in 1 .. Len(e.holesIP) /\ f.holesIP[i] = e.holesIP[i]
       \/ /\ i = Len(e.holesIP) + 1
          /\ \E k \in 1 .. Len(e.cells) :
               e.cells[k].vmID = v /\ f.holesIP[i] = e.cells[k].virtualIP - IpBasis

LEMMA GivenBack ==
  ASSUME Typing, CellsKept, NEW v \in VM, NEW u \in User, DeleteVirtualIP_by_VMID(v, u)
  PROVE  /\ ipsCloud' \in [User -> Entries] /\ \A x \in User : x # u => ipsCloud'[x] = ipsCloud[x]
         /\ \E at : WithoutCell(ipsCloud[u], ipsCloud'[u], v, at)
<1> DEFINE S == [virtualIP : Int, ipNode : Node, vmID : VM]
<1>1. ipsCloud \in [User -> Entries]
  BY DEF Typing, TablesTyped
<1>2. PICK e \in Entries, c \in Seq(S), h \in Seq(Int), l \in Nat :
        e = ipsCloud[u] /\ e = [cells |-> c, holesIP |-> h, lastIP |-> l]
        /\ e.cells = c /\ e.holesIP = h /\ e.lastIP = l
  BY <1>1 DEF Entries
<1> HIDE DEF S
<1>3. PICK k : k = CellOfVM(u, v)
  OBVIOUS
<1>4. ipsCloud' = IF k = 0 THEN ipsCloud
                  ELSE [ipsCloud EXCEPT ![u] =
                         [e EXCEPT !.cells = RemoveAt(@, k), !.holesIP = Append(@, Hole(e.cells[k].virtualIP))]]
  BY <1>2, <1>3 DEF DeleteVirtualIP_by_VMID, CellOfVM
<1>5. Len(c) \in Nat /\ Len(h) \in Nat /\ \A i \in 1 .. Len(c) : c[i].virtualIP \in Int
  BY <1>2, CellTypes
<1>6. \A i, j \in 1 .. Len(c) : c[i].vmID = c[j].vmID => i = j
  <2>1. \A i, j \in 1 .. Len(ipsCloud[u].cells) :
          ipsCloud[u].cells[i].vmID = ipsCloud[u].cells[j].vmID => i = j
    BY DEF CellsKept
  <2>2. c = ipsCloud[u].cells
    BY <1>2
  <2> QED BY <2>1, <2>2
<1>7. CASE k = 0
  <2>1. \A i \in 1 .. Len(c) : c[i].vmID # v
    BY ZenonT(40), <1>2, <1>3, <1>7, CellFound
  <2> DEFINE at == [i \in 1 .. Len(c) |-> i]
  <2>2. at \in [1 .. Len(c) -> 1 .. Len(c)] /\ \A i \in 1 .. Len(c) : at[i] = i
    OBVIOUS
  <2> HIDE DEF at
  <2>3. WithoutCell(e, e, v, at)
    BY <1>2, <2>1, <2>2 DEF WithoutCell
  <2> QED BY <1>1, <1>2, <1>4, <1>7, <2>3
<1>8. CASE k # 0
  <2>1. k \in 1 .. Len(c) /\ c[k].vmID = v
    <3>1. k \in 1 .. Len(ipsCloud[u].cells) /\ ipsCloud[u].cells[k].vmID = v
      BY <1>3, <1>8, CellFound
    <3>2. c = ipsCloud[u].cells
      BY <1>2
    <3> QED BY <3>1, <3>2
  <2>2. PICK d \in Seq(S) : /\ d = RemoveAt(c, k) /\ Len(d) = Len(c) - 1
                            /\ \A i \in 1 .. Len(c) - 1 : d[i] = c[IF i < k THEN i ELSE i + 1]
    <3> QED BY <2>1, RemoveAtPlaces
  <2>3. PICK a \in Int : a = c[k].virtualIP /\ a - IpBasis \in Int
    BY <1>5, <2>1, BasisAssumption
  <2>4. PICK b \in Int : b = a - IpBasis
    BY <2>3
  <2>5. PICK g \in Seq(Int) : /\ g = Append(h, b) /\ Len(g) = Len(h) + 1 /\ g[Len(h) + 1] = b
                              /\ \A i \in 1 .. Len(h) : g[i] = h[i]
    <3>1. /\ Append(h, b) \in Seq(Int) /\ Len(Append(h, b)) = Len(h) + 1
          /\ Append(h, b)[Len(h) + 1] = b /\ \A i \in 1 .. Len(h) : Append(h, b)[i] = h[i]
      BY AppendProperties
    <3> QED BY <3>1
  <2>6. PICK f : f = [cells |-> d, holesIP |-> g, lastIP |-> l]
    OBVIOUS
  <2>7. f \in Entries /\ f.cells = d /\ f.holesIP = g /\ f.lastIP = l
    BY <2>6 DEF Entries, S
  <2>8. ipsCloud' = [ipsCloud EXCEPT ![u] = f]
    <3>1. Hole(e.cells[k].virtualIP) = b
      BY <1>2, <2>3, <2>4 DEF Hole
    <3>2. ipsCloud' = [ipsCloud EXCEPT ![u] = [e EXCEPT !.cells = RemoveAt(@, k), !.holesIP = Append(@, b)]]
      BY <1>4, <1>8, <3>1
    <3>3. [e EXCEPT !.cells = RemoveAt(@, k), !.holesIP = Append(@, b)] = f
      <4>1. [e EXCEPT !.cells = RemoveAt(@, k), !.holesIP = Append(@, b)]
              = [e EXCEPT !.cells = d, !.holesIP = g]
        BY <1>2, <2>2, <2>5
      <4>2. e = [cells |-> c, holesIP |-> h, lastIP |-> l]
        BY <1>2
      <4>3. PICK x : x = [cells |-> d, holesIP |-> h, lastIP |-> l]
        OBVIOUS
      <4>4. [e EXCEPT !.cells = d] = x
        <5>1. [[cells |-> c, holesIP |-> h, lastIP |-> l] EXCEPT !.cells = d]
                = [cells |-> d, holesIP |-> h, lastIP |-> l]
          BY OtherCells
        <5> QED BY <4>2, <4>3, <5>1, Zenon
      <4>5. [x EXCEPT !.holesIP = g] = f
        BY <2>6, <4>3
      <4> QED BY <4>1, <4>4, <4>5, Zenon
    <3> QED BY <3>2, <3>3
  <2> DEFINE at == [i \in 1 .. Len(d) |-> IF i < k THEN i ELSE i + 1]
  <2>17. PICK N \in Nat, M \in Nat : N = Len(c) /\ M = Len(d) /\ M = N - 1 /\ k \in 1 .. N /\ k \in Int
    BY <1>5, <2>1, <2>2
  <2>18. /\ at \in [1 .. M -> 1 .. N]
         /\ \A i \in 1 .. M : (i < k => at[i] = i) /\ (~(i < k) => at[i] = i + 1)
    BY <2>17
  <2> HIDE DEF at
  <2>9. at \in [1 .. Len(d) -> 1 .. Len(c)]
    BY <2>17, <2>18
  <2>10. \A i \in 1 .. Len(d) : at[i] # k /\ d[i] = c[at[i]]
    <3>1. ASSUME NEW i \in 1 .. M PROVE at[i] # k
      <4>1. (i < k /\ at[i] = i) \/ (k <= i /\ at[i] = i + 1)
        BY <2>17, <2>18
      <4>2. i \in Int /\ k \in Int
        BY <2>17
      <4> HIDE DEF at
      <4> QED BY <4>1, <4>2
    <3>2. ASSUME NEW i \in 1 .. M PROVE d[i] = c[at[i]]
      <4>1. i \in 1 .. Len(c) - 1
        BY <2>17
      <4>2. (i < k /\ at[i] = i) \/ (k <= i /\ at[i] = i + 1)
        BY <2>17, <2>18
      <4>3. d[i] = c[IF i < k THEN i ELSE i + 1]
        BY <2>2, <4>1
      <4>4. k <= i => ~(i < k)
        BY <2>17
      <4> QED BY <4>2, <4>3, <4>4
    <3> QED BY <2>17, <3>1, <3>2
  <2>11. \A i, j \in 1 .. Len(d) : at[i] = at[j] => i = j
    <3>1. ASSUME NEW i \in 1 .. M, NEW j \in 1 .. M, at[i] = at[j] PROVE i = j
      <4>1. (i < k /\ at[i] = i) \/ (k <= i /\ at[i] = i + 1)
        BY <2>17, <2>18
      <4>2. (j < k /\ at[j] = j) \/ (k <= j /\ at[j] = j + 1)
        BY <2>17, <2>18
      <4> QED BY <2>17, <3>1, <4>1, <4>2
    <3> QED BY <2>17, <3>1
  <2>12. ASSUME NEW j \in 1 .. Len(c), c[j].vmID # v PROVE \E i \in 1 .. Len(d) : at[i] = j
    <3>1. j # k /\ j \in 1 .. N
      BY <2>1, <2>12, <2>17
    <3>2. CASE j < k
      <4>1. j \in 1 .. M /\ at[j] = j
        BY <2>17, <2>18, <3>1, <3>2
      <4> QED BY <2>17, <4>1
    <3>3. CASE j > k
      <4>1. j - 1 \in 1 .. M /\ at[j - 1] = j
        BY <2>17, <2>18, <3>1, <3>3
      <4> QED BY <2>17, <4>1
    <3>4. j < k \/ j > k
      BY <2>17, <3>1
    <3> QED BY <3>2, <3>3, <3>4
  <2>13. \A i \in 1 .. Len(d) : c[at[i]].vmID # v
    BY <1>6, <2>1, <2>9, <2>10
  <2>14. \A i \in 1 .. Len(g) : \/ i \in 1 .. Len(h) /\ g[i] = h[i]
                                \/ i = Len(h) + 1 /\ g[i] = c[k].virtualIP - IpBasis
    BY SMTT(30), <1>5, <2>3, <2>4, <2>5
  <2>15. WithoutCell(e, f, v, at)
    BY <1>2, <2>1, <2>7, <2>9, <2>10, <2>11, <2>12, <2>13, <2>14 DEF WithoutCell
  <2>16. ipsCloud' \in [User -> Entries] /\ ipsCloud'[u] = f /\ \A x \in User : x # u => ipsCloud'[x] = ipsCloud[x]
    <3> HIDE DEF Entries
    <3> QED BY <1>1, <2>7, <2>8
  <2> QED BY <1>2, <2>15, <2>16
<1> QED BY <1>7, <1>8

\* The same of every user, for v has a cell of its owner only.
LEMMA CellsLeft ==
  ASSUME Typing, CellsKept, NEW v \in VM, DeleteVirtualIP_by_VMID(v, OwnerOf[v])
  PROVE  /\ ipsCloud' \in [User -> Entries]
         /\ \A u \in User : \E at : WithoutCell(ipsCloud[u], ipsCloud'[u], v, at)
<1>1. OwnerOf[v] \in User
  BY WorkloadAssumption
<1>2. /\ ipsCloud' \in [User -> Entries] /\ \A x \in User : x # OwnerOf[v] => ipsCloud'[x] = ipsCloud[x]
      /\ \E at : WithoutCell(ipsCloud[OwnerOf[v]], ipsCloud'[OwnerOf[v]], v, at)
  BY <1>1, GivenBack
<1>3. ASSUME NEW u \in User, u # OwnerOf[v] PROVE WithoutCell(ipsCloud[u], ipsCloud[u], v, [i \in 1 .. Len(ipsCloud[u].cells) |-> i])
  <2>1. PICK e : e = ipsCloud[u]
    OBVIOUS
  <2>2. e \in Entries
    BY <2>1, CellTypes
  <2>3. \A i \in 1 .. Len(e.cells) : e.cells[i].vmID # v
    BY <1>3, <2>1 DEF CellsKept
  <2>4. PICK at : at = [i \in 1 .. Len(e.cells) |-> i]
    OBVIOUS
  <2>5. at \in [1 .. Len(e.cells) -> 1 .. Len(e.cells)] /\ \A i \in 1 .. Len(e.cells) : at[i] = i
    BY <2>4
  <2>6. WithoutCell(e, e, v, at)
    BY <2>2, <2>3, <2>5 DEF WithoutCell
  <2> QED BY <2>1, <2>4, <2>6
<1>4. \A u \in User : \E at : WithoutCell(ipsCloud[u], ipsCloud'[u], v, at)
  BY <1>2, <1>3
<1> QED BY <1>2, <1>4

\* What a step of closing leaves as it was.
LEMMA CloseFacts ==
  ASSUME IInv, NEW v \in VM, NEW n \in Node, ManageCloseConnections(v, n)
  PROVE  /\ Simulating /\ life[v] = "closing" /\ n \in toClose[v] /\ toClose[v] \subseteq Places(v)
         /\ toClose' \in [VM -> SUBSET Node] /\ toClose'[v] = toClose[v] \ {n}
         /\ \A w \in VM : w # v => toClose'[w] = toClose[w]
         /\ UNCHANGED <<load, life, ready, listened, vms, portPtr, pendingVars, listening, reqVars>>
         /\ \A w : Places(w)' = Places(w)
         /\ \A m \in Node, w \in VM : (m # n \/ w # v) => Serves(m, w)' = Serves(m, w)
         /\ \A w \in VM : w # v => Addressed(w)' = Addressed(w)
<1>1. /\ Simulating /\ n \in toClose[v] /\ toClose' = [toClose EXCEPT ![v] = @ \ {n}]
      /\ UNCHANGED <<load, life, ready, listened, vms, portPtr, pendingVars, listening, reqVars>>
  BY DEF ManageCloseConnections
<1>2. toClose \in [VM -> SUBSET Node]
  BY DEF IInv, Typing, CloudTyped
<1>3. life[v] = "closing" /\ toClose[v] \subseteq Places(v)
  BY <1>1 DEF IInv, Closing
<1>4. /\ toClose' \in [VM -> SUBSET Node] /\ toClose'[v] = toClose[v] \ {n}
      /\ \A w \in VM : w # v => toClose'[w] = toClose[w]
  BY <1>1, <1>2
<1>5. \A w : Places(w)' = Places(w)
  BY <1>1 DEF Places
<1>6. \A m \in Node, w \in VM : (m # n \/ w # v) => Serves(m, w)' = Serves(m, w)
  BY <1>1, <1>4, <1>5 DEF Serves
<1>7. \A w \in VM : w # v => Addressed(w)' = Addressed(w)
  BY <1>1, <1>4, <1>5 DEF Addressed
<1> QED BY <1>1, <1>3, <1>4, <1>5, <1>6, <1>7

\* The addresses without that of v.
LEMMA CloseKeepsCells ==
  ASSUME AddressRoom, IInv, NEW v \in VM, NEW n \in Node, ManageCloseConnections(v, n)
  PROVE  CellsKept' /\ LinkedKept' /\ ipsCloud' \in [User -> Entries]
<1>1. DeleteVirtualIP_by_VMID(v, OwnerOf[v])
  BY DEF ManageCloseConnections
<1>2. /\ Typing /\ CellsKept /\ LinkedKept
  BY DEF IInv
<1>3. /\ ipsCloud' \in [User -> Entries]
      /\ \A u \in User : \E at : WithoutCell(ipsCloud[u], ipsCloud'[u], v, at)
  BY <1>1, <1>2, CellsLeft
<1>4. life[v] = "closing" /\ UNCHANGED <<life, vms>> /\ \A w \in VM : w # v => Addressed(w)' = Addressed(w)
  BY CloseFacts
<1>5. ASSUME NEW u \in User, NEW i \in 1 .. Len(ipsCloud'[u].cells)
      PROVE  \E k \in 1 .. Len(ipsCloud[u].cells) :
               ipsCloud'[u].cells[i] = ipsCloud[u].cells[k] /\ ipsCloud[u].cells[k].vmID # v
  <2>1. PICK at : WithoutCell(ipsCloud[u], ipsCloud'[u], v, at)
    BY <1>3
  <2>2. /\ at[i] \in 1 .. Len(ipsCloud[u].cells)
        /\ ipsCloud'[u].cells[i] = ipsCloud[u].cells[at[i]] /\ ipsCloud[u].cells[at[i]].vmID # v
    BY <2>1 DEF WithoutCell
  <2> QED BY <2>2
<1>6. ASSUME NEW u \in User, NEW k \in 1 .. Len(ipsCloud[u].cells), ipsCloud[u].cells[k].vmID # v
      PROVE  \E i \in 1 .. Len(ipsCloud'[u].cells) : ipsCloud'[u].cells[i] = ipsCloud[u].cells[k]
  <2>1. PICK at : WithoutCell(ipsCloud[u], ipsCloud'[u], v, at)
    BY <1>3
  <2>2. PICK i \in 1 .. Len(ipsCloud'[u].cells) : at[i] = k
    BY <1>6, <2>1 DEF WithoutCell
  <2>3. ipsCloud'[u].cells[i] = ipsCloud[u].cells[at[i]]
    BY <2>1 DEF WithoutCell
  <2> QED BY <2>2, <2>3
<1>7. ASSUME NEW u \in User, NEW i \in 1 .. Len(ipsCloud'[u].cells), NEW j \in 1 .. Len(ipsCloud'[u].cells),
             ipsCloud'[u].cells[i].vmID = ipsCloud'[u].cells[j].vmID
      PROVE  i = j
  <2>1. PICK at : WithoutCell(ipsCloud[u], ipsCloud'[u], v, at)
    BY <1>3
  <2>2. /\ at[i] \in 1 .. Len(ipsCloud[u].cells) /\ at[j] \in 1 .. Len(ipsCloud[u].cells)
        /\ ipsCloud'[u].cells[i] = ipsCloud[u].cells[at[i]]
        /\ ipsCloud'[u].cells[j] = ipsCloud[u].cells[at[j]]
    BY <2>1 DEF WithoutCell
  <2>3. at[i] = at[j]
    BY <1>2, <1>7, <2>2 DEF CellsKept
  <2> QED BY <2>1, <2>3 DEF WithoutCell
<1>8. CellsKept'
  <2> DEFINE There(w) == {Host[w]} \cup {l.node : l \in {k \in load'.listeners : k.vm = w}}
             Has(w) == life'[w] = "up" \/ (life'[w] = "closing" /\ toClose'[w] = There(w))
  <2>1. ASSUME NEW u \in User, NEW i \in 1 .. Len(ipsCloud'[u].cells)
        PROVE  /\ OwnerOf[ipsCloud'[u].cells[i].vmID] = u
               /\ ipsCloud'[u].cells[i].ipNode = Host[ipsCloud'[u].cells[i].vmID]
               /\ Has(ipsCloud'[u].cells[i].vmID)
    <3>1. PICK k \in 1 .. Len(ipsCloud[u].cells) :
            ipsCloud'[u].cells[i] = ipsCloud[u].cells[k] /\ ipsCloud[u].cells[k].vmID # v
      BY <1>5
    <3>2. PICK w \in VM : w = ipsCloud[u].cells[k].vmID
      BY <1>2, CellTypes
    <3>3. /\ OwnerOf[w] = u /\ ipsCloud[u].cells[k].ipNode = Host[w] /\ Addressed(w)
      BY <1>2, <3>2 DEF CellsKept
    <3>4. Has(w)
      <4>1. There(w) = Places(w)'
        BY DEF Places
      <4>2. Addressed(w)'
        BY <1>4, <3>1, <3>2, <3>3
      <4> QED BY <4>1, <4>2 DEF Addressed
    <3> HIDE DEF Has
    <3> QED BY <3>1, <3>2, <3>3, <3>4
  <2>2. \A u \in User : LET cells == ipsCloud'[u].cells IN
          /\ \A i \in 1 .. Len(cells) :
               /\ OwnerOf[cells[i].vmID] = u /\ cells[i].ipNode = Host[cells[i].vmID]
               /\ Has(cells[i].vmID)
          /\ \A i, j \in 1 .. Len(cells) : cells[i].vmID = cells[j].vmID => i = j
    <3> HIDE DEF Has
    <3> QED BY <1>7, <2>1
  <2> QED BY <2>2 DEF CellsKept, Addressed, Places, Has
<1>9. LinkedKept'
  <2>1. life' = life /\ vms' = vms
    BY <1>4
  <2>2. ASSUME NEW m \in Node, NEW i \in 1 .. Len(vms'[m])
        PROVE  /\ i \in 1 .. Len(vms[m]) /\ vms'[m][i].uid \in User
               /\ Host[vms'[m][i].pid] = m /\ vms'[m][i].uid = OwnerOf[vms'[m][i].pid]
               /\ life'[vms'[m][i].pid] \in {"up", "closing"}
    <3>1. i \in 1 .. Len(vms[m])
      BY <2>1
    <3>2. /\ vms[m][i].uid \in User /\ Host[vms[m][i].pid] = m /\ vms[m][i].uid = OwnerOf[vms[m][i].pid]
          /\ life[vms[m][i].pid] \in {"up", "closing"}
      BY <3>1, LinkedFacts
    <3> QED BY <2>1, <3>1, <3>2
  <2>3. ASSUME NEW m \in Node, NEW i \in 1 .. Len(vms'[m]), NEW j \in 1 .. Len(ipsCloud'[vms'[m][i].uid].cells),
               ipsCloud'[vms'[m][i].uid].cells[j].vmID = vms'[m][i].pid
        PROVE  ipsCloud'[vms'[m][i].uid].cells[j].virtualIP = vms'[m][i].virtualIP
    <3>1. i \in 1 .. Len(vms[m]) /\ vms'[m][i] = vms[m][i] /\ vms[m][i].uid \in User
      BY <2>1, <2>2
    <3>2. \A k \in 1 .. Len(ipsCloud[vms[m][i].uid].cells) :
            ipsCloud[vms[m][i].uid].cells[k].vmID = vms[m][i].pid
              => ipsCloud[vms[m][i].uid].cells[k].virtualIP = vms[m][i].virtualIP
      BY <3>1, LinkedFacts
    <3>3. PICK k \in 1 .. Len(ipsCloud[vms[m][i].uid].cells) :
            ipsCloud'[vms[m][i].uid].cells[j] = ipsCloud[vms[m][i].uid].cells[k]
      BY <1>5, <3>1
    <3> QED BY <2>3, <3>1, <3>2, <3>3
  <2>4. ASSUME NEW m \in Node, NEW i \in 1 .. Len(vms'[m]), NEW j \in 1 .. Len(vms'[m]),
               vms'[m][j].pid = vms'[m][i].pid
        PROVE  i = j
    BY <1>2, <2>1, <2>4, LinkedOnce
  <2>5. ASSUME NEW w \in VM, life'[w] = "up"
        PROVE  /\ \E i \in 1 .. Len(vms'[Host[w]]) : vms'[Host[w]][i].pid = w
               /\ \E i \in 1 .. Len(ipsCloud'[OwnerOf[w]].cells) : ipsCloud'[OwnerOf[w]].cells[i].vmID = w
    <3>1. life[w] = "up"
      BY <2>1, <2>5
    <3>2. /\ \E i \in 1 .. Len(vms[Host[w]]) : vms[Host[w]][i].pid = w
          /\ \E i \in 1 .. Len(ipsCloud[OwnerOf[w]].cells) : ipsCloud[OwnerOf[w]].cells[i].vmID = w
      BY <1>2, <3>1, Zenon DEF LinkedKept
    <3>3. PICK k \in 1 .. Len(ipsCloud[OwnerOf[w]].cells) : ipsCloud[OwnerOf[w]].cells[k].vmID = w
      BY <3>2
    <3>4. w # v /\ OwnerOf[w] \in User
      BY <1>4, <3>1, WorkloadAssumption
    <3>5. \E i \in 1 .. Len(ipsCloud'[OwnerOf[w]].cells) : ipsCloud'[OwnerOf[w]].cells[i] = ipsCloud[OwnerOf[w]].cells[k]
      BY <1>6, <3>3, <3>4
    <3> QED BY <2>1, <3>2, <3>3, <3>5
  <2>6. ASSUME NEW m \in Node, NEW i \in 1 .. Len(vms'[m])
        PROVE  LET b == vms'[m][i] IN
               /\ Host[b.pid] = m /\ b.uid = OwnerOf[b.pid] /\ life'[b.pid] \in {"up", "closing"}
               /\ \A j \in 1 .. Len(ipsCloud'[b.uid].cells) :
                    ipsCloud'[b.uid].cells[j].vmID = b.pid => ipsCloud'[b.uid].cells[j].virtualIP = b.virtualIP
               /\ \A j \in 1 .. Len(vms'[m]) : vms'[m][j].pid = b.pid => i = j
    <3>1. /\ Host[vms'[m][i].pid] = m /\ vms'[m][i].uid = OwnerOf[vms'[m][i].pid]
          /\ life'[vms'[m][i].pid] \in {"up", "closing"}
      BY <2>2
    <3>2. \A j \in 1 .. Len(ipsCloud'[vms'[m][i].uid].cells) :
            ipsCloud'[vms'[m][i].uid].cells[j].vmID = vms'[m][i].pid
              => ipsCloud'[vms'[m][i].uid].cells[j].virtualIP = vms'[m][i].virtualIP
      BY <2>3
    <3>3. \A j \in 1 .. Len(vms'[m]) : vms'[m][j].pid = vms'[m][i].pid => i = j
      BY <2>4
    <3> QED BY <3>1, <3>2, <3>3, Zenon
  <2> QED BY <2>5, <2>6, Zenon DEF LinkedKept
<1> QED BY <1>3, <1>8, <1>9

LEMMA RoomForOne ==
  ASSUME AddressRoom, NEW v \in VM PROVE IpBasis >= 1
<1>1. IsFiniteSet(VM) /\ Cardinality(VM) <= IpBasis /\ IpBasis \in Nat
  BY BasisAssumption DEF AddressRoom
<1>2. Cardinality(VM) \in Nat /\ (Cardinality(VM) = 0 <=> VM = {})
  BY <1>1, FS_CardinalityType, FS_EmptySet
<1> QED BY <1>1, <1>2

\* A hole is of the chain of the address given back: no other is of it.
LEMMA CloseKeepsChains ==
  ASSUME AddressRoom, IInv, NEW v \in VM, NEW n \in Node, ManageCloseConnections(v, n), NEW u \in User
  PROVE  Chains(u)'
<1> DEFINE c == ipsCloud[u].cells
           h == ipsCloud[u].holesIP
           d == ipsCloud'[u].cells
           g == ipsCloud'[u].holesIP
<1>1. DeleteVirtualIP_by_VMID(v, OwnerOf[v])
  BY DEF ManageCloseConnections
<1>2. /\ Typing /\ CellsKept /\ Chains(u)
  BY DEF IInv
<1>3. UNCHANGED <<life, vms>>
  BY CloseFacts
<1>4. PICK at : WithoutCell(ipsCloud[u], ipsCloud'[u], v, at)
  BY <1>1, <1>2, CellsLeft
<1>5. ipsCloud'[u].lastIP = ipsCloud[u].lastIP /\ IpBasis \in Int
  BY <1>4, BasisAssumption DEF WithoutCell
<1>6. /\ \A i \in 1 .. Len(d) : /\ at[i] \in 1 .. Len(c) /\ d[i] = c[at[i]] /\ c[at[i]].vmID # v
      /\ \A i, j \in 1 .. Len(d) : at[i] = at[j] => i = j
      /\ \A i \in 1 .. Len(g) :
           \/ i \in 1 .. Len(h) /\ g[i] = h[i]
           \/ /\ i = Len(h) + 1
              /\ \E k \in 1 .. Len(c) : c[k].vmID = v /\ g[i] = c[k].virtualIP - IpBasis
  BY <1>4 DEF WithoutCell
<1>7. /\ \A i \in 1 .. Len(c) : c[i].virtualIP \in Int
      /\ Len(h) \in Nat /\ \A i \in 1 .. Len(h) : h[i] \in Int
  BY <1>2, CellTypes
<1>8. /\ \A i, j \in 1 .. Len(c) : Chained(c[i].virtualIP, c[j].virtualIP) => i = j
      /\ \A i, j \in 1 .. Len(h) : Chained(h[i], h[j]) => i = j
      /\ \A i \in 1 .. Len(c), j \in 1 .. Len(h) : ~Chained(c[i].virtualIP, h[j])
  BY <1>2 DEF Chains
<1> DEFINE OfChain(a) == \E m \in IpBasis + 1 .. ipsCloud[u].lastIP : Chained(a, m)
<1>9. /\ \A i \in 1 .. Len(c) : OfChain(c[i].virtualIP)
      /\ \A i \in 1 .. Len(h) : OfChain(h[i])
  BY <1>2 DEF Chains
<1>10. \A m \in IpBasis + 1 .. ipsCloud[u].lastIP : m \in Int
  BY <1>2, BasisAssumption, CellTypes
\* The address behind a place in the list of holes: that of v, or the hole itself.
<1>11. ASSUME NEW i \in 1 .. Len(g)
       PROVE  /\ g[i] \in Int
              /\ \/ i \in 1 .. Len(h) /\ g[i] = h[i]
                 \/ /\ i = Len(h) + 1
                    /\ \E k \in 1 .. Len(c) : c[k].vmID = v /\ Chained(g[i], c[k].virtualIP) /\ Chained(c[k].virtualIP, g[i])
  <2>1. CASE i \in 1 .. Len(h) /\ g[i] = h[i]
    BY <1>7, <2>1
  <2>2. ASSUME i = Len(h) + 1, NEW k \in 1 .. Len(c), c[k].vmID = v, g[i] = c[k].virtualIP - IpBasis
        PROVE  g[i] \in Int /\ Chained(g[i], c[k].virtualIP) /\ Chained(c[k].virtualIP, g[i])
    <3>1. PICK a \in Int : a = c[k].virtualIP /\ a - IpBasis \in Int /\ g[i] = a - IpBasis
      BY <1>5, <1>7, <2>2
    <3>2. Chained(a - IpBasis, a) /\ Chained(a, a - IpBasis)
      BY <3>1, ChainedLaws
    <3> QED BY <3>1, <3>2
  <2> QED BY <1>6, <2>1, <2>2
<1> HIDE DEF c, h, d, g, OfChain
<1>12. ASSUME NEW i \in 1 .. Len(d), NEW j \in 1 .. Len(d), Chained(d[i].virtualIP, d[j].virtualIP)
       PROVE  i = j
  BY SMTT(30), <1>6, <1>8, <1>12
<1>13. ASSUME NEW i \in 1 .. Len(g), NEW j \in 1 .. Len(g), Chained(g[i], g[j])
       PROVE  i = j
  <2>1. CASE i \in 1 .. Len(h) /\ g[i] = h[i] /\ j \in 1 .. Len(h) /\ g[j] = h[j]
    BY <1>8, <1>13, <2>1
  <2>2. ASSUME i \in 1 .. Len(h), g[i] = h[i], NEW k \in 1 .. Len(c), Chained(g[j], c[k].virtualIP)
        PROVE  FALSE
    <3>1. Chained(h[i], c[k].virtualIP)
      BY <1>7, <1>11, <1>13, <2>2, ChainedLaws
    <3>2. Chained(c[k].virtualIP, h[i])
      BY <1>7, <2>2, <3>1, ChainedLaws
    <3> QED BY <1>8, <2>2, <3>2
  <2>3. ASSUME j \in 1 .. Len(h), g[j] = h[j], NEW k \in 1 .. Len(c), Chained(c[k].virtualIP, g[i])
        PROVE  FALSE
    <3>1. Chained(c[k].virtualIP, h[j])
      BY <1>7, <1>11, <1>13, <2>3, ChainedLaws
    <3> QED BY <1>8, <2>3, <3>1
  <2> QED BY <1>11, <2>1, <2>2, <2>3
<1>14. ASSUME NEW i \in 1 .. Len(d), NEW j \in 1 .. Len(g), Chained(d[i].virtualIP, g[j])
       PROVE  FALSE
  <2>1. at[i] \in 1 .. Len(c) /\ d[i] = c[at[i]] /\ c[at[i]].vmID # v
    BY <1>6
  <2>2. CASE j \in 1 .. Len(h) /\ g[j] = h[j]
    BY <1>8, <1>14, <2>1, <2>2
  <2>3. ASSUME NEW k \in 1 .. Len(c), c[k].vmID = v, Chained(g[j], c[k].virtualIP)
        PROVE  FALSE
    <3>1. Chained(c[at[i]].virtualIP, c[k].virtualIP)
      <4>1. PICK x \in Int, y \in Int, z \in Int : x = d[i].virtualIP /\ y = g[j] /\ z = c[k].virtualIP
        BY <1>7, <1>11, <2>1
      <4>2. Chained(x, z)
        BY <1>14, <2>3, <4>1, ChainedLaws
      <4> QED BY <2>1, <4>1, <4>2
    <3>2. at[i] = k
      BY <1>8, <2>1, <3>1
    <3> QED BY <2>1, <2>3, <3>2
  <2> QED BY <1>11, <2>2, <2>3
<1>15. \A i \in 1 .. Len(d) : OfChain(d[i].virtualIP)
  BY <1>6, <1>9
<1>16. ASSUME NEW i \in 1 .. Len(g) PROVE OfChain(g[i])
  <2>1. CASE i \in 1 .. Len(h) /\ g[i] = h[i]
    BY <1>9, <2>1
  <2>2. ASSUME NEW k \in 1 .. Len(c), Chained(g[i], c[k].virtualIP) PROVE OfChain(g[i])
    <3>1. PICK m \in IpBasis + 1 .. ipsCloud[u].lastIP : Chained(c[k].virtualIP, m)
      BY <1>9 DEF OfChain
    <3>2. Chained(g[i], m)
      <4>1. PICK x \in Int, y \in Int, z \in Int : x = g[i] /\ y = c[k].virtualIP /\ z = m
        BY <1>7, <1>10, <1>11
      <4> QED BY <2>2, <3>1, <4>1, ChainedLaws
    <3> QED BY <3>2 DEF OfChain
  <2> QED BY <1>11, <2>1, <2>2
<1>17. /\ IpBasis <= ipsCloud'[u].lastIP
       /\ ipsCloud'[u].lastIP <= IpBasis + Cardinality({w \in VM : OwnerOf[w] = u /\ life'[w] # "off"})
  BY <1>2, <1>3, <1>5 DEF Chains
<1>18. \A m \in Node : \A i \in 1 .. Len(vms[m]) : vms[m][i].uid = u => OfChain(vms[m][i].virtualIP)
  BY <1>2 DEF Chains, OfChain
<1> QED BY <1>3, <1>5, <1>12, <1>13, <1>14, <1>15, <1>16, <1>17, <1>18 DEF Chains, d, g, OfChain

LEMMA CloseKeepsForward ==
  ASSUME AddressRoom, IInv, NEW v \in VM, NEW n \in Node, ManageCloseConnections(v, n)
  PROVE  Forward'
<1>1. DeleteVirtualIP_by_VMID(v, OwnerOf[v])
  BY DEF ManageCloseConnections
<1>2. Typing /\ CellsKept /\ Forward
  BY DEF IInv
<1>3. UNCHANGED vms
  BY CloseFacts
<1>4. IpBasis \in Int /\ IpBasis >= 1
  BY BasisAssumption, RoomForOne
<1>5. ASSUME NEW m \in Node, NEW i \in 1 .. Len(vms[m])
      PROVE  /\ \A j \in 1 .. Len(ipsCloud'[vms[m][i].uid].cells) :
                  Chained(vms[m][i].virtualIP, ipsCloud'[vms[m][i].uid].cells[j].virtualIP)
                    => ipsCloud'[vms[m][i].uid].cells[j].virtualIP <= vms[m][i].virtualIP
             /\ \A j \in 1 .. Len(ipsCloud'[vms[m][i].uid].holesIP) :
                  Chained(vms[m][i].virtualIP, ipsCloud'[vms[m][i].uid].holesIP[j])
                    => ipsCloud'[vms[m][i].uid].holesIP[j] < vms[m][i].virtualIP
  <2>1. PICK u \in User, x \in Int : u = vms[m][i].uid /\ x = vms[m][i].virtualIP
    BY LinkedFacts
  <2>2. PICK at : WithoutCell(ipsCloud[u], ipsCloud'[u], v, at)
    BY <1>1, <1>2, CellsLeft
  <2> DEFINE c == ipsCloud[u].cells
             h == ipsCloud[u].holesIP
             d == ipsCloud'[u].cells
             g == ipsCloud'[u].holesIP
  <2>3. /\ \A j \in 1 .. Len(d) : at[j] \in 1 .. Len(c) /\ d[j] = c[at[j]]
        /\ \A j \in 1 .. Len(g) :
             \/ j \in 1 .. Len(h) /\ g[j] = h[j]
             \/ \E k \in 1 .. Len(c) : g[j] = c[k].virtualIP - IpBasis
    BY <2>2 DEF WithoutCell
  <2>4. /\ \A j \in 1 .. Len(c) : c[j].virtualIP \in Int
        /\ \A j \in 1 .. Len(h) : h[j] \in Int
    BY <1>2, CellTypes
  <2>5. /\ \A j \in 1 .. Len(c) : Chained(x, c[j].virtualIP) => c[j].virtualIP <= x
        /\ \A j \in 1 .. Len(h) : Chained(x, h[j]) => h[j] < x
    BY <1>2, <2>1 DEF Forward
  <2> HIDE DEF c, h, d, g
  <2>6. \A j \in 1 .. Len(d) : Chained(x, d[j].virtualIP) => d[j].virtualIP <= x
    BY <2>3, <2>5
  <2>7. ASSUME NEW j \in 1 .. Len(g), Chained(x, g[j]) PROVE g[j] < x
    <3>1. CASE j \in 1 .. Len(h) /\ g[j] = h[j]
      BY <2>5, <2>7, <3>1
    <3>2. ASSUME NEW k \in 1 .. Len(c), g[j] = c[k].virtualIP - IpBasis
          PROVE  g[j] < x
      <4>1. PICK a \in Int, b \in Int : a = c[k].virtualIP /\ b = a - IpBasis /\ g[j] = b
        BY <1>4, <2>4, <3>2
      <4>2. Chained(b, a)
        BY <4>1, ChainedLaws
      <4>3. Chained(x, a)
        BY <2>7, <4>1, <4>2, ChainedLaws
      <4>4. a <= x
        BY <2>5, <4>1, <4>3
      <4> QED BY <1>4, <4>1, <4>4
    <3> QED BY <2>3, <3>1, <3>2
  <2> QED BY <2>1, <2>6, <2>7 DEF d, g
<1>6. ASSUME NEW m \in Node, NEW i \in 1 .. Len(vms'[m])
      PROVE  /\ \A j \in 1 .. Len(ipsCloud'[vms'[m][i].uid].cells) :
                  Chained(vms'[m][i].virtualIP, ipsCloud'[vms'[m][i].uid].cells[j].virtualIP)
                    => ipsCloud'[vms'[m][i].uid].cells[j].virtualIP <= vms'[m][i].virtualIP
             /\ \A j \in 1 .. Len(ipsCloud'[vms'[m][i].uid].holesIP) :
                  Chained(vms'[m][i].virtualIP, ipsCloud'[vms'[m][i].uid].holesIP[j])
                    => ipsCloud'[vms'[m][i].uid].holesIP[j] < vms'[m][i].virtualIP
  <2>1. vms' = vms /\ i \in 1 .. Len(vms[m])
    BY <1>3
  <2> QED BY <1>5, <2>1, Zenon
<1>7. ASSUME NEW m \in Node, NEW o \in Node, NEW i \in 1 .. Len(vms'[m]), NEW j \in 1 .. Len(vms'[o]),
             vms'[m][i].uid = vms'[o][j].uid, vms'[m][i].virtualIP = vms'[o][j].virtualIP
      PROVE  vms'[m][i].pid = vms'[o][j].pid
  BY <1>2, <1>3, <1>7 DEF Forward
<1> QED BY ZenonT(40), <1>6, <1>7 DEF Forward

\* The table of ports without those of v on the node.
LEMMA CloseKeepsTable ==
  ASSUME IInv, NEW v \in VM, NEW n \in Node, ManageCloseConnections(v, n)
  PROVE  /\ portsPerNode' \in [Node -> Seq(PortCells)]
         /\ \A m \in Node : \A i \in 1 .. Len(portsPerNode'[m]) :
              /\ \E k \in 1 .. Len(portsPerNode[m]) : portsPerNode'[m][i] = portsPerNode[m][k]
              /\ m = n => ~(portsPerNode'[m][i].user = OwnerOf[v] /\ portsPerNode'[m][i].vmID = v)
<1>1. portsPerNode \in [Node -> Seq(PortCells)]
  BY DEF IInv, Typing, TablesTyped
<1>2. PICK s \in Seq(PortCells) : s = portsPerNode[n]
  BY <1>1
<1>3. PICK T : T = {p \in Range(s) : ~(p.user = OwnerOf[v] /\ p.vmID = v)}
  OBVIOUS
<1>4. PICK w : w = Within(s, T)
  OBVIOUS
<1>5. w \in Seq(PortCells \cap T)
      /\ \E at \in [1 .. Len(w) -> 1 .. Len(s)] : \A i \in 1 .. Len(w) : w[i] = s[at[i]]
  <2>1. /\ w \in Seq(PortCells \cap T)
        /\ \E at \in [1 .. Len(w) -> 1 .. Len(s)] :
             /\ \A i \in 1 .. Len(w) : w[i] = s[at[i]]
             /\ \A i, j \in 1 .. Len(w) : i < j => at[i] < at[j]
             /\ \A k \in 1 .. Len(s) : s[k] \in T => \E i \in 1 .. Len(w) : at[i] = k
    <3>1. s \in Seq(PortCells)
      BY <1>2
    <3> QED BY SMTT(30), <3>1, <1>4, WithinPlaces
  <2> HIDE DEF PortCells
  <2> QED BY <2>1
<1>6. portsPerNode' = [portsPerNode EXCEPT ![n] = w]
  BY <1>2, <1>3, <1>4 DEF ManageCloseConnections, FreeAllPortsOfVM
<1>7. w \in Seq(PortCells) /\ \A i \in 1 .. Len(w) : w[i] \in T
  <2> HIDE DEF PortCells
  <2> QED BY <1>5
<1>8. ASSUME NEW i \in 1 .. Len(w)
      PROVE  /\ \E k \in 1 .. Len(s) : w[i] = s[k]
             /\ ~(w[i].user = OwnerOf[v] /\ w[i].vmID = v)
  BY <1>3, <1>5, <1>7
<1> HIDE DEF PortCells
<1>9. portsPerNode' \in [Node -> Seq(PortCells)] /\ portsPerNode'[n] = w
      /\ \A m \in Node : m # n => portsPerNode'[m] = portsPerNode[m]
  BY <1>1, <1>6, <1>7
<1>10. ASSUME NEW m \in Node, NEW i \in 1 .. Len(portsPerNode'[m])
       PROVE  /\ \E k \in 1 .. Len(portsPerNode[m]) : portsPerNode'[m][i] = portsPerNode[m][k]
              /\ m = n => ~(portsPerNode'[m][i].user = OwnerOf[v] /\ portsPerNode'[m][i].vmID = v)
  <2>1. CASE m = n
    BY <1>2, <1>8, <1>9, <2>1
  <2>2. CASE m # n
    BY <1>9, <2>2
  <2> QED BY <2>1, <2>2
<1> QED BY <1>9, <1>10

\* The ports of v are free; the node does not know it any more.
LEMMA CloseKeepsPat ==
  ASSUME IInv, NEW v \in VM, NEW n \in Node, ManageCloseConnections(v, n)
  PROVE  /\ PatTyped' /\ inUse' \in [Node -> SUBSET EphemeralPorts]
         /\ \A m \in Node : \A w \in DOMAIN vmPorts'[m] : w \in DOMAIN vmPorts[m] /\ (m # n \/ w # v)
<1>1. /\ DOMAIN vmPorts = Node
      /\ \A m \in Node : /\ DOMAIN vmPorts[m] \subseteq VM
                         /\ \A w \in DOMAIN vmPorts[m] : vmPorts[m][w] \in Seq(PatPorts)
      /\ portPtr \in [Node -> Ports] /\ portHoles \in [Node -> Seq(Ports)]
      /\ established \in [Node -> SUBSET Ports] /\ inUse \in [Node -> SUBSET EphemeralPorts]
  BY DEF IInv, Typing, PatTyped, TcpTyped
<1>2. UNCHANGED portPtr
  BY CloseFacts
<1>3. CASE v \notin DOMAIN vmPorts[n]
  <2>1. UNCHANGED <<portHoles, established, inUse, vmPorts>>
    BY <1>3 DEF ManageCloseConnections
  <2> QED BY <1>1, <1>2, <1>3, <2>1 DEF PatTyped
<1>4. CASE v \in DOMAIN vmPorts[n]
  <2>1. PICK used, free :
          /\ used = Within(vmPorts[n][v], {p \in Range(vmPorts[n][v]) : p.connectionID # NoConnection})
          /\ free = [i \in DOMAIN used |-> used[i].rPort]
          /\ portHoles' = [portHoles EXCEPT ![n] = @ \o free]
          /\ established' = [established EXCEPT ![n] = @ \ Range(free)]
          /\ inUse' = [inUse EXCEPT ![n] = @ \ Range(free)]
          /\ vmPorts' = [vmPorts EXCEPT ![n] = [w \in DOMAIN @ \ {v} |-> @[w]]]
    BY ZenonT(40), <1>4 DEF ManageCloseConnections, PatCloseVM
  <2>2. free \in Seq(Ports)
    <3>1. vmPorts[n][v] \in Seq(PatPorts)
      BY <1>1, <1>4
    <3>2. used \in Seq(PatPorts \cap {p \in Range(vmPorts[n][v]) : p.connectionID # NoConnection})
      BY <2>1, <3>1, WithinPlaces
    <3>3. used \in Seq(PatPorts)
      <4> HIDE DEF PatPorts
      <4> QED BY <3>2
    <3>4. \A i \in 1 .. Len(used) : used[i].rPort \in Ports
      <4>1. \A i \in 1 .. Len(used) : used[i] \in PatPorts
        <5> HIDE DEF PatPorts
        <5> QED BY <3>3
      <4> QED BY <4>1 DEF PatPorts
    <3>5. PICK N \in Nat : N = Len(used) /\ DOMAIN used = 1 .. N
      <4> HIDE DEF PatPorts
      <4> QED BY <3>3
    <3>6. free = [i \in 1 .. N |-> used[i].rPort] /\ \A i \in 1 .. N : used[i].rPort \in Ports
      BY <2>1, <3>4, <3>5
    <3>7. free \in [1 .. N -> Ports]
      BY <3>6
    <3> QED BY <3>7
  <2>3. portHoles' \in [Node -> Seq(Ports)]
    <3>1. portHoles[n] \o free \in Seq(Ports)
      BY <1>1, <2>2
    <3> QED BY <1>1, <2>1, <3>1
  <2>4. established' \in [Node -> SUBSET Ports] /\ inUse' \in [Node -> SUBSET EphemeralPorts]
    BY <1>1, <2>1
  <2>5. PICK k : k = [w \in DOMAIN vmPorts[n] \ {v} |-> vmPorts[n][w]]
    OBVIOUS
  <2>6. /\ DOMAIN k = DOMAIN vmPorts[n] \ {v}
        /\ \A w \in DOMAIN k : k[w] = vmPorts[n][w]
    BY <2>5
  <2>7. DOMAIN vmPorts' = Node /\ vmPorts'[n] = k /\ \A m \in Node : m # n => vmPorts'[m] = vmPorts[m]
    BY <1>1, <2>1, <2>5
  <2>8. ASSUME NEW m \in Node
        PROVE  /\ DOMAIN vmPorts'[m] \subseteq VM
               /\ \A w \in DOMAIN vmPorts'[m] : vmPorts'[m][w] \in Seq(PatPorts)
               /\ \A w \in DOMAIN vmPorts'[m] : w \in DOMAIN vmPorts[m] /\ (m # n \/ w # v)
    <3>1. CASE m = n
      <4>1. DOMAIN vmPorts'[m] = DOMAIN vmPorts[m] \ {v} /\ \A w \in DOMAIN vmPorts'[m] : vmPorts'[m][w] = vmPorts[m][w]
        BY <2>6, <2>7, <3>1
      <4> QED BY <1>1, <4>1
    <3>2. CASE m # n
      <4>1. vmPorts'[m] = vmPorts[m]
        BY <2>7, <3>2
      <4> QED BY <1>1, <3>2, <4>1
    <3> QED BY <3>1, <3>2
  <2> QED BY <1>1, <1>2, <2>3, <2>4, <2>7, <2>8 DEF PatTyped
<1> QED BY <1>3, <1>4

LEMMA ManageCloseConnectionsKeeps ==
  ASSUME AddressRoom, IInv, NEW v \in VM, NEW n \in Node, ManageCloseConnections(v, n) PROVE IInv'
<1>1. /\ Simulating /\ life[v] = "closing" /\ n \in toClose[v] /\ toClose[v] \subseteq Places(v)
      /\ toClose' \in [VM -> SUBSET Node] /\ toClose'[v] = toClose[v] \ {n}
      /\ \A w \in VM : w # v => toClose'[w] = toClose[w]
      /\ UNCHANGED <<load, life, ready, listened, vms, portPtr, pendingVars, listening, reqVars>>
      /\ \A w : Places(w)' = Places(w)
      /\ \A m \in Node, w \in VM : (m # n \/ w # v) => Serves(m, w)' = Serves(m, w)
  BY CloseFacts
<1>2. CellsKept' /\ LinkedKept' /\ ipsCloud' \in [User -> Entries] /\ (\A u \in User : Chains(u)') /\ Forward'
  BY CloseKeepsCells, CloseKeepsChains, CloseKeepsForward
<1>3. /\ portsPerNode' \in [Node -> Seq(PortCells)]
      /\ \A m \in Node : \A i \in 1 .. Len(portsPerNode'[m]) :
           /\ \E k \in 1 .. Len(portsPerNode[m]) : portsPerNode'[m][i] = portsPerNode[m][k]
           /\ m = n => ~(portsPerNode'[m][i].user = OwnerOf[v] /\ portsPerNode'[m][i].vmID = v)
  BY CloseKeepsTable
<1>4. /\ PatTyped' /\ inUse' \in [Node -> SUBSET EphemeralPorts]
      /\ \A m \in Node : \A w \in DOMAIN vmPorts'[m] : w \in DOMAIN vmPorts[m] /\ (m # n \/ w # v)
  BY CloseKeepsPat
<1>5. Typing'
  <2>1. CloudTyped'
    BY <1>1 DEF IInv, Typing, CloudTyped
  <2>2. TablesTyped' /\ TcpTyped'
    BY <1>1, <1>2, <1>3, <1>4 DEF IInv, Typing, TablesTyped, TcpTyped
  <2> QED BY <1>1, <1>4, <2>1, <2>2 DEF IInv, Typing, WaitingTyped, RequestsTyped, IsRoute, pendingVars, reqVars
<1>6. Closing'
  <2>1. ASSUME NEW w \in VM
        PROVE  /\ toClose'[w] \subseteq Places(w) /\ (toClose'[w] # {} => life[w] = "closing")
               /\ life[w] \in {"closing", "gone"} =>
                    \A r \in load.requests : w \in {r.vm, r.to} => Finished(r)
    <3>1. CASE w = v
      BY <1>1, <3>1 DEF IInv, Closing
    <3>2. CASE w # v
      BY <1>1, <3>2 DEF IInv, Closing
    <3> QED BY <3>1, <3>2
  <2>2. \A r \in load.requests : state[r] # "idle" => life[r.vm] # "off"
    BY DEF IInv, Closing
  <2> QED BY <1>1, <2>1, <2>2 DEF Closing, Finished, reqVars
<1>7. PortsKept'
  <2>1. ASSUME NEW m \in Node, NEW w \in DOMAIN vmPorts'[m] PROVE Serves(m, w)'
    <3>1. w \in DOMAIN vmPorts[m] /\ (m # n \/ w # v)
      BY <1>4
    <3>2. w \in VM /\ Serves(m, w)
      BY <3>1 DEF IInv, PortsKept, Typing, PatTyped
    <3> QED BY <1>1, <3>1, <3>2
  <2>2. ASSUME NEW m \in Node, NEW k \in 1 .. Len(portsPerNode[m]), portsPerNode[m][k].vmID \in VM
        PROVE  /\ Serves(m, portsPerNode[m][k].vmID)
               /\ portsPerNode[m][k].user = OwnerOf[portsPerNode[m][k].vmID]
    BY <2>2 DEF IInv, PortsKept
  <2> DEFINE S(m, w) == m \in Places(w) /\ (life[w] = "up" \/ (life[w] = "closing" /\ m \in toClose'[w]))
  <2>3. ASSUME NEW m \in Node, NEW i \in 1 .. Len(portsPerNode'[m]), portsPerNode'[m][i].vmID \in VM
        PROVE  /\ S(m, portsPerNode'[m][i].vmID)
               /\ portsPerNode'[m][i].user = OwnerOf[portsPerNode'[m][i].vmID]
    <3>1. PICK k \in 1 .. Len(portsPerNode[m]) : portsPerNode'[m][i] = portsPerNode[m][k]
      BY <1>3
    <3>2. PICK w \in VM : w = portsPerNode'[m][i].vmID /\ w = portsPerNode[m][k].vmID
      BY <2>3, <3>1
    <3>3. Serves(m, w) /\ portsPerNode'[m][i].user = OwnerOf[w]
      BY <2>2, <3>1, <3>2
    <3>4. m # n \/ w # v
      BY <1>3, <3>2, <3>3
    <3>5. S(m, w)
      BY <1>1, <3>3, <3>4 DEF Serves
    <3> HIDE DEF S
    <3> QED BY <3>2, <3>3, <3>5
  <2> HIDE DEF S
  <2>5. \A m \in Node : \A i \in 1 .. Len(portsPerNode'[m]) :
          LET w == portsPerNode'[m][i].vmID
          IN w \in VM => S(m, w) /\ portsPerNode'[m][i].user = OwnerOf[w]
    BY <2>3
  <2> QED BY <1>1, <2>1, <2>5 DEF PortsKept, Serves, Places, S
<1>8. ListenersKept'
  <2>1. ASSUME NEW m \in Node, NEW i \in 1 .. Len(portsPerNode'[m]), portsPerNode'[m][i].vmID \in VM
        PROVE  \E j \in 1 .. Len(listening[m]) :
                 listening[m][j] = [port |-> portsPerNode'[m][i].rPort, app |-> portsPerNode'[m][i].vmID]
    <3>1. PICK k \in 1 .. Len(portsPerNode[m]) : portsPerNode'[m][i] = portsPerNode[m][k]
      BY <1>3
    <3>2. portsPerNode[m][k].vmID \in VM /\ error = "none"
      BY <1>1, <2>1, <3>1 DEF Simulating
    <3>3. \E j \in 1 .. Len(listening[m]) :
            listening[m][j] = [port |-> portsPerNode[m][k].rPort, app |-> portsPerNode[m][k].vmID]
      BY <3>2 DEF IInv, ListenersKept
    <3> QED BY <3>1, <3>3
  <2>2. \A m \in Node : \A i, j \in 1 .. Len(listening[m]) : listening[m][i].port = listening[m][j].port => i = j
    BY DEF IInv, ListenersKept
  <2>3. listening' = listening
    BY <1>1
  <2> QED BY <2>1, <2>2, <2>3 DEF ListenersKept
<1> QED BY <1>1, <1>2, <1>5, <1>6, <1>7, <1>8, WaitingFrame, RoutedFrame, ReachesFrame
        DEF IInv, reqVars, pendingVars

-----------------------------------------------------------------------------
(* The invariant holds, and what it says.                                  *)

LEMMA InitInv ==
  ASSUME Init PROVE IInv
<1>1. /\ ipsCloud = [u \in User |-> [cells |-> <<>>, holesIP |-> <<>>, lastIP |-> IpBasis]]
      /\ portsPerNode = [n \in Node |-> <<>>]
      /\ load \in Workloads
      /\ life = [v \in VM |-> "off"] /\ ready = {} /\ listened = {}
      /\ toClose = [v \in VM |-> {}] /\ vms = [n \in Node |-> <<>>]
  BY DEF Init, NetworkInit
<1>2. /\ vmPorts = [n \in Node |-> <<>>] /\ portPtr = [n \in Node |-> FirstPort]
      /\ portHoles = [n \in Node |-> <<>>] /\ established = [n \in Node |-> {}]
      /\ pending = [n \in Node |-> <<>>] /\ alarms = [n \in Node |-> 0]
      /\ listening = [n \in Node |-> <<>>] /\ inUse = [n \in Node |-> {}]
  BY DEF Init
<1>3. /\ state = [r \in Requests |-> "idle"] /\ route = [r \in Requests |-> NoRoute]
      /\ arrived = [r \in Requests |-> Nowhere]
  BY DEF Init
<1>4. FirstPort \in Ports /\ IpBasis \in Nat
  BY PortAssumption, BasisAssumption DEF Ports
<1>5. Typing
  <2>1. CloudTyped
    BY <1>1 DEF CloudTyped
  <2>2. TablesTyped
    <3>1. [cells |-> <<>>, holesIP |-> <<>>, lastIP |-> IpBasis] \in Entries
      BY <1>4 DEF Entries
    <3>2. ipsCloud \in [User -> Entries]
      <4> HIDE DEF Entries
      <4> QED BY <1>1, <3>1
    <3>3. portsPerNode \in [Node -> Seq(PortCells)]
      <4>1. <<>> \in Seq(PortCells)
        OBVIOUS
      <4> QED BY <1>1, <4>1
    <3> QED BY <3>2, <3>3 DEF TablesTyped
  <2>3. PatTyped
    BY <1>2, <1>4 DEF PatTyped
  <2>4. TcpTyped
    BY <1>2 DEF TcpTyped
  <2>5. RequestsTyped
    <3>1. IsRoute(NoRoute)
      BY DEF IsRoute, NoRoute
    <3> QED BY <1>3, <3>1 DEF RequestsTyped, States
  <2>6. WaitingTyped
    BY <1>2 DEF WaitingTyped
  <2> QED BY <2>1, <2>2, <2>3, <2>4, <2>5, <2>6 DEF Typing
<1>6. \A r \in load.requests : r \in Requests /\ r.vm \in VM
  BY <1>1, WorkloadAssumption DEF Requests
<1>7. WaitingKept
  BY <1>2, <1>3 DEF WaitingKept
<1>8. Closing
  BY <1>1, <1>3, <1>6 DEF Closing
<1>9. PortsKept /\ CellsKept /\ LinkedKept /\ ListenersKept
  BY <1>1, <1>2, WorkloadAssumption DEF PortsKept, CellsKept, LinkedKept, ListenersKept
<1>10. ASSUME NEW u \in User PROVE Chains(u)
  <2>1. {v \in VM : OwnerOf[v] = u /\ life[v] # "off"} = {}
    BY <1>1
  <2>2. Cardinality({v \in VM : OwnerOf[v] = u /\ life[v] # "off"}) = 0
    BY <2>1, FS_EmptySet
  <2>3. ipsCloud[u].cells = <<>> /\ ipsCloud[u].holesIP = <<>> /\ ipsCloud[u].lastIP = IpBasis
    BY <1>1
  <2> QED BY <1>1, <1>4, <2>2, <2>3 DEF Chains
<1>11. Forward
  BY <1>1 DEF Forward
<1>12. Routed /\ ReachesTarget
  BY <1>3 DEF Routed, ReachesTarget
<1> QED BY <1>5, <1>7, <1>8, <1>9, <1>10, <1>11, <1>12 DEF IInv

LEMMA NextInv ==
  ASSUME Limits, AddressRoom, IdsDiffer, IInv, [Next]_vars PROVE IInv'
<1>1. ASSUME NEW n \in Node, CheckPendingMessages(n) PROVE IInv'
  BY <1>1, CheckPendingMessagesKeeps
<1>2. ASSUME NEW r \in Requests, CreateConnection(r) PROVE IInv'
  BY <1>2, CreateConnectionKeeps
<1>3. ASSUME NEW r \in Requests, SetHBS(r) \/ TcpConnect(r) PROVE IInv'
  BY <1>3, SetHBSKeeps, TcpConnectKeeps
<1>4. ASSUME NEW r \in Requests, ConnectionStablished(r) PROVE IInv'
  BY <1>4, ConnectionStablishedKeeps
<1>5. ASSUME NEW r \in Requests, SendMessage(r) \/ ReceiveMessage(r) PROVE IInv'
  BY <1>5, SendMessageKeeps, ReceiveMessageKeeps
<1>6. ASSUME NEW v \in VM, NEW n \in Node, ManageCloseConnections(v, n) PROVE IInv'
  BY <1>6, ManageCloseConnectionsKeeps
<1>7. ASSUME NEW v \in VM, LinkVM(v) PROVE IInv'
  BY <1>7, LinkKeeps
<1>8. ASSUME NEW v \in VM, SetIOR(v) \/ CloseVMConnections(v) \/ UnlinkVM(v) PROVE IInv'
  BY <1>8, SetIORKeeps, CloseVMConnectionsKeeps, UnlinkKeeps
<1>9. ASSUME NEW l \in load.listeners, ManageListen(l) PROVE IInv'
  BY <1>9, ManageListenKeeps
<1>10. CASE UNCHANGED vars
  <2>1. UNCHANGED <<ipsCloud, portsPerNode, load, life, ready, listened, toClose, vms>>
    BY <1>10 DEF vars, nmVars, cloudVars
  <2>2. UNCHANGED <<vmPorts, portPtr, portHoles, established, pending, alarms, listening, inUse>>
    BY <1>10 DEF vars, patVars, pendingVars, tcpVars
  <2>3. UNCHANGED <<state, route, arrived, error>>
    BY <1>10 DEF vars, reqVars
  <2>4. Typing'
    BY <2>1, <2>2, <2>3 DEF IInv, Typing, CloudTyped, TablesTyped, PatTyped, TcpTyped, WaitingTyped,
       RequestsTyped, IsRoute
  <2>5. ListenersKept'
    BY <2>1, <2>2, <2>3 DEF IInv, ListenersKept
  <2> QED BY <2>1, <2>2, <2>3, <2>4, <2>5, WaitingFrame, ClosingFrame, PortsFrame, AddressesFrame,
             RoutedFrame, ReachesFrame
          DEF IInv, Addresses
<1> QED BY <1>1, <1>2, <1>3, <1>4, <1>5, <1>6, <1>7, <1>8, <1>9, <1>10 DEF Next, Events

\* The invariant of the network of the virtual machines: the addresses in use and
\* those given back are of different chains, a listener stands behind every port,
\* and the tables have only VMs that are not closed.
THEOREM Invariant == ASSUME Limits, AddressRoom, IdsDiffer PROVE Spec => []IInv
<1>1. Init => IInv
  BY InitInv
<1>2. IInv /\ [Next]_vars => IInv'
  BY NextInv
<1> QED BY <1>1, <1>2, PTL DEF Spec

\* The types of the state.
THEOREM TypeCorrect == ASSUME Limits, AddressRoom, IdsDiffer PROVE Spec => []TypeOK
<1>1. IInv => TypeOK
  <2> SUFFICES ASSUME IInv PROVE TypeOK
    OBVIOUS
  <2>1. Typing /\ WaitingKept
    BY DEF IInv
  <2>2. \A u \in User : ipsCloud[u].lastIP \in Nat /\ ipsCloud[u].holesIP \in Seq(Int)
    BY <2>1, CellTypes
  <2>3. ASSUME NEW n \in Node, NEW i \in DOMAIN portsPerNode[n] PROVE portsPerNode[n][i].rPort \in Ports
    <3>1. portsPerNode[n] \in Seq(PortCells)
      BY <2>1 DEF Typing, TablesTyped
    <3>2. portsPerNode[n][i] \in PortCells
      <4> HIDE DEF PortCells
      <4> QED BY <2>3, <3>1
    <3> QED BY <3>2 DEF PortCells
  <2>4. ASSUME NEW n \in Node, NEW i \in DOMAIN pending[n]
        PROVE  pending[n][i].timesEnqueued \in 0 .. MaxTimes + 1
    <3>1. pending[n] \in Seq(Waiters)
      BY <2>1 DEF Typing, WaitingTyped
    <3>2. i \in 1 .. Len(pending[n])
      <4> HIDE DEF Waiters
      <4> QED BY <2>4, <3>1
    <3> QED BY <2>1, <3>2 DEF WaitingKept
  <2> QED BY <2>1, <2>2, <2>3, <2>4
          DEF TypeOK, Typing, CloudTyped, PatTyped, TcpTyped, RequestsTyped, WaitingTyped
<1> QED BY <1>1, Invariant, PTL

\* Data sent over a connection comes out at the VM and the application that were
\* asked for: virtual addresses and ports of two users may be the same, and real
\* ports are given out again when a VM has been closed.
THEOREM DataArrives == ASSUME Limits, AddressRoom, IdsDiffer PROVE Spec => []ReachesTarget
<1>1. IInv => ReachesTarget
  BY DEF IInv
<1> QED BY <1>1, Invariant, PTL

\* No two linked VMs of a user have the same address on a node, and the address of
\* a VM that is up leads to it: newVIP, which gives an address that was given back
\* as its distance from ipBasis, never gives one in use.
THEOREM AddressesAreKept == ASSUME Limits, AddressRoom, IdsDiffer PROVE Spec => []AddressesKept
<1>1. IInv => AddressesKept
  <2> SUFFICES ASSUME IInv, NEW n \in Node, NEW i \in DOMAIN vms[n], NEW j \in DOMAIN vms[n]
               PROVE  /\ i # j /\ vms[n][i].uid = vms[n][j].uid => vms[n][i].virtualIP # vms[n][j].virtualIP
                      /\ life[vms[n][i].pid] = "up" =>
                           /\ SearchNodeIP(vms[n][i].virtualIP, vms[n][i].uid) = n
                           /\ GetVMid(vms[n][i].virtualIP, vms[n][i].uid) = vms[n][i].pid
    BY DEF AddressesKept
  <2>1. i \in 1 .. Len(vms[n]) /\ j \in 1 .. Len(vms[n])
    <3>1. vms[n] \in Seq(Linked)
      BY DEF IInv, Typing, CloudTyped
    <3> HIDE DEF Linked
    <3> QED BY <3>1
  <2>2. i # j /\ vms[n][i].uid = vms[n][j].uid => vms[n][i].virtualIP # vms[n][j].virtualIP
    BY <2>1, LinkedOnce DEF IInv, Forward
  <2>3. ASSUME life[vms[n][i].pid] = "up"
        PROVE  /\ SearchNodeIP(vms[n][i].virtualIP, vms[n][i].uid) = n
               /\ GetVMid(vms[n][i].virtualIP, vms[n][i].uid) = vms[n][i].pid
    <3>1. PICK v \in VM, u \in User :
            /\ v = vms[n][i].pid /\ u = vms[n][i].uid /\ u = OwnerOf[v] /\ Host[v] = n
      BY <2>1, LinkedFacts
    <3>2. LinkedKept /\ CellsKept /\ Typing /\ Chains(u)
      BY DEF IInv
    <3>3. PICK k \in 1 .. Len(ipsCloud[u].cells) : ipsCloud[u].cells[k].vmID = v
      <4>1. \E k \in 1 .. Len(ipsCloud[OwnerOf[v]].cells) : ipsCloud[OwnerOf[v]].cells[k].vmID = v
        BY <2>3, <3>1, <3>2, Zenon DEF LinkedKept
      <4> QED BY <3>1, <4>1
    <3>4. ipsCloud[u].cells[k].virtualIP = vms[n][i].virtualIP
      <4>1. \A l \in 1 .. Len(ipsCloud[vms[n][i].uid].cells) :
              ipsCloud[vms[n][i].uid].cells[l].vmID = vms[n][i].pid
                => ipsCloud[vms[n][i].uid].cells[l].virtualIP = vms[n][i].virtualIP
        <5>1. i \in 1 .. Len(vms[n])
          BY <2>1
        <5> QED BY <5>1, LinkedAddress
      <4> QED BY <3>1, <3>3, <4>1
    <3>5. ipsCloud[u].cells[k].ipNode = Host[v]
      BY <3>2, <3>3 DEF CellsKept
    <3>6. /\ SearchNodeIP(ipsCloud[u].cells[k].virtualIP, u) = ipsCloud[u].cells[k].ipNode
          /\ GetVMid(ipsCloud[u].cells[k].virtualIP, u) = ipsCloud[u].cells[k].vmID
      BY <3>2, AddressFound
    <3> QED BY <3>1, <3>3, <3>4, <3>5, <3>6
  <2> QED BY <2>2, <2>3
<1> QED BY <1>1, Invariant, PTL

\* When a VM is gone no address, no port on which it listened and no entry of a
\* port translation leads to it any more, on whatever nodes it had them.
THEOREM GoneIsClean == ASSUME Limits, AddressRoom, IdsDiffer PROVE Spec => []GoneLeavesNothing
<1>1. IInv => GoneLeavesNothing
  <2> SUFFICES ASSUME IInv, NEW v \in VM, life[v] = "gone"
               PROVE  /\ \A i \in DOMAIN ipsCloud[OwnerOf[v]].cells : ipsCloud[OwnerOf[v]].cells[i].vmID # v
                      /\ \A n \in Node : /\ v \notin DOMAIN vmPorts[n]
                                         /\ \A i \in DOMAIN portsPerNode[n] : portsPerNode[n][i].vmID # v
    BY DEF GoneLeavesNothing
  <2>1. ~Addressed(v) /\ \A n \in Node : ~Serves(n, v)
    BY DEF Addressed, Serves
  <2>2. PICK u \in User : u = OwnerOf[v]
    BY WorkloadAssumption
  <2>3. DOMAIN ipsCloud[u].cells = 1 .. Len(ipsCloud[u].cells)
    <3> DEFINE S == [virtualIP : Int, ipNode : Node, vmID : VM]
    <3>1. ipsCloud[u].cells \in Seq(S)
      BY CellTypes DEF IInv
    <3> HIDE DEF S
    <3> QED BY <3>1
  <2>4. \A i \in 1 .. Len(ipsCloud[u].cells) : ipsCloud[u].cells[i].vmID # v
    BY <2>1 DEF IInv, CellsKept
  <2>5. ASSUME NEW n \in Node
        PROVE  v \notin DOMAIN vmPorts[n] /\ \A i \in DOMAIN portsPerNode[n] : portsPerNode[n][i].vmID # v
    <3>1. DOMAIN portsPerNode[n] = 1 .. Len(portsPerNode[n])
      <4>1. portsPerNode[n] \in Seq(PortCells)
        BY DEF IInv, Typing, TablesTyped
      <4> HIDE DEF PortCells
      <4> QED BY <4>1
    <3>2. v \notin DOMAIN vmPorts[n]
      BY <2>1 DEF IInv, PortsKept
    <3>3. \A i \in 1 .. Len(portsPerNode[n]) : portsPerNode[n][i].vmID # v
      BY <2>1 DEF IInv, PortsKept
    <3> QED BY <3>1, <3>2, <3>3
  <2> QED BY <2>2, <2>3, <2>4, <2>5
<1> QED BY <1>1, Invariant, PTL
=============================================================================
