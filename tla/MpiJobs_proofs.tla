-------------------------- MODULE MpiJobs_proofs --------------------------
(***************************************************************************)
(* What holds for every parallel job: the types, and that nobody leaves a  *)
(* barrier or a gather before all have entered it (LeavesTogether); and    *)
(* for a job of ApplicationHPC, with any number of processes, sets and     *)
(* iterations, that the rounds of a set never mix (InRound), that a master *)
(* closes a round when all of its workers have ended it (RoundClosed) and  *)
(* that no check of the library or the application stops the simulation.   *)
(***************************************************************************)
EXTENDS MpiJobs, Induction, FiniteSetTheorems

(***************************************************************************)
(* Types.                                                                  *)
(***************************************************************************)
Ops == {"send", "bcast", "scatter", "gather", "barrierDown", "barrierUp"}

Messages == [op : Ops, src : Rank, size : Nat, round : Nat]

MpiCalls ==
  [call : {"none", "barrier"}] \cup [call : {"gather"}, pendingACKs : Int]
  \cup [call : {"recv", "bcast", "scatter"}, sender : Int, size : Nat]

Waits == {"none", "create", "read", "write", "memory", "cpu"}
Errors == {"none", "no connection", "unexpected gather", "wrong state", "I/O"}

Types ==
  /\ job \in Jobs
  /\ phase \in [Rank -> Phases]
  /\ open \in [Rank -> SUBSET Rank]
  /\ net \in [Rank -> [Rank -> Seq(Messages)]]
  /\ current \in [Rank -> MpiCalls]
  /\ calls \in [Rank -> Seq(Messages)]
  /\ barriers \in SUBSET Rank
  /\ running \in Rank \cup {Nobody}
  /\ waiting \in [Rank -> Waits]
  /\ error \in Errors
  /\ round \in [Rank -> Nat]
  /\ last \in [Rank -> [sent : Nat, taken : Nat]]
  /\ state \in [Rank -> States]
  /\ responses \in [Rank -> 0 .. UnsignedWrap - 1]
  /\ created \in SUBSET Rank

\* Every message of n is from the process whose connection it is on.
From(n) == \A a, b \in Rank : \A i \in 1 .. Len(n[a][b]) : n[a][b][i].src = a

\* A message says who sent it, and only some messages reach the list.
Sources ==
  /\ From(net)
  /\ \A p \in Rank : \A i \in 1 .. Len(calls[p]) : calls[p][i].op \in {"send", "bcast", "scatter"}

Opened == \A p \in Rank : open[p] \subseteq Connections(p)

(***************************************************************************)
(* ApplicationHPC: what one process does.                                  *)
(***************************************************************************)
MasterStates == {"MASTER_READING", "MASTER_DELIVERING", "MASTER_WAITING_RESULTS",
                 "MASTER_WRITTING"}
WorkStates   == {"WORKER_READING", "WORKER_ALLOCATING", "WORKER_PROCESSING", "WORKER_WRITTING"}

ResultsCall == [call |-> "recv", sender |-> AnySender, size |-> ResultSize]
DataCall(p) == [call |-> "recv", sender |-> GetMyMaster(p), size |-> InputSize]

Master(p) == state[p] \in MasterStates => IsMaster(p)
Worker(p) == state[p] \in WorkStates \cup {"WORKER_RECEIVING", "WORKER_SENDING_BACK"} => ~IsMaster(p)

\* A process does one thing at a time: it runs, or waits for a system call, or
\* is blocked in a call of MPI.
OneThing(p) ==
  /\ running = p => /\ current[p] = NoCall /\ waiting[p] = "none"
                    /\ phase[p] \notin {"started", "listening", "connecting"}
  /\ waiting[p] # "none" => current[p] = NoCall
  /\ phase[p] \in {"started", "listening", "connecting"} =>
       state[p] = "INIT" /\ current[p] = NoCall /\ waiting[p] = "none"

\* What it is blocked in, by its state.
Blocked(p) ==
  /\ state[p] \in {"MASTER_DELIVERING", "WORKER_SENDING_BACK"} => running = p
  /\ state[p] = "MASTER_WAITING_RESULTS" => running = p \/ current[p] = ResultsCall
  /\ state[p] = "WORKER_RECEIVING"       => running = p \/ current[p] = DataCall(p)
  /\ current[p] # NoCall => state[p] \in {"MASTER_WAITING_RESULTS", "WORKER_RECEIVING"}

(***************************************************************************)
(* A master and one of its workers, in one round of the master.            *)
(***************************************************************************)
Data(m)      == [op |-> "send", src |-> m, size |-> InputSize, round |-> round[m]]
Result(m, w) == [op |-> "send", src |-> w, size |-> ResultSize, round |-> round[m]]

\* The worker has not got the data of its round.
Awaits(w) == state[w] = "INIT" \/ (state[w] = "WORKER_RECEIVING" /\ running # w)

Nothing(m, w) == net[m][w] = <<>> /\ calls[w] = <<>> /\ net[w][m] = <<>>

Fresh(m, w) == round[w] = round[m] /\ Awaits(w) /\ Nothing(m, w)

Offered(m, w) ==
  /\ round[w] = round[m] /\ Awaits(w) /\ net[w][m] = <<>>
  /\ \/ net[m][w] = <<Data(m)>> /\ calls[w] = <<>>
     \/ net[m][w] = <<>> /\ calls[w] = <<Data(m)>> /\ state[w] = "INIT"

Working(m, w) ==
  /\ round[w] = round[m] /\ Nothing(m, w)
  /\ state[w] \in WorkStates \/ (state[w] = "WORKER_RECEIVING" /\ running = w)

Answered(m, w) ==
  /\ net[m][w] = <<>> /\ calls[w] = <<>> /\ net[w][m] = <<Result(m, w)>>
  /\ \/ round[w] = round[m] /\ state[w] = "WORKER_SENDING_BACK"
     \/ round[w] = round[m] + 1 /\ Awaits(w)

Done(m, w) == round[w] = round[m] + 1 /\ Awaits(w) /\ Nothing(m, w)

Pair(m, w) ==
  \/ (state[m] \in {"INIT", "MASTER_READING"} \/ job.workersSet < 2) /\ Fresh(m, w)
  \/ /\ job.workersSet >= 2
     /\ \/ state[m] = "MASTER_DELIVERING" /\ Offered(m, w)
        \/ /\ state[m] = "MASTER_WAITING_RESULTS"
           /\ Offered(m, w) \/ Working(m, w) \/ Answered(m, w) \/ Done(m, w)
        \/ state[m] = "MASTER_WRITTING" /\ Done(m, w)

\* Only a master and its workers talk.
Silent == \A p, q \in Rank : p \notin Workers(q) /\ q \notin Workers(p) => net[p][q] = <<>>

\* totalResponses counts the results that the master has not taken, and the one
\* that it has just taken.
Untaken(m) == {w \in Workers(m) : round[w] = round[m] \/ net[w][m] # <<>>}

Counted(m) ==
  state[m] = "MASTER_WAITING_RESULTS" /\ job.workersSet >= 2 =>
    responses[m] = Cardinality(Untaken(m)) + (IF running = m THEN 1 ELSE 0)

\* With no workers in the sets, a master waits for ever for the first result.
WaitsForNobody(m) ==
  job.workersSet < 2 => /\ state[m] # "MASTER_WRITTING"
                        /\ state[m] = "MASTER_WAITING_RESULTS" => running # m

\* What holds at a process.  A master takes what comes at once.
At(p) ==
  /\ Master(p) /\ Worker(p) /\ OneThing(p) /\ Blocked(p)
  /\ \A w \in Workers(p) : Pair(p, w)
  /\ \A m \in Rank : p \in Workers(m) => Pair(m, p)
  /\ Counted(p) /\ WaitsForNobody(p)
  /\ IsMaster(p) => calls[p] = <<>>
  /\ last[p].sent = last[p].taken

HpcInv == Silent /\ \A p \in Rank : At(p)

IInv == Types /\ Sources /\ Opened /\ (IsHPC => HpcInv)

-----------------------------------------------------------------------------
(* The list of arrived calls, and connections.                             *)

LEMMA RankType == job \in Jobs => job.numProcesses \in Nat \ {0} /\ Rank \subseteq Nat /\ Nobody \notin Rank
BY JobsAssumption DEF Rank, Nobody

Fits(m, c) == m.op = Partner(c) /\ (c.sender = AnySender \/ m.src = c.sender) /\ m.size = c.size

\* What SearchMPICall finds fits the call, and it finds something if there is any.
LEMMA Search ==
  ASSUME NEW S, NEW list \in Seq(S), NEW c
  PROVE  \/ /\ SearchMPICall(list, c) = 0
            /\ \A i \in 1 .. Len(list) : ~Fits(list[i], c)
         \/ /\ SearchMPICall(list, c) \in 1 .. Len(list) /\ SearchMPICall(list, c) # 0
            /\ Fits(list[SearchMPICall(list, c)], c)
<1> DEFINE I == {i \in 1 .. Len(list) : Fits(list[i], c)}
<1>1. Len(list) \in Nat
  OBVIOUS
<1>2. SearchMPICall(list, c) = IF I # {} THEN Min(I) ELSE 0
  BY DEF SearchMPICall, SelectInSeq, Fits
<1>3. CASE I = {}
  BY <1>2, <1>3
<1>4. CASE I # {}
  <2>1. Min(I) \in I
    BY <1>1, <1>4, MinIn
  <2> QED BY <1>1, <1>2, <1>4, <2>1
<1> QED BY <1>3, <1>4

LEMMA MessageIs ==
  ASSUME Types, NEW m \in Messages
  PROVE  m.op \in Ops /\ m.src \in Rank /\ m.size \in Nat /\ m.round \in Nat
BY DEF Messages

\* after is before, and msg from p to each process of Q.
Sent(after, before, p, Q, msg) ==
  \A a, b \in Rank :
    after[a][b] = IF a = p /\ b \in Q THEN Append(before[a][b], msg) ELSE before[a][b]

LEMMA SendDoes ==
  ASSUME Types, NEW p \in Rank, NEW Q, NEW msg \in Messages,
         NEW n \in [Rank -> [Rank -> Seq(Messages)]], SendDataToNetwork(p, Q, msg, n)
  PROVE  /\ net' \in [Rank -> [Rank -> Seq(Messages)]] /\ error' \in Errors
         /\ Sent(net', n, p, Q, msg)
         /\ msg.src = p /\ From(n) => From(net')
<1> DEFINE row == [q \in Rank |-> IF q \in Q THEN Append(n[p][q], msg) ELSE n[p][q]]
<1>1. row \in [Rank -> Seq(Messages)]
  <2>1. ASSUME NEW q \in Rank PROVE (IF q \in Q THEN Append(n[p][q], msg) ELSE n[p][q]) \in Seq(Messages)
    <3>1. n[p][q] \in Seq(Messages)
      OBVIOUS
    <3>2. PICK s \in Seq(Messages) : s = n[p][q]
      BY <3>1
    <3>3. Append(s, msg) \in Seq(Messages)
      BY AppendProperties
    <3> QED BY <3>2, <3>3
  <2> QED BY <2>1
<1>2. net' = [n EXCEPT ![p] = row]
  BY DEF SendDataToNetwork
<1>3. error' \in Errors
  BY DEF SendDataToNetwork, Types, Errors
<1>4. ASSUME NEW a \in Rank, NEW b \in Rank
      PROVE  net'[a][b] = IF a = p /\ b \in Q THEN Append(n[a][b], msg) ELSE n[a][b]
  BY <1>2
<1> HIDE DEF row
<1>5. net' \in [Rank -> [Rank -> Seq(Messages)]]
  BY <1>1, <1>2
<1>6. ASSUME msg.src = p, From(n), NEW a \in Rank, NEW b \in Rank, NEW i \in 1 .. Len(net'[a][b])
      PROVE  net'[a][b][i].src = a
  <2>1. PICK s \in Seq(Messages) : s = n[a][b]
    OBVIOUS
  <2>2. CASE a = p /\ b \in Q
    <3>1. net'[a][b] = Append(s, msg)
      BY <1>4, <2>1, <2>2
    <3>2. /\ Len(Append(s, msg)) = Len(s) + 1 /\ Append(s, msg)[Len(s) + 1] = msg
          /\ \A k \in 1 .. Len(s) : Append(s, msg)[k] = s[k]
      BY AppendProperties
    <3>3. Len(s) \in Nat
      OBVIOUS
    <3>4. i \in 1 .. Len(s) \/ i = Len(s) + 1
      BY <3>1, <3>2, <3>3
    <3>5. CASE i = Len(s) + 1
      BY <1>6, <2>2, <3>1, <3>2, <3>5
    <3>6. CASE i \in 1 .. Len(s)
      BY <1>6, <2>1, <3>1, <3>2, <3>6 DEF From
    <3> QED BY <3>4, <3>5, <3>6
  <2>3. CASE ~(a = p /\ b \in Q)
    BY <1>4, <1>6, <2>3 DEF From
  <2> QED BY <2>2, <2>3
<1>7. Sent(net', n, p, Q, msg)
  BY <1>4 DEF Sent
<1>8. msg.src = p /\ From(n) => From(net')
  BY <1>6 DEF From
<1> QED BY <1>3, <1>5, <1>7, <1>8

LEMMA SyncDoes ==
  ASSUME Types, NEW p \in Rank, NEW c \in MpiCalls, NEW list \in Seq(Messages),
         round' \in [Rank -> Nat], Synchronize(p, c, list),
         \A i \in 1 .. Len(list) : list[i].op \in {"send", "bcast", "scatter"}
  PROVE  /\ current' \in [Rank -> MpiCalls] /\ calls' \in [Rank -> Seq(Messages)]
         /\ running' \in Rank \cup {Nobody} /\ last' \in [Rank -> [sent : Nat, taken : Nat]]
         /\ \A i \in 1 .. Len(calls'[p]) : calls'[p][i].op \in {"send", "bcast", "scatter"}
         /\ \A q \in Rank \ {p} : calls'[q] = calls[q] /\ current'[q] = current[q]
<1> DEFINE k == SearchMPICall(list, c)
<1>1. NoCall \in MpiCalls
  BY DEF NoCall, MpiCalls
<1>2. CASE k = 0
  <2>1. /\ current' = [current EXCEPT ![p] = c] /\ calls' = [calls EXCEPT ![p] = list]
        /\ running' = Nobody /\ last' = last
    BY <1>2 DEF Synchronize
  <2> QED BY <2>1 DEF Types
<1>3. CASE k # 0
  <2>1. k \in 1 .. Len(list)
    BY <1>3, Search
  <2>2. /\ current' = [current EXCEPT ![p] = NoCall] /\ calls' = [calls EXCEPT ![p] = RemoveAt(list, k)]
        /\ running' = p /\ last' = [last EXCEPT ![p] = [sent |-> list[k].round, taken |-> round'[p]]]
    BY <1>3 DEF Synchronize, Clear
  <2>3. PICK r \in Seq(Messages) : /\ r = RemoveAt(list, k) /\ Len(r) = Len(list) - 1
                                   /\ \A i \in 1 .. Len(list) - 1 : r[i] = list[IF i < k THEN i ELSE i + 1]
    BY <2>1, RemoveAtPlaces
  <2>4. Len(list) \in Nat
    OBVIOUS
  <2>5. \A i \in 1 .. Len(r) : r[i].op \in {"send", "bcast", "scatter"}
    <3>1. ASSUME NEW i \in 1 .. Len(r) PROVE r[i].op \in {"send", "bcast", "scatter"}
      <4>1. (IF i < k THEN i ELSE i + 1) \in 1 .. Len(list) /\ i \in 1 .. Len(list) - 1
        BY <2>1, <2>3, <2>4
      <4> QED BY <2>3, <4>1
    <3> QED BY <3>1
  <2>6. list[k] \in Messages
    BY <2>1, <2>4
  <2>7. [sent |-> list[k].round, taken |-> round'[p]] \in [sent : Nat, taken : Nat]
    BY <2>6, MessageIs
  <2> HIDE DEF k
  <2> QED BY <1>1, <2>2, <2>3, <2>5, <2>7 DEF Types
<1> QED BY <1>2, <1>3

\* The messages after the first one of the connection from q to p is taken.
LEMMA TakeDoes ==
  ASSUME Types, Sources, NEW p \in Rank, NEW q \in Rank, net[q][p] # <<>>
  PROVE  LET n == [net EXCEPT ![q][p] = Tail(@)] IN
         /\ Head(net[q][p]) \in Messages /\ Head(net[q][p]).src = q
         /\ n \in [Rank -> [Rank -> Seq(Messages)]]
         /\ \A a, b \in Rank : n[a][b] = IF a = q /\ b = p THEN Tail(net[q][p]) ELSE net[a][b]
         /\ From(n)
<1> DEFINE n == [net EXCEPT ![q][p] = Tail(@)]
<1>1. net \in [Rank -> [Rank -> Seq(Messages)]]
  BY DEF Types
<1>2. PICK s \in Seq(Messages) : s = net[q][p]
  BY <1>1
<1>3. /\ Head(s) = s[1] /\ Head(s) \in Messages /\ 1 \in 1 .. Len(s) /\ Len(s) \in Nat
      /\ Tail(s) \in Seq(Messages) /\ Len(Tail(s)) = Len(s) - 1
      /\ \A i \in 1 .. Len(s) - 1 : Tail(s)[i] = s[i + 1]
  <2>1. s # <<>>
    BY <1>2
  <2> QED BY <2>1, HeadTailProperties
<1>4. s[1].src = q /\ \A i \in 1 .. Len(s) - 1 : s[i + 1].src = q
  BY <1>2, <1>3 DEF Sources, From
<1>5. n \in [Rank -> [Rank -> Seq(Messages)]]
  BY <1>1, <1>2, <1>3
<1>6. \A a, b \in Rank : n[a][b] = IF a = q /\ b = p THEN Tail(net[q][p]) ELSE net[a][b]
  BY <1>1
<1>7. ASSUME NEW a \in Rank, NEW b \in Rank, NEW i \in 1 .. Len(n[a][b]) PROVE n[a][b][i].src = a
  <2>1. CASE a = q /\ b = p
    <3>1. n[a][b] = Tail(s)
      BY <1>2, <1>6, <2>1
    <3>2. i \in 1 .. Len(s) - 1
      BY <1>3, <3>1
    <3> QED BY <1>3, <1>4, <2>1, <3>1, <3>2
  <2>2. CASE ~(a = q /\ b = p)
    <3>1. n[a][b] = net[a][b]
      BY <1>6, <2>2
    <3> QED BY <3>1 DEF Sources, From
  <2> QED BY <2>1, <2>2
<1>8. Head(net[q][p]) \in Messages /\ Head(net[q][p]).src = q
  BY <1>2, <1>3, <1>4
<1> HIDE DEF n
<1>9. From(n)
  BY <1>7 DEF From
<1> QED BY <1>5, <1>6, <1>8, <1>9 DEF n

-----------------------------------------------------------------------------
(* Types of a step: what is not the same, part by part.                    *)

Kept == UNCHANGED <<job, phase, open, waiting, round, hpcVars>>

LEMMA NoCallTyped == NoCall \in MpiCalls
BY DEF NoCall, MpiCalls

LEMMA BarriersTyped ==
  ASSUME Types, Sources, NEW p \in Rank, NEW c \in MpiCalls, NEW down \in SUBSET Rank,
         round' \in [Rank -> Nat], UNCHANGED <<calls, last>>,
         NEW n \in [Rank -> [Rank -> Seq(Messages)]],
         From(n),
         CheckBarriers(p, c, down, n)
  PROVE  /\ net' \in [Rank -> [Rank -> Seq(Messages)]] /\ error' \in Errors
         /\ current' \in [Rank -> MpiCalls] /\ barriers' \in SUBSET Rank
         /\ running' \in Rank \cup {Nobody}
         /\ From(net')
<1> DEFINE msg == Message(p, "barrierUp", 0)
<1>1. msg \in Messages /\ msg.src = p
  BY DEF Message, Messages, Ops
<1>2. CASE down = Rank
  <2>1. /\ barriers' = {} /\ SendDataToNetwork(p, Rank \ {MasterRank}, msg, n)
        /\ current' = [current EXCEPT ![p] = NoCall] /\ running' = p
    BY <1>2 DEF CheckBarriers, Clear
  <2> HIDE DEF msg
  <2>2. net' \in [Rank -> [Rank -> Seq(Messages)]] /\ error' \in Errors
    BY <1>1, <2>1, SendDoes
  <2>3. From(net')
    BY <1>1, <2>1, SendDoes
  <2> QED BY <2>1, <2>2, <2>3, NoCallTyped DEF Types
<1>3. CASE down # Rank
  <2>1. /\ barriers' = down /\ current' = [current EXCEPT ![p] = c]
        /\ running' = Nobody /\ net' = n /\ UNCHANGED error
    BY <1>3 DEF CheckBarriers
  <2> QED BY <2>1 DEF Types
<1> QED BY <1>2, <1>3

\* The types of the library's part of a step, and where messages come from.
LibraryTyped ==
  /\ net \in [Rank -> [Rank -> Seq(Messages)]] /\ current \in [Rank -> MpiCalls]
  /\ calls \in [Rank -> Seq(Messages)] /\ barriers \in SUBSET Rank
  /\ running \in Rank \cup {Nobody} /\ error \in Errors
  /\ last \in [Rank -> [sent : Nat, taken : Nat]]
  /\ Sources

LEMMA LibraryStep ==
  ASSUME UNCHANGED job,
         net' \in [Rank -> [Rank -> Seq(Messages)]], current' \in [Rank -> MpiCalls],
         calls' \in [Rank -> Seq(Messages)], barriers' \in SUBSET Rank,
         running' \in Rank \cup {Nobody}, error' \in Errors,
         last' \in [Rank -> [sent : Nat, taken : Nat]],
         From(net'),
         \A a \in Rank : \A i \in 1 .. Len(calls'[a]) : calls'[a][i].op \in {"send", "bcast", "scatter"}
  PROVE  LibraryTyped'
<1>1. Rank' = Rank /\ Messages' = Messages
  BY DEF Rank, Messages
<1>2. Sources'
  BY <1>1, Zenon DEF Sources, From
<1> QED BY <1>1, <1>2, Zenon DEF LibraryTyped

LEMMA SyncTyped ==
  ASSUME Types, Sources, NEW p \in Rank, NEW c \in MpiCalls, NEW list \in Seq(Messages),
         UNCHANGED job, round' \in [Rank -> Nat], Synchronize(p, c, list),
         \A i \in 1 .. Len(list) : list[i].op \in {"send", "bcast", "scatter"}
  PROVE  /\ current' \in [Rank -> MpiCalls] /\ calls' \in [Rank -> Seq(Messages)]
         /\ running' \in Rank \cup {Nobody} /\ last' \in [Rank -> [sent : Nat, taken : Nat]]
         /\ \A q \in Rank : \A i \in 1 .. Len(calls'[q]) : calls'[q][i].op \in {"send", "bcast", "scatter"}
<1>1. ASSUME NEW q \in Rank, NEW i \in 1 .. Len(calls'[q])
      PROVE  calls'[q][i].op \in {"send", "bcast", "scatter"}
  <2>1. CASE q = p
    BY <2>1, SyncDoes
  <2>2. CASE q # p
    <3>1. calls'[q] = calls[q]
      BY <2>2, SyncDoes
    <3> QED BY <3>1 DEF Sources
  <2> QED BY <2>1, <2>2
<1> QED BY <1>1, SyncDoes

LEMMA ArrivesTyped ==
  ASSUME Types, Sources, NEW p \in Rank, NEW q \in Rank, ProcessMPICallRequest(p, q)
  PROVE  LibraryTyped'
<1> DEFINE m == Head(net[q][p])
           n == [net EXCEPT ![q][p] = Tail(@)]
<1>1. /\ running = Nobody /\ net[q][p] # <<>>
      /\ UNCHANGED <<job, phase, open, waiting, round>>
  BY DEF ProcessMPICallRequest
<1>2. /\ m \in Messages /\ m.src = q /\ n \in [Rank -> [Rank -> Seq(Messages)]]
      /\ From(n)
  BY <1>1, TakeDoes
<1>3. Rank' = Rank /\ Messages' = Messages /\ round' \in [Rank -> Nat] /\ current[p] \in MpiCalls
  BY <1>1 DEF Rank, Messages, Types
<1>4. \/ /\ m.op \in {"send", "scatter", "bcast"}
         /\ Synchronize(p, current[p], Append(calls[p], m))
         /\ net' = n /\ UNCHANGED <<barriers, error>>
      \/ /\ CheckBarriers(p, current[p], barriers \cup {m.src}, n)
         /\ UNCHANGED <<calls, last>>
      \/ /\ Clear(p) /\ running' = p
         /\ net' = n /\ UNCHANGED <<calls, barriers, error, last>>
      \/ MpiGatherArrives(p) /\ net' = n /\ UNCHANGED barriers
  BY DEF ProcessMPICallRequest
<1> HIDE DEF m, n
<1>5. CASE /\ m.op \in {"send", "scatter", "bcast"}
           /\ Synchronize(p, current[p], Append(calls[p], m))
           /\ net' = n /\ UNCHANGED <<barriers, error>>
  <2>1. PICK s \in Seq(Messages) : s = calls[p]
    BY DEF Types
  <2>2. /\ Append(s, m) \in Seq(Messages) /\ Len(Append(s, m)) = Len(s) + 1
        /\ Append(s, m)[Len(s) + 1] = m /\ \A k \in 1 .. Len(s) : Append(s, m)[k] = s[k]
    BY <1>2, AppendProperties
  <2>3. ASSUME NEW i \in 1 .. Len(Append(s, m)) PROVE Append(s, m)[i].op \in {"send", "bcast", "scatter"}
    <3>1. Len(s) \in Nat /\ \A k \in 1 .. Len(s) : s[k].op \in {"send", "bcast", "scatter"}
      BY <2>1 DEF Sources
    <3>2. i \in 1 .. Len(s) \/ i = Len(s) + 1
      BY <2>2, <3>1
    <3> QED BY <1>5, <2>2, <3>1, <3>2
  <2>4. UNCHANGED job /\ Synchronize(p, current[p], Append(s, m))
    BY <1>1, <1>5, <2>1
  <2>5. /\ current' \in [Rank -> MpiCalls] /\ calls' \in [Rank -> Seq(Messages)]
        /\ running' \in Rank \cup {Nobody} /\ last' \in [Rank -> [sent : Nat, taken : Nat]]
        /\ \A r \in Rank : \A i \in 1 .. Len(calls'[r]) : calls'[r][i].op \in {"send", "bcast", "scatter"}
    BY <1>3, <2>2, <2>3, <2>4, SyncTyped
  <2>6. barriers' \in SUBSET Rank /\ error' \in Errors
    BY <1>5 DEF Types
  <2> QED BY <1>2, <1>5, <2>4, <2>5, <2>6, LibraryStep
<1>6. CASE CheckBarriers(p, current[p], barriers \cup {m.src}, n) /\ UNCHANGED <<calls, last>>
  <2>1. barriers \cup {m.src} \in SUBSET Rank
    BY <1>2 DEF Types
  <2>2. /\ net' \in [Rank -> [Rank -> Seq(Messages)]] /\ error' \in Errors
        /\ current' \in [Rank -> MpiCalls] /\ barriers' \in SUBSET Rank
        /\ running' \in Rank \cup {Nobody}
        /\ From(net')
    BY <1>2, <1>3, <1>6, <2>1, BarriersTyped
  <2>3. /\ calls' \in [Rank -> Seq(Messages)] /\ last' \in [Rank -> [sent : Nat, taken : Nat]]
        /\ \A a \in Rank : \A i \in 1 .. Len(calls'[a]) : calls'[a][i].op \in {"send", "bcast", "scatter"}
    BY <1>6 DEF Types, Sources
  <2> QED BY <1>1, <2>2, <2>3, LibraryStep
<1>7. CASE Clear(p) /\ running' = p /\ net' = n /\ UNCHANGED <<calls, barriers, error, last>>
  <2>1. current' \in [Rank -> MpiCalls]
    BY <1>7, NoCallTyped DEF Clear, Types
  <2>2. /\ calls' \in [Rank -> Seq(Messages)] /\ last' \in [Rank -> [sent : Nat, taken : Nat]]
        /\ \A a \in Rank : \A i \in 1 .. Len(calls'[a]) : calls'[a][i].op \in {"send", "bcast", "scatter"}
        /\ barriers' \in SUBSET Rank /\ error' \in Errors /\ running' \in Rank \cup {Nobody}
    BY <1>7 DEF Types, Sources
  <2> QED BY <1>1, <1>2, <1>7, <2>1, <2>2, LibraryStep
<1>8. CASE MpiGatherArrives(p) /\ net' = n /\ UNCHANGED barriers
  <2> DEFINE left == current[p].pendingACKs - 1
  <2>1. UNCHANGED <<calls, last>>
    BY <1>8 DEF MpiGatherArrives
  <2>2. /\ current' \in [Rank -> MpiCalls] /\ running' \in Rank \cup {Nobody}
        /\ error' \in Errors
    <3>1. CASE current[p].call # "gather"
      BY <1>8, <3>1 DEF MpiGatherArrives, Types, Errors
    <3>2. CASE current[p].call = "gather"
      <4>1. current[p] \in [call : {"gather"}, pendingACKs : Int]
        BY <1>3, <3>2 DEF MpiCalls
      <4>2. left \in Int /\ [current[p] EXCEPT !.pendingACKs = left] \in MpiCalls
        BY <4>1 DEF MpiCalls
      <4>3. UNCHANGED error
        BY <1>8, <3>2 DEF MpiGatherArrives
      <4>4. CASE left = 0
        BY <1>8, <3>2, <4>3, <4>4, NoCallTyped DEF MpiGatherArrives, Clear, Types
      <4>5. CASE left # 0
        <5>1. current' = [current EXCEPT ![p].pendingACKs = left] /\ UNCHANGED running
          BY <1>8, <3>2, <4>5 DEF MpiGatherArrives
        <5> HIDE DEF left
        <5> QED BY <4>2, <4>3, <5>1 DEF Types
      <4> QED BY <4>4, <4>5
    <3> QED BY <3>1, <3>2
  <2>3. /\ calls' \in [Rank -> Seq(Messages)] /\ last' \in [Rank -> [sent : Nat, taken : Nat]]
        /\ \A a \in Rank : \A i \in 1 .. Len(calls'[a]) : calls'[a][i].op \in {"send", "bcast", "scatter"}
        /\ barriers' \in SUBSET Rank
    BY <1>8, <2>1 DEF Types, Sources
  <2>4. UNCHANGED job /\ net' = n
    BY <1>1, <1>8
  <2>5. /\ net' \in [Rank -> [Rank -> Seq(Messages)]]
        /\ From(net')
    BY <1>2, <2>4
  <2> QED BY <2>2, <2>3, <2>4, <2>5, LibraryStep
<1> QED BY <1>4, <1>5, <1>6, <1>7, <1>8

LEMMA TypesStep ==
  ASSUME UNCHANGED job, job \in Jobs, LibraryTyped',
         phase' \in [Rank -> Phases], open' \in [Rank -> SUBSET Rank],
         waiting' \in [Rank -> Waits], round' \in [Rank -> Nat], state' \in [Rank -> States],
         responses' \in [Rank -> 0 .. UnsignedWrap - 1], created' \in SUBSET Rank
  PROVE  Types' /\ Sources'
<1>1. Rank' = Rank
  BY DEF Rank
<1> QED BY <1>1, Zenon DEF Types, LibraryTyped

LEMMA LibrarySame ==
  ASSUME Types, Sources, UNCHANGED <<job, net, calls, barriers, error, last>>,
         current' \in [Rank -> MpiCalls], running' \in Rank \cup {Nobody}
  PROVE  LibraryTyped'
<1>1. /\ net' \in [Rank -> [Rank -> Seq(Messages)]] /\ calls' \in [Rank -> Seq(Messages)]
      /\ barriers' \in SUBSET Rank /\ error' \in Errors /\ last' \in [Rank -> [sent : Nat, taken : Nat]]
  BY DEF Types
<1>2. /\ From(net')
      /\ \A a \in Rank : \A i \in 1 .. Len(calls'[a]) : calls'[a][i].op \in {"send", "bcast", "scatter"}
  BY DEF Sources
<1> QED BY <1>1, <1>2, LibraryStep

\* A step that sends, calls MPI or does neither, apart from the state of the process.
LEMMA SendTyped ==
  ASSUME Types, Sources, NEW p \in Rank, NEW Q, NEW op \in Ops, NEW size \in Nat,
         UNCHANGED <<job, calls, last>>, round' \in [Rank -> Nat],
         SendDataToNetwork(p, Q, Message(p, op, size), net),
         current' \in [Rank -> MpiCalls], barriers' \in SUBSET Rank,
         running' \in Rank \cup {Nobody}
  PROVE  LibraryTyped'
<1> DEFINE msg == Message(p, op, size)
<1>1. msg \in Messages /\ msg.src = p
  BY DEF Message, Messages
<1>2. net \in [Rank -> [Rank -> Seq(Messages)]] /\ From(net)
  BY DEF Types, Sources
<1> HIDE DEF msg
<1>3. SendDataToNetwork(p, Q, msg, net)
  BY DEF msg
<1>4. net' \in [Rank -> [Rank -> Seq(Messages)]] /\ error' \in Errors /\ From(net')
  BY <1>1, <1>2, <1>3, SendDoes
<1>5. /\ calls' \in [Rank -> Seq(Messages)] /\ last' \in [Rank -> [sent : Nat, taken : Nat]]
      /\ \A a \in Rank : \A i \in 1 .. Len(calls'[a]) : calls'[a][i].op \in {"send", "bcast", "scatter"}
  BY DEF Types, Sources
<1> QED BY <1>4, <1>5, LibraryStep

LEMMA CallTyped ==
  ASSUME Types, Sources, NEW p \in Rank, NEW c \in MpiCalls,
         UNCHANGED <<job, net, error, barriers>>, round' \in [Rank -> Nat],
         Synchronize(p, c, calls[p])
  PROVE  LibraryTyped'
<1>1. PICK list \in Seq(Messages) : list = calls[p]
  BY DEF Types
<1>2. \A i \in 1 .. Len(list) : list[i].op \in {"send", "bcast", "scatter"}
  BY <1>1 DEF Sources
<1>3. Synchronize(p, c, list)
  BY <1>1
<1>4. /\ current' \in [Rank -> MpiCalls] /\ calls' \in [Rank -> Seq(Messages)]
      /\ running' \in Rank \cup {Nobody} /\ last' \in [Rank -> [sent : Nat, taken : Nat]]
      /\ \A q \in Rank : \A i \in 1 .. Len(calls'[q]) : calls'[q][i].op \in {"send", "bcast", "scatter"}
  BY <1>2, <1>3, SyncTyped
<1>5. net' \in [Rank -> [Rank -> Seq(Messages)]] /\ From(net') /\ barriers' \in SUBSET Rank /\ error' \in Errors
  BY DEF Types, Sources
<1> QED BY <1>4, <1>5, LibraryStep

LEMMA StartTyped ==
  ASSUME Types, Sources, Opened, NEW p \in Rank, Start(p), UNCHANGED hpcVars
  PROVE  Types' /\ Sources' /\ Opened'
<1>1. /\ UNCHANGED <<job, net, current, calls, barriers, waiting, error, round, last>>
      /\ UNCHANGED <<state, responses, created>>
      /\ running' \in Rank \cup {Nobody}
  BY DEF Start, ParseMachinesFile, EstablishAllConnections, SetEstablishedConnection, WaitToExecute,
         Types, hpcVars
<1>2. phase' \in [Rank -> Phases]
  BY DEF Start, ParseMachinesFile, EstablishAllConnections, SetEstablishedConnection, WaitToExecute,
         Types, Phases
<1>3. Rank' = Rank /\ \A q \in Rank : Connections(q)' = Connections(q)
  BY <1>1 DEF Rank, Connections, GetMyMaster, IsThisWorkerInMyRange, IsMaster
<1>4. open' \in [Rank -> SUBSET Rank] /\ \A q \in Rank : open'[q] \subseteq Connections(q)
  <2>1. CASE open' = open
    BY <2>1 DEF Types, Opened
  <2>2. CASE SetEstablishedConnection(p)
    <3>1. PICK q \in Connections(p) : open' = [open EXCEPT ![p] = @ \cup {q}]
      BY <2>2 DEF SetEstablishedConnection
    <3>2. q \in Rank
      BY DEF Connections
    <3> QED BY <3>1, <3>2 DEF Types, Opened
  <2> QED BY <2>1, <2>2 DEF Start, ParseMachinesFile, EstablishAllConnections, WaitToExecute
<1>5. LibraryTyped'
  <2>1. current' \in [Rank -> MpiCalls]
    BY <1>1 DEF Types
  <2> QED BY <1>1, <2>1, LibrarySame
<1>6. Types' /\ Sources'
  <2>1. /\ waiting' \in [Rank -> Waits] /\ round' \in [Rank -> Nat] /\ state' \in [Rank -> States]
        /\ responses' \in [Rank -> 0 .. UnsignedWrap - 1] /\ created' \in SUBSET Rank
        /\ UNCHANGED job /\ job \in Jobs
    BY <1>1 DEF Types
  <2> QED BY <1>2, <1>4, <1>5, <2>1, TypesStep
<1> QED BY <1>3, <1>4, <1>6 DEF Opened

LEMMA OpenedSame ==
  ASSUME Opened, UNCHANGED <<job, open>> PROVE Opened'
BY DEF Opened, Rank, Connections, GetMyMaster, IsThisWorkerInMyRange, IsMaster

\* The parts that a program leaves alone.
LEMMA HpcVarsSame ==
  ASSUME Types, UNCHANGED <<job, hpcVars>>
  PROVE  /\ state' \in [Rank -> States] /\ responses' \in [Rank -> 0 .. UnsignedWrap - 1]
         /\ created' \in SUBSET Rank /\ job \in Jobs
BY DEF Types, hpcVars

LEMMA ReceiveCalls ==
  ASSUME NEW call \in {"recv", "bcast", "scatter"}, NEW sender \in Int, NEW size \in Nat
  PROVE  [call |-> call, sender |-> sender, size |-> size] \in MpiCalls
BY DEF MpiCalls

LEMMA RunProgramTyped ==
  ASSUME Types, Sources, Opened, NEW p \in Rank, RunProgram(p), UNCHANGED hpcVars, ~IsHPC
  PROVE  Types' /\ Sources' /\ Opened'
<1>1. /\ running = p /\ round[p] < Len(job.program[p]) /\ round' = [round EXCEPT ![p] = @ + 1]
      /\ UNCHANGED <<job, phase, open>>
  BY DEF RunProgram
<1> DEFINE c == Call(p)
<1>2. c \in ProgramCall
  <2>1. job.program \in [Rank -> Seq(ProgramCall)] /\ round[p] \in Nat
    BY JobsAssumption DEF Types, IsHPC, Rank
  <2>2. PICK s \in Seq(ProgramCall) : s = job.program[p]
    BY <2>1
  <2>3. round[p] + 1 \in 1 .. Len(s) /\ Len(s) \in Nat
    BY <1>1, <2>1, <2>2
  <2>4. s[round[p] + 1] \in ProgramCall
    BY <2>3
  <2> QED BY <2>2, <2>4 DEF Call
<1>3. /\ phase' \in [Rank -> Phases] /\ open' \in [Rank -> SUBSET Rank] /\ round' \in [Rank -> Nat]
      /\ UNCHANGED job
  BY <1>1 DEF Types
<1>4. \/ /\ c.op = "send" /\ MpiSend(p, c.to, c.size)
         /\ UNCHANGED <<barriers, waiting, running>>
      \/ /\ c.op = "recv" /\ MpiRecv(p, c.from, c.size)
         /\ UNCHANGED <<net, error, barriers, waiting>>
      \/ /\ c.op \in {"bcast", "scatter"} /\ MpiFromRoot(p, c.op, c.root, c.size)
         /\ UNCHANGED <<barriers, waiting>>
      \/ /\ c.op = "gather" /\ MpiGather(p, c.root, c.size)
         /\ UNCHANGED <<barriers, waiting>>
      \/ /\ c.op = "barrier" /\ MpiBarrier(p)
         /\ UNCHANGED waiting
      \/ /\ c.op = "cpu" /\ waiting' = [waiting EXCEPT ![p] = "cpu"] /\ running' = Nobody
         /\ UNCHANGED <<net, current, calls, barriers, error, last>>
  BY DEF RunProgram
<1> HIDE DEF c
<1>5. LibraryTyped' /\ waiting' \in [Rank -> Waits]
  <2>1. CASE /\ c.op = "send" /\ MpiSend(p, c.to, c.size)
             /\ UNCHANGED <<barriers, waiting, running>>
    <3>1. c.size \in Nat /\ "send" \in Ops
      BY <1>2, <2>1 DEF ProgramCall, Ops
    <3>2. /\ SendDataToNetwork(p, {c.to}, Message(p, "send", c.size), net)
          /\ UNCHANGED <<calls, last>> /\ current' = [current EXCEPT ![p] = NoCall]
      BY <2>1 DEF MpiSend, Clear
    <3>3. current' \in [Rank -> MpiCalls] /\ barriers' \in SUBSET Rank /\ running' \in Rank \cup {Nobody}
      BY <2>1, <3>2, NoCallTyped DEF Types
    <3>4. LibraryTyped'
      BY <1>3, <3>1, <3>2, <3>3, SendTyped
    <3> QED BY <2>1, <3>4 DEF Types
  <2>2. CASE /\ c.op = "recv" /\ MpiRecv(p, c.from, c.size)
             /\ UNCHANGED <<net, error, barriers, waiting>>
    <3>1. c.from \in Int /\ c.size \in Nat
      BY <1>2, <2>2 DEF ProgramCall
    <3>2. PICK r \in MpiCalls : r = [call |-> "recv", sender |-> c.from, size |-> c.size]
      BY <3>1, ReceiveCalls
    <3>3. Synchronize(p, r, calls[p])
      BY <2>2, <3>2 DEF MpiRecv
    <3>4. LibraryTyped'
      BY <1>3, <2>2, <3>3, CallTyped
    <3> QED BY <2>2, <3>4 DEF Types
  <2>3. CASE /\ c.op \in {"bcast", "scatter"} /\ MpiFromRoot(p, c.op, c.root, c.size)
             /\ UNCHANGED <<barriers, waiting>>
    <3>1. c.root \in Int /\ c.size \in Nat /\ c.op \in Ops
      BY <1>2, <2>3 DEF ProgramCall, Ops
    <3>2. CASE p = c.root
      <4>1. /\ SendDataToNetwork(p, Rank \ {p}, Message(p, c.op, c.size), net)
            /\ UNCHANGED <<calls, last>> /\ current' = [current EXCEPT ![p] = NoCall] /\ running' = p
        BY <2>3, <3>2 DEF MpiFromRoot, Clear
      <4>2. current' \in [Rank -> MpiCalls] /\ barriers' \in SUBSET Rank /\ running' \in Rank \cup {Nobody}
        BY <2>3, <4>1, NoCallTyped DEF Types
      <4>3. LibraryTyped'
        BY <1>3, <3>1, <4>1, <4>2, SendTyped
      <4> QED BY <2>3, <4>3 DEF Types
    <3>3. CASE p # c.root
      <4>1. PICK r \in MpiCalls : r = [call |-> c.op, sender |-> c.root, size |-> c.size]
        BY <2>3, <3>1, ReceiveCalls
      <4>2. Synchronize(p, r, calls[p]) /\ UNCHANGED <<net, error>>
        BY <2>3, <3>3, <4>1 DEF MpiFromRoot
      <4>3. LibraryTyped'
        BY <1>3, <2>3, <4>2, CallTyped
      <4> QED BY <2>3, <4>3 DEF Types
    <3> QED BY <3>2, <3>3
  <2>4. CASE /\ c.op = "gather" /\ MpiGather(p, c.root, c.size)
             /\ UNCHANGED <<barriers, waiting>>
    <3>1. c.root \in Int /\ c.size \in Nat /\ "gather" \in Ops
      BY <1>2, <2>4 DEF ProgramCall, Ops
    <3>2. CASE p = c.root
      <4>1. /\ UNCHANGED <<calls, last, net, error>> /\ running' = Nobody
            /\ current' = [current EXCEPT ![p] = [call |-> "gather", pendingACKs |-> job.numProcesses - 1]]
        BY <2>4, <3>2 DEF MpiGather
      <4>2. [call |-> "gather", pendingACKs |-> job.numProcesses - 1] \in MpiCalls
        BY RankType DEF MpiCalls, Types
      <4>3. current' \in [Rank -> MpiCalls] /\ running' \in Rank \cup {Nobody}
        BY <4>1, <4>2 DEF Types
      <4>4. LibraryTyped'
        BY <1>3, <2>4, <4>1, <4>3, LibrarySame
      <4> QED BY <2>4, <4>4 DEF Types
    <3>3. CASE p # c.root
      <4>1. /\ SendDataToNetwork(p, {c.root}, Message(p, "gather", c.size), net)
            /\ UNCHANGED <<calls, last>> /\ current' = [current EXCEPT ![p] = NoCall] /\ running' = p
        BY <2>4, <3>3 DEF MpiGather, Clear
      <4>2. current' \in [Rank -> MpiCalls] /\ barriers' \in SUBSET Rank /\ running' \in Rank \cup {Nobody}
        BY <2>4, <4>1, NoCallTyped DEF Types
      <4>3. LibraryTyped'
        BY <1>3, <3>1, <4>1, <4>2, SendTyped
      <4> QED BY <2>4, <4>3 DEF Types
    <3> QED BY <3>2, <3>3
  <2>5. CASE c.op = "barrier" /\ MpiBarrier(p) /\ UNCHANGED waiting
    <3>1. PICK b \in MpiCalls : b = [call |-> "barrier"]
      BY DEF MpiCalls
    <3>2. CASE p = MasterRank
      <4>1. CheckBarriers(p, b, barriers \cup {p}, net) /\ UNCHANGED <<calls, last>>
        BY <2>5, <3>1, <3>2 DEF MpiBarrier
      <4>2. /\ barriers \cup {p} \in SUBSET Rank /\ net \in [Rank -> [Rank -> Seq(Messages)]] /\ From(net)
            /\ calls' \in [Rank -> Seq(Messages)] /\ last' \in [Rank -> [sent : Nat, taken : Nat]]
            /\ \A a \in Rank : \A i \in 1 .. Len(calls'[a]) : calls'[a][i].op \in {"send", "bcast", "scatter"}
        BY <4>1 DEF Types, Sources
      <4>3. /\ net' \in [Rank -> [Rank -> Seq(Messages)]] /\ error' \in Errors
            /\ current' \in [Rank -> MpiCalls] /\ barriers' \in SUBSET Rank
            /\ running' \in Rank \cup {Nobody}
            /\ From(net')
        BY <1>3, <4>1, <4>2, BarriersTyped
      <4>4. LibraryTyped'
        BY <1>3, <4>2, <4>3, LibraryStep
      <4> QED BY <2>5, <4>4 DEF Types
    <3>3. CASE p # MasterRank
      <4>1. /\ SendDataToNetwork(p, {MasterRank}, Message(p, "barrierDown", 0), net)
            /\ UNCHANGED <<calls, last, barriers>> /\ current' = [current EXCEPT ![p] = b]
            /\ running' = Nobody
        BY <2>5, <3>1, <3>3 DEF MpiBarrier
      <4>2. current' \in [Rank -> MpiCalls] /\ barriers' \in SUBSET Rank /\ running' \in Rank \cup {Nobody}
        BY <4>1 DEF Types
      <4>3. "barrierDown" \in Ops /\ 0 \in Nat
        BY DEF Ops
      <4>4. LibraryTyped'
        BY <1>3, <4>1, <4>2, <4>3, SendTyped
      <4> QED BY <2>5, <4>4 DEF Types
    <3> QED BY <3>2, <3>3
  <2>6. CASE /\ c.op = "cpu" /\ waiting' = [waiting EXCEPT ![p] = "cpu"] /\ running' = Nobody
             /\ UNCHANGED <<net, current, calls, barriers, error, last>>
    <3>1. current' \in [Rank -> MpiCalls] /\ running' \in Rank \cup {Nobody}
      BY <2>6 DEF Types
    <3>2. LibraryTyped'
      BY <1>3, <2>6, <3>1, LibrarySame
    <3> QED BY <2>6, <3>2 DEF Types, Waits
  <2> QED BY <1>4, <2>1, <2>2, <2>3, <2>4, <2>5, <2>6
<1>6. Types' /\ Sources'
  <2>1. /\ state' \in [Rank -> States] /\ responses' \in [Rank -> 0 .. UnsignedWrap - 1]
        /\ created' \in SUBSET Rank /\ job \in Jobs
    BY <1>3, HpcVarsSame
  <2> QED BY <1>3, <1>5, <2>1, TypesStep
<1> QED BY <1>1, <1>6, OpenedSame

LEMMA ProgramTyped ==
  ASSUME Types, Sources, Opened, NEW p \in Rank, Program(p)
  PROVE  Types' /\ Sources' /\ Opened'
<1>1. UNCHANGED hpcVars /\ ~IsHPC /\ (RunProgram(p) \/ Computed(p) \/ EndProgram(p))
  BY DEF Program
<1>2. CASE RunProgram(p)
  BY <1>1, <1>2, RunProgramTyped
<1>3. CASE Computed(p) \/ EndProgram(p)
  <2>1. /\ UNCHANGED <<job, open, net, current, calls, barriers, error, round, last>>
        /\ waiting' \in [Rank -> Waits] /\ running' \in Rank \cup {Nobody} /\ phase' \in [Rank -> Phases]
    BY <1>3 DEF Computed, EndProgram, Types, Waits, Phases
  <2>2. current' \in [Rank -> MpiCalls] /\ open' \in [Rank -> SUBSET Rank] /\ round' \in [Rank -> Nat]
    BY <2>1 DEF Types
  <2>3. LibraryTyped'
    BY <2>1, <2>2, LibrarySame
  <2>4. /\ state' \in [Rank -> States] /\ responses' \in [Rank -> 0 .. UnsignedWrap - 1]
        /\ created' \in SUBSET Rank /\ job \in Jobs
    BY <1>1, <2>1, HpcVarsSame
  <2> QED BY <2>1, <2>2, <2>3, <2>4, TypesStep, OpenedSame
<1> QED BY <1>1, <1>2, <1>3

-----------------------------------------------------------------------------
(* Types of a step of ApplicationHPC.                                      *)

LEMMA HpcJob ==
  ASSUME Types, IsHPC
  PROVE  /\ InputSize \in Nat /\ ResultSize \in Nat
         /\ job.workersSet \in Nat /\ job.workersSet + 1 < UnsignedWrap /\ UnsignedWrap \in Nat
<1>1. job \in Jobs /\ Metadata \in Nat
  BY DEF Types, Metadata
<1>2. /\ job.workersRead \in BOOLEAN /\ job.workersWrite \in BOOLEAN
      /\ job.sliceToWorkers \in Nat /\ job.sliceToMaster \in Nat
      /\ job.numProcesses \in Nat /\ job.workersSet \in 0 .. job.numProcesses
  BY <1>1, JobsAssumption DEF IsHPC
<1> QED BY <1>1, <1>2, WrapAssumption DEF InputSize, ResultSize

LEMMA DecrementIs ==
  ASSUME UnsignedWrap \in Nat, NEW n \in 0 .. UnsignedWrap - 1
  PROVE  /\ Decrement(n) \in 0 .. UnsignedWrap - 1
         /\ n > 0 => Decrement(n) = n - 1
         /\ n = 0 => Decrement(n) = UnsignedWrap - 1
<1>1. CASE n > 0
  <2>1. n + UnsignedWrap - 1 = (n - 1) + UnsignedWrap
    OBVIOUS
  <2>2. ((n - 1) + UnsignedWrap) % UnsignedWrap = n - 1
    BY <1>1, SMTT(30)
  <2> QED BY <1>1, <2>1, <2>2 DEF Decrement
<1>2. CASE n = 0
  <2>1. (UnsignedWrap - 1) % UnsignedWrap = UnsignedWrap - 1
    BY <1>2, SMTT(30)
  <2>2. n + UnsignedWrap - 1 = UnsignedWrap - 1
    BY <1>2
  <2> QED BY <1>2, <2>1, <2>2 DEF Decrement
<1> QED BY <1>1, <1>2

\* A read or a write: totalResponses becomes n or 0.
LEMMA AccessDoes ==
  ASSUME Types, NEW p \in Rank, NEW mine, NEW call \in {"read", "write"},
         NEW n \in 0 .. UnsignedWrap - 1, Access(p, mine, call, n)
  PROVE  /\ responses' \in [Rank -> 0 .. UnsignedWrap - 1]
         /\ waiting' \in [Rank -> Waits] /\ running' \in {p, Nobody}
         /\ \A q \in Rank \ {p} : waiting'[q] = waiting[q] /\ responses'[q] = responses[q]
         /\ running' = p => waiting' = waiting
<1>1. p # Nobody /\ waiting \in [Rank -> Waits] /\ responses \in [Rank -> 0 .. UnsignedWrap - 1]
  BY RankType DEF Types
<1>2. 0 \in 0 .. UnsignedWrap - 1 /\ UnsignedWrap \in Nat
  BY WrapAssumption
<1>3. call \in Waits
  BY DEF Waits
<1>4. CASE mine
  BY <1>1, <1>3, <1>4 DEF Access, Expect, Request
<1>5. CASE ~mine
  BY <1>1, <1>2, <1>5 DEF Access, Expect, Again
<1> QED BY <1>4, <1>5

\* The steps that leave the library alone.
Inside(p) ==
  /\ NoMpiCall /\ UNCHANGED <<job, open, barriers>>
  /\ \/ CreateResults(p) \/ MasterRead(p) \/ MasterWrite(p) \/ WorkerStep(p) \/ NextIteration(p)

\* What such a step does, apart from where it goes.
LEMMA InsideDoes ==
  ASSUME Types, IsHPC, NEW p \in Rank, running = p, Inside(p)
  PROVE  /\ UNCHANGED <<job, open, barriers, net, current, calls, error, last>>
         /\ responses' \in [Rank -> 0 .. UnsignedWrap - 1] /\ waiting' \in [Rank -> Waits]
         /\ running' \in {p, Nobody} /\ created' \in SUBSET Rank
         /\ phase' \in [Rank -> Phases] /\ round' \in [Rank -> Nat] /\ state' \in [Rank -> States]
         /\ \A q \in Rank \ {p} :
              /\ waiting'[q] = waiting[q] /\ responses'[q] = responses[q]
              /\ state'[q] = state[q] /\ round'[q] = round[q] /\ phase'[q] = phase[q]
         /\ running' = p => waiting'[p] = waiting[p]
<1>1. UNCHANGED <<job, open, barriers, net, current, calls, error, last>>
  BY DEF Inside, NoMpiCall
<1>2. /\ job.workersSet \in 0 .. UnsignedWrap - 1 /\ 1 \in 0 .. UnsignedWrap - 1
      /\ responses[p] \in 0 .. UnsignedWrap - 1 /\ UnsignedWrap \in Nat
  BY SMTT(30), HpcJob DEF Types
<1>0. /\ p # Nobody /\ waiting \in [Rank -> Waits] /\ responses \in [Rank -> 0 .. UnsignedWrap - 1]
      /\ state \in [Rank -> States] /\ phase \in [Rank -> Phases] /\ round \in [Rank -> Nat]
      /\ created \in SUBSET Rank
  BY RankType DEF Types
<1>3. CASE CreateResults(p)
  BY <1>1, <1>2, <1>3, <1>0 DEF CreateResults, Expect, Request, Waits
<1>4. ASSUME NEW n \in 0 .. UnsignedWrap - 1, NEW call \in {"read", "write"}, NEW mine,
             Access(p, mine, call, n), NEW s \in States, Goto(p, s), UNCHANGED <<created, phase, round>>
      PROVE  /\ responses' \in [Rank -> 0 .. UnsignedWrap - 1] /\ waiting' \in [Rank -> Waits]
             /\ running' \in {p, Nobody} /\ created' \in SUBSET Rank
             /\ phase' \in [Rank -> Phases] /\ round' \in [Rank -> Nat] /\ state' \in [Rank -> States]
             /\ \A q \in Rank \ {p} :
                  /\ waiting'[q] = waiting[q] /\ responses'[q] = responses[q]
                  /\ state'[q] = state[q] /\ round'[q] = round[q] /\ phase'[q] = phase[q]
             /\ running' = p => waiting'[p] = waiting[p]
  <2>1. state' \in [Rank -> States] /\ \A q \in Rank \ {p} : state'[q] = state[q]
    BY <1>4 DEF Goto, Types
  <2>2. created' \in SUBSET Rank /\ phase' \in [Rank -> Phases] /\ round' \in [Rank -> Nat]
    BY <1>4 DEF Types
  <2> QED BY <1>4, <2>1, <2>2, AccessDoes
<1>5. CASE MasterRead(p)
  <2>1. PICK n \in 0 .. UnsignedWrap - 1 : Access(p, ~job.workersRead, "read", n)
    BY <1>2, <1>5 DEF MasterRead, ReadData
  <2> QED BY <1>1, <1>4, <1>5, <2>1 DEF MasterRead, States
<1>6. CASE MasterWrite(p)
  <2>1. PICK n \in 0 .. UnsignedWrap - 1 : Access(p, ~job.workersWrite, "write", n)
    BY <1>2, <1>6 DEF MasterWrite, WriteData
  <2> QED BY <1>1, <1>4, <1>6, <2>1 DEF MasterWrite, States
<1>7. CASE WorkerStep(p)
  <2>1. CASE Goto(p, "WORKER_READING") /\ ReadData(p, job.workersRead, 1)
    BY <1>1, <1>2, <1>4, <1>7, <2>1 DEF WorkerStep, ReadData, States
  <2>2. CASE Goto(p, "WORKER_WRITTING") /\ WriteData(p, job.workersWrite, 1)
    BY <1>1, <1>2, <1>4, <1>7, <2>2 DEF WorkerStep, WriteData, States
  <2>3. CASE Goto(p, "WORKER_ALLOCATING") /\ Request(p, "memory") /\ UNCHANGED responses
    BY <1>1, <1>7, <2>3, <1>0 DEF WorkerStep, Goto, Request, Waits, States
  <2>4. CASE Goto(p, "WORKER_PROCESSING") /\ Request(p, "cpu") /\ UNCHANGED responses
    BY <1>1, <1>7, <2>4, <1>0 DEF WorkerStep, Goto, Request, Waits, States
  <2> QED BY <1>7, <2>1, <2>2, <2>3, <2>4 DEF WorkerStep
<1>8. CASE NextIteration(p)
  BY <1>1, <1>8 DEF NextIteration, Goto, Types, States, Phases
<1> QED BY <1>3, <1>5, <1>6, <1>7, <1>8 DEF Inside

LEMMA InsideTyped ==
  ASSUME Types, Sources, Opened, IsHPC, NEW p \in Rank, running = p, Inside(p)
  PROVE  Types' /\ Sources' /\ Opened'
<1>1. /\ UNCHANGED <<job, open, barriers, net, current, calls, error, last>>
      /\ responses' \in [Rank -> 0 .. UnsignedWrap - 1] /\ waiting' \in [Rank -> Waits]
      /\ running' \in {p, Nobody} /\ created' \in SUBSET Rank
      /\ phase' \in [Rank -> Phases] /\ round' \in [Rank -> Nat] /\ state' \in [Rank -> States]
  BY InsideDoes
<1>2. /\ running' \in Rank \cup {Nobody} /\ current' \in [Rank -> MpiCalls]
      /\ open' \in [Rank -> SUBSET Rank] /\ job \in Jobs
  BY <1>1 DEF Types
<1>3. LibraryTyped'
  BY <1>1, <1>2, LibrarySame
<1> QED BY <1>1, <1>2, <1>3, TypesStep, OpenedSame

\* The steps that send or receive: what they do to the application.
LEMMA MpiStepDoes ==
  ASSUME Types, IsHPC, NEW p \in Rank, running = p,
         DeliverData(p) \/ ReceivingResults(p) \/ ReceiveInputData(p) \/ SendResults(p)
  PROVE  /\ UNCHANGED <<round, waiting, phase, created>>
         /\ responses' \in [Rank -> 0 .. UnsignedWrap - 1] /\ state' \in [Rank -> States]
         /\ \A q \in Rank \ {p} : state'[q] = state[q] /\ responses'[q] = responses[q]
<1>1. /\ responses[p] \in 0 .. UnsignedWrap - 1 /\ UnsignedWrap \in Nat
      /\ job.workersSet \in 0 .. UnsignedWrap - 1
      /\ state \in [Rank -> States] /\ responses \in [Rank -> 0 .. UnsignedWrap - 1]
  <2>1. state \in [Rank -> States] /\ responses \in [Rank -> 0 .. UnsignedWrap - 1]
    BY DEF Types
  <2>2. job.workersSet \in Nat /\ job.workersSet + 1 < UnsignedWrap /\ UnsignedWrap \in Nat
    BY HpcJob
  <2> QED BY <2>1, <2>2
<1>2. \A n \in 0 .. UnsignedWrap - 1 : Decrement(n) \in 0 .. UnsignedWrap - 1
  BY <1>1, DecrementIs
<1>3. CASE DeliverData(p)
  BY <1>1, <1>3 DEF DeliverData, Goto, Again, States
<1>4. CASE ReceivingResults(p)
  BY <1>1, <1>2, <1>4 DEF ReceivingResults, Goto, Expect, States
<1>5. CASE ReceiveInputData(p)
  BY <1>1, <1>5 DEF ReceiveInputData, Goto, States
<1>6. CASE SendResults(p)
  BY <1>1, <1>6 DEF SendResults, Goto, Again, States
<1> QED BY <1>3, <1>4, <1>5, <1>6

LEMMA MpiStepTyped ==
  ASSUME Types, Sources, Opened, IsHPC, NEW p \in Rank, running = p,
         UNCHANGED <<job, open, barriers>>,
         DeliverData(p) \/ ReceivingResults(p) \/ ReceiveInputData(p) \/ SendResults(p)
  PROVE  Types' /\ Sources' /\ Opened'
<1>1. /\ UNCHANGED <<round, waiting, phase, created>>
      /\ responses' \in [Rank -> 0 .. UnsignedWrap - 1] /\ state' \in [Rank -> States]
  BY MpiStepDoes
<1>2. /\ barriers' \in SUBSET Rank /\ round' \in [Rank -> Nat] /\ phase' \in [Rank -> Phases]
      /\ open' \in [Rank -> SUBSET Rank] /\ waiting' \in [Rank -> Waits] /\ created' \in SUBSET Rank
      /\ job \in Jobs
  BY <1>1 DEF Types
<1>3. InputSize \in Nat /\ ResultSize \in Nat /\ "send" \in Ops
  BY HpcJob DEF Ops
<1>4. LibraryTyped'
  <2>1. ASSUME NEW Q, NEW size \in Nat, SendDataToNetwork(p, Q, Message(p, "send", size), net),
               Clear(p), UNCHANGED <<calls, last>>, running' = p
        PROVE  LibraryTyped'
    <3>1. current' \in [Rank -> MpiCalls] /\ running' \in Rank \cup {Nobody}
      BY <2>1, NoCallTyped DEF Clear, Types
    <3> QED BY <1>2, <1>3, <2>1, <3>1, SendTyped
  <2>2. ASSUME NEW sender \in Int, NEW size \in Nat, MpiRecv(p, sender, size), UNCHANGED <<net, error>>
        PROVE  LibraryTyped'
    <3>1. PICK c \in MpiCalls : c = [call |-> "recv", sender |-> sender, size |-> size]
      BY ReceiveCalls
    <3>2. Synchronize(p, c, calls[p])
      BY <2>2, <3>1 DEF MpiRecv
    <3> QED BY <1>2, <2>2, <3>2, CallTyped
  <2>3. CASE DeliverData(p)
    BY <1>3, <2>1, <2>3 DEF DeliverData, Again
  <2>4. CASE SendResults(p)
    BY <1>3, <2>1, <2>4 DEF SendResults, Again, MpiSend
  <2>5. CASE ReceivingResults(p)
    BY <1>3, <2>2, <2>5 DEF ReceivingResults, AnySender
  <2>6. CASE ReceiveInputData(p)
    <3>1. GetMyMaster(p) \in Int
      <4>1. /\ job.workersSet \in Nat /\ p \in Nat
            /\ job.workersSet > 0 => p \div job.workersSet \in Nat
        <5>1. job.workersSet \in Nat /\ p \in Nat
          BY HpcJob, RankType DEF Types
        <5> QED BY <5>1
      <4> QED BY <4>1 DEF GetMyMaster, MasterRank
    <3> QED BY <1>3, <2>2, <2>6, <3>1 DEF ReceiveInputData
  <2> QED BY <2>3, <2>4, <2>5, <2>6
<1> QED BY <1>1, <1>2, <1>4, TypesStep, OpenedSame

LEMMA ResponseDoes ==
  ASSUME Types, IsHPC, NEW p \in Rank, ProcessResponseMessage(p)
  PROVE  /\ UNCHANGED <<job, phase, open, net, current, calls, barriers, round, last, state, created>>
         /\ running = Nobody /\ waiting[p] # "none" /\ running' = p
         /\ waiting' = [waiting EXCEPT ![p] = "none"] /\ error' \in Errors
         /\ responses' \in [Rank -> 0 .. UnsignedWrap - 1]
         /\ \A q \in Rank \ {p} : responses'[q] = responses[q]
<1>1. UnsignedWrap \in Nat /\ responses \in [Rank -> 0 .. UnsignedWrap - 1] /\ error \in Errors
  BY HpcJob DEF Types
<1>2. Decrement(responses[p]) \in 0 .. UnsignedWrap - 1
  BY <1>1, DecrementIs
<1> QED BY <1>1, <1>2 DEF ProcessResponseMessage, Expect, Errors

LEMMA HpcTyped ==
  ASSUME Types, Sources, Opened, NEW p \in Rank, Hpc(p)
  PROVE  Types' /\ Sources' /\ Opened'
<1>1. IsHPC
  BY DEF Hpc
<1>2. CASE CalculateNextState(p)
  <2>1. running = p /\ UNCHANGED <<job, open, barriers>>
    BY <1>2 DEF CalculateNextState
  <2>2. \/ DeliverData(p) \/ ReceivingResults(p) \/ ReceiveInputData(p) \/ SendResults(p)
        \/ Inside(p)
    BY <1>2 DEF CalculateNextState, Inside, CreateResults, MasterRead, MasterWrite, WorkerStep, NextIteration
  <2> QED BY <1>1, <2>1, <2>2, MpiStepTyped, InsideTyped
<1>3. CASE ProcessResponseMessage(p)
  <2>1. /\ UNCHANGED <<job, phase, open, net, current, calls, barriers, round, last, state, created>>
        /\ running' = p /\ waiting' = [waiting EXCEPT ![p] = "none"] /\ error' \in Errors
        /\ responses' \in [Rank -> 0 .. UnsignedWrap - 1]
    BY <1>1, <1>3, ResponseDoes
  <2>2. /\ phase' \in [Rank -> Phases] /\ open' \in [Rank -> SUBSET Rank]
        /\ round' \in [Rank -> Nat] /\ state' \in [Rank -> States] /\ created' \in SUBSET Rank
        /\ waiting' \in [Rank -> Waits] /\ job \in Jobs
    BY <2>1 DEF Types, Waits
  <2>3. LibraryTyped'
    <3>1. /\ net' \in [Rank -> [Rank -> Seq(Messages)]] /\ calls' \in [Rank -> Seq(Messages)]
          /\ current' \in [Rank -> MpiCalls] /\ running' \in Rank \cup {Nobody}
          /\ barriers' \in SUBSET Rank /\ last' \in [Rank -> [sent : Nat, taken : Nat]]
      BY <2>1 DEF Types
    <3>2. /\ From(net')
          /\ \A a \in Rank : \A i \in 1 .. Len(calls'[a]) : calls'[a][i].op \in {"send", "bcast", "scatter"}
      BY <2>1 DEF Sources
    <3> QED BY <2>1, <3>1, <3>2, LibraryStep
  <2> QED BY <2>1, <2>2, <2>3, TypesStep, OpenedSame
<1>4. CASE ShowResults(p)
  <2>1. /\ UNCHANGED <<job, open, net, current, calls, barriers, running, waiting, error, round, last>>
        /\ UNCHANGED hpcVars /\ phase' = [phase EXCEPT ![p] = "finished"]
    BY <1>4 DEF ShowResults, hpcVars
  <2>2. /\ phase' \in [Rank -> Phases] /\ open' \in [Rank -> SUBSET Rank] /\ round' \in [Rank -> Nat]
        /\ waiting' \in [Rank -> Waits] /\ current' \in [Rank -> MpiCalls] /\ running' \in Rank \cup {Nobody}
    BY <2>1 DEF Types, Phases
  <2>3. LibraryTyped'
    BY <2>1, <2>2, LibrarySame
  <2>4. /\ state' \in [Rank -> States] /\ responses' \in [Rank -> 0 .. UnsignedWrap - 1]
        /\ created' \in SUBSET Rank /\ job \in Jobs
    BY <2>1, HpcVarsSame
  <2> QED BY <2>1, <2>2, <2>3, <2>4, TypesStep, OpenedSame
<1> QED BY <1>2, <1>3, <1>4 DEF Hpc

Typed == Types /\ Sources /\ Opened

LEMMA ArrivalTyped ==
  ASSUME Typed, NEW p \in Rank, Arrives(p)
  PROVE  Typed'
<1>1. PICK q \in Rank : ProcessMPICallRequest(p, q) /\ UNCHANGED hpcVars
  BY DEF Arrives
<1>2. LibraryTyped'
  BY <1>1, ArrivesTyped DEF Typed
<1>3. UNCHANGED <<job, phase, open, waiting, round>>
  BY <1>1 DEF ProcessMPICallRequest
<1>4. /\ phase' \in [Rank -> Phases] /\ open' \in [Rank -> SUBSET Rank] /\ round' \in [Rank -> Nat]
      /\ waiting' \in [Rank -> Waits]
  BY <1>3 DEF Typed, Types
<1>5. /\ state' \in [Rank -> States] /\ responses' \in [Rank -> 0 .. UnsignedWrap - 1]
      /\ created' \in SUBSET Rank /\ job \in Jobs
  BY <1>1, <1>3, HpcVarsSame DEF Typed
<1> QED BY <1>2, <1>3, <1>4, <1>5, TypesStep, OpenedSame DEF Typed

LEMMA InitTyped == Init => Typed
<1> SUFFICES ASSUME Init PROVE Typed
  OBVIOUS
<1>1. net \in [Rank -> [Rank -> Seq(Messages)]] /\ calls \in [Rank -> Seq(Messages)]
  <2>1. <<>> \in Seq(Messages)
    BY EmptySeq
  <2> QED BY <2>1 DEF Init
<1>2. current \in [Rank -> MpiCalls]
  BY NoCallTyped DEF Init
<1>3. /\ job \in Jobs /\ phase \in [Rank -> Phases] /\ open \in [Rank -> SUBSET Rank]
      /\ barriers \in SUBSET Rank /\ running \in Rank \cup {Nobody} /\ waiting \in [Rank -> Waits]
      /\ error \in Errors /\ created \in SUBSET Rank
  BY DEF Init, Phases, Waits, Errors
<1>4. /\ round \in [Rank -> Nat] /\ last \in [Rank -> [sent : Nat, taken : Nat]]
      /\ state \in [Rank -> States]
  BY DEF Init, States
<1>5. responses \in [Rank -> 0 .. UnsignedWrap - 1]
  <2>1. 0 \in 0 .. UnsignedWrap - 1
    BY <1>3, WrapAssumption, JobsAssumption
  <2> QED BY <2>1 DEF Init
<1>6. Sources
  <2>1. /\ \A a, b \in Rank : net[a][b] = <<>>
        /\ \A a \in Rank : calls[a] = <<>>
    BY DEF Init
  <2> QED BY <2>1 DEF Sources, From
<1>7. Opened
  BY DEF Opened, Init
<1> QED BY <1>1, <1>2, <1>3, <1>4, <1>5, <1>6, <1>7 DEF Typed, Types

LEMMA NextTyped == Typed /\ [Next]_vars => Typed'
<1> SUFFICES ASSUME Typed, [Next]_vars PROVE Typed'
  OBVIOUS
<1>1. ASSUME NEW p \in Rank, Start(p) PROVE Typed'
  BY <1>1, StartTyped DEF Typed, Start
<1>2. ASSUME NEW p \in Rank, Arrives(p) PROVE Typed'
  BY <1>2, ArrivalTyped
<1>3. ASSUME NEW p \in Rank, Hpc(p) PROVE Typed'
  BY <1>3, HpcTyped DEF Typed
<1>4. ASSUME NEW p \in Rank, Program(p) PROVE Typed'
  BY <1>4, ProgramTyped DEF Typed
<1>5. CASE UNCHANGED vars
  <2>1. UNCHANGED <<job, phase, open, net, current, calls, barriers, running, waiting, error, round, last,
                    state, responses, created>>
    BY <1>5 DEF vars, mpiVars, hpcVars
  <2>2. /\ phase' \in [Rank -> Phases] /\ open' \in [Rank -> SUBSET Rank] /\ round' \in [Rank -> Nat]
        /\ waiting' \in [Rank -> Waits] /\ current' \in [Rank -> MpiCalls] /\ running' \in Rank \cup {Nobody}
    BY <2>1 DEF Typed, Types
  <2>3. LibraryTyped'
    BY <2>1, <2>2, LibrarySame DEF Typed
  <2>4. /\ state' \in [Rank -> States] /\ responses' \in [Rank -> 0 .. UnsignedWrap - 1]
        /\ created' \in SUBSET Rank /\ job \in Jobs
    BY <2>1 DEF Typed, Types
  <2> QED BY <2>1, <2>2, <2>3, <2>4, TypesStep, OpenedSame DEF Typed
<1> QED BY <1>1, <1>2, <1>3, <1>4, <1>5 DEF Next

\* The types of MpiBase and ApplicationHPC: the states of a process and of its
\* calls, and the sources of the messages, stay what the code declares.
THEOREM TypeCorrect == Spec => []TypeOK
<1>1. Spec => []Typed
  BY InitTyped, NextTyped, PTL DEF Spec
<1>2. Typed => TypeOK
  <2> SUFFICES ASSUME Typed PROVE TypeOK
    OBVIOUS
  <2>1. \A p \in Rank : current[p].call \in {"none", "recv", "bcast", "scatter", "gather", "barrier"}
    <3>1. \A c \in MpiCalls : c.call \in {"none", "recv", "bcast", "scatter", "gather", "barrier"}
      BY DEF MpiCalls
    <3> QED BY <3>1 DEF Typed, Types
  <2>2. \A p \in Rank : \A i \in DOMAIN calls[p] : calls[p][i].op \in {"send", "bcast", "scatter"}
    BY DEF Typed, Types, Sources
  <2>3. \A p \in Rank, q \in Rank : \A i \in DOMAIN net[p][q] : net[p][q][i].src = p
    <3>1. SUFFICES ASSUME NEW p \in Rank, NEW q \in Rank
                   PROVE  \A i \in DOMAIN net[p][q] : net[p][q][i].src = p
      OBVIOUS
    <3>2. PICK s \in Seq(Messages) : s = net[p][q]
      <4>1. net \in [Rank -> [Rank -> Seq(Messages)]]
        BY DEF Typed, Types
      <4> QED BY <4>1
    <3> QED BY <3>2 DEF Typed, Sources, From
  <2> QED BY <2>1, <2>2, <2>3 DEF TypeOK, Typed, Types, Waits, Errors, Opened
<1> QED BY <1>1, <1>2, PTL

-----------------------------------------------------------------------------
(* The sets of processes: a master and the workersSet - 1 ranks after it.  *)

LEMMA Multiply ==
  ASSUME NEW a \in Int, NEW b \in Int, NEW w \in Nat, a + 1 <= b
  PROVE  w * a + w <= w * b
  OBVIOUS

LEMMA DivisionIs ==
  ASSUME NEW r \in Nat, NEW w \in Nat, w > 0
  PROVE  r \div w \in Nat /\ r % w \in 0 .. w - 1 /\ r = w * (r \div w) + (r % w)
<1>1. r \div w \in Nat
  OBVIOUS
<1>2. r % w \in 0 .. w - 1
  OBVIOUS
<1>3. r = w * (r \div w) + (r % w)
  BY SMTT(30)
<1> QED BY <1>1, <1>2, <1>3

LEMMA MultipleIs ==
  ASSUME NEW x \in Nat, NEW w \in Nat, w > 0
  PROVE  w * x \in Nat /\ (w * x) % w = 0 /\ (w * x) \div w = x
<1>1. w * x \in Nat
  OBVIOUS
<1>2. PICK r \in Nat : r = w * x
  BY <1>1
<1>3. PICK d \in Nat, e \in 0 .. w - 1 : d = r \div w /\ e = r % w /\ w * x = w * d + e
  BY <1>2, DivisionIs
<1>4. CASE d + 1 <= x
  <2>1. w * d + w <= w * x
    BY <1>4, Multiply
  <2>2. w * d \in Nat /\ e < w
    BY <1>3
  <2> QED BY <1>1, <1>3, <2>1, <2>2
<1>5. CASE x + 1 <= d
  <2>1. w * x + w <= w * d
    BY <1>5, Multiply
  <2>2. w * d \in Nat /\ e >= 0
    BY <1>3
  <2> QED BY <1>1, <1>3, <2>1, <2>2
<1>6. CASE d = x
  <2>1. w * d \in Nat
    OBVIOUS
  <2>2. e = 0
    BY <1>3, <1>6, <2>1
  <2> QED BY <1>1, <1>2, <1>3, <1>6, <2>2
<1> QED BY <1>4, <1>5, <1>6

LEMMA SetOfMaster ==
  ASSUME NEW m \in Nat, NEW r \in Nat, NEW w \in Nat, w > 0, m % w = 0
  PROVE  (r \div w) * w = m <=> m <= r /\ r < m + w
<1>1. PICK a \in Nat : m = w * a
  <2>1. m \div w \in Nat /\ m = w * (m \div w) + 0
    BY DivisionIs
  <2>2. w * (m \div w) \in Nat
    BY <2>1
  <2> QED BY <2>1, <2>2
<1>2. PICK b \in Nat, c \in 0 .. w - 1 : b = r \div w /\ r = w * b + c
  BY DivisionIs
<1>3. (r \div w) * w = w * b /\ w * b \in Nat
  BY <1>2
<1>4. CASE a = b
  BY <1>1, <1>2, <1>3, <1>4
<1>5. CASE b + 1 <= a
  <2>1. w * b + w <= w * a
    BY <1>5, Multiply
  <2> QED BY <1>1, <1>2, <1>3, <2>1
<1>6. CASE a + 1 <= b
  <2>1. w * a + w <= w * b
    BY <1>6, Multiply
  <2> QED BY <1>1, <1>2, <1>3, <2>1
<1> QED BY <1>4, <1>5, <1>6

\* The job has whole sets: the ranks of a set are ranks of the job.
LEMMA SetFits ==
  ASSUME NEW n \in Nat, NEW m \in Nat, NEW w \in Nat, w > 0, n % w = 0, m % w = 0, m < n
  PROVE  m + w <= n
<1>1. PICK a \in Nat, b \in Nat : m = w * a /\ n = w * b
  <2>1. /\ m \div w \in Nat /\ m = w * (m \div w) + 0
        /\ n \div w \in Nat /\ n = w * (n \div w) + 0
    BY DivisionIs
  <2>2. w * (m \div w) \in Nat /\ w * (n \div w) \in Nat
    BY <2>1
  <2> QED BY <2>1, <2>2
<1>2. CASE a + 1 <= b
  BY <1>1, <1>2, Multiply
<1>3. CASE b + 1 <= a
  <2>1. w * b + w <= w * a
    BY <1>3, Multiply
  <2> QED BY <1>1, <2>1
<1>4. CASE a = b
  BY <1>1, <1>4
<1> QED BY <1>2, <1>3, <1>4

LEMMA WorkersAre ==
  ASSUME job \in Jobs, NEW m \in Rank
  PROVE  /\ \A w \in Workers(m) : w \in Rank /\ w # m /\ m = GetMyMaster(w) /\ ~IsMaster(w) /\ IsMaster(m)
         /\ ~IsMaster(m) => GetMyMaster(m) \in Rank /\ m \in Workers(GetMyMaster(m))
         /\ \A w \in Workers(m) : Workers(w) = {}
         /\ job.workersSet >= 2 /\ IsMaster(m) => Workers(m) = (m + 1) .. (m + job.workersSet - 1)
<1> DEFINE k == job.workersSet
           n == job.numProcesses
<1>1. /\ n \in Nat \ {0} /\ k \in Nat /\ (k # 0 => n % k = 0)
      /\ Rank = 0 .. n - 1 /\ m \in Nat
  BY JobsAssumption DEF Rank
<1> HIDE DEF n, k
<1>2. CASE k = 0
  <2>1. /\ \A r \in Rank : (IsMaster(r) <=> r = 0) /\ GetMyMaster(r) = 0
        /\ 0 \in Rank
    BY <1>1, <1>2 DEF IsMaster, GetMyMaster, MasterRank, k
  <2> QED BY <1>2, <2>1 DEF Workers, k
<1>3. CASE k > 0
  <2>1. \A r \in Rank : (IsMaster(r) <=> r % k = 0) /\ GetMyMaster(r) = (r \div k) * k
    BY <1>3 DEF IsMaster, GetMyMaster, k
  <2>2. ASSUME NEW r \in Rank
        PROVE  /\ GetMyMaster(r) \in Rank /\ GetMyMaster(r) % k = 0
               /\ GetMyMaster(r) <= r /\ r < GetMyMaster(r) + k
               /\ r % k = 0 => GetMyMaster(r) = r
    <3>1. r \in Nat /\ r < n
      BY <1>1
    <3>2. PICK b \in Nat, c \in 0 .. k - 1 : b = r \div k /\ r = k * b + c
      BY <1>1, <1>3, <3>1, DivisionIs
    <3>3. k * b \in Nat /\ (k * b) % k = 0
      BY <1>1, <1>3, MultipleIs
    <3>4. GetMyMaster(r) = k * b
      BY <1>1, <2>1, <3>2
    <3>5. r % k = 0 => GetMyMaster(r) = r
      <4>1. r <= r /\ r < r + k
        BY <1>1, <1>3, <3>1
      <4>2. k \in Nat
        BY <1>1
      <4>3. r % k = 0 => (r \div k) * k = r
        BY <1>3, <3>1, <4>1, <4>2, SetOfMaster, Zenon
      <4> QED BY <2>1, <4>3
    <3>6. k * b <= r /\ r < k * b + k /\ k * b \in Rank
      BY <1>1, <3>1, <3>2, <3>3
    <3> QED BY <3>3, <3>4, <3>5, <3>6
  <2>3. ASSUME NEW w \in Workers(m)
        PROVE  w \in Rank /\ w # m /\ m = GetMyMaster(w) /\ ~IsMaster(w) /\ IsMaster(m)
    <3>1. w \in Rank /\ w # m /\ GetMyMaster(w) = m
      BY DEF Workers
    <3> QED BY <2>1, <2>2, <3>1
  <2>4. ~IsMaster(m) => GetMyMaster(m) \in Rank /\ m \in Workers(GetMyMaster(m))
    BY <2>1, <2>2 DEF Workers
  <2>5. ASSUME NEW w \in Workers(m), NEW x \in Workers(w) PROVE FALSE
    <3>1. w \in Rank /\ ~IsMaster(w)
      BY <2>3
    <3>2. x \in Rank /\ GetMyMaster(x) = w
      BY DEF Workers
    <3> QED BY <2>1, <2>2, <3>1, <3>2
  <2>6. ASSUME k >= 2, IsMaster(m) PROVE Workers(m) = (m + 1) .. (m + k - 1)
    <3>1. m % k = 0 /\ m < n
      BY <1>1, <2>1, <2>6
    <3>2. m + k <= n
      <4>1. n \in Nat /\ m \in Nat /\ k \in Nat /\ n % k = 0
        BY <1>1, <1>3
      <4> HIDE DEF n, k
      <4> QED BY <1>3, <3>1, <4>1, SetFits, Zenon
    <3>3. \A r \in Rank : GetMyMaster(r) = m <=> m <= r /\ r < m + k
      <4>1. ASSUME NEW r \in Rank PROVE GetMyMaster(r) = m <=> m <= r /\ r < m + k
        <5>1. r \in Nat /\ k \in Nat
          BY <1>1
        <5>2. (r \div k) * k = m <=> m <= r /\ r < m + k
          BY <1>1, <1>3, <3>1, <5>1, SetOfMaster, Zenon
        <5> QED BY <2>1, <5>2
      <4> QED BY <4>1
    <3>4. \A r : r \in Workers(m) <=> r \in Rank /\ r # m /\ m <= r /\ r < m + k
      BY <3>3 DEF Workers
    <3>5. \A r : r \in Rank /\ r # m /\ m <= r /\ r < m + k <=> r \in (m + 1) .. (m + k - 1)
      BY <1>1, <3>2
    <3> QED BY <3>4, <3>5
  <2> QED BY <2>3, <2>4, <2>5, <2>6 DEF k
<1> QED BY <1>1, <1>2, <1>3

LEMMA WorkersCount ==
  ASSUME job \in Jobs, NEW m \in Rank
  PROVE  /\ IsFiniteSet(Workers(m)) /\ Workers(m) \subseteq Rank
         /\ job.workersSet >= 2 /\ IsMaster(m) => Cardinality(Workers(m)) = job.workersSet - 1
<1>1. job.numProcesses \in Nat /\ job.workersSet \in Nat /\ m \in Int
  BY JobsAssumption DEF Rank
<1>2. IsFiniteSet(Rank)
  BY SMTT(30), <1>1, FS_Interval DEF Rank
<1>3. Workers(m) \subseteq Rank
  BY DEF Workers
<1>4. IsFiniteSet(Workers(m))
  BY <1>2, <1>3, FS_Subset
<1>5. ASSUME job.workersSet >= 2, IsMaster(m) PROVE Cardinality(Workers(m)) = job.workersSet - 1
  <2>1. Workers(m) = (m + 1) .. (m + job.workersSet - 1)
    BY <1>5, WorkersAre
  <2>2. Cardinality((m + 1) .. (m + job.workersSet - 1)) = (m + job.workersSet - 1) - (m + 1) + 1
    BY <1>1, <1>5, FS_Interval
  <2> QED BY <1>1, <1>5, <2>1, <2>2
<1> QED BY <1>3, <1>4, <1>5

-----------------------------------------------------------------------------
(* A step of process p of ApplicationHPC: what it does not touch.          *)

OnlyAt(p) ==
  /\ UNCHANGED job
  /\ running \in {p, Nobody} /\ running' \in {p, Nobody}
  /\ \A q \in Rank \ {p} :
       /\ state'[q] = state[q] /\ round'[q] = round[q] /\ waiting'[q] = waiting[q]
       /\ current'[q] = current[q] /\ calls'[q] = calls[q] /\ responses'[q] = responses[q]
       /\ phase'[q] = phase[q] /\ last'[q] = last[q]
  /\ \A a, b \in Rank \ {p} : net'[a][b] = net[a][b]

\* The operators of the job's parameters are the same after a step.
LEMMA SameJob ==
  ASSUME UNCHANGED job
  PROVE  /\ Rank' = Rank /\ InputSize' = InputSize /\ ResultSize' = ResultSize
         /\ IsHPC' = IsHPC
         /\ \A p : /\ IsMaster(p)' = IsMaster(p) /\ GetMyMaster(p)' = GetMyMaster(p)
                   /\ Workers(p)' = Workers(p) /\ DataCall(p)' = DataCall(p)
         /\ ResultsCall' = ResultsCall
BY DEF Rank, InputSize, ResultSize, Metadata, IsHPC, IsMaster, MasterRank, GetMyMaster, Workers,
       DataCall, ResultsCall

LEMMA PairFrame ==
  ASSUME UNCHANGED job, NEW m, NEW w, Pair(m, w),
         state'[m] = state[m], round'[m] = round[m], state'[w] = state[w], round'[w] = round[w],
         calls'[w] = calls[w], net'[m][w] = net[m][w], net'[w][m] = net[w][m],
         state[w] = "WORKER_RECEIVING" => (running' = w <=> running = w)
  PROVE  Pair(m, w)'
<1>1. Data(m)' = Data(m) /\ Result(m, w)' = Result(m, w)
  BY SameJob DEF Data, Result
<1>2. Awaits(w)' <=> Awaits(w)
  BY DEF Awaits
<1>3. /\ Fresh(m, w) => Fresh(m, w)'
      /\ Offered(m, w) => Offered(m, w)'
      /\ Working(m, w) => Working(m, w)'
      /\ Answered(m, w) => Answered(m, w)'
      /\ Done(m, w) => Done(m, w)'
  BY <1>1, <1>2 DEF Fresh, Offered, Working, Answered, Done, Nothing
<1> QED BY <1>3 DEF Pair

LEMMA PairMoves ==
  ASSUME UNCHANGED job, NEW m, NEW w, Pair(m, w),
         \/ state'[m] = state[m]
         \/ state[m] = "MASTER_DELIVERING" /\ state'[m] = "MASTER_WAITING_RESULTS"
         \/ state[m] = "MASTER_WAITING_RESULTS" /\ state'[m] = "MASTER_WAITING_RESULTS",
         Fresh(m, w) => Fresh(m, w)', Offered(m, w) => Offered(m, w)',
         Working(m, w) => Working(m, w)', Answered(m, w) => Answered(m, w)',
         Done(m, w) => Done(m, w)'
  PROVE  Pair(m, w)'
<1>1. CASE (state[m] \in {"INIT", "MASTER_READING"} \/ job.workersSet < 2) /\ Fresh(m, w)
  BY <1>1 DEF Pair
<1>2. CASE /\ job.workersSet >= 2
           /\ \/ state[m] = "MASTER_DELIVERING" /\ Offered(m, w)
              \/ /\ state[m] = "MASTER_WAITING_RESULTS"
                 /\ Offered(m, w) \/ Working(m, w) \/ Answered(m, w) \/ Done(m, w)
              \/ state[m] = "MASTER_WRITTING" /\ Done(m, w)
  BY <1>2 DEF Pair
<1> QED BY <1>1, <1>2 DEF Pair

LEMMA HpcStep ==
  ASSUME Typed, HpcInv, NEW p \in Rank, OnlyAt(p), Silent', At(p)',
         \A m \in Rank : p \in Workers(m) => (p \in Untaken(m)' <=> p \in Untaken(m))
  PROVE  HpcInv'
<1>1. /\ job \in Jobs /\ p # Nobody /\ UNCHANGED job /\ Nobody \notin Rank
  BY RankType DEF Typed, Types, OnlyAt
<1>2. ASSUME NEW q \in Rank \ {p} PROVE At(q)'
  <2>1. /\ state'[q] = state[q] /\ round'[q] = round[q] /\ waiting'[q] = waiting[q]
        /\ current'[q] = current[q] /\ calls'[q] = calls[q] /\ responses'[q] = responses[q]
        /\ phase'[q] = phase[q] /\ last'[q] = last[q] /\ running # q /\ running' # q
    BY <1>1 DEF OnlyAt
  <2>2. At(q)
    BY DEF HpcInv
  <2>3. Master(q)' /\ Worker(q)' /\ OneThing(q)' /\ Blocked(q)'
    BY <1>1, <2>1, <2>2, SameJob DEF At, Master, Worker, OneThing, Blocked
  <2>4. ASSUME NEW w \in Workers(q) PROVE Pair(q, w)'
    <3>1. w \in Rank /\ w # q
      BY DEF Workers
    <3>2. CASE w = p
      <4>1. p \in Workers(q)'
        BY <1>1, <3>2, SameJob
      <4>2. q \in Rank'
        BY <1>1, SameJob
      <4> QED BY <3>2, <4>1, <4>2 DEF At
    <3>3. CASE w # p
      <4>1. /\ state'[w] = state[w] /\ round'[w] = round[w] /\ calls'[w] = calls[w]
            /\ net'[q][w] = net[q][w] /\ net'[w][q] = net[w][q] /\ running # w /\ running' # w
        BY <1>1, <3>1, <3>3 DEF OnlyAt
      <4>2. Pair(q, w)
        BY <2>2 DEF At
      <4> QED BY <1>1, <2>1, <4>1, <4>2, PairFrame
    <3> QED BY <3>2, <3>3
  <2>5. ASSUME NEW m \in Rank, q \in Workers(m) PROVE Pair(m, q)'
    <3>1. m # q
      BY <2>5 DEF Workers
    <3>2. CASE m = p
      <4>1. q \in Workers(p)'
        BY <1>1, <2>5, <3>2, SameJob
      <4> QED BY <3>2, <4>1 DEF At
    <3>3. CASE m # p
      <4>1. /\ state'[m] = state[m] /\ round'[m] = round[m]
            /\ net'[m][q] = net[m][q] /\ net'[q][m] = net[q][m]
        BY <3>3 DEF OnlyAt
      <4>2. Pair(m, q)
        BY <2>2, <2>5 DEF At
      <4> QED BY <1>1, <2>1, <4>1, <4>2, PairFrame
    <3> QED BY <3>2, <3>3
  <2>6. Counted(q)'
    <3>1. Workers(q)' = Workers(q)
      BY <1>1, SameJob
    <3>2. ASSUME NEW w \in Workers(q) PROVE w \in Untaken(q)' <=> w \in Untaken(q)
      <4>1. w \in Rank
        BY DEF Workers
      <4>2. CASE w # p
        <5>1. round'[w] = round[w] /\ net'[w][q] = net[w][q]
          BY <4>1, <4>2 DEF OnlyAt
        <5> QED BY <2>1, <3>1, <5>1 DEF Untaken
      <4> QED BY <4>2
    <3>3. Untaken(q)' = Untaken(q)
      BY <3>1, <3>2 DEF Untaken
    <3> QED BY <1>1, <2>1, <2>2, <3>3 DEF At, Counted
  <2>7. WaitsForNobody(q)'
    BY <1>1, <2>1, <2>2 DEF At, WaitsForNobody
  <2>8. IsMaster(q)' => calls'[q] = <<>>
    BY <1>1, <2>1, <2>2, SameJob DEF At
  <2>9. last'[q].sent = last'[q].taken
    BY <2>1, <2>2 DEF At
  <2>10. Rank' = Rank /\ Workers(q)' = Workers(q) /\ \A m : Workers(m)' = Workers(m)
    BY <1>1, SameJob
  <2>11. (\A w \in Workers(q) : Pair(q, w))' /\ (\A m \in Rank : q \in Workers(m) => Pair(m, q))'
    BY <2>4, <2>5, <2>10
  <2> QED BY <2>3, <2>6, <2>7, <2>8, <2>9, <2>11 DEF At
<1>3. Rank' = Rank
  BY <1>1, SameJob
<1> QED BY <1>2, <1>3 DEF HpcInv

\* Silence, when only what p sends changes, and only to its set.
LEMMA SilentStep ==
  ASSUME Silent, UNCHANGED job,
         \A a, b \in Rank : a \notin Workers(b) /\ b \notin Workers(a) /\ net[a][b] = <<>> => net'[a][b] = <<>>
  PROVE  Silent'
<1>1. Rank' = Rank /\ \A q : Workers(q)' = Workers(q)
  BY SameJob
<1> QED BY <1>1 DEF Silent

-----------------------------------------------------------------------------
(* Steps in which the process stays where it is.                           *)

LEMMA Stays ==
  ASSUME Typed, HpcInv, NEW p \in Rank, OnlyAt(p),
         UNCHANGED <<net, calls, current, last, state, round>>,
         state[p] \in {"MASTER_DELIVERING", "WORKER_SENDING_BACK", "MASTER_WAITING_RESULTS",
                       "WORKER_RECEIVING"} => running' = running /\ responses'[p] = responses[p],
         OneThing(p)'
  PROVE  HpcInv'
<1>1. UNCHANGED job /\ At(p)
  BY DEF OnlyAt, HpcInv
<1>2. Silent'
  BY <1>1, SilentStep DEF HpcInv
<1>3. \A m : Untaken(m)' = Untaken(m)
  BY <1>1, SameJob DEF Untaken
<1>4. Master(p)' /\ Worker(p)' /\ Blocked(p)'
  BY <1>1, SameJob DEF At, Master, Worker, Blocked, MasterStates, WorkStates
<1>5. ASSUME NEW w \in Workers(p) PROVE Pair(p, w)'
  <2>1. w \in Rank /\ w # p
    BY DEF Workers
  <2>2. running # w /\ running' # w
    BY <2>1, RankType DEF OnlyAt, Typed, Types
  <2> QED BY <1>1, <2>2, PairFrame DEF At
<1>6. ASSUME NEW m \in Rank, p \in Workers(m) PROVE Pair(m, p)'
  BY <1>1, <1>6, PairFrame DEF At
<1>7. Counted(p)' /\ WaitsForNobody(p)'
  BY <1>1, <1>3 DEF At, Counted, WaitsForNobody
<1>8. At(p)'
  <2>1. Rank' = Rank /\ IsMaster(p)' = IsMaster(p) /\ \A m : Workers(m)' = Workers(m)
    BY <1>1, SameJob
  <2>2. (\A w \in Workers(p) : Pair(p, w))' /\ (\A m \in Rank : p \in Workers(m) => Pair(m, p))'
    BY <1>5, <1>6, <2>1
  <2>3. (IsMaster(p) => calls[p] = <<>>)' /\ (last[p].sent = last[p].taken)'
    BY <1>1, <2>1 DEF At
  <2> QED BY <1>4, <1>7, <2>2, <2>3 DEF At
<1> QED BY <1>2, <1>3, <1>8, HpcStep

LEMMA StartKeeps ==
  ASSUME Typed, HpcInv, NEW p \in Rank, Start(p)
  PROVE  HpcInv'
<1>0. phase \in [Rank -> Phases] /\ p # Nobody
  BY RankType DEF Typed, Types
<1>1. /\ UNCHANGED <<job, net, current, calls, waiting, last, round, state, responses>>
      /\ running = Nobody
  BY DEF Start, ParseMachinesFile, EstablishAllConnections, SetEstablishedConnection, WaitToExecute,
         hpcVars
<1>2. phase[p] \in {"started", "listening", "connecting"}
  BY DEF Start, ParseMachinesFile, EstablishAllConnections, SetEstablishedConnection, WaitToExecute
<1>3. /\ \A q \in Rank \ {p} : phase'[q] = phase[q]
      /\ running' = Nobody \/ (running' = p /\ phase'[p] = "running")
  BY <1>0, <1>1
  DEF Start, ParseMachinesFile, EstablishAllConnections, SetEstablishedConnection, WaitToExecute
<1>4. OnlyAt(p)
  BY <1>1, <1>3 DEF OnlyAt
<1>5. state[p] = "INIT" /\ current[p] = NoCall /\ waiting[p] = "none"
  BY <1>2 DEF HpcInv, At, OneThing
<1>6. OneThing(p)'
  <2>1. NoCall' = NoCall
    BY DEF NoCall
  <2> QED BY <1>0, <1>1, <1>3, <1>5, <2>1 DEF OneThing
<1> QED BY <1>1, <1>4, <1>5, <1>6, Stays

LEMMA ResponseKeeps ==
  ASSUME Typed, HpcInv, IsHPC, NEW p \in Rank, ProcessResponseMessage(p)
  PROVE  HpcInv'
<1>1. /\ UNCHANGED <<job, phase, net, current, calls, last, round, state>>
      /\ running = Nobody /\ waiting[p] # "none" /\ running' = p
      /\ waiting' = [waiting EXCEPT ![p] = "none"]
      /\ \A q \in Rank \ {p} : responses'[q] = responses[q]
  BY ResponseDoes DEF Typed
<1>2. /\ waiting \in [Rank -> Waits] /\ p # Nobody
  BY RankType DEF Typed, Types
<1>3. OnlyAt(p) /\ waiting'[p] = "none"
  BY <1>1, <1>2 DEF OnlyAt
<1>4. OneThing(p) /\ Blocked(p)
  BY DEF HpcInv, At
<1>5. /\ current[p] = NoCall /\ phase[p] \notin {"started", "listening", "connecting"}
      /\ state[p] \notin {"MASTER_DELIVERING", "WORKER_SENDING_BACK", "MASTER_WAITING_RESULTS",
                          "WORKER_RECEIVING"}
  BY <1>1, <1>2, <1>4 DEF OneThing, Blocked, NoCall, ResultsCall, DataCall
<1>6. OneThing(p)'
  BY <1>1, <1>3, <1>5 DEF OneThing, NoCall
<1> QED BY <1>1, <1>3, <1>5, <1>6, Stays

LEMMA ShowKeeps ==
  ASSUME Typed, HpcInv, NEW p \in Rank, ShowResults(p)
  PROVE  HpcInv'
<1>1. /\ UNCHANGED <<job, net, current, calls, waiting, last, round, state, responses, running>>
      /\ running = Nobody /\ phase' = [phase EXCEPT ![p] = "finished"]
  BY DEF ShowResults, hpcVars
<1>2. phase \in [Rank -> Phases]
  BY DEF Typed, Types
<1>3. OnlyAt(p) /\ phase'[p] = "finished"
  BY <1>1, <1>2 DEF OnlyAt
<1>4. OneThing(p)'
  BY <1>1, <1>3 DEF OneThing, NoCall, HpcInv, At
<1> QED BY <1>1, <1>3, <1>4, Stays

-----------------------------------------------------------------------------
(* Steps of a master and of a worker.                                      *)

\* What changes on the network is between a master and its workers.
Talk == \A a, b \in Rank : net'[a][b] = net[a][b] \/ a \in Workers(b) \/ b \in Workers(a)

LEMMA MasterKeeps ==
  ASSUME Typed, HpcInv, NEW p \in Rank, IsMaster(p), OnlyAt(p), Talk,
         state'[p] \in MasterStates \cup {"INIT"}, OneThing(p)', Blocked(p)',
         \A w \in Workers(p) : Pair(p, w)',
         Counted(p)', WaitsForNobody(p)', calls'[p] = <<>>, last'[p].sent = last'[p].taken
  PROVE  HpcInv'
<1>1. UNCHANGED job /\ job \in Jobs
  BY DEF OnlyAt, Typed, Types
<1>2. \A m \in Rank : p \notin Workers(m)
  BY <1>1, WorkersAre
<1>3. Rank' = Rank /\ IsMaster(p)' = IsMaster(p) /\ \A m : Workers(m)' = Workers(m)
  BY <1>1, SameJob
<1>4. Silent'
  BY <1>1, SilentStep DEF Talk, HpcInv
<1>5. Master(p)' /\ Worker(p)'
  BY <1>3 DEF Master, Worker, MasterStates, WorkStates
<1>6. At(p)'
  <2>1. (\A w \in Workers(p) : Pair(p, w))' /\ (\A m \in Rank : p \in Workers(m) => Pair(m, p))'
    BY <1>2, <1>3
  <2> QED BY <1>5, <2>1 DEF At
<1> QED BY <1>2, <1>4, <1>6, HpcStep

LEMMA WorkerKeeps ==
  ASSUME Typed, HpcInv, NEW p \in Rank, NEW m \in Rank, p \in Workers(m), OnlyAt(p), Talk,
         state'[p] \notin MasterStates, OneThing(p)', Blocked(p)',
         Pair(m, p)', p \in Untaken(m)' <=> p \in Untaken(m), last'[p].sent = last'[p].taken
  PROVE  HpcInv'
<1>1. UNCHANGED job /\ job \in Jobs
  BY DEF OnlyAt, Typed, Types
<1>2. ~IsMaster(p) /\ Workers(p) = {} /\ \A n \in Rank : p \in Workers(n) => n = m
  BY <1>1, WorkersAre
<1>3. Rank' = Rank /\ IsMaster(p)' = IsMaster(p) /\ \A n : Workers(n)' = Workers(n)
  BY <1>1, SameJob
<1>4. Silent'
  BY <1>1, SilentStep DEF Talk, HpcInv
<1>5. Master(p)' /\ Worker(p)'
  BY <1>2, <1>3 DEF Master, Worker
<1>6. Counted(p)' /\ WaitsForNobody(p)'
  BY DEF Counted, WaitsForNobody, MasterStates
<1>7. At(p)'
  <2>1. (\A w \in Workers(p) : Pair(p, w))' /\ (\A n \in Rank : p \in Workers(n) => Pair(n, p))'
    BY <1>2, <1>3
  <2>2. (IsMaster(p) => calls[p] = <<>>)'
    BY <1>2, <1>3
  <2> QED BY <1>5, <1>6, <2>1, <2>2 DEF At
<1> QED BY <1>2, <1>4, <1>7, HpcStep

LEMMA MessageOps == ASSUME NEW m \in Messages PROVE m.op # "nothing"
BY DEF Messages, Ops

\* A call that finds nothing in the list, and one that finds the only message.
LEMMA SyncBlocks ==
  ASSUME NEW p \in Rank, NEW c, Synchronize(p, c, <<>>)
  PROVE  /\ current' = [current EXCEPT ![p] = c] /\ calls' = [calls EXCEPT ![p] = <<>>]
         /\ running' = Nobody /\ last' = last
<1>1. PICK list \in Seq(Messages) : list = <<>> /\ Len(list) = 0
  BY EmptySeq
<1>2. SearchMPICall(list, c) = 0
  <2>1. SearchMPICall(list, c) = 0 \/ SearchMPICall(list, c) \in 1 .. Len(list)
    BY Search
  <2> QED BY <1>1, <2>1
<1> QED BY <1>1, <1>2 DEF Synchronize

LEMMA OneMessage ==
  ASSUME NEW S, NEW m \in S
  PROVE  <<m>> \in Seq(S) /\ Len(<<m>>) = 1 /\ <<m>>[1] = m
OBVIOUS

LEMMA SyncTakes ==
  ASSUME NEW p \in Rank, NEW c, NEW msg \in Messages, Fits(msg, c), Synchronize(p, c, <<msg>>)
  PROVE  /\ current' = [current EXCEPT ![p] = NoCall] /\ calls' = [calls EXCEPT ![p] = <<>>]
         /\ running' = p /\ last' = [last EXCEPT ![p] = [sent |-> msg.round, taken |-> round'[p]]]
<1>1. PICK list \in Seq(Messages) : list = <<msg>> /\ Len(list) = 1 /\ list[1] = msg
  BY OneMessage
<1>2. SearchMPICall(list, c) = 1
  <2>1. 1 \in 1 .. Len(list) /\ Fits(list[1], c)
    BY <1>1
  <2>2. SearchMPICall(list, c) # 0 /\ SearchMPICall(list, c) \in 1 .. Len(list)
    BY <2>1, Search
  <2> QED BY <1>1, <2>2
<1>3. RemoveAt(list, 1) = <<>>
  <2>1. PICK r \in Seq(Messages) : r = RemoveAt(list, 1) /\ Len(r) = Len(list) - 1
    <3>1. 1 \in 1 .. Len(list)
      BY <1>1
    <3> QED BY <3>1, RemoveAtPlaces
  <2> QED BY <1>1, <2>1
<1>4. Synchronize(p, c, list)
  BY <1>1
<1> QED BY <1>1, <1>2, <1>3, <1>4 DEF Synchronize, Clear

\* A call that looks for nothing.
LEMMA SyncKeeps ==
  ASSUME NEW p \in Rank, NEW msg \in Messages, Synchronize(p, NoCall, <<msg>>)
  PROVE  /\ current' = [current EXCEPT ![p] = NoCall] /\ calls' = [calls EXCEPT ![p] = <<msg>>]
         /\ running' = Nobody /\ last' = last
<1>1. PICK list \in Seq(Messages) : list = <<msg>> /\ Len(list) = 1 /\ list[1] = msg
  BY OneMessage
<1>2. ~Fits(msg, NoCall)
  <2>1. msg.op # "nothing"
    BY MessageOps
  <2>2. Partner(NoCall) = "nothing"
    BY DEF Partner, NoCall
  <2> QED BY <2>1, <2>2 DEF Fits
<1>3. SearchMPICall(list, NoCall) = 0
  <2>1. \A i \in 1 .. Len(list) : ~Fits(list[i], NoCall)
    BY <1>1, <1>2
  <2>2. \/ SearchMPICall(list, NoCall) = 0
        \/ /\ SearchMPICall(list, NoCall) \in 1 .. Len(list)
           /\ Fits(list[SearchMPICall(list, NoCall)], NoCall)
    BY Search
  <2> QED BY <2>1, <2>2
<1> QED BY <1>1, <1>3 DEF Synchronize

-----------------------------------------------------------------------------
(* calculateNextState, state by state.                                     *)

\* What is known of a process that runs, and of what a step inside it changes.
LEMMA InsideFrame ==
  ASSUME Typed, HpcInv, IsHPC, NEW p \in Rank, running = p, Inside(p)
  PROVE  /\ UNCHANGED <<job, net, calls, current, last>> /\ OnlyAt(p) /\ Talk
         /\ state \in [Rank -> States] /\ round \in [Rank -> Nat] /\ p # Nobody
         /\ current[p] = NoCall /\ waiting[p] = "none" /\ last[p].sent = last[p].taken
         /\ phase[p] \notin {"started", "listening", "connecting"}
         /\ phase'[p] \notin {"started", "listening", "connecting"} => OneThing(p)'
<1>1. /\ UNCHANGED <<job, net, calls, current, last>> /\ running' \in {p, Nobody}
      /\ \A q \in Rank \ {p} :
           /\ waiting'[q] = waiting[q] /\ responses'[q] = responses[q]
           /\ state'[q] = state[q] /\ round'[q] = round[q] /\ phase'[q] = phase[q]
      /\ running' = p => waiting'[p] = waiting[p]
  BY InsideDoes DEF Typed
<1>2. state \in [Rank -> States] /\ round \in [Rank -> Nat] /\ p # Nobody
  BY RankType DEF Typed, Types
<1>3. OnlyAt(p) /\ Talk
  BY <1>1 DEF OnlyAt, Talk
<1>4. /\ current[p] = NoCall /\ waiting[p] = "none" /\ last[p].sent = last[p].taken
      /\ phase[p] \notin {"started", "listening", "connecting"}
  BY DEF HpcInv, At, OneThing
<1>5. phase'[p] \notin {"started", "listening", "connecting"} => OneThing(p)'
  BY <1>1, <1>2, <1>4 DEF OneThing, NoCall
<1> QED BY <1>1, <1>2, <1>3, <1>4, <1>5

LEMMA CreateKeeps ==
  ASSUME Typed, HpcInv, IsHPC, NEW p \in Rank, running = p, Inside(p), CreateResults(p)
  PROVE  HpcInv'
<1>1. UNCHANGED <<state, phase, round>> /\ state[p] = "INIT"
  BY DEF CreateResults
<1>2. /\ UNCHANGED <<net, calls, current, last>> /\ OnlyAt(p)
      /\ OneThing(p)'
  BY <1>1, InsideFrame
<1> QED BY <1>1, <1>2, Stays

LEMMA MasterReadKeeps ==
  ASSUME Typed, HpcInv, IsHPC, NEW p \in Rank, running = p, Inside(p), MasterRead(p)
  PROVE  HpcInv'
<1>1. /\ IsMaster(p) /\ state[p] \in {"INIT", "MASTER_READING"}
      /\ Goto(p, "MASTER_READING") /\ UNCHANGED <<phase, round>>
  BY DEF MasterRead, FileReady
<1>2. /\ UNCHANGED <<job, net, calls, current, last>> /\ OnlyAt(p) /\ Talk
      /\ state \in [Rank -> States] /\ p # Nobody
      /\ current[p] = NoCall /\ last[p].sent = last[p].taken /\ OneThing(p)'
  BY <1>1, InsideFrame
<1>3. state'[p] = "MASTER_READING"
  BY <1>1, <1>2 DEF Goto
<1>4. At(p) /\ calls[p] = <<>>
  BY <1>1 DEF HpcInv, At
<1>5. ASSUME NEW w \in Workers(p) PROVE Pair(p, w)'
  <2>1. Fresh(p, w)
    BY <1>1, <1>4 DEF At, Pair
  <2>2. w \in Rank \ {p}
    BY DEF Workers
  <2>3. state'[w] = state[w] /\ running # w /\ running' # w
    BY <1>2, <2>2, RankType DEF OnlyAt, Typed, Types
  <2>4. Fresh(p, w)'
    BY <1>1, <1>2, <2>1, <2>3 DEF Fresh, Awaits, Nothing
  <2> QED BY <1>3, <2>4 DEF Pair
<1>6. Blocked(p)' /\ Counted(p)' /\ WaitsForNobody(p)'
  BY <1>2, <1>3 DEF Blocked, Counted, WaitsForNobody, NoCall
<1> QED BY <1>1, <1>2, <1>3, <1>4, <1>5, <1>6, MasterKeeps DEF MasterStates

\* When the last result has come, no worker is left that the master counts.
LEMMA AllDone ==
  ASSUME Typed, HpcInv, IsHPC, NEW p \in Rank, running = p,
         state[p] = "MASTER_WAITING_RESULTS", Decrement(responses[p]) = 0
  PROVE  job.workersSet >= 2 /\ \A w \in Workers(p) : Done(p, w)
<1>1. At(p)
  BY DEF HpcInv
<1>2. /\ job.workersSet \in Nat /\ UnsignedWrap \in Nat /\ UnsignedWrap > 1
      /\ responses[p] \in 0 .. UnsignedWrap - 1 /\ job \in Jobs
  <2>1. responses \in [Rank -> 0 .. UnsignedWrap - 1] /\ job \in Jobs
    BY DEF Typed, Types
  <2> QED BY <2>1, HpcJob DEF Typed
<1>3. job.workersSet >= 2
  BY <1>1, <1>2 DEF At, WaitsForNobody
<1>4. responses[p] = Cardinality(Untaken(p)) + 1
  BY <1>1, <1>3 DEF At, Counted
<1>5. responses[p] = 1
  BY <1>2, DecrementIs
<1>6. Untaken(p) = {}
  <2>1. IsFiniteSet(Workers(p)) /\ Untaken(p) \subseteq Workers(p)
    BY <1>2, WorkersCount DEF Untaken
  <2>2. IsFiniteSet(Untaken(p))
    BY <2>1, FS_Subset
  <2>3. Cardinality(Untaken(p)) \in Nat
    BY <2>2, FS_CardinalityType
  <2>4. Cardinality(Untaken(p)) = 0
    BY <1>4, <1>5, <2>3
  <2> QED BY <2>2, <2>4, FS_EmptySet
<1>7. ASSUME NEW w \in Workers(p) PROVE Done(p, w)
  <2>1. round[w] # round[p] /\ net[w][p] = <<>>
    BY <1>6 DEF Untaken
  <2>2. Offered(p, w) \/ Working(p, w) \/ Answered(p, w) \/ Done(p, w)
    BY <1>1, <1>3, <1>2 DEF At, Pair
  <2>3. ~Answered(p, w)
    BY <2>1 DEF Answered
  <2> QED BY <2>1, <2>2, <2>3 DEF Offered, Working
<1> QED BY <1>3, <1>7

LEMMA MasterWriteKeeps ==
  ASSUME Typed, HpcInv, IsHPC, NEW p \in Rank, running = p, Inside(p), MasterWrite(p)
  PROVE  HpcInv'
<1>1. /\ IsMaster(p)
      /\ \/ state[p] = "MASTER_WAITING_RESULTS" /\ Decrement(responses[p]) = 0
         \/ state[p] = "MASTER_WRITTING"
      /\ Goto(p, "MASTER_WRITTING") /\ UNCHANGED <<phase, round>>
  BY DEF MasterWrite
<1>2. /\ UNCHANGED <<job, net, calls, current, last>> /\ OnlyAt(p) /\ Talk
      /\ state \in [Rank -> States] /\ p # Nobody
      /\ current[p] = NoCall /\ last[p].sent = last[p].taken /\ OneThing(p)'
  BY <1>1, InsideFrame
<1>3. state'[p] = "MASTER_WRITTING"
  BY <1>1, <1>2 DEF Goto
<1>4. At(p) /\ calls[p] = <<>>
  BY <1>1 DEF HpcInv, At
<1>5. job.workersSet >= 2 /\ \A w \in Workers(p) : Done(p, w)
  <2>1. CASE state[p] = "MASTER_WAITING_RESULTS" /\ Decrement(responses[p]) = 0
    BY <2>1, AllDone
  <2>2. CASE state[p] = "MASTER_WRITTING"
    <3>1. job.workersSet \in Nat
      BY HpcJob DEF Typed
    <3>2. job.workersSet >= 2
      BY <1>4, <2>2, <3>1 DEF At, WaitsForNobody
    <3> QED BY <1>4, <2>2, <3>1, <3>2 DEF At, Pair
  <2> QED BY <1>1, <2>1, <2>2
<1>6. ASSUME NEW w \in Workers(p) PROVE Pair(p, w)'
  <2>1. Done(p, w)
    BY <1>5
  <2>2. w \in Rank \ {p}
    BY DEF Workers
  <2>3. state'[w] = state[w] /\ running # w /\ running' # w
    BY <1>2, <2>2, RankType DEF OnlyAt, Typed, Types
  <2>4. Done(p, w)'
    BY <1>1, <1>2, <2>1, <2>3 DEF Done, Awaits, Nothing
  <2> QED BY <1>2, <1>3, <1>5, <2>4 DEF Pair
<1>7. Blocked(p)' /\ Counted(p)'
  BY <1>2, <1>3 DEF Blocked, Counted, NoCall
<1>8. WaitsForNobody(p)'
  <2>1. job.workersSet \in Nat
    BY HpcJob DEF Typed
  <2> QED BY <1>2, <1>5, <2>1 DEF WaitsForNobody
<1> QED BY <1>1, <1>2, <1>3, <1>4, <1>6, <1>7, <1>8, MasterKeeps DEF MasterStates

LEMMA WorkerStepKeeps ==
  ASSUME Typed, HpcInv, IsHPC, NEW p \in Rank, running = p, Inside(p), WorkerStep(p)
  PROVE  HpcInv'
<1>1. /\ state[p] \in {"WORKER_RECEIVING", "WORKER_READING", "WORKER_ALLOCATING", "WORKER_PROCESSING"}
      /\ \E s \in WorkStates : Goto(p, s)
      /\ UNCHANGED <<phase, round>>
  BY DEF WorkerStep, WorkStates
<1>2. /\ UNCHANGED <<job, net, calls, current, last>> /\ OnlyAt(p) /\ Talk
      /\ state \in [Rank -> States] /\ p # Nobody
      /\ current[p] = NoCall /\ last[p].sent = last[p].taken /\ OneThing(p)'
  BY <1>1, InsideFrame
<1>3. state'[p] \in WorkStates
  BY <1>1, <1>2 DEF Goto
<1>4. At(p) /\ job \in Jobs
  BY DEF HpcInv, At, Typed, Types
<1>5. ~IsMaster(p)
  BY <1>1, <1>4 DEF At, Worker, WorkStates
<1>6. PICK m \in Rank : p \in Workers(m)
  BY <1>4, <1>5, WorkersAre
<1>7. m # p /\ state'[m] = state[m]
  BY <1>2, <1>6 DEF Workers, OnlyAt
<1>8. Working(m, p) /\ job.workersSet >= 2 /\ state[m] = "MASTER_WAITING_RESULTS"
  <2>1. Pair(m, p)
    BY <1>4, <1>6 DEF At
  <2>2. ~Awaits(p) /\ state[p] # "WORKER_SENDING_BACK"
    BY <1>1 DEF Awaits
  <2> QED BY <2>1, <2>2 DEF Pair, Fresh, Offered, Answered, Done
<1>9. Working(m, p)'
  BY <1>1, <1>2, <1>3, <1>8 DEF Working, Nothing
<1>10. Pair(m, p)'
  BY <1>2, <1>7, <1>8, <1>9 DEF Pair
<1>11. p \in Untaken(m)' <=> p \in Untaken(m)
  BY <1>1, <1>2, SameJob DEF Untaken
<1>12. Blocked(p)' /\ state'[p] \notin MasterStates
  BY <1>2, <1>3 DEF Blocked, WorkStates, MasterStates, NoCall
<1> QED BY <1>2, <1>6, <1>10, <1>11, <1>12, WorkerKeeps

LEMMA NextIterationKeeps ==
  ASSUME Typed, HpcInv, IsHPC, NEW p \in Rank, running = p, Inside(p), NextIteration(p)
  PROVE  HpcInv'
<1>0. phase \in [Rank -> Phases]
  BY DEF Typed, Types
<1>1. /\ state[p] \in {"MASTER_WRITTING", "WORKER_SENDING_BACK"}
      /\ Goto(p, "INIT") /\ round' = [round EXCEPT ![p] = @ + 1]
      /\ phase' = [phase EXCEPT ![p] = "finishing"] \/ phase' = phase
  BY DEF NextIteration
<1>2. /\ UNCHANGED <<job, net, calls, current, last>> /\ OnlyAt(p) /\ Talk
      /\ state \in [Rank -> States] /\ round \in [Rank -> Nat] /\ p # Nobody
      /\ current[p] = NoCall /\ last[p].sent = last[p].taken
      /\ phase[p] \notin {"started", "listening", "connecting"}
  BY InsideFrame
<1>3. OneThing(p)'
  <2>1. phase'[p] \notin {"started", "listening", "connecting"}
    BY <1>0, <1>1, <1>2
  <2> QED BY <2>1, InsideFrame
<1>4. state'[p] = "INIT" /\ round'[p] = round[p] + 1
  BY <1>1, <1>2 DEF Goto
<1>5. At(p) /\ job \in Jobs
  BY DEF HpcInv, At, Typed, Types
<1>6. Blocked(p)'
  BY <1>2, <1>4 DEF Blocked, NoCall
<1>7. CASE state[p] = "MASTER_WRITTING"
  <2>1. IsMaster(p) /\ calls[p] = <<>>
    BY <1>5, <1>7 DEF At, Master, MasterStates
  <2>2. ASSUME NEW w \in Workers(p) PROVE Pair(p, w)'
    <3>1. Done(p, w)
      <4>1. job.workersSet \in Nat
        BY HpcJob DEF Typed
      <4>2. job.workersSet >= 2
        BY <1>5, <1>7, <4>1 DEF At, WaitsForNobody
      <4> QED BY <1>5, <1>7, <4>1, <4>2 DEF At, Pair
    <3>2. w \in Rank \ {p}
      BY DEF Workers
    <3>3. state'[w] = state[w] /\ round'[w] = round[w] /\ running # w /\ running' # w
      BY <1>2, <3>2, RankType DEF OnlyAt, Typed, Types
    <3>4. Fresh(p, w)'
      BY <1>2, <1>4, <3>1, <3>3 DEF Done, Fresh, Awaits, Nothing
    <3> QED BY <1>4, <3>4 DEF Pair
  <2>3. Counted(p)' /\ WaitsForNobody(p)'
    BY <1>4 DEF Counted, WaitsForNobody
  <2> QED BY <1>2, <1>3, <1>4, <1>6, <2>1, <2>2, <2>3, MasterKeeps
<1>8. CASE state[p] = "WORKER_SENDING_BACK"
  <2>1. ~IsMaster(p)
    BY <1>5, <1>8 DEF At, Worker
  <2>2. PICK m \in Rank : p \in Workers(m)
    BY <1>5, <2>1, WorkersAre
  <2>3. m # p /\ state'[m] = state[m] /\ round'[m] = round[m] /\ round[m] \in Nat /\ round[p] \in Nat
    BY <1>2, <2>2 DEF Workers, OnlyAt
  <2>4. /\ Answered(m, p) /\ round[p] = round[m] /\ job.workersSet >= 2
        /\ state[m] = "MASTER_WAITING_RESULTS"
    <3>1. Pair(m, p)
      BY <1>5, <2>2 DEF At
    <3>2. ~Awaits(p) /\ state[p] \notin WorkStates
      BY <1>8 DEF Awaits, WorkStates
    <3> QED BY <1>8, <3>1, <3>2 DEF Pair, Fresh, Offered, Working, Answered, Done
  <2>5. Answered(m, p)'
    <3>1. Result(m, p)' = Result(m, p)
      BY <1>2, <2>3, SameJob DEF Result
    <3> QED BY <1>2, <1>4, <2>3, <2>4, <3>1 DEF Answered, Awaits
  <2>6. Pair(m, p)'
    BY <1>2, <2>3, <2>4, <2>5 DEF Pair
  <2>7. p \in Untaken(m)' <=> p \in Untaken(m)
    <3>1. net[p][m] # <<>> /\ p \in Workers(m)'
      <4>1. net[p][m] = <<Result(m, p)>>
        BY <2>4 DEF Answered
      <4> QED BY <1>2, <2>2, <4>1, SameJob
    <3> QED BY <1>2, <2>2, <3>1 DEF Untaken
  <2> QED BY <1>2, <1>3, <1>4, <1>6, <2>2, <2>6, <2>7, WorkerKeeps DEF MasterStates
<1> QED BY <1>1, <1>7, <1>8

LEMMA InsideKeeps ==
  ASSUME Typed, HpcInv, IsHPC, NEW p \in Rank, running = p, Inside(p)
  PROVE  HpcInv'
BY CreateKeeps, MasterReadKeeps, MasterWriteKeeps, WorkerStepKeeps, NextIterationKeeps DEF Inside

\* What is known of a process that runs and sends or receives.
LEMMA MpiFrame ==
  ASSUME Typed, HpcInv, IsHPC, NEW p \in Rank, running = p, UNCHANGED <<job, open, barriers>>,
         DeliverData(p) \/ ReceivingResults(p) \/ ReceiveInputData(p) \/ SendResults(p)
  PROVE  /\ UNCHANGED <<round, waiting, phase>> /\ state' \in [Rank -> States]
         /\ \A q \in Rank \ {p} : state'[q] = state[q] /\ responses'[q] = responses[q]
         /\ state \in [Rank -> States] /\ round \in [Rank -> Nat] /\ calls \in [Rank -> Seq(Messages)]
         /\ current \in [Rank -> MpiCalls] /\ last \in [Rank -> [sent : Nat, taken : Nat]]
         /\ responses \in [Rank -> 0 .. UnsignedWrap - 1]
         /\ net \in [Rank -> [Rank -> Seq(Messages)]] /\ From(net) /\ job \in Jobs /\ p # Nobody
         /\ At(p) /\ current[p] = NoCall /\ waiting[p] = "none" /\ last[p].sent = last[p].taken
         /\ phase[p] \notin {"started", "listening", "connecting"}
<1>1. /\ UNCHANGED <<round, waiting, phase>> /\ state' \in [Rank -> States]
      /\ \A q \in Rank \ {p} : state'[q] = state[q] /\ responses'[q] = responses[q]
  BY MpiStepDoes DEF Typed
<1>2. /\ state \in [Rank -> States] /\ round \in [Rank -> Nat] /\ calls \in [Rank -> Seq(Messages)]
      /\ current \in [Rank -> MpiCalls] /\ last \in [Rank -> [sent : Nat, taken : Nat]]
      /\ responses \in [Rank -> 0 .. UnsignedWrap - 1]
      /\ net \in [Rank -> [Rank -> Seq(Messages)]] /\ From(net) /\ job \in Jobs /\ p # Nobody
  BY RankType DEF Typed, Types, Sources
<1>3. /\ At(p) /\ current[p] = NoCall /\ waiting[p] = "none" /\ last[p].sent = last[p].taken
      /\ phase[p] \notin {"started", "listening", "connecting"}
  BY DEF HpcInv, At, OneThing
<1> QED BY <1>1, <1>2, <1>3

LEMMA SliceTyped ==
  ASSUME Typed, IsHPC, NEW m \in Rank, NEW w \in Rank
  PROVE  Data(m) \in Messages /\ Result(m, w) \in Messages
<1>1. InputSize \in Nat /\ ResultSize \in Nat /\ round[m] \in Nat
  BY HpcJob DEF Typed, Types
<1> QED BY <1>1 DEF Data, Result, Messages, Ops

LEMMA DeliverKeeps ==
  ASSUME Typed, HpcInv, IsHPC, NEW p \in Rank, running = p, UNCHANGED <<job, open, barriers>>, DeliverData(p)
  PROVE  HpcInv'
<1> DEFINE Q == (p + 1) .. (p + job.workersSet - 1)
<1>1. /\ UNCHANGED <<round, waiting, phase>>
      /\ \A q \in Rank \ {p} : state'[q] = state[q] /\ responses'[q] = responses[q]
      /\ state \in [Rank -> States] /\ round \in [Rank -> Nat]
      /\ current \in [Rank -> MpiCalls]
      /\ net \in [Rank -> [Rank -> Seq(Messages)]] /\ From(net) /\ job \in Jobs /\ p # Nobody
      /\ At(p) /\ current[p] = NoCall /\ waiting[p] = "none" /\ last[p].sent = last[p].taken
      /\ phase[p] \notin {"started", "listening", "connecting"}
  BY MpiFrame
<1>2. /\ state[p] = "MASTER_READING" /\ state' = [state EXCEPT ![p] = "MASTER_DELIVERING"]
      /\ SendDataToNetwork(p, Q, Message(p, "send", InputSize), net)
      /\ current' = [current EXCEPT ![p] = NoCall] /\ running' = p
      /\ UNCHANGED <<calls, last>>
  BY DEF DeliverData, Goto, Clear, Again
<1> HIDE DEF Q
<1>3. IsMaster(p) /\ calls[p] = <<>>
  BY <1>1, <1>2 DEF At, Master, MasterStates
<1>4. Message(p, "send", InputSize) = Data(p)
  BY <1>1 DEF Message, Data
<1>5. Sent(net', net, p, Q, Data(p))
  <2>1. Data(p) \in Messages
    BY SliceTyped
  <2>2. SendDataToNetwork(p, Q, Data(p), net)
    BY <1>2, <1>4
  <2>3. Types
    BY DEF Typed
  <2> HIDE DEF Typed
  <2> QED BY <1>1, <2>1, <2>2, <2>3, SendDoes
<1>6. job.workersSet \in Nat /\ p \in Nat
  BY <1>1, HpcJob, RankType DEF Typed
<1>7. \A w \in Rank : w \in Q <=> job.workersSet >= 2 /\ w \in Workers(p)
  <2>1. CASE job.workersSet >= 2
    BY <1>1, <1>3, <2>1, WorkersAre DEF Q
  <2>2. CASE job.workersSet < 2
    BY <1>6, <2>2 DEF Q
  <2> QED BY <1>6, <2>1, <2>2
<1>8. state'[p] = "MASTER_DELIVERING" /\ current'[p] = NoCall
  BY <1>1, <1>2
<1>9. OnlyAt(p) /\ Talk
  <2>1. \A a, b \in Rank \ {p} : net'[a][b] = net[a][b]
    BY <1>5 DEF Sent
  <2>2. Talk
    BY <1>5, <1>7 DEF Sent, Talk
  <2>3. \A q \in Rank \ {p} : current'[q] = current[q]
    BY <1>1, <1>2
  <2> QED BY <1>1, <1>2, <2>1, <2>2, <2>3 DEF OnlyAt
<1>10. ASSUME NEW w \in Workers(p) PROVE Pair(p, w)'
  <2>1. w \in Rank \ {p}
    BY DEF Workers
  <2>2. Fresh(p, w)
    BY <1>1, <1>2 DEF At, Pair
  <2>3. state'[w] = state[w] /\ round'[w] = round[w] /\ calls'[w] = calls[w] /\ running # w /\ running' # w
    BY <1>1, <1>2, <2>1
  <2>4. net'[w][p] = net[w][p]
    BY <1>5, <2>1 DEF Sent
  <2>5. CASE job.workersSet >= 2
    <3>1. net'[p][w] = <<Data(p)>>
      <4>1. net'[p][w] = Append(net[p][w], Data(p)) /\ net[p][w] = <<>>
        BY <1>5, <1>7, <2>1, <2>2, <2>5 DEF Sent, Fresh, Nothing
      <4> QED BY <4>1
    <3>2. Data(p)' = Data(p) /\ job' = job
      BY <1>1, SameJob DEF Data
    <3>3. Offered(p, w)'
      BY <1>1, <2>2, <2>3, <2>4, <3>1, <3>2 DEF Offered, Fresh, Awaits, Nothing
    <3> QED BY <1>8, <2>5, <3>2, <3>3 DEF Pair
  <2>6. CASE job.workersSet < 2
    <3>1. net'[p][w] = net[p][w]
      BY <1>5, <1>6, <1>7, <2>1, <2>6 DEF Sent
    <3>2. Fresh(p, w)'
      BY <1>1, <2>2, <2>3, <2>4, <3>1 DEF Fresh, Awaits, Nothing
    <3> QED BY <2>6, <3>2 DEF Pair
  <2> QED BY <1>6, <2>5, <2>6
<1>11. OneThing(p)'
  BY <1>1, <1>2, <1>8 DEF OneThing, NoCall
<1>12. Blocked(p)' /\ Counted(p)' /\ WaitsForNobody(p)'
  BY <1>2, <1>8 DEF Blocked, Counted, WaitsForNobody, NoCall
<1>13. calls'[p] = <<>> /\ last'[p].sent = last'[p].taken
  BY <1>1, <1>2, <1>3
<1> QED BY <1>3, <1>8, <1>9, <1>10, <1>11, <1>12, <1>13, MasterKeeps DEF MasterStates

LEMMA SendResultsKeeps ==
  ASSUME Typed, HpcInv, IsHPC, NEW p \in Rank, running = p, UNCHANGED <<job, open, barriers>>, SendResults(p)
  PROVE  HpcInv'
<1>1. /\ UNCHANGED <<round, waiting, phase>>
      /\ \A q \in Rank \ {p} : state'[q] = state[q] /\ responses'[q] = responses[q]
      /\ state \in [Rank -> States]
      /\ current \in [Rank -> MpiCalls]
      /\ net \in [Rank -> [Rank -> Seq(Messages)]] /\ From(net) /\ job \in Jobs /\ p # Nobody
      /\ At(p) /\ current[p] = NoCall /\ waiting[p] = "none" /\ last[p].sent = last[p].taken
      /\ phase[p] \notin {"started", "listening", "connecting"}
  BY MpiFrame
<1>2. /\ state[p] = "WORKER_WRITTING" /\ state' = [state EXCEPT ![p] = "WORKER_SENDING_BACK"]
      /\ SendDataToNetwork(p, {GetMyMaster(p)}, Message(p, "send", ResultSize), net)
      /\ current' = [current EXCEPT ![p] = NoCall] /\ running' = p
      /\ UNCHANGED <<calls, last>>
  BY DEF SendResults, MpiSend, Goto, Clear, Again
<1>3. ~IsMaster(p)
  BY <1>1, <1>2 DEF At, Worker, WorkStates
<1>4. PICK m \in Rank : p \in Workers(m) /\ m = GetMyMaster(p) /\ m # p
  BY <1>1, <1>3, WorkersAre DEF Workers
<1>5. Working(m, p) /\ job.workersSet >= 2 /\ state[m] = "MASTER_WAITING_RESULTS"
  <2>1. Pair(m, p)
    BY <1>1, <1>4 DEF At
  <2>2. ~Awaits(p)
    BY <1>2 DEF Awaits
  <2> QED BY <1>2, <2>1, <2>2 DEF Pair, Fresh, Offered, Answered, Done
<1>6. Message(p, "send", ResultSize) = Result(m, p)
  BY <1>1, <1>5 DEF Message, Result, Working
<1>7. Sent(net', net, p, {m}, Result(m, p))
  <2>1. Result(m, p) \in Messages
    BY SliceTyped
  <2>2. SendDataToNetwork(p, {m}, Result(m, p), net)
    BY <1>2, <1>4, <1>6
  <2>3. Types
    BY DEF Typed
  <2> HIDE DEF Typed
  <2> QED BY <1>1, <2>1, <2>2, <2>3, SendDoes
<1>8. state'[p] = "WORKER_SENDING_BACK" /\ current'[p] = NoCall /\ state'[m] = state[m]
  BY <1>1, <1>2, <1>4
<1>9. OnlyAt(p) /\ Talk
  <2>1. \A a, b \in Rank \ {p} : net'[a][b] = net[a][b]
    BY <1>7 DEF Sent
  <2>2. Talk
    BY <1>4, <1>7 DEF Sent, Talk
  <2>3. \A q \in Rank \ {p} : current'[q] = current[q]
    BY <1>1, <1>2
  <2> QED BY <1>1, <1>2, <2>1, <2>2, <2>3 DEF OnlyAt
<1>10. Answered(m, p)'
  <2>1. net'[p][m] = <<Result(m, p)>>
    <3>1. net'[p][m] = Append(net[p][m], Result(m, p)) /\ net[p][m] = <<>>
      BY <1>5, <1>7 DEF Sent, Working, Nothing
    <3> QED BY <3>1
  <2>2. net'[m][p] = <<>> /\ calls'[p] = <<>>
    BY <1>2, <1>4, <1>5, <1>7 DEF Sent, Working, Nothing
  <2>3. Result(m, p)' = Result(m, p)
    BY <1>1, SameJob DEF Result
  <2> QED BY <1>1, <1>5, <1>8, <2>1, <2>2, <2>3 DEF Answered, Working
<1>11. Pair(m, p)'
  <2>1. job' = job
    BY <1>9 DEF OnlyAt
  <2> QED BY <1>5, <1>8, <1>10, <2>1 DEF Pair
<1>12. p \in Untaken(m)' <=> p \in Untaken(m)
  <2>1. round[p] = round[m] /\ Workers(m)' = Workers(m)
    BY <1>5, <1>9, SameJob DEF Working, OnlyAt
  <2> QED BY <1>1, <1>4, <2>1 DEF Untaken
<1>13. OneThing(p)'
  BY <1>1, <1>2, <1>8 DEF OneThing, NoCall
<1>14. Blocked(p)' /\ state'[p] \notin MasterStates
  BY <1>2, <1>8 DEF Blocked, NoCall, MasterStates
<1>15. last'[p].sent = last'[p].taken
  BY <1>1, <1>2
<1> QED BY <1>4, <1>9, <1>11, <1>12, <1>13, <1>14, <1>15, WorkerKeeps

LEMMA CountIsNat ==
  ASSUME job \in Jobs, NEW m \in Rank
  PROVE  IsFiniteSet(Untaken(m)) /\ Cardinality(Untaken(m)) \in Nat
<1>1. IsFiniteSet(Workers(m)) /\ Untaken(m) \subseteq Workers(m)
  BY WorkersCount DEF Untaken
<1> QED BY <1>1, FS_Subset, FS_CardinalityType

LEMMA ReceivingKeeps ==
  ASSUME Typed, HpcInv, IsHPC, NEW p \in Rank, running = p, UNCHANGED <<job, open, barriers>>,
         ReceivingResults(p)
  PROVE  HpcInv'
<1>1. /\ UNCHANGED <<round, waiting, phase>>
      /\ \A q \in Rank \ {p} : state'[q] = state[q] /\ responses'[q] = responses[q]
      /\ state \in [Rank -> States] /\ calls \in [Rank -> Seq(Messages)]
      /\ current \in [Rank -> MpiCalls] /\ responses \in [Rank -> 0 .. UnsignedWrap - 1]
      /\ job \in Jobs /\ p # Nobody
      /\ At(p) /\ current[p] = NoCall /\ waiting[p] = "none" /\ last[p].sent = last[p].taken
      /\ phase[p] \notin {"started", "listening", "connecting"}
  BY MpiFrame
<1>2. /\ state[p] \in {"MASTER_DELIVERING", "MASTER_WAITING_RESULTS"}
      /\ state' = [state EXCEPT ![p] = "MASTER_WAITING_RESULTS"]
      /\ Synchronize(p, ResultsCall, calls[p])
      /\ UNCHANGED net
  BY DEF ReceivingResults, MpiRecv, Goto, ResultsCall
<1>3. IsMaster(p) /\ calls[p] = <<>>
  BY <1>1, <1>2 DEF At, Master, MasterStates
<1>4. /\ current' = [current EXCEPT ![p] = ResultsCall] /\ calls' = [calls EXCEPT ![p] = <<>>]
      /\ running' = Nobody /\ last' = last
  BY <1>2, <1>3, SyncBlocks
<1>5. state'[p] = "MASTER_WAITING_RESULTS" /\ current'[p] = ResultsCall /\ calls' = calls
  BY <1>1, <1>2, <1>3, <1>4
<1>6. OnlyAt(p) /\ Talk
  BY <1>1, <1>2, <1>4, <1>5 DEF OnlyAt, Talk
<1>7. /\ job.workersSet \in Nat /\ job.workersSet + 1 < UnsignedWrap /\ UnsignedWrap \in Nat
      /\ responses[p] \in 0 .. UnsignedWrap - 1
  BY <1>1, HpcJob DEF Typed
<1>8. Counted(p)'
  <2>1. SUFFICES ASSUME job.workersSet >= 2 PROVE responses'[p] = Cardinality(Untaken(p))
    <3>1. Untaken(p)' = Untaken(p) /\ job' = job
      BY <1>1, <1>2, <1>6, SameJob DEF Untaken, OnlyAt
    <3>2. responses'[p] = Cardinality(Untaken(p)) => responses'[p] = Cardinality(Untaken(p)) + 0
      BY <1>1, CountIsNat
    <3>3. ~(running' = p)
      BY <1>1, <1>4
    <3> QED BY <2>1, <3>1, <3>2, <3>3 DEF Counted
  <2>2. CASE state[p] = "MASTER_DELIVERING"
    <3>1. responses'[p] = Decrement(job.workersSet)
      BY <1>1, <2>2 DEF ReceivingResults, Expect
    <3>2. Decrement(job.workersSet) = job.workersSet - 1
      BY <1>7, <2>1, DecrementIs
    <3>3. \A w \in Workers(p) : Offered(p, w)
      BY <1>1, <1>7, <2>1, <2>2 DEF At, Pair
    <3>4. Untaken(p) = Workers(p)
      BY <3>3 DEF Untaken, Offered
    <3>5. Cardinality(Workers(p)) = job.workersSet - 1
      BY <1>1, <1>3, <2>1, WorkersCount
    <3> QED BY <3>1, <3>2, <3>4, <3>5
  <2>3. CASE state[p] = "MASTER_WAITING_RESULTS"
    <3>1. responses'[p] = Decrement(responses[p])
      BY <1>1, <2>3 DEF ReceivingResults, Expect
    <3>2. responses[p] = Cardinality(Untaken(p)) + 1
      BY <1>1, <2>1, <2>3 DEF At, Counted
    <3>3. Cardinality(Untaken(p)) \in Nat
      BY <1>1, CountIsNat
    <3>4. Decrement(responses[p]) = responses[p] - 1
      BY <1>7, <3>2, <3>3, DecrementIs
    <3> QED BY <3>1, <3>2, <3>3, <3>4
  <2> QED BY <1>2, <2>2, <2>3
<1>9. ASSUME NEW w \in Workers(p) PROVE Pair(p, w)'
  <2>1. w \in Rank \ {p}
    BY DEF Workers
  <2>2. state'[w] = state[w] /\ running # w /\ running' # w
    BY <1>1, <1>4, <2>1, RankType
  <2>3. Pair(p, w)
    BY <1>1 DEF At
  <2>4. Data(p)' = Data(p) /\ Result(p, w)' = Result(p, w) /\ Awaits(w)' = Awaits(w) /\ job' = job
    BY <1>1, <1>6, <2>2, SameJob DEF Data, Result, Awaits, OnlyAt
  <2>5. /\ Fresh(p, w) => Fresh(p, w)'
        /\ Offered(p, w) => Offered(p, w)'
        /\ Working(p, w) => Working(p, w)'
        /\ Answered(p, w) => Answered(p, w)'
        /\ Done(p, w) => Done(p, w)'
    BY <1>1, <1>2, <1>5, <2>2, <2>4 DEF Fresh, Offered, Working, Answered, Done, Nothing
  <2>6. job' = job /\ state'[p] = "MASTER_WAITING_RESULTS"
        /\ state[p] \in {"MASTER_DELIVERING", "MASTER_WAITING_RESULTS"}
    BY <1>2, <1>5, <2>4
  <2> QED BY <2>3, <2>5, <2>6, PairMoves
<1>10. OneThing(p)'
  BY <1>1, <1>4, <1>5 DEF OneThing, NoCall
<1>11. Blocked(p)'
  <2>1. ResultsCall' = ResultsCall
    BY <1>6, SameJob DEF OnlyAt
  <2> QED BY <1>1, <1>4, <1>5, <2>1 DEF Blocked
<1>12. WaitsForNobody(p)'
  BY <1>1, <1>4, <1>5 DEF WaitsForNobody
<1>13. calls'[p] = <<>> /\ last'[p].sent = last'[p].taken
  BY <1>1, <1>3, <1>4, <1>5
<1> QED BY <1>3, <1>5, <1>6, <1>8, <1>9, <1>10, <1>11, <1>12, <1>13, MasterKeeps DEF MasterStates

\* The data of the round is what the worker asks for, and the result what its
\* master asks for.
LEMMA Suits ==
  ASSUME NEW m, NEW w, m = GetMyMaster(w)
  PROVE  Fits(Data(m), DataCall(w)) /\ Fits(Result(m, w), ResultsCall)
BY DEF Fits, Data, DataCall, Result, ResultsCall, Partner

LEMMA ReceiveInputKeeps ==
  ASSUME Typed, HpcInv, IsHPC, NEW p \in Rank, running = p, UNCHANGED <<job, open, barriers>>,
         ReceiveInputData(p)
  PROVE  HpcInv'
<1>1. /\ UNCHANGED <<round, waiting, phase>>
      /\ \A q \in Rank \ {p} : state'[q] = state[q] /\ responses'[q] = responses[q]
      /\ state \in [Rank -> States] /\ calls \in [Rank -> Seq(Messages)]
      /\ current \in [Rank -> MpiCalls] /\ last \in [Rank -> [sent : Nat, taken : Nat]]
      /\ job \in Jobs /\ p # Nobody
      /\ At(p) /\ current[p] = NoCall /\ waiting[p] = "none" /\ last[p].sent = last[p].taken
      /\ phase[p] \notin {"started", "listening", "connecting"}
  BY MpiFrame
<1>2. /\ ~IsMaster(p) /\ state[p] = "INIT" /\ state' = [state EXCEPT ![p] = "WORKER_RECEIVING"]
      /\ Synchronize(p, DataCall(p), calls[p])
      /\ UNCHANGED net
  BY DEF ReceiveInputData, FileReady, MpiRecv, Goto, DataCall
<1>3. PICK m \in Rank : p \in Workers(m) /\ m = GetMyMaster(p) /\ m # p
  BY <1>1, <1>2, WorkersAre DEF Workers
<1>4. state'[p] = "WORKER_RECEIVING" /\ state'[m] = state[m]
  BY <1>1, <1>2, <1>3
<1>5. Pair(m, p)
  BY <1>1, <1>3 DEF At
<1>6. Data(m) \in Messages /\ Data(m).round = round[m]
  BY SliceTyped DEF Data
<1>7. Awaits(p)
  BY <1>2 DEF Awaits
<1>8. /\ running' \in {p, Nobody} /\ calls' = [calls EXCEPT ![p] = <<>>]
      /\ \A q \in Rank \ {p} : current'[q] = current[q] /\ last'[q] = last[q]
      /\ \/ /\ calls[p] = <<>> /\ running' = Nobody /\ current'[p] = DataCall(p)
            /\ last'[p] = last[p]
         \/ /\ calls[p] = <<Data(m)>> /\ running' = p /\ current'[p] = NoCall
            /\ last'[p] = [sent |-> round[m], taken |-> round[p]]
  <2>1. calls[p] = <<>> \/ calls[p] = <<Data(m)>>
    BY <1>5 DEF Pair, Fresh, Offered, Working, Answered, Done, Nothing
  <2>2. CASE calls[p] = <<>>
    <3>1. /\ current' = [current EXCEPT ![p] = DataCall(p)] /\ calls' = [calls EXCEPT ![p] = <<>>]
          /\ running' = Nobody /\ last' = last
      BY <1>2, <2>2, SyncBlocks
    <3> QED BY <1>1, <2>2, <3>1
  <2>3. CASE calls[p] = <<Data(m)>>
    <3>1. Fits(Data(m), DataCall(p))
      BY <1>3, Suits
    <3>2. /\ current' = [current EXCEPT ![p] = NoCall] /\ calls' = [calls EXCEPT ![p] = <<>>]
          /\ running' = p /\ last' = [last EXCEPT ![p] = [sent |-> Data(m).round, taken |-> round'[p]]]
      BY <1>2, <1>6, <2>3, <3>1, SyncTakes
    <3> QED BY <1>1, <1>6, <2>3, <3>2
  <2> QED BY <2>1, <2>2, <2>3
<1>9. calls'[p] = <<>> /\ \A q \in Rank \ {p} : calls'[q] = calls[q]
  BY <1>1, <1>8
<1>10. OnlyAt(p) /\ Talk
  BY <1>1, <1>2, <1>8, <1>9 DEF OnlyAt, Talk
<1>11. Pair(m, p)' /\ last'[p].sent = last'[p].taken
  <2>1. Data(m)' = Data(m) /\ Result(m, p)' = Result(m, p) /\ job' = job
    BY <1>1, <1>10, SameJob DEF Data, Result, OnlyAt
  <2>2. CASE calls[p] = <<>> /\ running' = Nobody /\ last'[p] = last[p]
    <3>1. Awaits(p)'
      BY <1>1, <1>4, <2>2 DEF Awaits
    <3>2. /\ Fresh(m, p) => Fresh(m, p)'
          /\ Offered(m, p) => Offered(m, p)'
          /\ ~Working(m, p)
          /\ Answered(m, p) => Answered(m, p)'
          /\ Done(m, p) => Done(m, p)'
      BY <1>1, <1>2, <1>9, <2>1, <2>2, <3>1
      DEF Fresh, Offered, Working, Answered, Done, Nothing, WorkStates
    <3>3. job' = job /\ state'[m] = state[m]
      BY <1>4, <2>1
    <3>4. Pair(m, p)'
      BY <1>5, <3>2, <3>3, PairMoves, Zenon
    <3> QED BY <1>1, <2>2, <3>4
  <2>3. CASE /\ calls[p] = <<Data(m)>> /\ running' = p
             /\ last'[p] = [sent |-> round[m], taken |-> round[p]]
    <3>1. calls[p] # <<>>
      BY <2>3
    <3>2. /\ Offered(m, p) /\ job.workersSet >= 2
          /\ state[m] \in {"MASTER_DELIVERING", "MASTER_WAITING_RESULTS"}
      BY <1>5, <3>1 DEF Pair, Fresh, Working, Answered, Done, Nothing
    <3>3. Working(m, p)'
      BY <1>1, <1>2, <1>4, <1>9, <2>3, <3>1, <3>2 DEF Offered, Working, Nothing
    <3>4. state[m] = "MASTER_WAITING_RESULTS"
      <4>1. Blocked(m)
        BY DEF HpcInv, At
      <4> QED BY <1>3, <3>2, <4>1 DEF Blocked
    <3> QED BY <1>4, <2>1, <2>3, <3>2, <3>3, <3>4 DEF Pair, Offered
  <2> QED BY <1>8, <2>2, <2>3
<1>12. p \in Untaken(m)' <=> p \in Untaken(m)
  BY <1>1, <1>2, <1>10, SameJob DEF Untaken, OnlyAt
<1>13. OneThing(p)'
  BY <1>1, <1>4, <1>8 DEF OneThing, NoCall
<1>14. Blocked(p)' /\ state'[p] \notin MasterStates
  <2>1. DataCall(p)' = DataCall(p)
    BY <1>10, SameJob DEF OnlyAt
  <2> QED BY <1>4, <1>8, <2>1 DEF Blocked, NoCall, MasterStates
<1> QED BY <1>3, <1>10, <1>11, <1>12, <1>13, <1>14, WorkerKeeps

-----------------------------------------------------------------------------
(* A message arrives.                                                      *)

LEMMA ArrivalDoes ==
  ASSUME Typed, NEW p \in Rank, NEW q \in Rank, NEW msg \in Messages, msg.op = "send",
         net[q][p] = <<msg>>, calls[p] = <<>>, ProcessMPICallRequest(p, q)
  PROVE  /\ running = Nobody /\ UNCHANGED <<job, phase, waiting, round>>
         /\ Synchronize(p, current[p], <<msg>>)
         /\ \A a, b \in Rank : net'[a][b] = IF a = q /\ b = p THEN <<>> ELSE net[a][b]
<1> DEFINE m == Head(net[q][p])
           n == [net EXCEPT ![q][p] = Tail(@)]
<1>1. m = msg /\ Tail(net[q][p]) = <<>>
  OBVIOUS
<1>2. Append(calls[p], msg) = <<msg>>
  OBVIOUS
<1>3. /\ running = Nobody /\ UNCHANGED <<job, phase, waiting, round>>
      /\ \/ Synchronize(p, current[p], Append(calls[p], m)) /\ net' = n
         \/ m.op \in {"barrierDown", "barrierUp", "gather"}
  BY DEF ProcessMPICallRequest
<1> HIDE DEF m
<1>4. net' = n /\ Synchronize(p, current[p], <<msg>>)
  BY <1>1, <1>2, <1>3
<1>5. net \in [Rank -> [Rank -> Seq(Messages)]]
  BY DEF Typed, Types
<1>6. \A a, b \in Rank : net'[a][b] = IF a = q /\ b = p THEN <<>> ELSE net[a][b]
  BY <1>1, <1>4, <1>5
<1> QED BY <1>3, <1>4, <1>6

\* The data of a round comes to a worker.
LEMMA DataKeeps ==
  ASSUME Typed, HpcInv, IsHPC, NEW p \in Rank, NEW q \in Rank, p \in Workers(q), net[q][p] # <<>>,
         ProcessMPICallRequest(p, q), UNCHANGED hpcVars
  PROVE  HpcInv'
<1>0. /\ current \in [Rank -> MpiCalls] /\ calls \in [Rank -> Seq(Messages)]
      /\ last \in [Rank -> [sent : Nat, taken : Nat]]
      /\ job \in Jobs /\ p # Nobody /\ q # Nobody /\ q # p
  BY RankType DEF Typed, Types, Workers
<1>1. At(p) /\ At(q) /\ Pair(q, p)
  BY DEF HpcInv, At
<1>2. /\ Offered(q, p) /\ net[q][p] = <<Data(q)>> /\ calls[p] = <<>> /\ job.workersSet >= 2
      /\ state[q] \in {"MASTER_DELIVERING", "MASTER_WAITING_RESULTS"}
  BY <1>1 DEF Pair, Fresh, Offered, Working, Answered, Done, Nothing
<1>3. Data(q) \in Messages /\ Data(q).op = "send" /\ Data(q).round = round[q]
  BY SliceTyped DEF Data
<1>4. /\ running = Nobody /\ UNCHANGED <<job, phase, waiting, round>>
      /\ Synchronize(p, current[p], <<Data(q)>>)
      /\ \A a, b \in Rank : net'[a][b] = IF a = q /\ b = p THEN <<>> ELSE net[a][b]
  BY <1>2, <1>3, ArrivalDoes
<1>5. UNCHANGED <<state, responses>>
  BY DEF hpcVars
<1>6. state[q] = "MASTER_WAITING_RESULTS"
  BY <1>0, <1>1, <1>2, <1>4 DEF At, Blocked
<1>7. Data(q)' = Data(q) /\ DataCall(p)' = DataCall(p) /\ Workers(q)' = Workers(q)
  BY <1>4, SameJob DEF Data
<1>8. round[p] = round[q] /\ net[p][q] = <<>> /\ round'[p] = round[p] /\ round'[q] = round[q]
  BY <1>2, <1>4 DEF Offered
<1>9. /\ net'[q][p] = <<>> /\ net'[p][q] = net[p][q]
      /\ \A a, b \in Rank \ {p} : net'[a][b] = net[a][b]
  BY <1>0, <1>4
<1>10. Talk
  BY <1>4 DEF Talk
<1>11. p \in Untaken(q)' <=> p \in Untaken(q)
  BY <1>7, <1>8 DEF Untaken
<1>12. CASE state[p] = "INIT"
  <2>1. current[p] = NoCall
    BY <1>1, <1>12 DEF At, Blocked
  <2>2. /\ current' = [current EXCEPT ![p] = NoCall] /\ calls' = [calls EXCEPT ![p] = <<Data(q)>>]
        /\ running' = Nobody /\ last' = last
    BY <1>3, <1>4, <2>1, SyncKeeps
  <2>3. current'[p] = NoCall /\ calls'[p] = <<Data(q)>>
    BY <1>0, <2>2
  <2>4. OnlyAt(p)
    BY <1>0, <1>4, <1>5, <1>9, <2>2 DEF OnlyAt
  <2>5. Offered(q, p)'
    BY <1>5, <1>7, <1>8, <1>9, <1>12, <2>3 DEF Offered, Awaits
  <2>6. Pair(q, p)'
    BY <1>2, <1>4, <1>5, <1>6, <2>5 DEF Pair
  <2>7. OneThing(p)'
    BY <1>0, <1>1, <1>4, <1>5, <2>2, <2>3 DEF OneThing, NoCall, At
  <2>8. Blocked(p)' /\ state'[p] \notin MasterStates
    BY <1>5, <1>12, <2>3 DEF Blocked, NoCall, MasterStates
  <2>9. last'[p].sent = last'[p].taken
    BY <1>1, <2>2 DEF At
  <2> QED BY <1>10, <1>11, <2>4, <2>6, <2>7, <2>8, <2>9, WorkerKeeps
<1>13. CASE state[p] = "WORKER_RECEIVING"
  <2>1. current[p] = DataCall(p) /\ current[p] # NoCall
    BY <1>0, <1>1, <1>4, <1>13 DEF At, Blocked, DataCall, NoCall
  <2>2. Fits(Data(q), DataCall(p))
    BY Suits DEF Workers
  <2>3. /\ current' = [current EXCEPT ![p] = NoCall] /\ calls' = [calls EXCEPT ![p] = <<>>]
        /\ running' = p /\ last' = [last EXCEPT ![p] = [sent |-> Data(q).round, taken |-> round'[p]]]
    BY <1>3, <1>4, <2>1, <2>2, SyncTakes
  <2>4. current'[p] = NoCall /\ calls'[p] = <<>> /\ last'[p].sent = last'[p].taken
    BY <1>0, <1>3, <1>8, <2>3
  <2>5. OnlyAt(p)
    BY <1>0, <1>4, <1>5, <1>9, <2>3 DEF OnlyAt
  <2>6. Working(q, p)'
    BY <1>5, <1>8, <1>9, <1>13, <2>3, <2>4 DEF Working, Nothing
  <2>7. Pair(q, p)'
    BY <1>2, <1>4, <1>5, <1>6, <2>6 DEF Pair
  <2>8. OneThing(p)'
    <3>1. waiting[p] = "none" /\ phase[p] \notin {"started", "listening", "connecting"}
      BY <1>1, <1>13, <2>1 DEF At, OneThing
    <3> QED BY <1>4, <2>4, <3>1 DEF OneThing, NoCall
  <2>9. Blocked(p)' /\ state'[p] \notin MasterStates
    BY <1>5, <1>13, <2>3, <2>4 DEF Blocked, NoCall, MasterStates
  <2> QED BY <1>10, <1>11, <2>4, <2>5, <2>7, <2>8, <2>9, WorkerKeeps
<1> QED BY <1>2, <1>12, <1>13 DEF Offered, Awaits

\* A result comes to a master: it is taken at once.
LEMMA ResultKeeps ==
  ASSUME Typed, HpcInv, IsHPC, NEW p \in Rank, NEW q \in Rank, q \in Workers(p), net[q][p] # <<>>,
         ProcessMPICallRequest(p, q), UNCHANGED hpcVars
  PROVE  HpcInv'
<1>0. /\ current \in [Rank -> MpiCalls] /\ calls \in [Rank -> Seq(Messages)]
      /\ last \in [Rank -> [sent : Nat, taken : Nat]] /\ round \in [Rank -> Nat]
      /\ job \in Jobs /\ p # Nobody /\ q # Nobody /\ q # p
  BY RankType DEF Typed, Types, Workers
<1>1. At(p) /\ At(q) /\ Pair(p, q)
  BY DEF HpcInv, At
<1>2. /\ Answered(p, q) /\ job.workersSet >= 2 /\ state[p] = "MASTER_WAITING_RESULTS"
  BY <1>1 DEF Pair, Fresh, Offered, Working, Answered, Done, Nothing
<1>3. IsMaster(p) /\ calls[p] = <<>>
  BY <1>1, <1>2 DEF At, Master, MasterStates
<1>4. Result(p, q) \in Messages /\ Result(p, q).op = "send" /\ Result(p, q).round = round[p]
  BY SliceTyped DEF Result
<1>5. /\ running = Nobody /\ UNCHANGED <<job, phase, waiting, round>>
      /\ Synchronize(p, current[p], <<Result(p, q)>>)
      /\ \A a, b \in Rank : net'[a][b] = IF a = q /\ b = p THEN <<>> ELSE net[a][b]
  BY <1>2, <1>3, <1>4, ArrivalDoes DEF Answered
<1>6. UNCHANGED <<state, responses>>
  BY DEF hpcVars
<1>7. current[p] = ResultsCall /\ current[p] # NoCall
  BY <1>0, <1>1, <1>2, <1>5 DEF At, Blocked, ResultsCall, NoCall
<1>8. /\ current' = [current EXCEPT ![p] = NoCall] /\ calls' = [calls EXCEPT ![p] = <<>>]
      /\ running' = p /\ last' = [last EXCEPT ![p] = [sent |-> Result(p, q).round, taken |-> round'[p]]]
  <2>1. Fits(Result(p, q), ResultsCall)
    BY Suits DEF Workers
  <2> QED BY <1>4, <1>5, <1>7, <2>1, SyncTakes
<1>9. current'[p] = NoCall /\ calls'[p] = <<>> /\ calls' = calls /\ last'[p].sent = last'[p].taken
  BY <1>0, <1>3, <1>4, <1>5, <1>8
<1>10. /\ net'[q][p] = <<>> /\ \A a, b \in Rank : a # q \/ b # p => net'[a][b] = net[a][b]
  BY <1>0, <1>5
<1>11. OnlyAt(p) /\ Talk
  BY <1>0, <1>5, <1>6, <1>8, <1>10 DEF OnlyAt, Talk
<1>12. round[q] = round[p] + 1 /\ Awaits(q)
  BY <1>0, <1>1, <1>2, <1>5 DEF Answered, At, Blocked
<1>13. Rank' = Rank /\ Workers(p)' = Workers(p)
  BY <1>5, SameJob
<1>14. ASSUME NEW w \in Workers(p) PROVE Pair(p, w)'
  <2>1. w \in Rank \ {p}
    BY DEF Workers
  <2>2. running # w /\ running' # w /\ state'[w] = state[w] /\ round'[w] = round[w] /\ calls'[w] = calls[w]
    BY <1>0, <1>5, <1>6, <1>8, <1>9, <2>1, RankType
  <2>3. CASE w = q
    <3>1. net'[p][q] = <<>> /\ calls'[q] = <<>>
      BY <1>0, <1>2, <1>9, <1>10 DEF Answered
    <3>2. Done(p, q)'
      BY <1>0, <1>5, <1>10, <1>12, <2>2, <2>3, <3>1 DEF Done, Awaits, Nothing
    <3> QED BY <1>2, <1>5, <1>6, <2>3, <3>2 DEF Pair
  <2>4. CASE w # q
    <3>1. net'[p][w] = net[p][w] /\ net'[w][p] = net[w][p] /\ Pair(p, w)
      BY <1>1, <1>10, <2>1, <2>4 DEF At
    <3>2. /\ UNCHANGED job /\ state'[p] = state[p] /\ round'[p] = round[p]
          /\ state[w] = "WORKER_RECEIVING" => (running' = w <=> running = w)
      BY <1>5, <1>6, <2>2
    <3> QED BY <2>2, <3>1, <3>2, PairFrame
  <2> QED BY <2>3, <2>4
<1>15. Counted(p)'
  <2>1. q \in Untaken(p) /\ IsFiniteSet(Untaken(p)) /\ Cardinality(Untaken(p)) \in Nat
    BY <1>0, CountIsNat DEF Untaken
  <2>2. Untaken(p)' = Untaken(p) \ {q}
    <3>1. ASSUME NEW w \in Workers(p) PROVE w \in Untaken(p)' <=> w \in Untaken(p) /\ w # q
      <4>1. w \in Rank
        BY DEF Workers
      <4>2. CASE w = q
        BY <1>0, <1>5, <1>10, <1>12, <4>2 DEF Untaken
      <4>3. CASE w # q
        BY <1>5, <1>10, <1>13, <4>1, <4>3 DEF Untaken
      <4> QED BY <4>2, <4>3
    <3> QED BY <1>13, <3>1 DEF Untaken
  <2>3. Cardinality(Untaken(p) \ {q}) = Cardinality(Untaken(p)) - 1
    BY <2>1, FS_RemoveElement
  <2>4. responses[p] = Cardinality(Untaken(p)) + 0
    BY <1>0, <1>1, <1>2, <1>5 DEF At, Counted
  <2>5. responses'[p] = Cardinality(Untaken(p)') + 1
    BY <1>6, <2>1, <2>2, <2>3, <2>4
  <2> QED BY <1>8, <2>5 DEF Counted
<1>16. OneThing(p)'
  <2>1. waiting[p] = "none" /\ phase[p] \notin {"started", "listening", "connecting"}
    BY <1>1, <1>2, <1>7 DEF At, OneThing
  <2> QED BY <1>5, <1>9, <2>1 DEF OneThing, NoCall
<1>17. Blocked(p)' /\ state'[p] \in MasterStates
  BY <1>2, <1>6, <1>8, <1>9 DEF Blocked, NoCall, MasterStates
<1>18. WaitsForNobody(p)'
  <2>1. job.workersSet \in Nat
    BY HpcJob DEF Typed
  <2> QED BY <1>2, <1>5, <2>1 DEF WaitsForNobody
<1> QED BY <1>3, <1>9, <1>11, <1>14, <1>15, <1>16, <1>17, <1>18, MasterKeeps

LEMMA ArrivesKeeps ==
  ASSUME Typed, HpcInv, IsHPC, NEW p \in Rank, Arrives(p)
  PROVE  HpcInv'
<1>1. PICK q \in Rank : ProcessMPICallRequest(p, q) /\ UNCHANGED hpcVars
  BY DEF Arrives
<1>2. net[q][p] # <<>>
  BY <1>1 DEF ProcessMPICallRequest
<1>3. p \in Workers(q) \/ q \in Workers(p)
  BY <1>2 DEF HpcInv, Silent
<1> QED BY <1>1, <1>2, <1>3, DataKeeps, ResultKeeps

-----------------------------------------------------------------------------
(* Theorems about ApplicationHPC.                                          *)

LEMMA HpcKeeps ==
  ASSUME Typed, HpcInv, NEW p \in Rank, Hpc(p)
  PROVE  HpcInv'
<1>1. IsHPC
  BY DEF Hpc
<1>2. CASE CalculateNextState(p)
  <2>1. running = p /\ UNCHANGED <<job, open, barriers>>
    BY <1>2 DEF CalculateNextState
  <2>2. \/ DeliverData(p) \/ ReceivingResults(p) \/ ReceiveInputData(p) \/ SendResults(p)
        \/ Inside(p)
    BY <1>2 DEF CalculateNextState, Inside, CreateResults, MasterRead, MasterWrite, WorkerStep, NextIteration
  <2> QED BY <1>1, <2>1, <2>2, DeliverKeeps, ReceivingKeeps, ReceiveInputKeeps, SendResultsKeeps,
             InsideKeeps
<1>3. CASE ProcessResponseMessage(p)
  BY <1>1, <1>3, ResponseKeeps
<1>4. CASE ShowResults(p)
  BY <1>4, ShowKeeps
<1> QED BY <1>2, <1>3, <1>4 DEF Hpc

LEMMA InitHpc == Init /\ IsHPC => HpcInv
<1> SUFFICES ASSUME Init, IsHPC PROVE HpcInv
  OBVIOUS
<1>1. /\ running = Nobody /\ \A a, b \in Rank : net[a][b] = <<>>
      /\ \A p \in Rank : /\ state[p] = "INIT" /\ current[p] = NoCall /\ waiting[p] = "none"
                         /\ phase[p] = "started" /\ calls[p] = <<>> /\ round[p] = 1
                         /\ last[p].sent = last[p].taken
  BY DEF Init
<1>2. Nobody \notin Rank
  BY RankType DEF Init
<1>3. ASSUME NEW m \in Rank, NEW w \in Workers(m) PROVE Pair(m, w)
  <2>1. w \in Rank
    BY DEF Workers
  <2>2. Fresh(m, w)
    BY <1>1, <2>1 DEF Fresh, Awaits, Nothing
  <2> QED BY <1>1, <2>2 DEF Pair
<1>4. ASSUME NEW p \in Rank PROVE At(p)
  <2>1. Master(p) /\ Worker(p) /\ OneThing(p) /\ Blocked(p) /\ Counted(p) /\ WaitsForNobody(p)
    BY <1>1, <1>2
    DEF Master, Worker, OneThing, Blocked, Counted, WaitsForNobody, MasterStates, WorkStates
  <2> QED BY <1>1, <1>3, <2>1 DEF At
<1> QED BY <1>1, <1>4 DEF HpcInv, Silent

LEMMA UnchangedHpc ==
  ASSUME Typed, HpcInv, UNCHANGED vars PROVE HpcInv'
<1>1. UNCHANGED <<job, phase, net, current, calls, running, waiting, round, last, state, responses>>
  BY DEF vars, mpiVars, hpcVars
<1>2. PICK p \in Rank : running \in {p, Nobody}
  <2>1. running \in Rank \cup {Nobody} /\ 0 \in Rank
    BY RankType, JobsAssumption DEF Typed, Types, Rank
  <2> QED BY <2>1
<1>3. OnlyAt(p)
  BY <1>1, <1>2 DEF OnlyAt
<1>4. OneThing(p)'
  BY <1>1 DEF HpcInv, At, OneThing, NoCall
<1> QED BY <1>1, <1>3, <1>4, Stays

LEMMA NextInv == IInv /\ [Next]_vars => IInv'
<1> SUFFICES ASSUME IInv, [Next]_vars PROVE IInv'
  OBVIOUS
<1>1. Typed /\ Typed'
  BY NextTyped DEF IInv, Typed
<1>2. CASE UNCHANGED vars
  <2>1. IsHPC' = IsHPC
    BY <1>2, SameJob DEF vars, mpiVars
  <2> QED BY <1>1, <1>2, <2>1, UnchangedHpc DEF IInv, Typed
<1>3. CASE Next
  <2>1. PICK p \in Rank : Start(p) \/ Arrives(p) \/ Hpc(p) \/ Program(p)
    BY <1>3 DEF Next
  <2>2. UNCHANGED job
    BY <2>1 DEF Start, ParseMachinesFile, EstablishAllConnections, SetEstablishedConnection, WaitToExecute,
                Arrives, ProcessMPICallRequest, Hpc, CalculateNextState, ProcessResponseMessage, ShowResults,
                Program, RunProgram, Computed, EndProgram
  <2>3. IsHPC' = IsHPC
    BY <2>2, SameJob
  <2>4. IsHPC => HpcInv'
    <3>1. SUFFICES ASSUME IsHPC PROVE HpcInv'
      OBVIOUS
    <3>2. HpcInv /\ ~Program(p)
      BY <3>1 DEF IInv, Program
    <3> QED BY <1>1, <2>1, <3>1, <3>2, StartKeeps, ArrivesKeeps, HpcKeeps
  <2> QED BY <1>1, <2>3, <2>4 DEF IInv, Typed
<1> QED BY <1>2, <1>3

\* The inductive invariant: the types, and in a job of ApplicationHPC where every
\* master and each of its workers are in their common round.
THEOREM Invariant == Spec => []IInv
<1>1. Init => IInv
  BY InitTyped, InitHpc DEF IInv, Typed
<1> QED BY <1>1, NextInv, PTL DEF Spec

\* A master that writes has the result of every worker of its set, by the count
\* of totalResponses alone, for every number of processes, sets and iterations.
THEOREM RoundIsClosed == Spec => []RoundClosed
<1>1. IInv => RoundClosed
  <2>1. SUFFICES ASSUME IInv, IsHPC, NEW m \in Rank, state[m] = "MASTER_WRITTING"
                 PROVE  /\ calls[m] = <<>>
                        /\ \A w \in Workers(m) :
                             /\ round[w] = round[m] + 1 /\ net[w][m] = <<>> /\ net[m][w] = <<>>
                             /\ calls[w] = <<>>
    BY DEF RoundClosed
  <2>2. At(m) /\ job.workersSet \in Nat
    BY <2>1, HpcJob DEF IInv, HpcInv
  <2>3. job.workersSet >= 2
    BY <2>1, <2>2 DEF At, WaitsForNobody
  <2>4. \A w \in Workers(m) : Done(m, w)
    BY <2>1, <2>2, <2>3 DEF At, Pair
  <2>5. calls[m] = <<>>
    BY <2>1, <2>2 DEF At, Master, MasterStates
  <2> QED BY <2>4, <2>5 DEF Done, Nothing
<1> QED BY <1>1, Invariant, PTL

\* Data and results of ApplicationHPC are taken in the round they were sent for,
\* although mpiCallList is searched by operation, sender and size only.
THEOREM RoundsDoNotMix == Spec => [](IsHPC => InRound)
<1>1. IInv => (IsHPC => InRound)
  BY DEF IInv, HpcInv, At, InRound
<1> QED BY <1>1, Invariant, PTL

-----------------------------------------------------------------------------
(* Nothing stops a job of ApplicationHPC but a system call that fails.     *)

Connected(p) ==
  phase[p] \notin {"started", "listening", "connecting"} => open[p] = Connections(p)

Runs == /\ error \in {"none", "I/O"}
        /\ \A p \in Rank : Connected(p) /\ RightState(p)

\* A master and its workers are connected.
LEMMA SetConnected ==
  ASSUME job \in Jobs, job.workersSet >= 2, NEW m \in Rank, NEW w \in Workers(m)
  PROVE  w \in Connections(m) /\ m \in Connections(w)
<1>1. w \in Rank /\ w # m /\ m = GetMyMaster(w) /\ IsMaster(m) /\ job.workersSet # 0
  BY JobsAssumption, WorkersAre
<1>2. w \in (m + 1) .. (m + job.workersSet - 1)
  BY <1>1, WorkersAre
<1>3. m < w /\ w < m + job.workersSet
  <2>1. m \in Int /\ job.workersSet \in Int
    BY JobsAssumption DEF Rank
  <2> QED BY <1>2, <2>1
<1> QED BY <1>1, <1>3 DEF Connections, IsThisWorkerInMyRange

\* Everything that arrives is data or a result.
LEMMA OnlySends ==
  ASSUME Typed, HpcInv, IsHPC, NEW p \in Rank, NEW q \in Rank, net[q][p] # <<>>
  PROVE  Head(net[q][p]).op = "send"
<1>1. p \in Workers(q) \/ q \in Workers(p)
  BY DEF HpcInv, Silent
<1>2. CASE p \in Workers(q)
  <2>1. Pair(q, p)
    BY <1>2 DEF HpcInv, At
  <2>2. net[q][p] = <<Data(q)>>
    BY <2>1 DEF Pair, Fresh, Offered, Working, Answered, Done, Nothing
  <2> QED BY <2>2 DEF Data
<1>3. CASE q \in Workers(p)
  <2>1. Pair(p, q)
    BY <1>3 DEF HpcInv, At
  <2>2. net[q][p] = <<Result(p, q)>>
    BY <2>1 DEF Pair, Fresh, Offered, Working, Answered, Done, Nothing
  <2> QED BY <2>2 DEF Result
<1> QED BY <1>1, <1>2, <1>3

\* A step that opens no connection, and changes the state of a process and what
\* it waits for together.
LEMMA RunsStep ==
  ASSUME Typed, Runs, NEW p \in Rank, UNCHANGED <<job, open>>, error' \in {"none", "I/O"},
         \A q \in Rank \ {p} : phase'[q] = phase[q] /\ state'[q] = state[q] /\ waiting'[q] = waiting[q],
         phase[p] \notin {"started", "listening", "connecting"} \/ phase'[p] = phase[p],
         RightState(p)'
  PROVE  Runs'
<1>1. Rank' = Rank /\ \A q : Connections(q)' = Connections(q)
  BY SameJob DEF Connections, IsThisWorkerInMyRange, GetMyMaster, IsMaster, Rank
<1>2. ASSUME NEW q \in Rank PROVE Connected(q)' /\ RightState(q)'
  <2>1. Connected(q) /\ RightState(q)
    BY DEF Runs
  <2> QED BY <1>1, <2>1 DEF Connected, RightState
<1> QED BY <1>1, <1>2 DEF Runs

LEMMA StartRuns ==
  ASSUME Typed, Runs, NEW p \in Rank, Start(p) PROVE Runs'
<1>1. /\ UNCHANGED <<job, waiting, error, state>>
      /\ phase \in [Rank -> Phases] /\ open \in [Rank -> SUBSET Rank]
  BY DEF Start, ParseMachinesFile, EstablishAllConnections, SetEstablishedConnection, WaitToExecute,
         hpcVars, Typed, Types
<1>2. Rank' = Rank /\ \A q : Connections(q)' = Connections(q)
  BY <1>1, SameJob DEF Connections, IsThisWorkerInMyRange, GetMyMaster, IsMaster, Rank
<1>3. /\ \A q \in Rank \ {p} : phase'[q] = phase[q] /\ open'[q] = open[q]
      /\ \/ phase'[p] \in {"started", "listening", "connecting"}
         \/ open'[p] = Connections(p)
  BY <1>1
  DEF Start, ParseMachinesFile, EstablishAllConnections, SetEstablishedConnection, WaitToExecute
<1>4. ASSUME NEW q \in Rank PROVE Connected(q)' /\ RightState(q)'
  <2>1. Connected(q) /\ RightState(q)
    BY DEF Runs
  <2> QED BY <1>1, <1>2, <1>3, <2>1 DEF Connected, RightState
<1> QED BY <1>1, <1>2, <1>4 DEF Runs

LEMMA InsideRuns ==
  ASSUME Typed, HpcInv, IsHPC, Runs, NEW p \in Rank, running = p, Inside(p)
  PROVE  Runs'
<1>1. /\ UNCHANGED <<job, open, error>> /\ waiting \in [Rank -> Waits] /\ state \in [Rank -> States]
      /\ \A q \in Rank \ {p} : phase'[q] = phase[q] /\ state'[q] = state[q] /\ waiting'[q] = waiting[q]
  <2>1. Types
    BY DEF Typed
  <2>2. waiting \in [Rank -> Waits] /\ state \in [Rank -> States]
    BY <2>1 DEF Types
  <2> HIDE DEF Typed
  <2> QED BY <2>1, <2>2, InsideDoes
<1>2. waiting[p] = "none" /\ phase[p] \notin {"started", "listening", "connecting"}
  BY InsideFrame
<1>3. RightState(p)'
  <2>1. CASE CreateResults(p)
    BY <1>1, <2>1 DEF CreateResults, Request, RightState
  <2>2. CASE MasterRead(p)
    BY <1>1, <1>2, <2>2 DEF MasterRead, ReadData, Access, Request, Again, Goto, RightState
  <2>3. CASE MasterWrite(p)
    BY <1>1, <1>2, <2>3 DEF MasterWrite, WriteData, Access, Request, Again, Goto, RightState
  <2>4. CASE WorkerStep(p)
    BY <1>1, <1>2, <2>4 DEF WorkerStep, ReadData, WriteData, Access, Request, Again, Goto, RightState
  <2>5. CASE NextIteration(p)
    BY <1>1, <1>2, <2>5 DEF NextIteration, RightState
  <2> QED BY <2>1, <2>2, <2>3, <2>4, <2>5 DEF Inside
<1> QED BY <1>1, <1>2, <1>3, RunsStep DEF Runs

LEMMA MpiRuns ==
  ASSUME Typed, HpcInv, IsHPC, Runs, NEW p \in Rank, running = p, UNCHANGED <<job, open, barriers>>,
         DeliverData(p) \/ ReceivingResults(p) \/ ReceiveInputData(p) \/ SendResults(p)
  PROVE  Runs'
<1>1. /\ UNCHANGED <<waiting, phase>>
      /\ \A q \in Rank \ {p} : state'[q] = state[q]
      /\ job \in Jobs /\ At(p) /\ waiting[p] = "none"
      /\ phase[p] \notin {"started", "listening", "connecting"}
  BY MpiFrame
<1>2. open[p] = Connections(p) /\ error \in {"none", "I/O"}
  BY <1>1 DEF Runs, Connected
<1>3. RightState(p)'
  BY <1>1 DEF RightState
<1>4. job.workersSet \in Nat /\ p \in Nat
  BY <1>1, HpcJob, RankType DEF Typed
<1>5. error' = error
  <2>1. CASE DeliverData(p)
    <3> DEFINE Q == (p + 1) .. (p + job.workersSet - 1)
    <3>1. state[p] = "MASTER_READING" /\ error' = IF Q \subseteq open[p] THEN error ELSE "no connection"
      BY <2>1 DEF DeliverData, SendDataToNetwork
    <3>2. IsMaster(p)
      BY <1>1, <3>1 DEF At, Master, MasterStates
    <3>3. Q \subseteq open[p]
      <4>1. CASE job.workersSet >= 2
        <5>1. Q = Workers(p)
          BY <1>1, <3>2, <4>1, WorkersAre
        <5>2. \A w \in Workers(p) : w \in Connections(p)
          BY <1>1, <4>1, SetConnected
        <5> QED BY <1>2, <5>1, <5>2
      <4>2. CASE job.workersSet < 2
        BY <1>4, <4>2
      <4> QED BY <1>4, <4>1, <4>2
    <3> QED BY <3>1, <3>3
  <2>2. CASE SendResults(p)
    <3>1. /\ state[p] = "WORKER_WRITTING"
          /\ error' = IF {GetMyMaster(p)} \subseteq open[p] THEN error ELSE "no connection"
      BY <2>2 DEF SendResults, MpiSend, SendDataToNetwork
    <3>2. ~IsMaster(p)
      BY <1>1, <3>1 DEF At, Worker, WorkStates
    <3>3. GetMyMaster(p) \in Rank /\ p \in Workers(GetMyMaster(p))
      BY <1>1, <3>2, WorkersAre
    <3>4. job.workersSet >= 2
      <4>1. Pair(GetMyMaster(p), p)
        BY <1>1, <3>3 DEF At
      <4>2. ~Fresh(GetMyMaster(p), p)
        BY <3>1 DEF Fresh, Awaits
      <4> QED BY <4>1, <4>2 DEF Pair
    <3>5. GetMyMaster(p) \in open[p]
      BY <1>1, <1>2, <3>3, <3>4, SetConnected
    <3> QED BY <3>1, <3>5
  <2>3. CASE ReceivingResults(p) \/ ReceiveInputData(p)
    BY <2>3 DEF ReceivingResults, ReceiveInputData
  <2> QED BY <2>1, <2>2, <2>3
<1> QED BY <1>1, <1>2, <1>3, <1>5, RunsStep

LEMMA ArrivesRuns ==
  ASSUME Typed, HpcInv, IsHPC, Runs, NEW p \in Rank, Arrives(p)
  PROVE  Runs'
<1>1. PICK q \in Rank : ProcessMPICallRequest(p, q) /\ UNCHANGED hpcVars
  BY DEF Arrives
<1>2. net[q][p] # <<>> /\ UNCHANGED <<job, phase, open, waiting>>
  BY <1>1 DEF ProcessMPICallRequest
<1>3. Head(net[q][p]).op = "send"
  BY <1>2, OnlySends
<1>4. UNCHANGED error
  BY <1>1, <1>3 DEF ProcessMPICallRequest
<1>5. state' = state
  BY <1>1 DEF hpcVars
<1>6. RightState(p)'
  BY <1>2, <1>5 DEF Runs, RightState
<1> QED BY <1>2, <1>4, <1>5, <1>6, RunsStep DEF Runs

LEMMA ResponseRuns ==
  ASSUME Typed, IsHPC, Runs, NEW p \in Rank, ProcessResponseMessage(p)
  PROVE  Runs'
<1>1. /\ UNCHANGED <<job, phase, open, state>> /\ waiting' = [waiting EXCEPT ![p] = "none"]
      /\ waiting \in [Rank -> Waits]
  BY DEF ProcessResponseMessage, Typed, Types
<1>2. error' \in {"none", "I/O"}
  BY DEF ProcessResponseMessage, Runs
<1>3. RightState(p)'
  BY <1>1 DEF RightState
<1> QED BY <1>1, <1>2, <1>3, RunsStep

LEMMA NextRuns == IInv /\ (IsHPC => Runs) /\ [Next]_vars => (IsHPC => Runs)'
<1> SUFFICES ASSUME IInv, IsHPC => Runs, [Next]_vars PROVE IsHPC' => Runs'
  OBVIOUS
<1>1. CASE UNCHANGED vars
  <2>1. UNCHANGED <<job, open, phase, waiting, error, state>>
    BY <1>1 DEF vars, mpiVars, hpcVars
  <2>2. IsHPC' = IsHPC /\ Rank' = Rank /\ \A q : Connections(q)' = Connections(q)
    BY <2>1, SameJob DEF Connections, IsThisWorkerInMyRange, GetMyMaster, IsMaster, Rank
  <2> QED BY <2>1, <2>2 DEF Runs, Connected, RightState
<1>2. CASE Next
  <2>1. PICK p \in Rank : Start(p) \/ Arrives(p) \/ Hpc(p) \/ Program(p)
    BY <1>2 DEF Next
  <2>2. UNCHANGED job
    BY <2>1 DEF Start, ParseMachinesFile, EstablishAllConnections, SetEstablishedConnection, WaitToExecute,
                Arrives, ProcessMPICallRequest, Hpc, CalculateNextState, ProcessResponseMessage, ShowResults,
                Program, RunProgram, Computed, EndProgram
  <2>3. SUFFICES ASSUME IsHPC PROVE Runs'
    BY <2>2, SameJob
  <2>4. Typed /\ HpcInv /\ Runs /\ ~Program(p)
    BY <2>3 DEF IInv, Typed, Program
  <2>5. CASE Hpc(p)
    <3>1. CASE CalculateNextState(p)
      <4>1. running = p /\ UNCHANGED <<job, open, barriers>>
        BY <3>1 DEF CalculateNextState
      <4>2. \/ DeliverData(p) \/ ReceivingResults(p) \/ ReceiveInputData(p) \/ SendResults(p)
            \/ Inside(p)
        BY <3>1 DEF CalculateNextState, Inside, CreateResults, MasterRead, MasterWrite, WorkerStep, NextIteration
      <4> QED BY <2>3, <2>4, <4>1, <4>2, MpiRuns, InsideRuns
    <3>2. CASE ProcessResponseMessage(p)
      BY <2>3, <2>4, <3>2, ResponseRuns
    <3>3. CASE ShowResults(p)
      <4>1. /\ UNCHANGED <<job, open, error, waiting, state>> /\ phase[p] = "finishing"
            /\ phase' = [phase EXCEPT ![p] = "finished"] /\ phase \in [Rank -> Phases]
        BY <2>4, <3>3 DEF ShowResults, hpcVars, Typed, Types
      <4>2. RightState(p)' /\ error' \in {"none", "I/O"}
        BY <2>4, <4>1 DEF Runs, RightState
      <4> QED BY <2>4, <4>1, <4>2, RunsStep
    <3> QED BY <2>5, <3>1, <3>2, <3>3 DEF Hpc
  <2> QED BY <2>1, <2>3, <2>4, <2>5, StartRuns, ArrivesRuns
<1> QED BY <1>1, <1>2

\* The checks of MPI_Base and ApplicationHPC that throw are never met: a message
\* has a connection, no gather comes unexpected and a response finds the state
\* that asked for it.  What may stop the simulation is a failed system call.
THEOREM OnlySystemCallsStop == Spec => [](IsHPC => error \in {"none", "I/O"})
<1>1. Init => (IsHPC => Runs)
  BY DEF Init, Runs, Connected, RightState
<1>2. Spec => [](IsHPC => Runs)
  BY <1>1, NextRuns, Invariant, PTL DEF Spec
<1>3. Runs => error \in {"none", "I/O"}
  BY DEF Runs
<1> QED BY <1>2, <1>3, PTL

-----------------------------------------------------------------------------
(* Barriers and gathers of a program.                                      *)

\* The k-th call of the job's processes.
BarrierAt(k)   == k \in DOMAIN job.program[MasterRank] /\ job.program[MasterRank][k].op = "barrier"
GatherAt(k, r) == /\ k \in DOMAIN job.program[r]
                  /\ job.program[r][k].op = "gather" /\ job.program[r][k].root = r

InBarrier(p) == current[p].call = "barrier"
InGather(p)  == current[p].call = "gather"

Has(s, op) == \E i \in 1 .. Len(s) : s[i].op = op
Gathered(s, k) == \E i \in 1 .. Len(s) : s[i].op = "gather" /\ s[i].round = k
One(s, op) == \A i, j \in 1 .. Len(s) : s[i].op = op /\ s[j].op = op => i = j

\* A process that runs, waits for the system or has not started is in no call.
FreeAt(p) ==
  /\ running = p => current[p] = NoCall /\ waiting[p] = "none" /\ phase[p] = "running"
  /\ waiting[p] # "none" => current[p] = NoCall /\ phase[p] = "running"
  /\ phase[p] # "running" => current[p] = NoCall

Free == \A p \in Rank : FreeAt(p)

\* Who is in a barrier has told the master, or is in its array, or has been told
\* that the barrier is lifted: exactly one of the three.
Down(q) == Has(net[q][MasterRank], "barrierDown")
Up(q)   == Has(net[MasterRank][q], "barrierUp")

Links ==
  \A a, b \in Rank :
    /\ Has(net[a][b], "barrierDown") => b = MasterRank /\ a # MasterRank
    /\ Has(net[a][b], "barrierUp")   => a = MasterRank /\ b # MasterRank
    /\ \A op \in {"barrierDown", "barrierUp", "gather"} : One(net[a][b], op)

Told(q) ==
  /\ InBarrier(q) <=> Down(q) \/ q \in barriers \/ Up(q)
  /\ ~(Down(q) /\ q \in barriers) /\ ~(Down(q) /\ Up(q)) /\ ~(q \in barriers /\ Up(q))
  /\ InBarrier(q) => BarrierAt(round[q])

\* The processes that have left the barrier k, or may leave it.
Held(p)      == InBarrier(p) /\ ~Up(p)
Passed(p, k) == round[p] > k \/ (round[p] = k /\ ~Held(p))

Together == \A k \in Nat : BarrierAt(k) => \A p, q \in Rank : Passed(p, k) => Passed(q, k)

\* Gathers, of any round and of round k.
GatherIn(a, b)    == Has(net[a][b], "gather")
GatherOf(a, b, k) == Gathered(net[a][b], k)
Left(r, k)     == round[r] > k \/ (round[r] = k /\ ~InGather(r))

Sendings ==
  \A a, b \in Rank, k \in Nat : GatherOf(a, b, k) =>
    a # b /\ GatherAt(k, b) /\ k <= round[a] /\ ~Left(b, k)

Missing(r) == {q \in Rank \ {r} : round[q] < round[r] \/ GatherIn(q, r)}
Counting(r) == InGather(r) =>
  GatherAt(round[r], r) /\ current[r].pendingACKs = Cardinality(Missing(r))

Ahead == \A r \in Rank, k \in Nat : GatherAt(k, r) =>
  /\ Left(r, k) => \A q \in Rank : round[q] >= k
  /\ round[r] < k => \A q \in Rank \ {r} : round[q] >= k => GatherIn(q, r)

Meet    == Together /\ \A q \in Rank : Told(q)
Gathers   == Sendings /\ Ahead /\ \A r \in Rank : Counting(r)

Calls == Free /\ Links /\ Meet /\ Gathers

CallInv == ~IsHPC /\ error = "none" => Calls

-----------------------------------------------------------------------------
(* Messages of one kind on a connection.                                   *)

LEMMA AppendHas ==
  ASSUME NEW S, NEW s \in Seq(S), NEW m \in S
  PROVE  /\ \A op : Has(Append(s, m), op) <=> Has(s, op) \/ m.op = op
         /\ \A k : Gathered(Append(s, m), k) <=> Gathered(s, k) \/ (m.op = "gather" /\ m.round = k)
         /\ \A op : One(s, op) /\ (m.op # op \/ ~Has(s, op)) => One(Append(s, m), op)
<1>1. /\ Len(s) \in Nat /\ Len(Append(s, m)) = Len(s) + 1 /\ Append(s, m)[Len(s) + 1] = m
      /\ \A i \in 1 .. Len(s) : Append(s, m)[i] = s[i]
  BY AppendProperties
<1> DEFINE t == Append(s, m)
<1>2. 1 .. Len(t) = (1 .. Len(s)) \cup {Len(s) + 1}
  BY <1>1
<1> HIDE DEF t
<1>3. t[Len(s) + 1] = m /\ \A i \in 1 .. Len(s) : t[i] = s[i]
  BY <1>1 DEF t
<1>4. \A op : Has(t, op) <=> Has(s, op) \/ m.op = op
  BY <1>2, <1>3 DEF Has
<1>5. \A k : Gathered(t, k) <=> Gathered(s, k) \/ (m.op = "gather" /\ m.round = k)
  BY <1>2, <1>3 DEF Gathered
<1>6. \A op : One(s, op) /\ (m.op # op \/ ~Has(s, op)) => One(t, op)
  BY <1>2, <1>3 DEF One, Has
<1> QED BY <1>4, <1>5, <1>6 DEF t

LEMMA TailHas ==
  ASSUME NEW S, NEW s \in Seq(S), s # <<>>
  PROVE  /\ \A op : Has(Tail(s), op) => Has(s, op)
         /\ \A op : Head(s).op # op => (Has(Tail(s), op) <=> Has(s, op))
         /\ \A op : One(s, op) /\ Head(s).op = op => Has(s, op) /\ ~Has(Tail(s), op)
         /\ \A k : Gathered(Tail(s), k) => Gathered(s, k)
         /\ \A k : Head(s).op # "gather" => (Gathered(Tail(s), k) <=> Gathered(s, k))
         /\ Head(s).op = "gather" => Gathered(s, Head(s).round)
         /\ \A op : One(s, op) => One(Tail(s), op)
<1>1. /\ Head(s) = s[1] /\ Len(s) \in Nat /\ 1 \in 1 .. Len(s)
      /\ Len(Tail(s)) = Len(s) - 1 /\ \A i \in 1 .. Len(s) - 1 : Tail(s)[i] = s[i + 1]
  BY HeadTailProperties
<1> DEFINE t == Tail(s)
           h == Head(s)
<1>2. Len(t) = Len(s) - 1 /\ \A i \in 1 .. Len(t) : i + 1 \in 1 .. Len(s) /\ i + 1 # 1 /\ t[i] = s[i + 1]
  BY <1>1
<1>3. \A i \in 1 .. Len(s) : i = 1 \/ (i - 1 \in 1 .. Len(t) /\ t[i - 1] = s[i])
  BY <1>1
<1>4. s[1] = h
  BY <1>1
<1> HIDE DEF t, h
<1>5. \A op : Has(t, op) => Has(s, op)
  BY <1>2 DEF Has
<1>6. \A op : h.op # op => (Has(t, op) <=> Has(s, op))
  BY <1>2, <1>3, <1>4 DEF Has
<1>7. \A op : One(s, op) /\ h.op = op => Has(s, op) /\ ~Has(t, op)
  BY <1>1, <1>2, <1>4 DEF Has, One
<1>8. \A k : Gathered(t, k) => Gathered(s, k)
  BY <1>2 DEF Gathered
<1>9. \A k : h.op # "gather" => (Gathered(t, k) <=> Gathered(s, k))
  <2>1. ASSUME NEW k, h.op # "gather", Gathered(s, k) PROVE Gathered(t, k)
    <3>1. PICK i \in 1 .. Len(s) : s[i].op = "gather" /\ s[i].round = k
      BY <2>1 DEF Gathered
    <3>2. i - 1 \in 1 .. Len(t) /\ t[i - 1] = s[i]
      BY <1>3, <1>4, <2>1, <3>1
    <3> QED BY <3>1, <3>2 DEF Gathered
  <2> QED BY <1>8, <2>1
<1>10. h.op = "gather" => Gathered(s, h.round)
  BY <1>1, <1>4 DEF Gathered
<1>11. \A op : One(s, op) => One(t, op)
  <2>1. SUFFICES ASSUME NEW op, One(s, op), NEW i \in 1 .. Len(t), NEW j \in 1 .. Len(t),
                        t[i].op = op, t[j].op = op
                 PROVE  i = j
    BY DEF One
  <2>2. i + 1 \in 1 .. Len(s) /\ j + 1 \in 1 .. Len(s) /\ s[i + 1].op = op /\ s[j + 1].op = op
    BY <1>2, <2>1
  <2>3. i + 1 = j + 1
    BY <2>1, <2>2 DEF One
  <2> QED BY <2>3
<1> QED BY <1>5, <1>6, <1>7, <1>8, <1>9, <1>10, <1>11 DEF t, h

\* After msg is sent by p to each process of Q.
Added(after, n, p, Q, msg) ==
  \A a, b \in Rank :
    LET new == a = p /\ b \in Q
    IN /\ \A op : Has(after[a][b], op) <=> Has(n[a][b], op) \/ (new /\ msg.op = op)
       /\ \A k : Gathered(after[a][b], k)
                   <=> Gathered(n[a][b], k) \/ (new /\ msg.op = "gather" /\ msg.round = k)
       /\ \A op : One(n[a][b], op) /\ (new => msg.op # op \/ ~Has(n[a][b], op)) => One(after[a][b], op)

LEMMA SentHas ==
  ASSUME NEW n \in [Rank -> [Rank -> Seq(Messages)]], NEW p \in Rank, NEW Q, NEW msg \in Messages,
         NEW after, Sent(after, n, p, Q, msg)
  PROVE  Added(after, n, p, Q, msg)
<1> SUFFICES ASSUME NEW a \in Rank, NEW b \in Rank
    PROVE  LET new == a = p /\ b \in Q IN
           /\ \A op : Has(after[a][b], op) <=> Has(n[a][b], op) \/ (new /\ msg.op = op)
           /\ \A k : Gathered(after[a][b], k)
                       <=> Gathered(n[a][b], k) \/ (new /\ msg.op = "gather" /\ msg.round = k)
           /\ \A op : One(n[a][b], op) /\ (new => msg.op # op \/ ~Has(n[a][b], op)) => One(after[a][b], op)
  BY DEF Added
<1>1. PICK s \in Seq(Messages) : s = n[a][b]
  OBVIOUS
<1>2. CASE a = p /\ b \in Q
  <2>1. after[a][b] = Append(s, msg)
    BY <1>1, <1>2 DEF Sent
  <2>2. /\ \A op : Has(Append(s, msg), op) <=> Has(s, op) \/ msg.op = op
        /\ \A k : Gathered(Append(s, msg), k) <=> Gathered(s, k) \/ (msg.op = "gather" /\ msg.round = k)
        /\ \A op : One(s, op) /\ (msg.op # op \/ ~Has(s, op)) => One(Append(s, msg), op)
    BY AppendHas
  <2> QED BY <1>1, <1>2, <2>1, <2>2
<1>3. CASE ~(a = p /\ b \in Q)
  <2>1. after[a][b] = s
    BY <1>1, <1>3 DEF Sent
  <2> QED BY <1>1, <1>3, <2>1
<1> QED BY <1>2, <1>3

\* After the first message on the connection from q to p is taken.
Taken(n, q, p) ==
  \A a, b \in Rank :
    LET m     == Head(net[q][p])
        first == a = q /\ b = p
    IN /\ \A op : Has(n[a][b], op) => Has(net[a][b], op)
       /\ \A op : ~(first /\ m.op = op) => (Has(n[a][b], op) <=> Has(net[a][b], op))
       /\ \A op : first /\ m.op = op /\ One(net[a][b], op) => Has(net[a][b], op) /\ ~Has(n[a][b], op)
       /\ \A k : Gathered(n[a][b], k) => Gathered(net[a][b], k)
       /\ \A k : ~(first /\ m.op = "gather") => (Gathered(n[a][b], k) <=> Gathered(net[a][b], k))
       /\ first /\ m.op = "gather" => Gathered(net[a][b], m.round)
       /\ \A op : One(net[a][b], op) => One(n[a][b], op)

LEMMA TakenHas ==
  ASSUME Types, NEW q \in Rank, NEW p \in Rank, net[q][p] # <<>>,
         NEW n, \A a, b \in Rank : n[a][b] = IF a = q /\ b = p THEN Tail(net[q][p]) ELSE net[a][b]
  PROVE  Taken(n, q, p)
<1> SUFFICES ASSUME NEW a \in Rank, NEW b \in Rank
             PROVE  LET m     == Head(net[q][p])
                        first == a = q /\ b = p
                    IN /\ \A op : Has(n[a][b], op) => Has(net[a][b], op)
                       /\ \A op : ~(first /\ m.op = op) => (Has(n[a][b], op) <=> Has(net[a][b], op))
                       /\ \A op : first /\ m.op = op /\ One(net[a][b], op) => Has(net[a][b], op) /\ ~Has(n[a][b], op)
                       /\ \A k : Gathered(n[a][b], k) => Gathered(net[a][b], k)
                       /\ \A k : ~(first /\ m.op = "gather") => (Gathered(n[a][b], k) <=> Gathered(net[a][b], k))
                       /\ first /\ m.op = "gather" => Gathered(net[a][b], m.round)
                       /\ \A op : One(net[a][b], op) => One(n[a][b], op)
  BY DEF Taken
<1>1. CASE a = q /\ b = p
  <2>1. PICK s \in Seq(Messages) : s = net[q][p] /\ s # <<>>
    <3>1. net \in [Rank -> [Rank -> Seq(Messages)]]
      BY DEF Types
    <3> QED BY <3>1
  <2>2. n[a][b] = Tail(s) /\ net[a][b] = s
    BY <1>1, <2>1
  <2> QED BY <1>1, <2>1, <2>2, TailHas
<1>2. CASE ~(a = q /\ b = p)
  <2>1. n[a][b] = net[a][b]
    BY <1>2
  <2> QED BY <1>2, <2>1
<1> QED BY <1>1, <1>2

-----------------------------------------------------------------------------
(* Barriers: what a step does to those who are in one.                     *)

Advances(p) == round' = [round EXCEPT ![p] = @ + 1]

\* Nothing changes between q and its barrier.
SameAt(q) ==
  /\ InBarrier(q)' <=> InBarrier(q)
  /\ Down(q)' <=> Down(q)
  /\ Up(q)' <=> Up(q)
  /\ q \in barriers' <=> q \in barriers

OnlyBarrierOf(p) == \A q \in Rank \ {p} : SameAt(q) /\ round'[q] = round[q]

LEMMA PassesOn ==
  ASSUME Meet, UNCHANGED job, NEW p \in Rank, OnlyBarrierOf(p), Told(p)',
         \A k \in Nat : BarrierAt(k) => (Passed(p, k)' <=> Passed(p, k))
  PROVE  Meet'
<1>1. Rank' = Rank /\ \A k : BarrierAt(k)' <=> BarrierAt(k)
  BY DEF Rank, BarrierAt
<1>2. ASSUME NEW q \in Rank PROVE Told(q)'
  <2>1. CASE q # p
    <3>1. SameAt(q) /\ round'[q] = round[q] /\ Told(q)
      BY <2>1 DEF OnlyBarrierOf, Meet
    <3> QED BY <1>1, <3>1 DEF SameAt, Told
  <2> QED BY <2>1
<1>3. ASSUME NEW q \in Rank, NEW k \in Nat, BarrierAt(k) PROVE Passed(q, k)' <=> Passed(q, k)
  <2>1. CASE q # p
    <3>1. SameAt(q) /\ round'[q] = round[q]
      BY <2>1 DEF OnlyBarrierOf
    <3> QED BY <3>1 DEF SameAt, Passed, Held
  <2> QED BY <1>3, <2>1
<1>4. Together'
  <2>1. Together
    BY DEF Meet
  <2> QED BY <1>1, <1>3, <2>1 DEF Together
<1> QED BY <1>1, <1>2, <1>4 DEF Meet

\* p is in no call and makes its next one, which is no barrier.
LEMMA PassesCall ==
  ASSUME Types, Meet, UNCHANGED job, NEW p \in Rank, Advances(p),
         ~InBarrier(p), ~BarrierAt(round[p] + 1), \A q \in Rank : SameAt(q)
  PROVE  Meet'
<1>1. round \in [Rank -> Nat]
  BY DEF Types
<1>2. OnlyBarrierOf(p) /\ round'[p] = round[p] + 1 /\ SameAt(p)
  BY <1>1 DEF OnlyBarrierOf, Advances
<1>3. Told(p)'
  <2>1. Told(p)
    BY DEF Meet
  <2> QED BY <1>2, <2>1 DEF Told, SameAt
<1>4. ASSUME NEW k \in Nat, BarrierAt(k) PROVE Passed(p, k)' <=> Passed(p, k)
  <2>1. ~Held(p) /\ ~Held(p)' /\ k # round[p] + 1 /\ round[p] \in Nat
    BY <1>1, <1>2, <1>4 DEF Held, SameAt
  <2> QED BY <1>2, <2>1 DEF Passed
<1> QED BY <1>2, <1>3, <1>4, PassesOn

\* p makes its next call, a barrier, which stays down.
Enters(p) == InBarrier(p)' /\ ~Up(p)' /\ (Down(p)' <=> p \notin barriers')

LEMMA PassesDown ==
  ASSUME Types, Meet, UNCHANGED job, NEW p \in Rank, Advances(p),
         ~InBarrier(p), BarrierAt(round[p] + 1), OnlyBarrierOf(p), Enters(p)
  PROVE  Meet'
<1>1. round \in [Rank -> Nat]
  BY DEF Types
<1>2. round'[p] = round[p] + 1 /\ round[p] \in Nat
  BY <1>1 DEF Advances
<1>3. Told(p)'
  <2>1. BarrierAt(round[p])'
    BY <1>2 DEF BarrierAt
  <2> QED BY <2>1 DEF Told, Enters
<1>4. ASSUME NEW k \in Nat, BarrierAt(k) PROVE Passed(p, k)' <=> Passed(p, k)
  <2>1. ~Held(p) /\ Held(p)'
    BY DEF Held, Enters
  <2> QED BY <1>2, <2>1 DEF Passed
<1> QED BY <1>3, <1>4, PassesOn

\* The master puts q in its array; or q takes the message that lifts its barrier.
LEMMA PassesCount ==
  ASSUME Types, Meet, UNCHANGED <<job, round>>, NEW q \in Rank, OnlyBarrierOf(q),
         Down(q), InBarrier(q)' <=> InBarrier(q), Up(q)' <=> Up(q), ~Down(q)', q \in barriers'
  PROVE  Meet'
<1>1. Told(q)
  BY DEF Meet
<1>2. Told(q)'
  <2>1. BarrierAt(round[q])' <=> BarrierAt(round[q])
    BY DEF BarrierAt
  <2> QED BY <1>1, <2>1 DEF Told
<1>3. ASSUME NEW k \in Nat, BarrierAt(k) PROVE Passed(q, k)' <=> Passed(q, k)
  BY DEF Passed, Held
<1> QED BY <1>2, <1>3, PassesOn

LEMMA PassesUp ==
  ASSUME Types, Meet, UNCHANGED <<job, round>>, NEW q \in Rank, OnlyBarrierOf(q),
         Up(q), ~InBarrier(q)', Down(q)' <=> Down(q), ~Up(q)', q \in barriers' <=> q \in barriers
  PROVE  Meet'
<1>1. Told(q)
  BY DEF Meet
<1>2. Told(q)'
  BY <1>1 DEF Told
<1>3. ASSUME NEW k \in Nat, BarrierAt(k) PROVE Passed(q, k)' <=> Passed(q, k)
  BY DEF Passed, Held
<1> QED BY <1>2, <1>3, PassesOn

\* Two that are held are in the same barrier.
LEMMA HeldTogether ==
  ASSUME Types, Meet, NEW p \in Rank, NEW q \in Rank, Held(p), Held(q)
  PROVE  round[p] = round[q]
<1>1. round[p] \in Nat /\ round[q] \in Nat
  BY DEF Types
<1>2. BarrierAt(round[p]) /\ BarrierAt(round[q])
  BY DEF Meet, Told, Held
<1>3. ~Passed(p, round[p]) /\ ~Passed(q, round[q])
  BY <1>1 DEF Passed
<1>4. ~Passed(q, round[p]) /\ ~Passed(p, round[q])
  BY <1>1, <1>2, <1>3 DEF Meet, Together
<1> QED BY <1>1, <1>4 DEF Passed

\* All processes have passed a barrier that one has passed.
LEMMA NobodyBehind ==
  ASSUME Types, Meet, NEW p \in Rank, NEW k \in Nat, BarrierAt(k), NEW q \in Rank,
         k < round[p] \/ (k <= round[p] /\ ~Held(p))
  PROVE  k <= round[q]
<1>1. round[p] \in Nat /\ round[q] \in Nat
  BY DEF Types
<1>2. Passed(p, k)
  BY <1>1 DEF Passed
<1>3. Passed(q, k)
  BY <1>2 DEF Meet, Together
<1> QED BY <1>1, <1>3 DEF Passed

\* The master lifts the barrier: all others are told.
Lifted ==
  \A q \in Rank :
    /\ ~Down(q)' /\ q \notin barriers'
    /\ q # MasterRank => InBarrier(q)' /\ Up(q)'
    /\ q = MasterRank => ~InBarrier(q)' /\ ~Up(q)'

LEMMA LiftedTogether ==
  ASSUME UNCHANGED job, \A p, q \in Rank : round'[p] = round'[q], Lifted,
         \A q \in Rank \ {MasterRank} : BarrierAt(round'[q])
  PROVE  Meet'
<1>1. Rank' = Rank /\ \A k : BarrierAt(k)' <=> BarrierAt(k)
  BY DEF Rank, BarrierAt
<1>2. ASSUME NEW q \in Rank PROVE Told(q)' /\ ~Held(q)'
  BY <1>1 DEF Lifted, Told, Held
<1>3. Together'
  BY <1>1, <1>2 DEF Together, Passed
<1> QED BY <1>1, <1>2, <1>3 DEF Meet

-----------------------------------------------------------------------------
(* Calls of a program.                                                     *)

LEMMA ProgramIs ==
  ASSUME Types, ~IsHPC, NEW p \in Rank
  PROVE  /\ job \in Jobs /\ job.app # "ApplicationHPC" /\ MasterRank \in Rank
         /\ Rank = 0 .. job.numProcesses - 1
         /\ DOMAIN job.program[p] = 1 .. Len(job.program[p]) /\ Len(job.program[p]) \in Nat
         /\ \A k \in 1 .. Len(job.program[p]) : job.program[p][k] \in ProgramCall
<1>1. /\ job \in Jobs /\ job.app # "ApplicationHPC" /\ MasterRank \in Rank
      /\ job.program \in [Rank -> Seq(ProgramCall)]
  BY JobsAssumption DEF Types, IsHPC, Rank, MasterRank
<1>2. PICK s \in Seq(ProgramCall) : s = job.program[p]
  BY <1>1
<1>3. DOMAIN s = 1 .. Len(s) /\ Len(s) \in Nat /\ \A k \in 1 .. Len(s) : s[k] \in ProgramCall
  OBVIOUS
<1> QED BY <1>1, <1>2, <1>3 DEF Rank

\* The call of p says what the call of all is.
LEMMA CallsAlign ==
  ASSUME Aligned(Jobs), Types, ~IsHPC, NEW p \in Rank, NEW k \in DOMAIN job.program[p]
  PROVE  /\ job.program[p][k].op = "barrier" <=> BarrierAt(k)
         /\ \A r \in Rank : GatherAt(k, r) <=> job.program[p][k].op = "gather" /\ job.program[p][k].root = r
         /\ k \in Nat
<1>1. /\ job \in Jobs /\ job.app # "ApplicationHPC" /\ MasterRank \in Rank /\ Rank = 0 .. job.numProcesses - 1
      /\ DOMAIN job.program[p] = 1 .. Len(job.program[p]) /\ Len(job.program[p]) \in Nat
  BY ProgramIs
<1>2. ASSUME NEW a \in Rank, NEW b \in Rank, NEW i \in DOMAIN job.program[a]
      PROVE  /\ job.program[a][i].op \in {"barrier", "gather"} =>
                  i \in DOMAIN job.program[b] /\ job.program[b][i].op = job.program[a][i].op
             /\ job.program[a][i].op = "gather" => job.program[b][i].root = job.program[a][i].root
  BY <1>1 DEF Aligned
<1>3. job.program[p][k].op = "barrier" <=> BarrierAt(k)
  BY <1>1, <1>2 DEF BarrierAt
<1>4. ASSUME NEW r \in Rank
      PROVE  GatherAt(k, r) <=> job.program[p][k].op = "gather" /\ job.program[p][k].root = r
  BY <1>2 DEF GatherAt
<1> QED BY <1>1, <1>3, <1>4

\* There is a barrier between two gathers of one root.
LEMMA GathersApart ==
  ASSUME Aligned(Jobs), Types, ~IsHPC, NEW r \in Rank, NEW k \in Nat, NEW l \in Nat, k < l,
         GatherAt(k, r), GatherAt(l, r)
  PROVE  \E b \in Nat : k < b /\ b < l /\ BarrierAt(b)
<1>1. job \in Jobs /\ job.app # "ApplicationHPC" /\ Rank = 0 .. job.numProcesses - 1
  BY ProgramIs
<1>2. /\ k \in DOMAIN job.program[r] /\ l \in DOMAIN job.program[r]
      /\ job.program[r][k].op = "gather" /\ job.program[r][l].op = "gather"
      /\ job.program[r][l].root = job.program[r][k].root
  BY DEF GatherAt
<1>3. \E b \in DOMAIN job.program[r] : k < b /\ b < l /\ job.program[r][b].op = "barrier"
  BY <1>1, <1>2 DEF Aligned
<1> QED BY <1>3, CallsAlign

-----------------------------------------------------------------------------
(* Gathers: what a step does to those who are in one.                      *)

\* The gather messages on connections stay, but those from a to r.
OnlyGathersOf(a, r) ==
  \A x, y \in Rank : x # a \/ y # r =>
    /\ GatherIn(x, y)' <=> GatherIn(x, y)
    /\ \A k \in Nat : GatherOf(x, y, k)' <=> GatherOf(x, y, k)

SameGathers ==
  \A x, y \in Rank :
    /\ GatherIn(x, y)' <=> GatherIn(x, y)
    /\ \A k \in Nat : GatherOf(x, y, k)' <=> GatherOf(x, y, k)

\* r stays in its gather, with its count, or out of one.
SameGather(r) ==
  /\ InGather(r)' <=> InGather(r)
  /\ InGather(r) => current'[r].pendingACKs = current[r].pendingACKs /\ round'[r] = round[r]

LEMMA GatherAtSame ==
  ASSUME UNCHANGED job
  PROVE  Rank' = Rank /\ \A k, r : GatherAt(k, r)' <=> GatherAt(k, r)
BY DEF Rank, GatherAt

\* No process goes to or from a gather.
LEMMA GathersStay ==
  ASSUME Types, Gathers, UNCHANGED job, round' \in [Rank -> Nat], SameGathers,
         \A r \in Rank : SameGather(r),
         \A r \in Rank, k \in Nat : GatherAt(k, r) =>
           (Left(r, k)' <=> Left(r, k)) /\ \A q \in Rank : round'[q] >= k <=> round[q] >= k
  PROVE  Gathers'
<1>1. Rank' = Rank /\ \A k, r : GatherAt(k, r)' <=> GatherAt(k, r)
  BY GatherAtSame
<1>2. round \in [Rank -> Nat] /\ \A q \in Rank : round[q] \in Nat /\ round'[q] \in Nat
  BY DEF Types
<1>3. Sendings'
  <2>1. SUFFICES ASSUME NEW a \in Rank, NEW b \in Rank, NEW k \in Nat, GatherOf(a, b, k)'
                 PROVE  a # b /\ GatherAt(k, b) /\ k <= round'[a] /\ ~Left(b, k)'
    BY <1>1 DEF Sendings
  <2>2. GatherOf(a, b, k)
    BY <2>1 DEF SameGathers
  <2>3. a # b /\ GatherAt(k, b) /\ k <= round[a] /\ ~Left(b, k)
    BY <2>2 DEF Gathers, Sendings
  <2> QED BY <1>2, <2>3
<1>4. Ahead'
  <2>1. SUFFICES ASSUME NEW r \in Rank, NEW k \in Nat, GatherAt(k, r)
                 PROVE  /\ Left(r, k)' => \A q \in Rank : round'[q] >= k
                        /\ round'[r] < k => \A q \in Rank \ {r} : round'[q] >= k => GatherIn(q, r)'
    BY <1>1 DEF Ahead
  <2>2. /\ Left(r, k) => \A q \in Rank : round[q] >= k
        /\ round[r] < k => \A q \in Rank \ {r} : round[q] >= k => GatherIn(q, r)
    BY <2>1 DEF Gathers, Ahead
  <2>3. round'[r] < k => round[r] < k
    BY <1>2, <2>1
  <2> QED BY <2>1, <2>2, <2>3 DEF SameGathers
<1>5. ASSUME NEW r \in Rank PROVE Counting(r)'
  <2>1. SUFFICES ASSUME InGather(r)'
                 PROVE  GatherAt(round'[r], r) /\ current'[r].pendingACKs = Cardinality(Missing(r)')
    BY <1>1 DEF Counting
  <2>2. /\ InGather(r) /\ round'[r] = round[r] /\ current'[r].pendingACKs = current[r].pendingACKs
        /\ GatherAt(round[r], r) /\ current[r].pendingACKs = Cardinality(Missing(r))
    BY <2>1 DEF Gathers, Counting, SameGather
  <2>3. \A q \in Rank : round'[q] < round'[r] <=> round[q] < round[r]
    BY <1>2, <2>2
  <2>4. Missing(r)' = Missing(r)
    BY <1>1, <2>3 DEF Missing, SameGathers
  <2> QED BY <2>2, <2>4
<1> QED BY <1>1, <1>3, <1>4, <1>5 DEF Gathers

LEMMA GathersSame ==
  ASSUME Types, Gathers, UNCHANGED <<job, round>>, SameGathers, \A r \in Rank : SameGather(r)
  PROVE  Gathers'
<1>1. round' \in [Rank -> Nat]
  BY DEF Types
<1>2. \A r \in Rank, k \in Nat : Left(r, k)' <=> Left(r, k)
  BY DEF Left, SameGather
<1> QED BY <1>1, <1>2, GathersStay

\* p makes its next call, which is no gather.
LEMMA GathersCall ==
  ASSUME Types, Gathers, UNCHANGED job, NEW p \in Rank, Advances(p), ~InGather(p),
         \A r \in Rank : ~GatherAt(round[p] + 1, r),
         SameGathers, \A r \in Rank : InGather(r)' <=> InGather(r),
         \A r \in Rank : InGather(r) => current'[r].pendingACKs = current[r].pendingACKs
  PROVE  Gathers'
<1>1. /\ round \in [Rank -> Nat] /\ round' \in [Rank -> Nat] /\ \A q \in Rank : round[q] \in Nat
      /\ round'[p] = round[p] + 1 /\ \A q \in Rank \ {p} : round'[q] = round[q]
  BY DEF Types, Advances
<1>2. \A r \in Rank : SameGather(r)
  BY <1>1 DEF SameGather
<1>3. ASSUME NEW r \in Rank, NEW k \in Nat, GatherAt(k, r)
      PROVE  (Left(r, k)' <=> Left(r, k)) /\ \A q \in Rank : round'[q] >= k <=> round[q] >= k
  <2>1. k # round[p] + 1
    BY <1>3
  <2>2. \A q \in Rank : round'[q] >= k <=> round[q] >= k
    BY <1>1, <2>1
  <2>3. Left(r, k)' <=> Left(r, k)
    BY <1>1, <2>1 DEF Left
  <2> QED BY <2>2, <2>3
<1> QED BY <1>1, <1>2, <1>3, GathersStay

LEMMA GatherInIs ==
  ASSUME Types, NEW a \in Rank, NEW b \in Rank
  PROVE  GatherIn(a, b) <=> \E k \in Nat : GatherOf(a, b, k)
<1>0. net \in [Rank -> [Rank -> Seq(Messages)]]
  BY DEF Types
<1>1. PICK s \in Seq(Messages) : s = net[a][b]
  BY <1>0
<1>2. \A i \in 1 .. Len(s) : s[i].round \in Nat
  <2>1. \A i \in 1 .. Len(s) : s[i] \in Messages
    OBVIOUS
  <2> QED BY <2>1, MessageIs
<1> QED BY <1>1, <1>2 DEF GatherIn, GatherOf, Has, Gathered

LEMMA OthersAre ==
  ASSUME Types, NEW r \in Rank
  PROVE  IsFiniteSet(Rank) /\ Cardinality(Rank \ {r}) = job.numProcesses - 1
<1>1. job.numProcesses \in Nat \ {0}
  BY RankType DEF Types
<1>2. PICK top \in Int : top = job.numProcesses - 1
  BY <1>1
<1>3. IsFiniteSet(0 .. top) /\ Cardinality(0 .. top) = IF 0 > top THEN 0 ELSE top - 0 + 1
  BY FS_Interval
<1>4. IsFiniteSet(Rank) /\ Cardinality(Rank) = job.numProcesses
  BY <1>1, <1>2, <1>3 DEF Rank
<1> QED BY <1>1, <1>4, FS_RemoveElement

\* p is in no call and makes its next one, a gather of r; nothing of an earlier
\* gather of r is left between them.
LEMMA NoGatherYet ==
  ASSUME Aligned(Jobs), Types, ~IsHPC, Meet, Gathers, NEW a \in Rank, NEW r \in Rank, a # r,
         ~InBarrier(a), GatherAt(round[a] + 1, r)
  PROVE  /\ ~GatherIn(a, r) /\ ~Left(r, round[a] + 1)
         /\ InGather(r) => round[r] = round[a] + 1
<1>1. round[a] \in Nat /\ round[r] \in Nat
  BY DEF Types
<1>2. PICK k \in Nat : k = round[a] + 1
  BY <1>1
<1>3. GatherAt(k, r) /\ ~Held(a)
  BY <1>2 DEF Held
<1>4. \A b \in Nat : BarrierAt(b) /\ b < k => b <= round[r]
  BY <1>1, <1>2, <1>3, NobodyBehind
<1>5. ~Left(r, k)
  BY <1>1, <1>2, <1>3 DEF Gathers, Ahead
<1>6. ~GatherIn(a, r)
  <2>1. SUFFICES ASSUME GatherIn(a, r) PROVE FALSE
    OBVIOUS
  <2>2. PICK l \in Nat : GatherOf(a, r, l)
    BY <2>1, GatherInIs
  <2>3. GatherAt(l, r) /\ l <= round[a] /\ ~Left(r, l)
    BY <2>2 DEF Gathers, Sendings
  <2>4. PICK b \in Nat : l < b /\ b < k /\ BarrierAt(b)
    BY <1>1, <1>2, <1>3, <2>3, GathersApart
  <2>5. b <= round[r]
    BY <1>4, <2>4
  <2> QED BY <1>1, <2>3, <2>4, <2>5 DEF Left
<1>7. InGather(r) => round[r] = k
  <2>1. SUFFICES ASSUME InGather(r), round[r] # k PROVE FALSE
    OBVIOUS
  <2>2. GatherAt(round[r], r)
    BY <2>1 DEF Gathers, Counting
  <2>3. CASE round[r] < k
    <3>1. PICK b \in Nat : round[r] < b /\ b < k /\ BarrierAt(b)
      BY <1>1, <1>3, <2>2, <2>3, GathersApart
    <3> QED BY <1>1, <1>4, <3>1
  <2>4. CASE k < round[r]
    BY <1>5, <2>4 DEF Left
  <2> QED BY <1>1, <2>1, <2>3, <2>4
<1> QED BY <1>2, <1>5, <1>6, <1>7

\* a sends to r, the root.
LEMMA GathersSend ==
  ASSUME Aligned(Jobs), Types, ~IsHPC, Meet, Gathers, UNCHANGED job, NEW a \in Rank, NEW r \in Rank, a # r,
         ~InBarrier(a), ~InGather(a), Advances(a),
         \A s \in Rank : GatherAt(round[a] + 1, s) <=> s = r,
         OnlyGathersOf(a, r), GatherIn(a, r)',
         \A k \in Nat : GatherOf(a, r, k)' <=> GatherOf(a, r, k) \/ k = round[a] + 1,
         \A s \in Rank : InGather(s)' <=> InGather(s),
         \A s \in Rank : InGather(s) => current'[s].pendingACKs = current[s].pendingACKs
  PROVE  Gathers'
<1>1. /\ round \in [Rank -> Nat] /\ round' \in [Rank -> Nat] /\ \A q \in Rank : round[q] \in Nat
      /\ round'[a] = round[a] + 1 /\ \A q \in Rank \ {a} : round'[q] = round[q]
  <2>1. round \in [Rank -> Nat] /\ \A q \in Rank : round[q] \in Nat
    BY DEF Types
  <2> QED BY <2>1 DEF Advances
<1>2. Rank' = Rank /\ \A k, s : GatherAt(k, s)' <=> GatherAt(k, s)
  BY GatherAtSame
<1>3. /\ ~GatherIn(a, r) /\ ~Left(r, round[a] + 1) /\ GatherAt(round[a] + 1, r)
      /\ InGather(r) => round[r] = round[a] + 1
  BY NoGatherYet
<1>4. ASSUME NEW s \in Rank, NEW k \in Nat, GatherAt(k, s) PROVE Left(s, k)' <=> Left(s, k)
  <2>1. s = a => k # round[a] + 1
    BY <1>4
  <2> QED BY <1>1, <2>1 DEF Left
<1>5. Sendings'
  <2>1. SUFFICES ASSUME NEW x \in Rank, NEW y \in Rank, NEW k \in Nat, GatherOf(x, y, k)'
                 PROVE  x # y /\ GatherAt(k, y) /\ k <= round'[x] /\ ~Left(y, k)'
    BY <1>2 DEF Sendings
  <2>2. CASE GatherOf(x, y, k)
    <3>1. x # y /\ GatherAt(k, y) /\ k <= round[x] /\ ~Left(y, k)
      BY <2>2 DEF Gathers, Sendings
    <3>2. k <= round'[x]
      BY <1>1, <3>1
    <3> QED BY <1>4, <3>1, <3>2
  <2>3. CASE ~GatherOf(x, y, k)
    <3>1. x = a /\ y = r /\ k = round[a] + 1
      BY <2>1, <2>3 DEF OnlyGathersOf
    <3> QED BY <1>1, <1>3, <1>4, <3>1
  <2> QED BY <2>2, <2>3
<1>6. Ahead'
  <2>1. SUFFICES ASSUME NEW s \in Rank, NEW k \in Nat, GatherAt(k, s)
                 PROVE  /\ Left(s, k)' => \A q \in Rank : round'[q] >= k
                        /\ round'[s] < k => \A q \in Rank \ {s} : round'[q] >= k => GatherIn(q, s)'
    BY <1>2 DEF Ahead
  <2>2. /\ Left(s, k) => \A q \in Rank : round[q] >= k
        /\ round[s] < k => \A q \in Rank \ {s} : round[q] >= k => GatherIn(q, s)
    BY <2>1 DEF Gathers, Ahead
  <2>3. Left(s, k)' => \A q \in Rank : round'[q] >= k
    BY <1>1, <1>4, <2>1, <2>2
  <2>4. ASSUME round'[s] < k, NEW q \in Rank \ {s}, round'[q] >= k PROVE GatherIn(q, s)'
    <3>1. round[s] < k
      BY <1>1, <2>4
    <3>2. CASE q = a /\ s = r
      BY <3>2
    <3>3. CASE ~(q = a /\ s = r)
      <4>1. round[q] >= k
        <5>1. q = a => k # round[a] + 1
          BY <2>1, <3>3
        <5> QED BY <1>1, <2>4, <5>1
      <4> QED BY <2>2, <2>4, <3>1, <3>3, <4>1 DEF OnlyGathersOf
    <3> QED BY <3>2, <3>3
  <2> QED BY <2>3, <2>4
<1>7. ASSUME NEW s \in Rank PROVE Counting(s)'
  <2>1. SUFFICES ASSUME InGather(s)'
                 PROVE  GatherAt(round'[s], s) /\ current'[s].pendingACKs = Cardinality(Missing(s)')
    BY <1>2 DEF Counting
  <2>2. /\ InGather(s) /\ s # a /\ round'[s] = round[s] /\ current'[s].pendingACKs = current[s].pendingACKs
        /\ GatherAt(round[s], s) /\ current[s].pendingACKs = Cardinality(Missing(s))
    BY <1>1, <2>1 DEF Gathers, Counting
  <2>3. ASSUME NEW q \in Rank \ {s}
        PROVE  (round'[q] < round'[s] \/ GatherIn(q, s)') <=> (round[q] < round[s] \/ GatherIn(q, s))
    <3>1. CASE q = a /\ s = r
      BY <1>1, <1>3, <2>2, <3>1
    <3>2. CASE ~(q = a /\ s = r)
      <4>1. GatherIn(q, s)' <=> GatherIn(q, s)
        BY <3>2 DEF OnlyGathersOf
      <4>2. q = a => round[s] # round[a] + 1
        BY <2>2, <3>2
      <4>3. round'[q] < round'[s] <=> round[q] < round[s]
        BY <1>1, <2>2, <4>2
      <4> QED BY <4>1, <4>3
    <3> QED BY <3>1, <3>2
  <2>4. Missing(s)' = Missing(s)
    BY <1>2, <2>3 DEF Missing
  <2> QED BY <2>2, <2>4
<1> QED BY <1>2, <1>5, <1>6, <1>7 DEF Gathers

\* r, the root, makes its call.
LEMMA GathersEnter ==
  ASSUME Types, Gathers, UNCHANGED job, NEW r \in Rank, ~InGather(r), Advances(r),
         \A s \in Rank : GatherAt(round[r] + 1, s) <=> s = r,
         SameGathers, InGather(r)', current'[r].pendingACKs = job.numProcesses - 1,
         \A s \in Rank \ {r} : InGather(s)' <=> InGather(s),
         \A s \in Rank \ {r} : InGather(s) => current'[s].pendingACKs = current[s].pendingACKs
  PROVE  Gathers'
<1>1. /\ round \in [Rank -> Nat] /\ round' \in [Rank -> Nat] /\ \A q \in Rank : round[q] \in Nat
      /\ round'[r] = round[r] + 1 /\ \A q \in Rank \ {r} : round'[q] = round[q]
  BY DEF Types, Advances
<1>2. Rank' = Rank /\ \A k, s : GatherAt(k, s)' <=> GatherAt(k, s)
  BY GatherAtSame
<1>3. ASSUME NEW s \in Rank, NEW k \in Nat, GatherAt(k, s) PROVE Left(s, k)' <=> Left(s, k)
  BY <1>1 DEF Left
<1>4. Sendings'
  <2>1. SUFFICES ASSUME NEW x \in Rank, NEW y \in Rank, NEW k \in Nat, GatherOf(x, y, k)'
                 PROVE  x # y /\ GatherAt(k, y) /\ k <= round'[x] /\ ~Left(y, k)'
    BY <1>2 DEF Sendings
  <2>2. x # y /\ GatherAt(k, y) /\ k <= round[x] /\ ~Left(y, k)
    BY <2>1 DEF SameGathers, Gathers, Sendings
  <2>3. k <= round'[x]
    BY <1>1, <2>2
  <2> QED BY <1>3, <2>2, <2>3
<1>5. Ahead'
  <2>1. SUFFICES ASSUME NEW s \in Rank, NEW k \in Nat, GatherAt(k, s)
                 PROVE  /\ Left(s, k)' => \A q \in Rank : round'[q] >= k
                        /\ round'[s] < k => \A q \in Rank \ {s} : round'[q] >= k => GatherIn(q, s)'
    BY <1>2 DEF Ahead
  <2>2. /\ Left(s, k) => \A q \in Rank : round[q] >= k
        /\ round[s] < k => \A q \in Rank \ {s} : round[q] >= k => GatherIn(q, s)
    BY <2>1 DEF Gathers, Ahead
  <2>3. Left(s, k)' => \A q \in Rank : round'[q] >= k
    BY <1>1, <1>3, <2>1, <2>2
  <2>4. ASSUME round'[s] < k, NEW q \in Rank \ {s}, round'[q] >= k PROVE GatherIn(q, s)'
    <3>1. q = r => k # round[r] + 1
      BY <2>1
    <3>2. round[s] < k /\ round[q] >= k
      BY <1>1, <2>4, <3>1
    <3> QED BY <2>2, <3>2 DEF SameGathers
  <2> QED BY <2>3, <2>4
<1>6. ASSUME NEW s \in Rank PROVE Counting(s)'
  <2>1. SUFFICES ASSUME InGather(s)'
                 PROVE  GatherAt(round'[s], s) /\ current'[s].pendingACKs = Cardinality(Missing(s)')
    BY <1>2 DEF Counting
  <2>2. CASE s = r
    <3>1. ASSUME NEW q \in Rank \ {r} PROVE round'[q] < round'[r] \/ GatherIn(q, r)'
      <4>1. GatherAt(round[r] + 1, r) /\ round[r] + 1 \in Nat
        BY <1>1
      <4>2. round[q] >= round[r] + 1 => GatherIn(q, r)
        BY <1>1, <4>1 DEF Gathers, Ahead
      <4> QED BY <1>1, <4>2 DEF SameGathers
    <3>2. Missing(r)' = Rank \ {r}
      BY <1>2, <3>1 DEF Missing
    <3> QED BY <1>1, <2>2, <3>2, OthersAre
  <2>3. CASE s # r
    <3>1. /\ InGather(s) /\ round'[s] = round[s] /\ current'[s].pendingACKs = current[s].pendingACKs
          /\ GatherAt(round[s], s) /\ current[s].pendingACKs = Cardinality(Missing(s))
      BY <1>1, <2>1, <2>3 DEF Gathers, Counting
    <3>2. \A q \in Rank \ {s} : round'[q] < round'[s] <=> round[q] < round[s]
      <4>1. round[s] # round[r] + 1
        BY <2>3, <3>1
      <4> QED BY <1>1, <3>1, <4>1
    <3>3. Missing(s)' = Missing(s)
      BY <1>2, <3>2 DEF Missing, SameGathers
    <3> QED BY <3>1, <3>3
  <2> QED BY <2>2, <2>3
<1> QED BY <1>2, <1>4, <1>5, <1>6 DEF Gathers

\* r, the root, takes the message of a, and leaves if it was the last one.
LEMMA GathersTake ==
  ASSUME Aligned(Jobs), Types, ~IsHPC, Meet, Gathers, UNCHANGED <<job, round>>, NEW a \in Rank, NEW r \in Rank,
         InGather(r), GatherIn(a, r), OnlyGathersOf(a, r), ~GatherIn(a, r)',
         \A s \in Rank \ {r} : InGather(s)' <=> InGather(s),
         \A s \in Rank \ {r} : InGather(s) => current'[s].pendingACKs = current[s].pendingACKs,
         IF current[r].pendingACKs - 1 = 0 THEN ~InGather(r)'
         ELSE InGather(r)' /\ current'[r].pendingACKs = current[r].pendingACKs - 1
  PROVE  Gathers' /\ (~InGather(r)' => \A q \in Rank : round[q] >= round[r])
<1>1. round \in [Rank -> Nat] /\ \A q \in Rank : round[q] \in Nat
  BY DEF Types
<1>2. Rank' = Rank /\ \A k, s : GatherAt(k, s)' <=> GatherAt(k, s)
  BY GatherAtSame
<1>3. GatherAt(round[r], r) /\ current[r].pendingACKs = Cardinality(Missing(r))
  BY DEF Gathers, Counting
<1>4. a # r /\ round[a] >= round[r]
  <2>1. PICK k \in Nat : GatherOf(a, r, k)
    BY GatherInIs
  <2>2. a # r /\ k <= round[a] /\ ~Left(r, k)
    BY <2>1 DEF Gathers, Sendings
  <2> QED BY <1>1, <2>2 DEF Left
<1>5. \A x, y \in Rank : GatherIn(x, y)' <=> GatherIn(x, y) /\ ~(x = a /\ y = r)
  BY DEF OnlyGathersOf
<1>6. \A k \in Nat : ~GatherOf(a, r, k)'
  BY DEF GatherIn, GatherOf, Has, Gathered
<1>7. Missing(r)' = Missing(r) \ {a} /\ a \in Missing(r)
  BY <1>2, <1>4, <1>5, <1>1 DEF Missing
<1>8. IsFiniteSet(Missing(r)) /\ Cardinality(Missing(r)') = Cardinality(Missing(r)) - 1
  <2>1. IsFiniteSet(Rank)
    BY OthersAre
  <2>2. IsFiniteSet(Missing(r))
    BY <2>1, FS_Subset DEF Missing
  <2> QED BY <1>7, <2>2, FS_RemoveElement
<1>9. ~InGather(r)' => Missing(r)' = {}
  <2>1. SUFFICES ASSUME ~InGather(r)' PROVE Missing(r)' = {}
    OBVIOUS
  <2>2. Cardinality(Missing(r)') = 0
    BY <1>3, <1>8, <2>1
  <2>3. IsFiniteSet(Missing(r)')
    BY <1>7, <1>8, FS_Subset
  <2> QED BY <2>2, <2>3, FS_EmptySet
<1>10. ~InGather(r)' => \A q \in Rank : round[q] >= round[r] /\ ~GatherIn(q, r)'
  <2>1. SUFFICES ASSUME ~InGather(r)', NEW q \in Rank
                 PROVE  round[q] >= round[r] /\ ~GatherIn(q, r)'
    OBVIOUS
  <2>2. CASE q = r
    <3>1. ~GatherIn(r, r)
      <4>1. \A k \in Nat : ~GatherOf(r, r, k)
        BY DEF Gathers, Sendings
      <4> QED BY <4>1, GatherInIs
    <3> QED BY <1>1, <1>5, <2>2, <3>1
  <2>3. CASE q # r
    <3>1. q \notin Missing(r)'
      BY <1>9, <2>1
    <3> QED BY <1>1, <1>2, <2>3, <3>1 DEF Missing
  <2> QED BY <2>2, <2>3
<1>11. \A s \in Rank, k \in Nat : s # r \/ k # round[r] \/ InGather(r)' => (Left(s, k)' <=> Left(s, k))
  BY DEF Left
<1>12. Sendings'
  <2>1. SUFFICES ASSUME NEW x \in Rank, NEW y \in Rank, NEW k \in Nat, GatherOf(x, y, k)'
                 PROVE  x # y /\ GatherAt(k, y) /\ k <= round[x] /\ ~Left(y, k)'
    BY <1>2 DEF Sendings
  <2>2. GatherOf(x, y, k) /\ GatherIn(x, y)'
    <3>1. GatherIn(x, y)'
      BY <2>1 DEF GatherIn, GatherOf, Has, Gathered
    <3> QED BY <1>5, <2>1, <3>1 DEF OnlyGathersOf
  <2>3. x # y /\ GatherAt(k, y) /\ k <= round[x] /\ ~Left(y, k)
    BY <2>2 DEF Gathers, Sendings
  <2>4. y # r \/ InGather(r)'
    BY <1>10, <2>2
  <2> QED BY <1>11, <2>3, <2>4
<1>13. Ahead'
  <2>1. SUFFICES ASSUME NEW s \in Rank, NEW k \in Nat, GatherAt(k, s)
                 PROVE  /\ Left(s, k)' => \A q \in Rank : round[q] >= k
                        /\ round[s] < k => \A q \in Rank \ {s} : round[q] >= k => GatherIn(q, s)'
    BY <1>2 DEF Ahead
  <2>2. /\ Left(s, k) => \A q \in Rank : round[q] >= k
        /\ round[s] < k => \A q \in Rank \ {s} : round[q] >= k => GatherIn(q, s)
    BY <2>1 DEF Gathers, Ahead
  <2>3. Left(s, k)' => \A q \in Rank : round[q] >= k
    <3>1. CASE s # r \/ k # round[r] \/ InGather(r)'
      BY <1>11, <2>2, <3>1
    <3>2. CASE s = r /\ k = round[r] /\ ~InGather(r)'
      BY <1>10, <3>2
    <3> QED BY <3>1, <3>2
  <2>4. ASSUME round[s] < k, NEW q \in Rank \ {s}, round[q] >= k PROVE GatherIn(q, s)'
    <3>1. ~(q = a /\ s = r)
      <4>1. SUFFICES ASSUME q = a, s = r PROVE FALSE
        OBVIOUS
      <4>2. PICK b \in Nat : round[r] < b /\ b < k /\ BarrierAt(b)
        BY <1>1, <1>3, <2>1, <2>4, <4>1, GathersApart
      <4>3. b < round[a]
        BY <1>1, <2>4, <4>1, <4>2
      <4>4. b <= round[r]
        BY <4>2, <4>3, NobodyBehind
      <4> QED BY <1>1, <4>2, <4>4
    <3> QED BY <1>5, <2>2, <2>4, <3>1
  <2> QED BY <2>3, <2>4
<1>14. ASSUME NEW s \in Rank PROVE Counting(s)'
  <2>1. SUFFICES ASSUME InGather(s)'
                 PROVE  GatherAt(round[s], s) /\ current'[s].pendingACKs = Cardinality(Missing(s)')
    BY <1>2 DEF Counting
  <2>2. CASE s = r
    BY <1>3, <1>8, <2>1, <2>2
  <2>3. CASE s # r
    <3>1. /\ InGather(s) /\ current'[s].pendingACKs = current[s].pendingACKs
          /\ GatherAt(round[s], s) /\ current[s].pendingACKs = Cardinality(Missing(s))
      BY <2>1, <2>3 DEF Gathers, Counting
    <3>2. Missing(s)' = Missing(s)
      BY <1>2, <1>5, <2>3 DEF Missing
    <3> QED BY <3>1, <3>2
  <2> QED BY <2>2, <2>3
<1> QED BY <1>2, <1>10, <1>12, <1>13, <1>14 DEF Gathers

-----------------------------------------------------------------------------
(* What a step does to the links and to the call of one process.           *)

LinkOps == {"barrierDown", "barrierUp", "gather"}

\* Messages of barriers and gathers stay on the connection from a to b.
QuietLink(a, b) ==
  /\ \A op \in LinkOps : Has(net'[a][b], op) <=> Has(net[a][b], op)
  /\ \A op \in LinkOps : One(net[a][b], op) => One(net'[a][b], op)
  /\ \A k \in Nat : Gathered(net'[a][b], k) <=> Gathered(net[a][b], k)

Quiet == \A a, b \in Rank : QuietLink(a, b)

LEMMA QuietDoes ==
  ASSUME UNCHANGED job, Links, Quiet
  PROVE  /\ Links' /\ SameGathers
         /\ \A q \in Rank : MasterRank \in Rank => (Down(q)' <=> Down(q)) /\ (Up(q)' <=> Up(q))
<1>1. Rank' = Rank
  BY DEF Rank
<1>2. Links'
  BY <1>1 DEF Links, Quiet, QuietLink, LinkOps
<1>3. SameGathers
  BY DEF SameGathers, GatherIn, GatherOf, Quiet, QuietLink, LinkOps
<1>4. \A q \in Rank : MasterRank \in Rank => (Down(q)' <=> Down(q)) /\ (Up(q)' <=> Up(q))
  BY DEF Down, Up, Quiet, QuietLink, LinkOps
<1> QED BY <1>2, <1>3, <1>4

LEMMA QuietSame == ASSUME UNCHANGED net PROVE Quiet
BY DEF Quiet, QuietLink

LEMMA QuietSent ==
  ASSUME Types, NEW p \in Rank, NEW Q, NEW msg \in Messages, msg.op \notin LinkOps,
         Sent(net', net, p, Q, msg)
  PROVE  Quiet
<1>1. SUFFICES ASSUME NEW a \in Rank, NEW b \in Rank PROVE QuietLink(a, b)
  BY DEF Quiet
<1>2. net \in [Rank -> [Rank -> Seq(Messages)]]
  BY DEF Types
<1>3. Added(net', net, p, Q, msg)
  BY <1>2, SentHas
<1> QED BY <1>3 DEF Added, QuietLink, LinkOps

LEMMA QuietTaken ==
  ASSUME NEW q \in Rank, NEW p \in Rank, Taken(net', q, p), Head(net[q][p]).op \notin LinkOps
  PROVE  Quiet
BY DEF Quiet, QuietLink, Taken, LinkOps

\* Only p changes its call.
OnlyCallOf(p) == \A q \in Rank \ {p} : current'[q] = current[q]

LEMMA CallAt ==
  ASSUME Types, NEW p \in Rank, NEW c, current' = [current EXCEPT ![p] = c]
  PROVE  OnlyCallOf(p) /\ current'[p] = c
BY DEF Types, OnlyCallOf

LEMMA FreeStep ==
  ASSUME Free, UNCHANGED job, NEW p \in Rank, OnlyCallOf(p), FreeAt(p)',
         \A q \in Rank \ {p} : /\ waiting'[q] = waiting[q] /\ phase'[q] = phase[q]
                               /\ running' = q => running = q
  PROVE  Free'
<1>1. Rank' = Rank
  BY DEF Rank
<1>2. ASSUME NEW q \in Rank \ {p} PROVE FreeAt(q)'
  BY <1>2 DEF Free, FreeAt, OnlyCallOf, NoCall
<1> QED BY <1>1, <1>2 DEF Free

\* No process leaves a barrier or, as root, a gather before all have entered it.
Leaves ==
  \A p \in Rank :
    current[p].call \in {"barrier", "gather"} /\ current'[p].call # current[p].call
      => \A q \in Rank : round[q] >= round[p]

LEMMA NobodyLeaves ==
  ASSUME NEW p \in Rank, OnlyCallOf(p),
         InBarrier(p) \/ InGather(p) => current'[p].call = current[p].call
  PROVE  Leaves
BY DEF Leaves, OnlyCallOf, InBarrier, InGather

\* A step that has nothing to do with barriers and gathers.
LEMMA QuietStep ==
  ASSUME Types, MasterRank \in Rank, Links, Meet, Gathers, UNCHANGED <<job, round, barriers>>, Quiet,
         NEW p \in Rank, OnlyCallOf(p), InBarrier(p)' <=> InBarrier(p), InGather(p)' <=> InGather(p),
         InGather(p) => current'[p] = current[p]
  PROVE  Links' /\ Meet' /\ Gathers' /\ Leaves
<1>1. Links' /\ SameGathers /\ \A q \in Rank : (Down(q)' <=> Down(q)) /\ (Up(q)' <=> Up(q))
  BY QuietDoes
<1>2. \A q \in Rank : /\ InBarrier(q)' <=> InBarrier(q)
                      /\ InGather(q)' <=> InGather(q)
                      /\ InGather(q) => current'[q] = current[q]
  BY DEF OnlyCallOf, InBarrier, InGather
<1>3. \A q \in Rank : SameAt(q)
  BY <1>1, <1>2 DEF SameAt
<1>4. Meet'
  <2>1. Told(p) /\ OnlyBarrierOf(p)
    BY <1>3 DEF Meet, OnlyBarrierOf
  <2>2. Told(p)'
    BY <1>3, <2>1 DEF Told, SameAt, BarrierAt
  <2>3. \A k \in Nat : BarrierAt(k) => (Passed(p, k)' <=> Passed(p, k))
    BY <1>3 DEF Passed, Held, SameAt
  <2> QED BY <2>1, <2>2, <2>3, PassesOn
<1>5. Gathers'
  <2>1. \A r \in Rank : SameGather(r)
    BY <1>2 DEF SameGather
  <2> QED BY <1>1, <2>1, GathersSame
<1>6. InBarrier(p) \/ InGather(p) => current'[p].call = current[p].call
  BY DEF InBarrier, InGather
<1> QED BY <1>1, <1>4, <1>5, <1>6, NobodyLeaves

\* A call that is no barrier and no gather.
LEMMA QuietCall ==
  ASSUME Types, MasterRank \in Rank, Links, Meet, Gathers, UNCHANGED <<job, barriers>>, Quiet,
         NEW p \in Rank, OnlyCallOf(p), Advances(p), current[p] = NoCall, ~InBarrier(p)', ~InGather(p)',
         ~BarrierAt(round[p] + 1), \A r \in Rank : ~GatherAt(round[p] + 1, r)
  PROVE  Links' /\ Meet' /\ Gathers' /\ Leaves
<1>1. Links' /\ SameGathers /\ \A q \in Rank : (Down(q)' <=> Down(q)) /\ (Up(q)' <=> Up(q))
  BY QuietDoes
<1>2. ~InBarrier(p) /\ ~InGather(p)
  BY DEF InBarrier, InGather, NoCall
<1>3. \A q \in Rank : /\ InBarrier(q)' <=> InBarrier(q)
                      /\ InGather(q)' <=> InGather(q)
                      /\ InGather(q) => current'[q].pendingACKs = current[q].pendingACKs
  BY <1>2 DEF OnlyCallOf, InBarrier, InGather
<1>4. \A q \in Rank : SameAt(q)
  BY <1>1, <1>3 DEF SameAt
<1>5. Meet'
  BY <1>2, <1>4, PassesCall
<1>6. Gathers'
  BY <1>1, <1>2, <1>3, GathersCall
<1> QED BY <1>1, <1>2, <1>5, <1>6, NobodyLeaves

-----------------------------------------------------------------------------
(* The steps of a barrier.                                                 *)

\* Others keep their barriers, as far as they do not hear of it.
LEMMA OthersSame ==
  ASSUME NEW p \in Rank, OnlyCallOf(p), NEW q \in Rank \ {p},
         Down(q)' <=> Down(q), Up(q)' <=> Up(q), q \in barriers' <=> q \in barriers
  PROVE  SameAt(q)
BY DEF SameAt, OnlyCallOf, InBarrier

LEMMA GathersOthers ==
  ASSUME NEW p \in Rank, OnlyCallOf(p), InGather(p)' <=> InGather(p), InGather(p) => current'[p] = current[p]
  PROVE  /\ \A r \in Rank : InGather(r)' <=> InGather(r)
         /\ \A r \in Rank : InGather(r) => current'[r].pendingACKs = current[r].pendingACKs
BY DEF OnlyCallOf, InGather

LEMMA OneCall == \A p : InBarrier(p) => ~InGather(p)
BY DEF InBarrier, InGather

\* A message that is taken leaves the links as they are.
LEMMA TakenLinks ==
  ASSUME UNCHANGED job, Links, NEW q \in Rank, NEW p \in Rank, Taken(net', q, p)
  PROVE  Links'
<1>1. Rank' = Rank
  BY DEF Rank
<1>2. SUFFICES ASSUME NEW a \in Rank, NEW b \in Rank
               PROVE  /\ Has(net'[a][b], "barrierDown") => b = MasterRank /\ a # MasterRank
                      /\ Has(net'[a][b], "barrierUp")   => a = MasterRank /\ b # MasterRank
                      /\ \A op \in {"barrierDown", "barrierUp", "gather"} : One(net'[a][b], op)
  BY <1>1 DEF Links
<1>3. /\ \A op : Has(net'[a][b], op) => Has(net[a][b], op)
      /\ \A op : One(net[a][b], op) => One(net'[a][b], op)
  BY DEF Taken
<1> QED BY <1>3 DEF Links

\* A process but the master calls mpi_barrier.
LEMMA DownStep ==
  ASSUME Types, MasterRank \in Rank, Links, Meet, Gathers, UNCHANGED <<job, barriers>>,
         NEW p \in Rank, p # MasterRank, OnlyCallOf(p), Advances(p), current[p] = NoCall, InBarrier(p)',
         BarrierAt(round[p] + 1), \A r \in Rank : ~GatherAt(round[p] + 1, r),
         NEW msg, msg.op = "barrierDown", Added(net', net, p, {MasterRank}, msg)
  PROVE  Links' /\ Meet' /\ Gathers' /\ Leaves
<1>1. ~InBarrier(p) /\ ~InGather(p) /\ ~InGather(p)' /\ Rank' = Rank
  BY OneCall DEF InBarrier, InGather, NoCall, Rank
<1>2. ~Down(p) /\ ~Up(p) /\ p \notin barriers
  BY <1>1 DEF Meet, Told
<1>3. Links'
  <2>1. SUFFICES ASSUME NEW a \in Rank, NEW b \in Rank
                 PROVE  /\ Has(net'[a][b], "barrierDown") => b = MasterRank /\ a # MasterRank
                        /\ Has(net'[a][b], "barrierUp")   => a = MasterRank /\ b # MasterRank
                        /\ \A op \in {"barrierDown", "barrierUp", "gather"} : One(net'[a][b], op)
    BY <1>1 DEF Links
  <2>2. /\ Has(net[a][b], "barrierDown") => b = MasterRank /\ a # MasterRank
        /\ Has(net[a][b], "barrierUp")   => a = MasterRank /\ b # MasterRank
        /\ \A op \in {"barrierDown", "barrierUp", "gather"} : One(net[a][b], op)
    BY DEF Links
  <2> QED BY <1>2, <2>2 DEF Added, Down
<1>4. SameGathers
  BY DEF SameGathers, GatherIn, GatherOf, Added
<1>5. /\ \A q \in Rank : Up(q)' <=> Up(q)
      /\ \A q \in Rank : Down(q)' <=> Down(q) \/ q = p
  BY DEF Up, Down, Added
<1>6. OnlyBarrierOf(p)
  <2>1. ASSUME NEW q \in Rank \ {p} PROVE SameAt(q) /\ round'[q] = round[q]
    <3>1. SameAt(q)
      BY <1>5, OthersSame
    <3>2. round'[q] = round[q]
      BY DEF Advances, Types
    <3> QED BY <3>1, <3>2
  <2> QED BY <2>1 DEF OnlyBarrierOf
<1>7. Enters(p)
  BY <1>2, <1>5 DEF Enters
<1>8. Meet'
  BY <1>1, <1>6, <1>7, PassesDown
<1>9. Gathers'
  BY <1>1, <1>4, GathersOthers, GathersCall
<1> QED BY <1>1, <1>3, <1>8, <1>9, NobodyLeaves

\* The master calls mpi_barrier, and is not the last one.
LEMMA MasterStep ==
  ASSUME Types, MasterRank \in Rank, Links, Meet, Gathers, UNCHANGED <<job, net>>,
         NEW p \in Rank, p = MasterRank, OnlyCallOf(p), Advances(p), current[p] = NoCall, InBarrier(p)',
         BarrierAt(round[p] + 1), \A r \in Rank : ~GatherAt(round[p] + 1, r),
         barriers' = barriers \cup {p}
  PROVE  Links' /\ Meet' /\ Gathers' /\ Leaves
<1>1. ~InBarrier(p) /\ ~InGather(p) /\ ~InGather(p)'
  BY OneCall DEF InBarrier, InGather, NoCall
<1>2. Links' /\ SameGathers /\ \A q \in Rank : (Down(q)' <=> Down(q)) /\ (Up(q)' <=> Up(q))
  BY QuietSame, QuietDoes
<1>3. OnlyBarrierOf(p)
  <2>1. ASSUME NEW q \in Rank \ {p} PROVE SameAt(q) /\ round'[q] = round[q]
    <3>1. SameAt(q)
      BY <1>2, OthersSame
    <3>2. round'[q] = round[q]
      BY DEF Advances, Types
    <3> QED BY <3>1, <3>2
  <2> QED BY <2>1 DEF OnlyBarrierOf
<1>4. ~Down(p) /\ ~Up(p)
  BY DEF Links, Down, Up
<1>5. Enters(p)
  BY <1>2, <1>4 DEF Enters
<1>6. Meet'
  BY <1>1, <1>3, <1>5, PassesDown
<1>7. Gathers'
  BY <1>1, <1>2, GathersOthers, GathersCall
<1> QED BY <1>1, <1>2, <1>6, <1>7, NobodyLeaves

\* The master hears of q, which is not the last one.
LEMMA CountStep ==
  ASSUME Types, MasterRank \in Rank, Links, Meet, Gathers, UNCHANGED <<job, round, current>>,
         NEW q \in Rank, net[q][MasterRank] # <<>>, Head(net[q][MasterRank]).op = "barrierDown",
         Taken(net', q, MasterRank), barriers' = barriers \cup {q}
  PROVE  Links' /\ Meet' /\ Gathers' /\ Leaves
<1>1. Rank' = Rank
  BY DEF Rank
<1>2. Links'
  BY TakenLinks
<1>3. SameGathers
  BY DEF SameGathers, GatherIn, GatherOf, Taken
<1>4. Down(q) /\ ~Down(q)'
  BY DEF Down, Links, Taken
<1>5. /\ \A x \in Rank : Up(x)' <=> Up(x)
      /\ \A x \in Rank \ {q} : Down(x)' <=> Down(x)
      /\ \A x \in Rank : (InBarrier(x)' <=> InBarrier(x)) /\ SameGather(x)
  BY DEF Up, Down, Taken, InBarrier, SameGather, InGather
<1>6. OnlyBarrierOf(q)
  BY <1>5 DEF OnlyBarrierOf, SameAt
<1>7. Meet'
  BY <1>4, <1>5, <1>6, PassesCount
<1>8. Gathers'
  BY <1>3, <1>5, GathersSame
<1> QED BY <1>2, <1>7, <1>8 DEF Leaves

\* p hears that its barrier is lifted.
LEMMA UpStep ==
  ASSUME Types, MasterRank \in Rank, Links, Meet, Gathers, UNCHANGED <<job, round, barriers>>,
         NEW p \in Rank, NEW q \in Rank, net[q][p] # <<>>, Head(net[q][p]).op = "barrierUp",
         Taken(net', q, p), OnlyCallOf(p), current'[p] = NoCall
  PROVE  InBarrier(p) /\ Links' /\ Meet' /\ Gathers' /\ Leaves
<1>1. Rank' = Rank /\ ~InBarrier(p)' /\ ~InGather(p)'
  BY DEF Rank, InBarrier, InGather, NoCall
<1>2. q = MasterRank /\ p # MasterRank /\ Up(p) /\ ~Up(p)'
  BY DEF Links, Taken, Up
<1>3. Links'
  BY TakenLinks
<1>4. SameGathers
  BY DEF SameGathers, GatherIn, GatherOf, Taken
<1>5. /\ \A x \in Rank : Down(x)' <=> Down(x)
      /\ \A x \in Rank \ {p} : Up(x)' <=> Up(x)
  BY <1>2 DEF Up, Down, Taken
<1>6. OnlyBarrierOf(p)
  <2>1. ASSUME NEW x \in Rank \ {p} PROVE SameAt(x) /\ round'[x] = round[x]
    BY <1>5, OthersSame
  <2> QED BY <2>1 DEF OnlyBarrierOf
<1>7. Meet'
  BY <1>1, <1>2, <1>5, <1>6, PassesUp
<1>8. InBarrier(p) /\ BarrierAt(round[p]) /\ ~Held(p)
  BY <1>2 DEF Meet, Told, Held
<1>9. \A x \in Rank : InGather(x)' <=> InGather(x)
  BY <1>1, <1>8, OneCall DEF OnlyCallOf, InGather
<1>10. Gathers'
  <2>1. \A x \in Rank : SameGather(x)
    BY <1>1, <1>9 DEF SameGather, OnlyCallOf
  <2> QED BY <1>4, <2>1, GathersSame
<1>11. \A x \in Rank : round[x] >= round[p]
  <2>1. round[p] \in Nat /\ \A x \in Rank : round[x] \in Nat
    BY DEF Types
  <2> QED BY <1>8, <2>1, NobodyBehind
<1>12. Leaves
  BY <1>11 DEF Leaves, OnlyCallOf
<1> QED BY <1>3, <1>7, <1>8, <1>10, <1>12

\* n has no barrier messages but those of net, and the gather messages of net.
Thinner(n) ==
  \A a, b \in Rank :
    /\ \A op : Has(n[a][b], op) => Has(net[a][b], op)
    /\ \A op : One(net[a][b], op) => One(n[a][b], op)
    /\ Has(n[a][b], "gather") <=> Has(net[a][b], "gather")
    /\ \A k : Gathered(n[a][b], k) <=> Gathered(net[a][b], k)

\* All are in the array, in one round: the barrier is lifted.
LEMMA LiftStep ==
  ASSUME MasterRank \in Rank, Links, UNCHANGED job,
         NEW n, Thinner(n), \A q \in Rank : ~Has(n[q][MasterRank], "barrierDown"),
         \A q \in Rank : ~Has(n[MasterRank][q], "barrierUp"),
         NEW msg, msg.op = "barrierUp", Added(net', n, MasterRank, Rank \ {MasterRank}, msg),
         barriers' = {}, OnlyCallOf(MasterRank), current'[MasterRank] = NoCall,
         \A q \in Rank \ {MasterRank} : InBarrier(q) /\ BarrierAt(round'[q]),
         \A p, q \in Rank : round'[p] = round'[q]
  PROVE  Links' /\ Meet' /\ SameGathers
<1>1. Rank' = Rank
  BY DEF Rank
<1>2. Links'
  <2>1. SUFFICES ASSUME NEW a \in Rank, NEW b \in Rank
                 PROVE  /\ Has(net'[a][b], "barrierDown") => b = MasterRank /\ a # MasterRank
                        /\ Has(net'[a][b], "barrierUp")   => a = MasterRank /\ b # MasterRank
                        /\ \A op \in {"barrierDown", "barrierUp", "gather"} : One(net'[a][b], op)
    BY <1>1 DEF Links
  <2>2. /\ Has(net[a][b], "barrierDown") => b = MasterRank /\ a # MasterRank
        /\ Has(net[a][b], "barrierUp")   => a = MasterRank /\ b # MasterRank
        /\ \A op \in {"barrierDown", "barrierUp", "gather"} : One(net[a][b], op)
    BY DEF Links
  <2>3. /\ Has(n[a][b], "barrierDown") => b = MasterRank /\ a # MasterRank
        /\ Has(n[a][b], "barrierUp")   => a = MasterRank /\ b # MasterRank
        /\ \A op \in {"barrierDown", "barrierUp", "gather"} : One(n[a][b], op)
    BY <2>2 DEF Thinner
  <2>4. /\ Has(net'[a][b], "barrierDown") => Has(n[a][b], "barrierDown")
        /\ Has(net'[a][b], "barrierUp") =>
             Has(n[a][b], "barrierUp") \/ (a = MasterRank /\ b \in Rank \ {MasterRank})
    BY DEF Added
  <2>5. \A op \in {"barrierDown", "barrierUp", "gather"} : One(net'[a][b], op)
    BY <2>3 DEF Added
  <2> QED BY <2>3, <2>4, <2>5
<1>3. SameGathers
  BY DEF SameGathers, GatherIn, GatherOf, Added, Thinner
<1>4. Lifted
  <2>1. ASSUME NEW q \in Rank PROVE ~Down(q)' /\ (q # MasterRank => Up(q)') /\ (q = MasterRank => ~Up(q)')
    BY DEF Down, Up, Added
  <2>2. ASSUME NEW q \in Rank \ {MasterRank} PROVE InBarrier(q)'
    BY DEF InBarrier, OnlyCallOf
  <2>3. ~InBarrier(MasterRank)'
    BY DEF InBarrier, NoCall
  <2> QED BY <2>1, <2>2, <2>3 DEF Lifted
<1> QED BY <1>2, <1>3, <1>4, LiftedTogether

\* The master is the last one to call mpi_barrier.
LEMMA LastIsMaster ==
  ASSUME Types, MasterRank \in Rank, Links, Meet, Gathers, UNCHANGED job,
         OnlyCallOf(MasterRank), Advances(MasterRank), current[MasterRank] = NoCall,
         current'[MasterRank] = NoCall,
         BarrierAt(round[MasterRank] + 1), \A r \in Rank : ~GatherAt(round[MasterRank] + 1, r),
         barriers \cup {MasterRank} = Rank, barriers' = {},
         NEW msg, msg.op = "barrierUp", Added(net', net, MasterRank, Rank \ {MasterRank}, msg)
  PROVE  Links' /\ Meet' /\ Gathers' /\ Leaves
<1>1. /\ ~InBarrier(MasterRank) /\ ~InGather(MasterRank)
      /\ ~InBarrier(MasterRank)' /\ ~InGather(MasterRank)'
  BY DEF InBarrier, InGather, NoCall
<1>2. ASSUME NEW q \in Rank \ {MasterRank} PROVE InBarrier(q) /\ Held(q) /\ ~Down(q) /\ BarrierAt(round[q])
  BY DEF Meet, Told, Held
<1>3. \A q \in Rank : ~Down(q) /\ ~Up(q)
  <2>1. ~Down(MasterRank) /\ ~Up(MasterRank)
    BY DEF Down, Up, Links
  <2> QED BY <1>2, <2>1 DEF Held
<1>4. /\ \A q \in Rank : round[q] \in Nat
      /\ round'[MasterRank] = round[MasterRank] + 1
      /\ \A q \in Rank \ {MasterRank} : round'[q] = round[q]
  BY DEF Types, Advances
<1>5. ASSUME NEW q \in Rank \ {MasterRank} PROVE round[q] = round[MasterRank] + 1
  <2>1. ~Passed(q, round[q])
    BY <1>2, <1>4 DEF Passed
  <2>2. ~Passed(MasterRank, round[q])
    BY <1>2, <1>4, <2>1 DEF Meet, Together
  <2>3. ~Passed(MasterRank, round[MasterRank] + 1)
    BY <1>4 DEF Passed
  <2>4. ~Passed(q, round[MasterRank] + 1)
    <3>1. round[MasterRank] + 1 \in Nat
      BY <1>4
    <3> QED BY <2>3, <3>1 DEF Meet, Together
  <2>5. ~Held(MasterRank)
    BY <1>1 DEF Held
  <2> QED BY <1>4, <2>2, <2>4, <2>5 DEF Passed
<1>6. Links' /\ Meet' /\ SameGathers
  <2>1. Thinner(net) /\ \A q \in Rank : ~Has(net[q][MasterRank], "barrierDown") /\ ~Has(net[MasterRank][q], "barrierUp")
    BY <1>3 DEF Thinner, Down, Up
  <2>2. \A q \in Rank \ {MasterRank} : InBarrier(q) /\ BarrierAt(round'[q])
    BY <1>2, <1>4
  <2>3. \A p, q \in Rank : round'[p] = round'[q]
    BY <1>4, <1>5
  <2> QED BY <2>1, <2>2, <2>3, LiftStep
<1>7. Gathers'
  BY <1>1, <1>6, GathersOthers, GathersCall
<1> QED BY <1>1, <1>6, <1>7, NobodyLeaves

\* The master hears of the last one, q.
LEMMA LastIsOther ==
  ASSUME Types, MasterRank \in Rank, Links, Meet, Gathers, UNCHANGED <<job, round>>,
         OnlyCallOf(MasterRank), current'[MasterRank] = NoCall,
         NEW q \in Rank, net[q][MasterRank] # <<>>, Head(net[q][MasterRank]).op = "barrierDown",
         NEW n, Taken(n, q, MasterRank),
         barriers \cup {q} = Rank, barriers' = {},
         NEW msg, msg.op = "barrierUp", Added(net', n, MasterRank, Rank \ {MasterRank}, msg)
  PROVE  InBarrier(MasterRank) /\ Links' /\ Meet' /\ Gathers' /\ Leaves
<1>1. Down(q) /\ q # MasterRank /\ ~Has(n[q][MasterRank], "barrierDown")
  BY DEF Down, Links, Taken
<1>2. ASSUME NEW x \in Rank PROVE InBarrier(x) /\ Held(x) /\ BarrierAt(round[x]) /\ ~Up(x)
  BY <1>1 DEF Meet, Told, Held
<1>3. \A x \in Rank : ~Has(n[x][MasterRank], "barrierDown") /\ ~Has(n[MasterRank][x], "barrierUp")
  <2>1. \A x \in Rank : x # q => ~Down(x)
    BY DEF Meet, Told
  <2> QED BY <1>1, <1>2, <2>1 DEF Taken, Down, Up
<1>4. \A x, y \in Rank : round[x] = round[y]
  BY <1>2, HeldTogether
<1>5. Links' /\ Meet' /\ SameGathers
  <2>1. Thinner(n)
    <3>1. SUFFICES ASSUME NEW a \in Rank, NEW b \in Rank
                   PROVE  /\ \A op : Has(n[a][b], op) => Has(net[a][b], op)
                          /\ \A op : One(net[a][b], op) => One(n[a][b], op)
                          /\ Has(n[a][b], "gather") <=> Has(net[a][b], "gather")
                          /\ \A k : Gathered(n[a][b], k) <=> Gathered(net[a][b], k)
      BY DEF Thinner
    <3>2. Head(net[q][MasterRank]).op # "gather"
      OBVIOUS
    <3>3. /\ \A op : Has(n[a][b], op) => Has(net[a][b], op)
          /\ \A op : One(net[a][b], op) => One(n[a][b], op)
      BY DEF Taken
    <3>4. /\ Has(n[a][b], "gather") <=> Has(net[a][b], "gather")
          /\ \A k : Gathered(n[a][b], k) <=> Gathered(net[a][b], k)
      BY <3>2 DEF Taken
    <3> QED BY <3>3, <3>4
  <2> QED BY <1>2, <1>3, <1>4, <2>1, LiftStep
<1>6. ~InGather(MasterRank) /\ ~InGather(MasterRank)'
  BY <1>2, OneCall DEF InGather, NoCall
<1>7. Gathers'
  <2>1. \A r \in Rank : SameGather(r)
    BY <1>6 DEF SameGather, OnlyCallOf, InGather
  <2> QED BY <1>5, <2>1, GathersSame
<1>8. Leaves
  <2>1. \A x \in Rank : round[x] \in Nat
    BY DEF Types
  <2> QED BY <1>4, <2>1 DEF Leaves
<1> QED BY <1>2, <1>5, <1>7, <1>8

-----------------------------------------------------------------------------
(* The steps of a gather.                                                  *)

LEMMA BarriersOthers ==
  ASSUME NEW p \in Rank, OnlyCallOf(p), UNCHANGED barriers, InBarrier(p)' <=> InBarrier(p),
         \A q \in Rank : (Down(q)' <=> Down(q)) /\ (Up(q)' <=> Up(q))
  PROVE  \A q \in Rank : SameAt(q)
BY DEF SameAt, OnlyCallOf, InBarrier

\* A process sends its part to the root.
LEMMA GatherSendStep ==
  ASSUME Aligned(Jobs), Types, ~IsHPC, MasterRank \in Rank, Links, Meet, Gathers, UNCHANGED <<job, barriers>>,
         NEW a \in Rank, NEW r \in Rank, a # r, OnlyCallOf(a), Advances(a),
         current[a] = NoCall, current'[a] = NoCall,
         ~BarrierAt(round[a] + 1), \A s \in Rank : GatherAt(round[a] + 1, s) <=> s = r,
         NEW msg, msg.op = "gather", msg.round = round[a] + 1, Added(net', net, a, {r}, msg)
  PROVE  Links' /\ Meet' /\ Gathers' /\ Leaves
<1>1. ~InBarrier(a) /\ ~InGather(a) /\ ~InBarrier(a)' /\ ~InGather(a)' /\ Rank' = Rank
  BY DEF InBarrier, InGather, NoCall, Rank
<1>2. ~GatherIn(a, r)
  BY <1>1, NoGatherYet
<1>3. Links'
  <2>1. SUFFICES ASSUME NEW x \in Rank, NEW y \in Rank
                 PROVE  /\ Has(net'[x][y], "barrierDown") => y = MasterRank /\ x # MasterRank
                        /\ Has(net'[x][y], "barrierUp")   => x = MasterRank /\ y # MasterRank
                        /\ \A op \in {"barrierDown", "barrierUp", "gather"} : One(net'[x][y], op)
    BY <1>1 DEF Links
  <2>2. /\ Has(net[x][y], "barrierDown") => y = MasterRank /\ x # MasterRank
        /\ Has(net[x][y], "barrierUp")   => x = MasterRank /\ y # MasterRank
        /\ \A op \in {"barrierDown", "barrierUp", "gather"} : One(net[x][y], op)
    BY DEF Links
  <2> QED BY <1>2, <2>2 DEF Added, GatherIn
<1>4. \A q \in Rank : (Down(q)' <=> Down(q)) /\ (Up(q)' <=> Up(q))
  BY DEF Down, Up, Added
<1>5. Meet'
  BY <1>1, <1>4, BarriersOthers, PassesCall
<1>6. OnlyGathersOf(a, r) /\ GatherIn(a, r)'
  BY DEF OnlyGathersOf, GatherIn, GatherOf, Added
<1>7. \A k \in Nat : GatherOf(a, r, k)' <=> GatherOf(a, r, k) \/ k = round[a] + 1
  BY DEF GatherOf, Added
<1>8. /\ \A s \in Rank : InGather(s)' <=> InGather(s)
      /\ \A s \in Rank : InGather(s) => current'[s].pendingACKs = current[s].pendingACKs
  BY <1>1, GathersOthers
<1>9. Gathers'
  BY <1>1, <1>6, <1>7, <1>8, GathersSend
<1> QED BY <1>1, <1>3, <1>5, <1>9, NobodyLeaves

\* The root calls mpi_gather.
LEMMA GatherEnterStep ==
  ASSUME Types, MasterRank \in Rank, Links, Meet, Gathers, UNCHANGED <<job, net, barriers>>,
         NEW r \in Rank, OnlyCallOf(r), Advances(r), current[r] = NoCall,
         current'[r] = [call |-> "gather", pendingACKs |-> job.numProcesses - 1],
         ~BarrierAt(round[r] + 1), \A s \in Rank : GatherAt(round[r] + 1, s) <=> s = r
  PROVE  Links' /\ Meet' /\ Gathers' /\ Leaves
<1>1. /\ ~InBarrier(r) /\ ~InGather(r) /\ ~InBarrier(r)' /\ InGather(r)'
      /\ current'[r].pendingACKs = job.numProcesses - 1
  BY DEF InBarrier, InGather, NoCall
<1>2. Links' /\ SameGathers /\ \A q \in Rank : (Down(q)' <=> Down(q)) /\ (Up(q)' <=> Up(q))
  BY QuietSame, QuietDoes
<1>3. Meet'
  BY <1>1, <1>2, BarriersOthers, PassesCall
<1>4. /\ \A s \in Rank \ {r} : InGather(s)' <=> InGather(s)
      /\ \A s \in Rank \ {r} : InGather(s) => current'[s].pendingACKs = current[s].pendingACKs
  BY DEF OnlyCallOf, InGather
<1>5. Gathers'
  BY <1>1, <1>2, <1>4, GathersEnter
<1> QED BY <1>1, <1>2, <1>3, <1>5, NobodyLeaves

\* The root takes the part of a.
LEMMA GatherTakeStep ==
  ASSUME Aligned(Jobs), Types, ~IsHPC, MasterRank \in Rank, Links, Meet, Gathers, UNCHANGED <<job, round, barriers>>,
         NEW a \in Rank, NEW r \in Rank, net[a][r] # <<>>, Head(net[a][r]).op = "gather",
         Taken(net', a, r), InGather(r), OnlyCallOf(r),
         NEW left, left = current[r].pendingACKs - 1,
         current'[r] = IF left = 0 THEN NoCall ELSE [current[r] EXCEPT !.pendingACKs = left],
         current[r] \in [call : {"gather"}, pendingACKs : Int]
  PROVE  Links' /\ Meet' /\ Gathers' /\ Leaves
<1>1. ~InBarrier(r) /\ ~InBarrier(r)'
  BY OneCall DEF InBarrier, NoCall
<1>2. IF left = 0 THEN ~InGather(r)' ELSE InGather(r)' /\ current'[r].pendingACKs = left
  BY DEF InGather, NoCall
<1>3. Links'
  BY TakenLinks
<1>4. \A q \in Rank : (Down(q)' <=> Down(q)) /\ (Up(q)' <=> Up(q))
  BY DEF Down, Up, Taken
<1>5. Meet'
  <2>1. \A q \in Rank : SameAt(q)
    BY <1>1, <1>4, BarriersOthers
  <2>2. Told(r)'
    BY <2>1 DEF Meet, Told, SameAt, BarrierAt
  <2>3. \A k \in Nat : BarrierAt(k) => (Passed(r, k)' <=> Passed(r, k))
    BY <2>1 DEF Passed, Held, SameAt
  <2> QED BY <2>1, <2>2, <2>3, PassesOn DEF OnlyBarrierOf
<1>6. GatherIn(a, r) /\ ~GatherIn(a, r)' /\ OnlyGathersOf(a, r)
  <2>1. One(net[a][r], "gather")
    BY DEF Links
  <2> QED BY <2>1 DEF GatherIn, GatherOf, OnlyGathersOf, Taken
<1>7. /\ \A s \in Rank \ {r} : InGather(s)' <=> InGather(s)
      /\ \A s \in Rank \ {r} : InGather(s) => current'[s].pendingACKs = current[s].pendingACKs
  BY DEF OnlyCallOf, InGather
<1>8. Gathers' /\ (~InGather(r)' => \A q \in Rank : round[q] >= round[r])
  BY <1>2, <1>6, <1>7, GathersTake
<1>9. Leaves
  BY <1>8 DEF Leaves, OnlyCallOf, InGather
<1> QED BY <1>3, <1>5, <1>8, <1>9

-----------------------------------------------------------------------------
(* The actions, for the calls of a program.                                *)

\* A call that is matched is a receiving one, and the process goes on.
LEMMA SyncCalls ==
  ASSUME Types, NEW p \in Rank, NEW c, NEW list \in Seq(Messages), Synchronize(p, c, list)
  PROVE  \/ current' = [current EXCEPT ![p] = c] /\ running' = Nobody
         \/ /\ current' = [current EXCEPT ![p] = NoCall] /\ running' = p
            /\ c.call \in {"recv", "bcast", "scatter"}
<1> DEFINE k == SearchMPICall(list, c)
<1>1. CASE k = 0
  BY <1>1 DEF Synchronize
<1>2. CASE k # 0
  <2>1. k \in 1 .. Len(list) /\ Fits(list[k], c)
    BY <1>2, Search
  <2>2. list[k] \in Messages
    BY <2>1
  <2>3. Partner(c) # "nothing"
    BY <2>1, <2>2, MessageOps DEF Fits
  <2>4. c.call \in {"recv", "bcast", "scatter"}
    BY <2>3 DEF Partner
  <2> QED BY <1>2, <2>4 DEF Synchronize, Clear
<1> QED BY <1>1, <1>2

\* What each step keeps, if the simulation goes on.
Keeps == Leaves /\ (error' = "none" => Calls')

LEMMA StartCalls ==
  ASSUME Types, ~IsHPC, Calls, NEW p \in Rank, Start(p)
  PROVE  Keeps
<1>1. /\ UNCHANGED <<job, net, current, barriers, waiting, round>>
      /\ running = Nobody /\ running' \in {p, Nobody}
      /\ phase[p] \in {"started", "listening", "connecting"}
      /\ \A q \in Rank \ {p} : phase'[q] = phase[q]
      /\ running' = p => phase'[p] = "running"
  <2>1. phase \in [Rank -> Phases] /\ Nobody \notin Rank
    BY RankType DEF Types
  <2> QED BY <2>1
          DEF Start, ParseMachinesFile, EstablishAllConnections, SetEstablishedConnection, WaitToExecute
<1>2. MasterRank \in Rank /\ Nobody \notin Rank
  BY ProgramIs, RankType DEF Types
<1>3. current[p] = NoCall /\ waiting[p] = "none"
  BY <1>1 DEF Calls, Free, FreeAt
<1>4. FreeAt(p)'
  BY <1>1, <1>3 DEF FreeAt, NoCall
<1>5. Free'
  <2>1. OnlyCallOf(p) /\ Free
    BY <1>1 DEF OnlyCallOf, Calls
  <2>2. \A q \in Rank \ {p} : /\ waiting'[q] = waiting[q] /\ phase'[q] = phase[q]
                              /\ running' = q => running = q
    BY <1>1, <1>2
  <2> QED BY <1>1, <1>4, <2>1, <2>2, FreeStep
<1>6. Links' /\ Meet' /\ Gathers' /\ Leaves
  <2>1. Quiet
    BY <1>1, QuietSame
  <2>2. /\ OnlyCallOf(p) /\ (InBarrier(p)' <=> InBarrier(p)) /\ (InGather(p)' <=> InGather(p))
        /\ current'[p] = current[p]
    BY <1>1 DEF OnlyCallOf, InBarrier, InGather
  <2> QED BY <1>1, <1>2, <2>1, <2>2, QuietStep DEF Calls
<1> QED BY <1>5, <1>6 DEF Keeps, Calls

LEMMA PauseCalls ==
  ASSUME Types, ~IsHPC, Calls, NEW p \in Rank, Computed(p) \/ EndProgram(p)
  PROVE  Keeps
<1>1. /\ UNCHANGED <<job, net, current, barriers, round>>
      /\ running' \in {p, Nobody}
      /\ running = p \/ waiting[p] # "none"
      /\ waiting'[p] = "none"
      /\ \A q \in Rank \ {p} : phase'[q] = phase[q] /\ waiting'[q] = waiting[q]
      /\ running' = p => phase'[p] = phase[p]
  <2>1. running = p => waiting[p] = "none"
    BY DEF Calls, Free, FreeAt
  <2>2. Nobody \notin Rank
    BY RankType DEF Types
  <2> QED BY <2>1, <2>2 DEF Computed, EndProgram, Types
<1>2. MasterRank \in Rank /\ Nobody \notin Rank
  BY ProgramIs, RankType DEF Types
<1>3. current[p] = NoCall /\ phase[p] = "running"
  BY <1>1 DEF Calls, Free, FreeAt
<1>4. FreeAt(p)'
  BY <1>1, <1>3 DEF FreeAt, NoCall
<1>5. Free'
  <2>1. OnlyCallOf(p) /\ Free
    BY <1>1 DEF OnlyCallOf, Calls
  <2>2. \A q \in Rank \ {p} : /\ waiting'[q] = waiting[q] /\ phase'[q] = phase[q]
                              /\ running' = q => running = q
    BY <1>1, <1>2
  <2> QED BY <1>1, <1>4, <2>1, <2>2, FreeStep
<1>6. Links' /\ Meet' /\ Gathers' /\ Leaves
  <2>1. Quiet
    BY <1>1, QuietSame
  <2>2. /\ OnlyCallOf(p) /\ (InBarrier(p)' <=> InBarrier(p)) /\ (InGather(p)' <=> InGather(p))
        /\ current'[p] = current[p]
    BY <1>1 DEF OnlyCallOf, InBarrier, InGather
  <2> QED BY <1>1, <1>2, <2>1, <2>2, QuietStep DEF Calls
<1> QED BY <1>5, <1>6 DEF Keeps, Calls

\* A process that makes a call of its program, or hears of the call it is in.
LEMMA FreeCalls ==
  ASSUME Types, Free, UNCHANGED <<job, phase>>, NEW p \in Rank, OnlyCallOf(p),
         phase[p] = "running", waiting[p] = "none",
         \A q \in Rank \ {p} : waiting'[q] = waiting[q],
         running' \in {p, Nobody}, running' = p => current'[p] = NoCall,
         waiting'[p] # "none" => current'[p] = NoCall /\ running' = Nobody
  PROVE  Free'
<1>1. Nobody \notin Rank
  BY RankType DEF Types
<1>2. phase'[p] = "running" /\ (running' = p => waiting'[p] = "none")
  BY <1>1
<1>3. FreeAt(p)'
  BY <1>2 DEF FreeAt, NoCall
<1>4. \A q \in Rank \ {p} : /\ waiting'[q] = waiting[q] /\ phase'[q] = phase[q]
                            /\ running' = q => running = q
  BY <1>1
<1> QED BY <1>3, <1>4, FreeStep

\* What the next call of p is, for the others too.
LEMMA NextCallIs ==
  ASSUME Aligned(Jobs), Types, ~IsHPC, NEW p \in Rank, RunProgram(p)
  PROVE  /\ Call(p) \in ProgramCall /\ round[p] + 1 \in Nat
         /\ Call(p).op = "barrier" <=> BarrierAt(round[p] + 1)
         /\ \A r \in Rank : GatherAt(round[p] + 1, r) <=> Call(p).op = "gather" /\ Call(p).root = r
<1>1. round[p] < Len(job.program[p]) /\ round[p] \in Nat
  BY DEF RunProgram, Types
<1>2. /\ DOMAIN job.program[p] = 1 .. Len(job.program[p]) /\ Len(job.program[p]) \in Nat
      /\ \A k \in 1 .. Len(job.program[p]) : job.program[p][k] \in ProgramCall
  BY ProgramIs
<1>3. round[p] + 1 \in DOMAIN job.program[p] /\ round[p] + 1 \in 1 .. Len(job.program[p])
  BY <1>1, <1>2
<1> QED BY <1>1, <1>2, <1>3, CallsAlign DEF Call

\* A send is seen on the connections.
LEMMA SendHas ==
  ASSUME Types, NEW p \in Rank, NEW Q, NEW msg \in Messages,
         NEW n \in [Rank -> [Rank -> Seq(Messages)]], SendDataToNetwork(p, Q, msg, n)
  PROVE  Added(net', n, p, Q, msg)
<1>1. Sent(net', n, p, Q, msg)
  BY SendDoes
<1> QED BY <1>1, SentHas

LEMMA SendIsQuiet ==
  ASSUME Types, NEW p \in Rank, NEW Q, NEW msg \in Messages, msg.op \notin LinkOps,
         SendDataToNetwork(p, Q, msg, net)
  PROVE  Quiet
<1>1. net \in [Rank -> [Rank -> Seq(Messages)]]
  BY DEF Types
<1>2. Sent(net', net, p, Q, msg)
  BY <1>1, SendDoes
<1> QED BY <1>2, QuietSent

LEMMA MessageTyped ==
  ASSUME NEW p \in Rank, NEW op \in Ops, NEW size \in Nat, round' \in [Rank -> Nat]
  PROVE  /\ Message(p, op, size) \in Messages /\ Message(p, op, size).op = op
         /\ Message(p, op, size).round = round'[p]
BY DEF Message, Messages

\* p is ready for its next call.
Ready(p) ==
  /\ Types /\ ~IsHPC /\ Aligned(Jobs) /\ Calls /\ MasterRank \in Rank /\ Nobody \notin Rank
  /\ current[p] = NoCall /\ waiting[p] = "none" /\ phase[p] = "running"

LEMMA ReadyIs ==
  ASSUME Types, ~IsHPC, Aligned(Jobs), Calls, NEW p \in Rank, RunProgram(p)
  PROVE  /\ Ready(p) /\ Advances(p) /\ UNCHANGED <<job, phase>>
         /\ round' \in [Rank -> Nat] /\ round'[p] = round[p] + 1
<1>1. /\ running = p /\ round' = [round EXCEPT ![p] = @ + 1] /\ UNCHANGED <<job, phase>>
      /\ round \in [Rank -> Nat]
  BY DEF RunProgram, Types
<1>2. MasterRank \in Rank /\ Nobody \notin Rank
  BY ProgramIs, RankType DEF Types
<1>3. current[p] = NoCall /\ waiting[p] = "none" /\ phase[p] = "running"
  BY <1>1 DEF Calls, Free, FreeAt
<1> QED BY <1>1, <1>2, <1>3 DEF Ready, Advances

LEMMA QuietCalls ==
  ASSUME NEW p \in Rank, Ready(p), Advances(p), UNCHANGED <<job, phase, barriers>>, Quiet,
         OnlyCallOf(p), ~InBarrier(p)', ~InGather(p)',
         ~BarrierAt(round[p] + 1), \A r \in Rank : ~GatherAt(round[p] + 1, r),
         \A q \in Rank \ {p} : waiting'[q] = waiting[q],
         running' \in {p, Nobody}, running' = p => current'[p] = NoCall,
         waiting'[p] # "none" => current'[p] = NoCall /\ running' = Nobody
  PROVE  Keeps
<1>1. Types /\ Calls /\ MasterRank \in Rank /\ current[p] = NoCall /\ phase[p] = "running" /\ waiting[p] = "none"
  BY DEF Ready
<1>2. Free'
  BY <1>1, FreeCalls DEF Calls
<1>3. Links' /\ Meet' /\ Gathers' /\ Leaves
  BY <1>1, QuietCall DEF Calls
<1> QED BY <1>2, <1>3 DEF Keeps, Calls

\* Sends, receives, messages from a root and computations.
LEMMA OtherCalls ==
  ASSUME Types, ~IsHPC, Aligned(Jobs), Calls, NEW p \in Rank, RunProgram(p),
         Call(p).op \notin {"barrier", "gather"}
  PROVE  Keeps
<1>1. /\ Ready(p) /\ Advances(p) /\ UNCHANGED <<job, phase>>
      /\ round' \in [Rank -> Nat] /\ round'[p] = round[p] + 1
  BY ReadyIs
<1>2. /\ Call(p) \in ProgramCall /\ ~BarrierAt(round[p] + 1)
      /\ \A r \in Rank : ~GatherAt(round[p] + 1, r)
  BY NextCallIs
<1>3. running = p /\ calls[p] \in Seq(Messages) /\ waiting[p] = "none"
  BY <1>1 DEF RunProgram, Types, Ready
<1> DEFINE c == Call(p)
<1>4. UNCHANGED barriers
  BY DEF RunProgram
<1>5. \/ /\ c.op = "send" /\ MpiSend(p, c.to, c.size) /\ UNCHANGED <<waiting, running>>
      \/ /\ c.op = "recv" /\ MpiRecv(p, c.from, c.size) /\ UNCHANGED <<net, waiting>>
      \/ /\ c.op \in {"bcast", "scatter"} /\ MpiFromRoot(p, c.op, c.root, c.size) /\ UNCHANGED waiting
      \/ /\ c.op = "cpu" /\ waiting' = [waiting EXCEPT ![p] = "cpu"] /\ running' = Nobody
         /\ UNCHANGED <<net, current>>
  BY DEF RunProgram
<1> HIDE DEF c
\* A message to other processes.
<1>6. ASSUME NEW Q, NEW op \in {"send", "bcast", "scatter"}, NEW size \in Nat,
             SendDataToNetwork(p, Q, Message(p, op, size), net), Clear(p), running' = p, UNCHANGED waiting
      PROVE  Keeps
  <2>1. PICK msg \in Messages : msg = Message(p, op, size) /\ msg.op = op
    <3>1. op \in Ops
      BY DEF Ops
    <3> QED BY <1>1, <3>1, MessageTyped
  <2>2. Quiet
    <3>1. msg.op \notin LinkOps
      BY <2>1 DEF LinkOps
    <3>2. SendDataToNetwork(p, Q, msg, net)
      BY <1>6, <2>1
    <3> QED BY <3>1, <3>2, SendIsQuiet
  <2>3. OnlyCallOf(p) /\ current'[p] = NoCall
    BY <1>6, CallAt DEF Clear
  <2>4. ~InBarrier(p)' /\ ~InGather(p)'
    BY <2>3 DEF InBarrier, InGather, NoCall
  <2> QED BY <1>1, <1>2, <1>3, <1>4, <1>6, <2>2, <2>3, <2>4, QuietCalls
\* A receiving call.
<1>7. ASSUME NEW r, r.call \in {"recv", "bcast", "scatter"}, Synchronize(p, r, calls[p]),
             UNCHANGED <<net, waiting>>
      PROVE  Keeps
  <2>1. \/ current' = [current EXCEPT ![p] = r] /\ running' = Nobody
        \/ current' = [current EXCEPT ![p] = NoCall] /\ running' = p
    BY <1>3, <1>7, SyncCalls
  <2>2. /\ OnlyCallOf(p) /\ current'[p] \in {r, NoCall} /\ running' \in {p, Nobody}
        /\ running' = p => current'[p] = NoCall
    <3>1. p # Nobody
      BY <1>1 DEF Ready
    <3> QED BY <2>1, <3>1, CallAt
  <2>3. ~InBarrier(p)' /\ ~InGather(p)'
    BY <1>7, <2>2 DEF InBarrier, InGather, NoCall
  <2>4. Quiet
    BY <1>7, QuietSame
  <2> QED BY <1>1, <1>2, <1>3, <1>4, <1>7, <2>2, <2>3, <2>4, QuietCalls
<1>8. CASE c.op = "send" /\ MpiSend(p, c.to, c.size) /\ UNCHANGED <<waiting, running>>
  <2>1. c.size \in Nat
    BY <1>2, <1>8 DEF ProgramCall, c
  <2> QED BY <1>3, <1>6, <1>8, <2>1 DEF MpiSend
<1>9. CASE c.op = "recv" /\ MpiRecv(p, c.from, c.size) /\ UNCHANGED <<net, waiting>>
  BY <1>7, <1>9 DEF MpiRecv
<1>10. CASE c.op \in {"bcast", "scatter"} /\ MpiFromRoot(p, c.op, c.root, c.size) /\ UNCHANGED waiting
  <2>1. c.size \in Nat
    BY <1>2, <1>10 DEF ProgramCall, c
  <2>2. CASE p = c.root
    BY <1>6, <1>10, <2>1, <2>2 DEF MpiFromRoot
  <2>3. CASE p # c.root
    BY <1>7, <1>10, <2>3 DEF MpiFromRoot
  <2> QED BY <2>2, <2>3
<1>11. CASE /\ c.op = "cpu" /\ waiting' = [waiting EXCEPT ![p] = "cpu"] /\ running' = Nobody
            /\ UNCHANGED <<net, current>>
  <2>1. Quiet
    BY <1>11, QuietSame
  <2>2. current[p] = NoCall /\ waiting \in [Rank -> Waits]
    BY <1>1 DEF Ready, Types
  <2>3. OnlyCallOf(p) /\ current'[p] = NoCall /\ ~InBarrier(p)' /\ ~InGather(p)'
    BY <1>11, <2>2 DEF OnlyCallOf, InBarrier, InGather, NoCall
  <2>4. \A q \in Rank \ {p} : waiting'[q] = waiting[q]
    BY <1>11, <2>2
  <2> QED BY <1>1, <1>2, <1>4, <1>11, <2>1, <2>3, <2>4, QuietCalls
<1> QED BY <1>5, <1>8, <1>9, <1>10, <1>11

LEMMA GatherCalls ==
  ASSUME Types, ~IsHPC, Aligned(Jobs), Calls, NEW p \in Rank, RunProgram(p), Call(p).op = "gather"
  PROVE  Keeps
<1>1. /\ Ready(p) /\ Advances(p) /\ UNCHANGED <<job, phase>>
      /\ round' \in [Rank -> Nat] /\ round'[p] = round[p] + 1
  BY ReadyIs
<1>2. PICK root \in Int, size \in Nat : root = Call(p).root /\ size = Call(p).size
  <2>1. Call(p) \in ProgramCall
    BY NextCallIs
  <2> QED BY <2>1 DEF ProgramCall
<1>3. ~BarrierAt(round[p] + 1) /\ \A r \in Rank : GatherAt(round[p] + 1, r) <=> r = root
  BY <1>2, NextCallIs
<1>4. MpiGather(p, root, size) /\ UNCHANGED <<barriers, waiting>>
  BY <1>2 DEF RunProgram
<1>5. /\ Links /\ Meet /\ Gathers /\ Free /\ MasterRank \in Rank /\ current[p] = NoCall
      /\ waiting[p] = "none" /\ phase[p] = "running" /\ p # Nobody
  BY <1>1 DEF Ready, Calls
<1>6. CASE p = root
  <2>1. /\ current' = [current EXCEPT ![p] = [call |-> "gather", pendingACKs |-> job.numProcesses - 1]]
        /\ running' = Nobody /\ UNCHANGED net
    BY <1>4, <1>6 DEF MpiGather
  <2>2. OnlyCallOf(p) /\ current'[p] = [call |-> "gather", pendingACKs |-> job.numProcesses - 1]
    BY <2>1, CallAt
  <2>3. Links' /\ Meet' /\ Gathers' /\ Leaves
    BY <1>1, <1>3, <1>4, <1>5, <1>6, <2>1, <2>2, GatherEnterStep
  <2>4. Free'
    BY <1>1, <1>4, <1>5, <2>1, <2>2, FreeCalls
  <2> QED BY <2>3, <2>4 DEF Keeps, Calls
<1>7. ASSUME p # root
      PROVE  /\ SendDataToNetwork(p, {root}, Message(p, "gather", size), net)
             /\ OnlyCallOf(p) /\ current'[p] = NoCall /\ running' = p
  <2>1. /\ SendDataToNetwork(p, {root}, Message(p, "gather", size), net)
        /\ current' = [current EXCEPT ![p] = NoCall] /\ running' = p
    BY <1>4, <1>7 DEF MpiGather, Clear
  <2> QED BY <2>1, CallAt
<1>8. CASE p # root /\ root \in Rank
  <2>1. PICK msg \in Messages : msg = Message(p, "gather", size) /\ msg.op = "gather" /\ msg.round = round[p] + 1
    <3>1. "gather" \in Ops
      BY DEF Ops
    <3> QED BY <1>1, <3>1, MessageTyped
  <2>2. Added(net', net, p, {root}, msg)
    <3>1. SendDataToNetwork(p, {root}, msg, net) /\ net \in [Rank -> [Rank -> Seq(Messages)]]
      BY <1>7, <1>8, <2>1 DEF Types
    <3> QED BY <3>1, SendHas
  <2>3. Links' /\ Meet' /\ Gathers' /\ Leaves
    BY <1>1, <1>3, <1>4, <1>5, <1>7, <1>8, <2>1, <2>2, GatherSendStep
  <2>4. Free'
    BY <1>1, <1>4, <1>5, <1>7, <1>8, FreeCalls
  <2> QED BY <2>3, <2>4 DEF Keeps, Calls
<1>9. CASE root \notin Rank
  <2>1. error' # "none"
    <3>1. root \notin open[p] /\ p # root
      BY <1>9 DEF Types
    <3>2. error' = "no connection"
      BY <1>7, <3>1 DEF SendDataToNetwork
    <3> QED BY <3>2
  <2>2. Leaves
    <3>1. ~InBarrier(p) /\ ~InGather(p)
      BY <1>5 DEF InBarrier, InGather, NoCall
    <3> QED BY <1>7, <1>9, <3>1, NobodyLeaves
  <2> QED BY <2>1, <2>2 DEF Keeps
<1> QED BY <1>6, <1>8, <1>9

LEMMA BarrierCalls ==
  ASSUME Types, ~IsHPC, Aligned(Jobs), Calls, NEW p \in Rank, RunProgram(p), Call(p).op = "barrier"
  PROVE  Keeps
<1>1. /\ Ready(p) /\ Advances(p) /\ UNCHANGED <<job, phase>>
      /\ round' \in [Rank -> Nat] /\ round'[p] = round[p] + 1
  BY ReadyIs
<1>2. BarrierAt(round[p] + 1) /\ \A r \in Rank : ~GatherAt(round[p] + 1, r)
  BY NextCallIs
<1>3. MpiBarrier(p) /\ UNCHANGED waiting
  BY DEF RunProgram
<1>4. /\ Links /\ Meet /\ Gathers /\ Free /\ MasterRank \in Rank /\ current[p] = NoCall
      /\ waiting[p] = "none" /\ phase[p] = "running" /\ p # Nobody
      /\ net \in [Rank -> [Rank -> Seq(Messages)]]
  BY <1>1 DEF Ready, Calls, Types
<1>5. PICK c : c = [call |-> "barrier"]
  OBVIOUS
<1>6. CASE p # MasterRank
  <2>1. /\ SendDataToNetwork(p, {MasterRank}, Message(p, "barrierDown", 0), net)
        /\ current' = [current EXCEPT ![p] = c] /\ running' = Nobody /\ UNCHANGED barriers
    BY <1>3, <1>5, <1>6 DEF MpiBarrier
  <2>2. OnlyCallOf(p) /\ current'[p] = c
    BY <2>1, CallAt
  <2>3. InBarrier(p)'
    BY <1>5, <2>2 DEF InBarrier
  <2>4. PICK msg \in Messages : msg = Message(p, "barrierDown", 0) /\ msg.op = "barrierDown"
    <3>1. "barrierDown" \in Ops /\ 0 \in Nat
      BY DEF Ops
    <3> QED BY <1>1, <3>1, MessageTyped
  <2>5. Added(net', net, p, {MasterRank}, msg)
    <3>1. SendDataToNetwork(p, {MasterRank}, msg, net)
      BY <2>1, <2>4
    <3> QED BY <1>4, <3>1, SendHas
  <2>6. Links' /\ Meet' /\ Gathers' /\ Leaves
    BY <1>1, <1>2, <1>4, <1>6, <2>1, <2>2, <2>3, <2>4, <2>5, DownStep
  <2>7. Free'
    BY <1>1, <1>3, <1>4, <2>1, <2>2, FreeCalls
  <2> QED BY <2>6, <2>7 DEF Keeps, Calls
<1>7. CASE p = MasterRank
  <2>1. CheckBarriers(p, c, barriers \cup {p}, net)
    BY <1>3, <1>5, <1>7 DEF MpiBarrier
  <2>2. CASE barriers \cup {p} # Rank
    <3>1. /\ barriers' = barriers \cup {p} /\ current' = [current EXCEPT ![p] = c]
          /\ running' = Nobody /\ UNCHANGED net
      BY <2>1, <2>2 DEF CheckBarriers
    <3>2. OnlyCallOf(p) /\ current'[p] = c
      BY <3>1, CallAt
    <3>3. InBarrier(p)'
      BY <1>5, <3>2 DEF InBarrier
    <3>4. Links' /\ Meet' /\ Gathers' /\ Leaves
      BY <1>1, <1>2, <1>4, <1>7, <3>1, <3>2, <3>3, MasterStep
    <3>5. Free'
      BY <1>1, <1>3, <1>4, <3>1, <3>2, FreeCalls
    <3> QED BY <3>4, <3>5 DEF Keeps, Calls
  <2>3. CASE barriers \cup {p} = Rank
    <3>1. /\ barriers' = {}
          /\ SendDataToNetwork(p, Rank \ {MasterRank}, Message(p, "barrierUp", 0), net)
          /\ current' = [current EXCEPT ![p] = NoCall] /\ running' = p
      BY <2>1, <2>3 DEF CheckBarriers, Clear
    <3>2. OnlyCallOf(p) /\ current'[p] = NoCall
      BY <3>1, CallAt
    <3>3. PICK msg \in Messages : msg = Message(p, "barrierUp", 0) /\ msg.op = "barrierUp"
      <4>1. "barrierUp" \in Ops /\ 0 \in Nat
        BY DEF Ops
      <4> QED BY <1>1, <4>1, MessageTyped
    <3>4. Added(net', net, p, Rank \ {MasterRank}, msg)
      <4>1. SendDataToNetwork(p, Rank \ {MasterRank}, msg, net)
        BY <3>1, <3>3
      <4> QED BY <1>4, <4>1, SendHas
    <3>5. Links' /\ Meet' /\ Gathers' /\ Leaves
      BY <1>1, <1>2, <1>4, <1>7, <2>3, <3>1, <3>2, <3>3, <3>4, LastIsMaster
    <3>6. Free'
      BY <1>1, <1>3, <1>4, <3>1, <3>2, FreeCalls
    <3> QED BY <3>5, <3>6 DEF Keeps, Calls
  <2> QED BY <2>2, <2>3
<1> QED BY <1>6, <1>7

\* A message arrives: who goes on was in a call.
LEMMA HeardFree ==
  ASSUME Types, Free, UNCHANGED <<job, phase, waiting>>, NEW p \in Rank, OnlyCallOf(p),
         running' \in {p, Nobody},
         running' = p => current[p] # NoCall /\ current'[p] = NoCall,
         current[p] = NoCall => current'[p] = NoCall
  PROVE  Free'
<1>1. Nobody \notin Rank
  BY RankType DEF Types
<1>2. FreeAt(p)
  BY DEF Free
<1>3. /\ running' = p => current'[p] = NoCall /\ waiting'[p] = "none" /\ phase'[p] = "running"
      /\ waiting'[p] # "none" => current'[p] = NoCall /\ phase'[p] = "running"
      /\ phase'[p] # "running" => current'[p] = NoCall
  BY <1>2 DEF FreeAt
<1>4. FreeAt(p)'
  BY <1>3 DEF FreeAt, NoCall
<1>5. \A q \in Rank \ {p} : /\ waiting'[q] = waiting[q] /\ phase'[q] = phase[q]
                            /\ running' = q => running = q
  BY <1>1
<1> QED BY <1>4, <1>5, FreeStep

LEMMA ArrivesCalls ==
  ASSUME Types, Sources, ~IsHPC, Aligned(Jobs), Calls, NEW p \in Rank, NEW q \in Rank,
         ProcessMPICallRequest(p, q)
  PROVE  Keeps
<1> DEFINE m == Head(net[q][p])
           n == [net EXCEPT ![q][p] = Tail(@)]
<1>1. running = Nobody /\ net[q][p] # <<>> /\ UNCHANGED <<job, phase, waiting, round>>
  BY DEF ProcessMPICallRequest
<1>2. /\ m \in Messages /\ m.src = q /\ n \in [Rank -> [Rank -> Seq(Messages)]]
      /\ \A a, b \in Rank : n[a][b] = IF a = q /\ b = p THEN Tail(net[q][p]) ELSE net[a][b]
  BY <1>1, TakeDoes
<1>3. /\ Links /\ Meet /\ Gathers /\ Free /\ MasterRank \in Rank /\ p # Nobody
      /\ current \in [Rank -> MpiCalls]
  BY ProgramIs, RankType DEF Calls, Types
<1>4. \/ /\ m.op \in {"send", "scatter", "bcast"}
         /\ Synchronize(p, current[p], Append(calls[p], m))
         /\ net' = n /\ UNCHANGED barriers
      \/ /\ m.op = "barrierDown"
         /\ CheckBarriers(p, current[p], barriers \cup {m.src}, n)
      \/ /\ m.op = "barrierUp"
         /\ Clear(p) /\ running' = p
         /\ net' = n /\ UNCHANGED barriers
      \/ /\ m.op = "gather"
         /\ MpiGatherArrives(p)
         /\ net' = n /\ UNCHANGED barriers
  BY DEF ProcessMPICallRequest
<1> HIDE DEF n
<1>5. Taken(n, q, p)
  BY <1>1, <1>2, TakenHas
<1> HIDE DEF m
<1>6. CASE /\ m.op \in {"send", "scatter", "bcast"}
           /\ Synchronize(p, current[p], Append(calls[p], m))
           /\ net' = n /\ UNCHANGED barriers
  <2>1. PICK c : c = current[p]
    OBVIOUS
  <2>2. Append(calls[p], m) \in Seq(Messages)
    <3>1. PICK s \in Seq(Messages) : s = calls[p]
      BY DEF Types
    <3>2. Append(s, m) \in Seq(Messages)
      BY <1>2, AppendProperties
    <3> QED BY <3>1, <3>2
  <2>3. \/ current' = [current EXCEPT ![p] = c] /\ running' = Nobody
        \/ /\ current' = [current EXCEPT ![p] = NoCall] /\ running' = p
           /\ c.call \in {"recv", "bcast", "scatter"}
    BY <1>6, <2>1, <2>2, SyncCalls
  <2>4. /\ OnlyCallOf(p) /\ running' \in {p, Nobody}
        /\ running' = p => c.call \in {"recv", "bcast", "scatter"} /\ current'[p] = NoCall
        /\ current'[p] = c \/ (c.call \in {"recv", "bcast", "scatter"} /\ current'[p] = NoCall)
    BY <1>3, <2>3, CallAt
  <2>5. /\ InBarrier(p)' <=> InBarrier(p)
        /\ InGather(p)' <=> InGather(p)
        /\ InGather(p) => current'[p] = current[p]
    BY <2>1, <2>4 DEF InBarrier, InGather, NoCall
  <2>6. Quiet
    <3>1. Head(net[q][p]).op \notin LinkOps
      BY <1>6 DEF m, LinkOps
    <3> QED BY <1>5, <1>6, <3>1, QuietTaken
  <2>7. Links' /\ Meet' /\ Gathers' /\ Leaves
    BY <1>1, <1>3, <1>6, <2>4, <2>5, <2>6, QuietStep
  <2>8. Free'
    <3>1. c.call \in {"recv", "bcast", "scatter"} => c # NoCall
      BY DEF NoCall
    <3>2. /\ running' = p => current[p] # NoCall /\ current'[p] = NoCall
          /\ current[p] = NoCall => current'[p] = NoCall
      BY <2>1, <2>4, <3>1
    <3> QED BY <1>1, <1>3, <2>4, <3>2, HeardFree
  <2> QED BY <2>7, <2>8 DEF Keeps, Calls
<1>7. CASE m.op = "barrierDown" /\ CheckBarriers(p, current[p], barriers \cup {m.src}, n)
  <2>1. Head(net[q][p]).op = "barrierDown"
    BY <1>7 DEF m
  <2>2. p = MasterRank
    <3>1. Has(net[q][p], "barrierDown")
      <4>1. \E i \in 1 .. Len(net[q][p]) : net[q][p][i].op = "barrierDown"
        <5>1. PICK s \in Seq(Messages) : s = net[q][p] /\ s # <<>>
          BY <1>1 DEF Types
        <5>2. Head(s) = s[1] /\ 1 \in 1 .. Len(s)
          BY <5>1, HeadTailProperties
        <5> QED BY <2>1, <5>1, <5>2
      <4> QED BY <4>1 DEF Has
    <3> QED BY <1>3, <3>1 DEF Links
  <2>3. CASE barriers \cup {q} # Rank
    <3>1. /\ barriers' = barriers \cup {q} /\ current' = [current EXCEPT ![p] = current[p]]
          /\ running' = Nobody /\ net' = n
      BY <1>2, <1>7, <2>3 DEF CheckBarriers
    <3>2. current' = current
      BY <1>3, <3>1
    <3>3. Taken(net', q, MasterRank)
      BY <1>5, <2>2, <3>1
    <3>4. Links' /\ Meet' /\ Gathers' /\ Leaves
      BY <1>1, <1>3, <2>1, <2>2, <3>1, <3>2, <3>3, CountStep
    <3>5. Free'
      <4>1. OnlyCallOf(p) /\ current'[p] = current[p]
        BY <3>2 DEF OnlyCallOf
      <4> QED BY <1>1, <1>3, <3>1, <4>1, HeardFree
    <3> QED BY <3>4, <3>5 DEF Keeps, Calls
  <2>4. CASE barriers \cup {q} = Rank
    <3>1. /\ barriers' = {}
          /\ SendDataToNetwork(p, Rank \ {MasterRank}, Message(p, "barrierUp", 0), n)
          /\ current' = [current EXCEPT ![p] = NoCall] /\ running' = p
      BY <1>2, <1>7, <2>4 DEF CheckBarriers, Clear
    <3>2. OnlyCallOf(p) /\ current'[p] = NoCall
      BY <3>1, CallAt
    <3>3. PICK msg \in Messages : msg = Message(p, "barrierUp", 0) /\ msg.op = "barrierUp"
      <4>1. "barrierUp" \in Ops /\ 0 \in Nat /\ round' \in [Rank -> Nat]
        BY <1>1 DEF Ops, Types
      <4> QED BY <4>1, MessageTyped
    <3>4. Added(net', n, p, Rank \ {MasterRank}, msg)
      <4>1. SendDataToNetwork(p, Rank \ {MasterRank}, msg, n)
        BY <3>1, <3>3
      <4> QED BY <1>2, <4>1, SendHas
    <3>5. InBarrier(MasterRank) /\ Links' /\ Meet' /\ Gathers' /\ Leaves
      BY <1>1, <1>3, <1>5, <2>1, <2>2, <2>4, <3>1, <3>2, <3>3, <3>4, LastIsOther
    <3>6. Free'
      <4>1. current[p] # NoCall
        BY <2>2, <3>5 DEF InBarrier, NoCall
      <4> QED BY <1>1, <1>3, <3>1, <3>2, <4>1, HeardFree
    <3> QED BY <3>5, <3>6 DEF Keeps, Calls
  <2> QED BY <2>3, <2>4
<1>8. CASE /\ m.op = "barrierUp" /\ Clear(p) /\ running' = p
           /\ net' = n /\ UNCHANGED barriers
  <2>1. Head(net[q][p]).op = "barrierUp"
    BY <1>8 DEF m
  <2>2. OnlyCallOf(p) /\ current'[p] = NoCall
    BY <1>8, CallAt DEF Clear
  <2>3. Taken(net', q, p)
    BY <1>5, <1>8
  <2>4. InBarrier(p) /\ Links' /\ Meet' /\ Gathers' /\ Leaves
    BY <1>1, <1>3, <1>8, <2>1, <2>2, <2>3, UpStep
  <2>5. current[p] # NoCall
    BY <2>4 DEF InBarrier, NoCall
  <2>6. Free'
    BY <1>1, <1>3, <1>8, <2>2, <2>5, HeardFree
  <2> QED BY <2>4, <2>6 DEF Keeps, Calls
<1>9. CASE m.op = "gather" /\ MpiGatherArrives(p) /\ net' = n /\ UNCHANGED barriers
  <2>1. Head(net[q][p]).op = "gather"
    BY <1>9 DEF m
  <2>2. CASE current[p].call # "gather"
    <3>1. error' = "unexpected gather" /\ UNCHANGED current
      BY <1>9, <2>2 DEF MpiGatherArrives
    <3>2. Leaves
      BY <3>1 DEF Leaves
    <3> QED BY <3>1, <3>2 DEF Keeps
  <2>3. CASE current[p].call = "gather"
    <3>1. PICK left : left = current[p].pendingACKs - 1
      OBVIOUS
    <3>2. current[p] \in [call : {"gather"}, pendingACKs : Int]
      BY <1>3, <2>3 DEF MpiCalls
    <3>3. /\ left = 0 => current' = [current EXCEPT ![p] = NoCall] /\ running' = p
          /\ left # 0 => current' = [current EXCEPT ![p].pendingACKs = left] /\ running' = running
      BY <1>9, <2>3, <3>1 DEF MpiGatherArrives, Clear
    <3>4. /\ current'[p] = IF left = 0 THEN NoCall ELSE [current[p] EXCEPT !.pendingACKs = left]
          /\ OnlyCallOf(p)
      BY <1>3, <3>3 DEF OnlyCallOf
    <3>5. InGather(p) /\ current[p] # NoCall
      BY <2>3 DEF InGather, NoCall
    <3>6. Taken(net', q, p)
      BY <1>5, <1>9
    <3>7. Links' /\ Meet' /\ Gathers' /\ Leaves
      BY <1>1, <1>3, <1>9, <2>1, <3>1, <3>2, <3>4, <3>5, <3>6, GatherTakeStep
    <3>8. Free'
      BY <1>1, <1>3, <3>3, <3>4, <3>5, HeardFree
    <3> QED BY <3>7, <3>8 DEF Keeps, Calls
  <2> QED BY <2>2, <2>3
<1> QED BY <1>4, <1>6, <1>7, <1>8, <1>9

LEMMA NextCalls ==
  ASSUME Aligned(Jobs), IInv, error = "none", ~IsHPC, Calls, Next
  PROVE  Keeps
<1>1. Types /\ Sources
  BY DEF IInv
<1>2. PICK p \in Rank : Start(p) \/ Arrives(p) \/ Program(p)
  BY DEF Next, Hpc
<1>3. CASE Arrives(p)
  <2>1. PICK q \in Rank : ProcessMPICallRequest(p, q)
    BY <1>3 DEF Arrives
  <2> QED BY <1>1, <2>1, ArrivesCalls
<1>4. CASE RunProgram(p)
  BY <1>1, <1>4, OtherCalls, GatherCalls, BarrierCalls
<1> QED BY <1>1, <1>2, <1>3, <1>4, StartCalls, PauseCalls DEF Program

LEMMA MasterIn == Types => MasterRank \in Rank
BY RankType DEF Types, Rank, MasterRank

LEMMA SameCalls ==
  ASSUME Types, ~IsHPC, Calls, UNCHANGED vars
  PROVE  Calls'
<1>1. UNCHANGED <<job, phase, net, current, barriers, running, waiting, round>>
  BY DEF vars, mpiVars
<1>2. MasterRank \in Rank /\ Rank' = Rank
  BY <1>1, MasterIn DEF Rank
<1>3. Free'
  <2>1. ASSUME NEW p \in Rank PROVE FreeAt(p)'
    <3>1. FreeAt(p)
      BY DEF Calls, Free
    <3> QED BY <1>1, <3>1 DEF FreeAt, NoCall
  <2> QED BY <1>2, <2>1 DEF Free
<1>4. Quiet
  BY <1>1, QuietSame
<1>5. PICK p \in Rank : TRUE
  BY <1>2
<1>6. /\ OnlyCallOf(p) /\ (InBarrier(p)' <=> InBarrier(p)) /\ (InGather(p)' <=> InGather(p))
      /\ current'[p] = current[p]
  BY <1>1 DEF OnlyCallOf, InBarrier, InGather
<1>7. Links' /\ Meet' /\ Gathers'
  BY <1>1, <1>2, <1>4, <1>6, QuietStep DEF Calls
<1> QED BY <1>3, <1>7 DEF Calls

LEMMA InitCalls == Init /\ ~IsHPC => Calls
<1> SUFFICES ASSUME Init, ~IsHPC PROVE Calls
  OBVIOUS
<1>1. Nobody \notin Rank /\ MasterRank \in Rank /\ running = Nobody /\ barriers = {}
  <2>1. Types
    BY InitTyped DEF Typed
  <2>2. job \in Jobs /\ running = Nobody /\ barriers = {}
    BY DEF Init
  <2> QED BY <2>1, <2>2, MasterIn, RankType
<1>2. ASSUME NEW p \in Rank PROVE current[p] = NoCall /\ waiting[p] = "none" /\ round[p] = 0
  BY <1>2 DEF Init
<1>3. ASSUME NEW a \in Rank, NEW b \in Rank
      PROVE  /\ \A op : ~Has(net[a][b], op) /\ One(net[a][b], op)
             /\ \A k : ~Gathered(net[a][b], k)
  <2>1. net[a][b] = <<>>
    BY DEF Init
  <2>2. Len(<<>>) = 0
    OBVIOUS
  <2>3. 1 .. Len(net[a][b]) = {}
    BY <2>1, <2>2
  <2> QED BY <2>3 DEF Has, One, Gathered
<1>4. ASSUME NEW p \in Rank PROVE ~InBarrier(p) /\ ~InGather(p)
  BY <1>2, <1>4 DEF InBarrier, InGather, NoCall
<1>5. Free
  BY <1>1, <1>2 DEF Free, FreeAt
<1>6. Links
  BY <1>3 DEF Links
<1>7. Meet
  <2>1. \A q \in Rank : Told(q)
    BY <1>1, <1>3, <1>4 DEF Told, Down, Up
  <2>2. Together
    BY <1>2, <1>4 DEF Together, Passed, Held
  <2> QED BY <2>1, <2>2 DEF Meet
<1>8. Gathers
  <2>1. Sendings
    BY <1>3 DEF Sendings, GatherOf
  <2>2. Ahead
    BY <1>2 DEF Ahead, Left
  <2>3. \A r \in Rank : Counting(r)
    BY <1>4 DEF Counting
  <2> QED BY <2>1, <2>2, <2>3 DEF Gathers
<1> QED BY <1>5, <1>6, <1>7, <1>8 DEF Calls

\* A process of ApplicationHPC is in no barrier and in no gather.
LEMMA HpcLeaves ==
  ASSUME HpcInv PROVE Leaves
<1>1. SUFFICES ASSUME NEW p \in Rank PROVE current[p].call \notin {"barrier", "gather"}
  BY DEF Leaves
<1>2. current[p] \in {NoCall, ResultsCall, DataCall(p)}
  BY DEF HpcInv, At, Blocked, OneThing
<1> QED BY <1>2 DEF NoCall, ResultsCall, DataCall

LEMMA StepCalls ==
  ASSUME Aligned(Jobs)
  PROVE  IInv /\ CallInv /\ [Next]_vars => CallInv' /\ [Leaves]_vars
<1> SUFFICES ASSUME IInv, CallInv, [Next]_vars PROVE CallInv' /\ [Leaves]_vars
  OBVIOUS
<1>1. Types /\ (IsHPC => HpcInv)
  BY DEF IInv
<1>2. UNCHANGED job
  <2>1. CASE UNCHANGED vars
    BY <2>1 DEF vars, mpiVars
  <2>2. CASE Next
    <3>1. PICK p \in Rank : Start(p) \/ Arrives(p) \/ Hpc(p) \/ Program(p)
      BY <2>2 DEF Next
    <3> QED BY <3>1
        DEF Start, ParseMachinesFile, EstablishAllConnections, SetEstablishedConnection, WaitToExecute,
            Arrives, ProcessMPICallRequest, Hpc, CalculateNextState, ProcessResponseMessage, ShowResults,
            Program, RunProgram, Computed, EndProgram
  <2> QED BY <2>1, <2>2
<1>3. IsHPC' = IsHPC
  BY <1>2, SameJob
<1>4. CASE UNCHANGED vars
  <2>1. error' = error
    BY <1>4 DEF vars, mpiVars
  <2>2. CallInv'
    BY <1>1, <1>3, <1>4, <2>1, SameCalls DEF CallInv
  <2> QED BY <1>4, <2>2
<1>5. CASE Next
  <2>1. error = "none"
    BY <1>5 DEF Next
  <2>2. CASE IsHPC
    BY <1>1, <1>3, <2>2, HpcLeaves DEF CallInv
  <2>3. CASE ~IsHPC
    <3>1. Keeps
      BY <1>5, <2>1, <2>3, NextCalls DEF CallInv
    <3> QED BY <3>1 DEF Keeps, CallInv
  <2> QED BY <2>2, <2>3
<1> QED BY <1>4, <1>5

\* No process leaves a barrier, or as root a gather, before every process of the
\* job has entered it: for every number of processes and every programs in which
\* the processes make the same barriers and gathers, with a barrier between two
\* gathers of one root.  The array of the master and the count of a root are
\* enough, whatever the order in which messages arrive.
THEOREM AllEnterFirst ==
  ASSUME Aligned(Jobs)
  PROVE  Spec => LeavesTogether
<1>1. Init => CallInv
  BY InitCalls DEF CallInv
<1>2. IInv /\ CallInv /\ [Next]_vars => CallInv' /\ [Leaves]_vars
  BY StepCalls
<1> QED BY <1>1, <1>2, Invariant, PTL DEF Spec, LeavesTogether, Leaves
=============================================================================
