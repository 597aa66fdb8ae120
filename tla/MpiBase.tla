------------------------------ MODULE MpiBase ------------------------------
(***************************************************************************)
(* MPI_Base, the library of the parallel applications.  A process keeps    *)
(* the call it is in (currentMPICall) and a list of the calls that have    *)
(* reached it (mpiCallList).  A receiving call takes the first entry that  *)
(* fits, and only then does the application go on, in continueExecution.   *)
(*                                                                         *)
(* continueExecution belongs to the application (ApplicationHPC or         *)
(* MpiProgram, put together in MpiJobs).  It is called last by every       *)
(* handler, in the same event: `running` names the process that is inside  *)
(* it, and no other event happens until it blocks.                         *)
(*                                                                         *)
(* A connection delivers in order.  The operators of this module are       *)
(* parts of actions; MpiJobs has the specification.                        *)
(***************************************************************************)
EXTENDS Integers, FiniteSets, SequencesExt

CONSTANT
  Jobs   \* the parallel jobs to choose from: [numProcesses, workersSet,
         \* allToAll, ...] and the fields of the application

MasterRank == 0      \* MPI_MASTER_RANK
AnySender  == -1     \* MPI_ANY_SENDER
Nobody     == -1
NoCall     == [call |-> "none"]

VARIABLES
  job,       \* the job the processes belong to
  phase,     \* [Rank -> Phases]
  open,      \* [Rank -> SUBSET Rank]: connections with a connectionId
  net,       \* [Rank -> [Rank -> Seq(message)]]: sent and not yet arrived
  current,   \* [Rank -> call]: currentMPICall
  calls,     \* [Rank -> Seq(message)]: mpiCallList
  barriers,  \* the processes that are down, in the master's array
  running,   \* the process inside continueExecution, or Nobody
  waiting,   \* [Rank -> STRING]: the system call a process waits for
  error,     \* "none", or why the simulation stopped
  round,     \* [Rank -> Nat]: the iteration, or the number of calls, of the application
  last       \* history: the rounds in which the last matched call was sent and taken

mpiVars == <<job, phase, open, net, current, calls, barriers, running, waiting,
             error, round, last>>

Rank   == 0 .. job.numProcesses - 1
Phases == {"started", "listening", "connecting", "running", "finishing", "finished"}

IsMaster(r) == IF job.workersSet = 0 THEN r = MasterRank ELSE r % job.workersSet = 0

GetMyMaster(r) == IF job.workersSet = 0 THEN MasterRank
                  ELSE (r \div job.workersSet) * job.workersSet

IsThisWorkerInMyRange_OneLess(m, r) ==
  \/ job.workersSet = 0
  \/ IsMaster(m) /\ m < r /\ r < m + job.workersSet - 1

IsThisWorkerInMyRange(m, r) ==
  \/ job.workersSet = 0
  \/ IsMaster(m) /\ m < r /\ r < m + job.workersSet

\* The processes that a process connects to.
Connections(p) ==
  {q \in Rank \ {p} :
     IF job.workersSet = 0 THEN job.allToAll
     ELSE q = GetMyMaster(p) \/ IsThisWorkerInMyRange(p, q)}

(***************************************************************************)
(* Start of a process: it listens, after connectionDelay_s it connects,    *)
(* after startDelay_s it executes.  The delays are parameters of the       *)
(* workload; they are taken to be long enough for what they wait for.      *)
(***************************************************************************)
ParseMachinesFile(p) ==
  /\ phase[p] = "started"
  /\ phase' = [phase EXCEPT ![p] = "listening"]
  /\ UNCHANGED <<job, open, net, current, calls, barriers, running, waiting, error, round, last>>

EstablishAllConnections(p) ==
  /\ phase[p] = "listening"
  /\ \A q \in Connections(p) : phase[q] # "started"
  /\ phase' = [phase EXCEPT ![p] = "connecting"]
  /\ UNCHANGED <<job, open, net, current, calls, barriers, running, waiting, error, round, last>>

SetEstablishedConnection(p) ==
  /\ phase[p] = "connecting"
  /\ \E q \in Connections(p) \ open[p] : open' = [open EXCEPT ![p] = @ \cup {q}]
  /\ UNCHANGED <<job, phase, net, current, calls, barriers, running, waiting, error, round, last>>

WaitToExecute(p) ==
  /\ phase[p] = "connecting" /\ open[p] = Connections(p)
  /\ phase' = [phase EXCEPT ![p] = "running"]
  /\ running' = p
  /\ UNCHANGED <<job, open, net, current, calls, barriers, waiting, error, round, last>>

(***************************************************************************)
(* Messages and calls.                                                     *)
(***************************************************************************)
Message(p, op, size) == [op |-> op, src |-> p, size |-> size, round |-> round'[p]]

\* sendDataToNetwork from p to each process of Q, over connections `n`.  A
\* process without an open connection stops the simulation.
SendDataToNetwork(p, Q, msg, n) ==
  /\ net' = [n EXCEPT ![p] = [q \in Rank |-> IF q \in Q THEN Append(n[p][q], msg) ELSE n[p][q]]]
  /\ error' = IF Q \subseteq open[p] THEN error ELSE "no connection"

Clear(p) == current' = [current EXCEPT ![p] = NoCall]

\* The operation that the current call c looks for in the list.
Partner(c) == CASE c.call = "recv"    -> "send"
                [] c.call = "bcast"   -> "bcast"
                [] c.call = "scatter" -> "scatter"
                [] OTHER              -> "nothing"

SearchMPICall_LastFirst(list, c) ==
  SelectLastInSeq(list, LAMBDA m : /\ m.op = Partner(c)
                                   /\ c.sender = AnySender \/ m.src = c.sender
                                   /\ m.size = c.size)

SearchMPICall(list, c) ==
  SelectInSeq(list, LAMBDA m : /\ m.op = Partner(c)
                               /\ c.sender = AnySender \/ m.src = c.sender
                               /\ m.size = c.size)

\* synchronize(false) of process p in call c, with `list` as its mpiCallList.
Synchronize(p, c, list) ==
  LET i == SearchMPICall(list, c)
  IN IF i = 0
     THEN /\ current' = [current EXCEPT ![p] = c]
          /\ calls' = [calls EXCEPT ![p] = list]
          /\ running' = Nobody
          /\ UNCHANGED last
     ELSE /\ Clear(p)
          /\ calls' = [calls EXCEPT ![p] = RemoveAt(list, i)]
          /\ running' = p
          /\ last' = [last EXCEPT ![p] = [sent |-> list[i].round, taken |-> round'[p]]]

MpiRecv(p, sender, size) ==
  Synchronize(p, [call |-> "recv", sender |-> sender, size |-> size], calls[p])

MpiSend(p, q, size) ==
  /\ SendDataToNetwork(p, {q}, Message(p, "send", size), net)
  /\ Clear(p) /\ UNCHANGED <<calls, last>>

\* mpi_bcast and mpi_scatter: only the length of the messages differs.
MpiFromRoot(p, op, root, size) ==
  IF p = root
  THEN /\ SendDataToNetwork(p, Rank \ {p}, Message(p, op, size), net)
       /\ Clear(p) /\ running' = p
       /\ UNCHANGED <<calls, last>>
  ELSE /\ Synchronize(p, [call |-> op, sender |-> root, size |-> size], calls[p])
       /\ UNCHANGED <<net, error>>

MpiGather(p, root, size) ==
  /\ UNCHANGED <<calls, last>>
  /\ IF p = root
     THEN /\ current' = [current EXCEPT ![p] =
               [call |-> "gather", pendingACKs |-> job.numProcesses - 1]]
          /\ running' = Nobody
          /\ UNCHANGED <<net, error>>
     ELSE /\ SendDataToNetwork(p, {root}, Message(p, "gather", size), net)
          /\ Clear(p) /\ running' = p

CheckBarriers_NoInit(p, c, down, n) ==
  IF down = Rank
  THEN /\ barriers' = down
       /\ SendDataToNetwork(p, Rank \ {MasterRank}, Message(p, "barrierUp", 0), n)
       /\ Clear(p) /\ running' = p
  ELSE /\ barriers' = down
       /\ current' = [current EXCEPT ![p] = c]
       /\ running' = Nobody
       /\ net' = n /\ UNCHANGED error

\* checkBarriers at the master, with `down` as its array: when all are down it
\* lifts the barrier, tells the others and goes on; c is its call if it stays.
CheckBarriers(p, c, down, n) ==
  IF down = Rank
  THEN /\ barriers' = {}
       /\ SendDataToNetwork(p, Rank \ {MasterRank}, Message(p, "barrierUp", 0), n)
       /\ Clear(p) /\ running' = p
  ELSE /\ barriers' = down
       /\ current' = [current EXCEPT ![p] = c]
       /\ running' = Nobody
       /\ net' = n /\ UNCHANGED error

MpiBarrier(p) ==
  /\ UNCHANGED <<calls, last>>
  /\ IF p = MasterRank
     THEN CheckBarriers(p, [call |-> "barrier"], barriers \cup {p}, net)
     ELSE /\ SendDataToNetwork(p, {MasterRank}, Message(p, "barrierDown", 0), net)
          /\ current' = [current EXCEPT ![p] = [call |-> "barrier"]]
          /\ running' = Nobody
          /\ UNCHANGED barriers

(***************************************************************************)
(* processMPICallRequest: a message arrives.                               *)
(***************************************************************************)
MpiGatherArrives(p) ==
  LET left == current[p].pendingACKs - 1
  IN /\ UNCHANGED <<calls, last>>
     /\ IF current[p].call # "gather"
        THEN error' = "unexpected gather" /\ UNCHANGED <<current, running>>
        ELSE /\ UNCHANGED error
             /\ IF left = 0
                THEN Clear(p) /\ running' = p
                ELSE current' = [current EXCEPT ![p].pendingACKs = left] /\ UNCHANGED running

ProcessMPICallRequest(p, q) ==
  LET m == Head(net[q][p])
      n == [net EXCEPT ![q][p] = Tail(@)]
  IN /\ running = Nobody /\ phase[p] # "started" /\ net[q][p] # <<>>
     /\ UNCHANGED <<job, phase, open, waiting, round>>
     /\ \/ /\ m.op \in {"send", "scatter", "bcast"}
           /\ Synchronize(p, current[p], Append(calls[p], m))
           /\ net' = n /\ UNCHANGED <<barriers, error>>
        \/ /\ m.op = "barrierDown"
           /\ CheckBarriers(p, current[p], barriers \cup {m.src}, n)
           /\ UNCHANGED <<calls, last>>
        \/ /\ m.op = "barrierUp"
           /\ Clear(p) /\ running' = p
           /\ net' = n /\ UNCHANGED <<calls, barriers, error, last>>
        \/ /\ m.op = "gather"
           /\ MpiGatherArrives(p)
           /\ net' = n /\ UNCHANGED barriers
=============================================================================
