--------------------------- MODULE ApplicationHPC ---------------------------
(***************************************************************************)
(* ApplicationHPC: sets of workersSet processes.  In every iteration the   *)
(* master of a set delivers a slice of data to each of its workers and     *)
(* takes their results from any sender, in the order they come.  Either    *)
(* the master or the workers read the input and write the results, by the  *)
(* parameters workersRead and workersWrite.                                *)
(*                                                                         *)
(* calculateNextState is one action per state.  It ends with a system call *)
(* or an MPI call that blocks, or calls itself (running stays).            *)
(***************************************************************************)
EXTENDS MpiBase

CONSTANT UnsignedWrap   \* totalResponses is unsigned: it counts modulo this number

VARIABLES
  state,       \* [Rank -> States]: currentState
  responses,   \* [Rank -> 0 .. UnsignedWrap - 1]: totalResponses
  created      \* the processes with createdResultsFile

hpcVars == <<state, responses, created>>

States == {"INIT", "MASTER_READING", "MASTER_DELIVERING", "MASTER_WAITING_RESULTS",
           "MASTER_WRITTING", "WORKER_RECEIVING", "WORKER_READING", "WORKER_ALLOCATING",
           "WORKER_PROCESSING", "WORKER_WRITTING", "WORKER_SENDING_BACK"}

Metadata == 0   \* METADATA_MSG_SIZE
InputSize  == IF job.workersRead THEN Metadata ELSE job.sliceToWorkers
ResultSize == IF job.workersWrite THEN Metadata ELSE job.sliceToMaster

Decrement(n) == (n + UnsignedWrap - 1) % UnsignedWrap
Goto(p, s)   == state' = [state EXCEPT ![p] = s]
Expect(p, n) == responses' = [responses EXCEPT ![p] = n]

\* What calculateNextState does last: a system call, or calling itself.
Request(p, call) ==
  /\ waiting' = [waiting EXCEPT ![p] = call]
  /\ running' = Nobody
Again(p) == running' = p /\ UNCHANGED waiting

NoMpiCall == UNCHANGED <<net, current, calls, error, last>>

\* Reading and writing: `mine` says that the process does this access itself,
\* n is its totalResponses if it does.
Access(p, mine, call, n) ==
  IF mine THEN Expect(p, n) /\ Request(p, call)
          ELSE Expect(p, 0) /\ Again(p)

ReadData(p, mine, n)  == Access(p, mine, "read", n)
WriteData(p, mine, n) == Access(p, mine, "write", n)

CreateResults(p) ==
  /\ state[p] = "INIT" /\ p \notin created /\ IsMaster(p) # job.workersWrite
  /\ created' = created \cup {p}
  /\ Expect(p, 1) /\ Request(p, "create")
  /\ NoMpiCall /\ UNCHANGED <<state, phase, round>>

FileReady(p) == state[p] = "INIT" /\ (p \in created \/ IsMaster(p) = job.workersWrite)

\* Master: read a slice for every process of the set.
MasterRead(p) ==
  /\ IsMaster(p)
  /\ \/ FileReady(p) /\ ReadData(p, ~job.workersRead, job.workersSet)
     \/ state[p] = "MASTER_READING" /\ responses[p] > 0
          /\ ReadData(p, ~job.workersRead, responses[p])
  /\ Goto(p, "MASTER_READING")
  /\ NoMpiCall /\ UNCHANGED <<created, phase, round>>

DeliverData(p) ==
  /\ state[p] = "MASTER_READING" /\ responses[p] = 0
  /\ Goto(p, "MASTER_DELIVERING")
  /\ UNCHANGED round
  /\ SendDataToNetwork(p, (p + 1) .. (p + job.workersSet - 1), Message(p, "send", InputSize), net)
  /\ Clear(p) /\ Again(p)
  /\ UNCHANGED <<calls, last, responses, created, phase>>

ReceivingResults_OneLess(p) ==
  /\ \/ state[p] = "MASTER_DELIVERING" /\ Expect(p, job.workersSet - 2)
     \/ /\ state[p] = "MASTER_WAITING_RESULTS" /\ Decrement(responses[p]) # 0
        /\ Expect(p, Decrement(responses[p]))
  /\ Goto(p, "MASTER_WAITING_RESULTS")
  /\ UNCHANGED <<round, net, error, waiting, created, phase>>
  /\ MpiRecv(p, AnySender, ResultSize)

ReceivingResults(p) ==
  /\ \/ state[p] = "MASTER_DELIVERING" /\ Expect(p, Decrement(job.workersSet))
     \/ /\ state[p] = "MASTER_WAITING_RESULTS" /\ Decrement(responses[p]) # 0
        /\ Expect(p, Decrement(responses[p]))
  /\ Goto(p, "MASTER_WAITING_RESULTS")
  /\ UNCHANGED <<round, net, error, waiting, created, phase>>
  /\ MpiRecv(p, AnySender, ResultSize)

MasterWrite(p) ==
  /\ IsMaster(p)
  /\ \/ state[p] = "MASTER_WAITING_RESULTS" /\ Decrement(responses[p]) = 0
          /\ WriteData(p, ~job.workersWrite, job.workersSet)
     \/ state[p] = "MASTER_WRITTING" /\ responses[p] > 0
          /\ WriteData(p, ~job.workersWrite, responses[p])
  /\ Goto(p, "MASTER_WRITTING")
  /\ NoMpiCall /\ UNCHANGED <<created, phase, round>>

\* Worker: receive, read, allocate memory, compute, write, send back.
ReceiveInputData(p) ==
  /\ ~IsMaster(p) /\ FileReady(p)
  /\ Goto(p, "WORKER_RECEIVING")
  /\ UNCHANGED <<round, net, error, waiting, responses, created, phase>>
  /\ MpiRecv(p, GetMyMaster(p), InputSize)

WorkerStep(p) ==
  /\ NoMpiCall /\ UNCHANGED <<created, phase, round>>
  /\ \/ /\ state[p] = "WORKER_RECEIVING" /\ Goto(p, "WORKER_READING")
        /\ ReadData(p, job.workersRead, 1)
     \/ /\ state[p] = "WORKER_READING" /\ Goto(p, "WORKER_ALLOCATING")
        /\ Request(p, "memory") /\ UNCHANGED responses
     \/ /\ state[p] = "WORKER_ALLOCATING" /\ Goto(p, "WORKER_PROCESSING")
        /\ Request(p, "cpu") /\ UNCHANGED responses
     \/ /\ state[p] = "WORKER_PROCESSING" /\ Goto(p, "WORKER_WRITTING")
        /\ WriteData(p, job.workersWrite, 1)

SendResults(p) ==
  /\ state[p] = "WORKER_WRITTING"
  /\ Goto(p, "WORKER_SENDING_BACK")
  /\ UNCHANGED round
  /\ MpiSend(p, GetMyMaster(p), ResultSize)
  /\ Again(p) /\ UNCHANGED <<responses, created, phase>>

NextIteration(p) ==
  /\ \/ state[p] = "MASTER_WRITTING" /\ responses[p] = 0
     \/ state[p] = "WORKER_SENDING_BACK"
  /\ Goto(p, "INIT")
  /\ round' = [round EXCEPT ![p] = @ + 1]
  /\ IF round[p] + 1 > job.numIterations
     THEN /\ phase' = [phase EXCEPT ![p] = "finishing"]   \* SM_FINISH_JOB in half a second
          /\ running' = Nobody
     ELSE running' = p /\ UNCHANGED phase
  /\ NoMpiCall /\ UNCHANGED <<responses, created, waiting>>

CalculateNextState(p) ==
  /\ running = p
  /\ UNCHANGED <<job, open, barriers>>
  /\ \/ CreateResults(p) \/ MasterRead(p) \/ DeliverData(p) \/ ReceivingResults(p)
     \/ MasterWrite(p) \/ ReceiveInputData(p) \/ WorkerStep(p) \/ SendResults(p)
     \/ NextIteration(p)

(***************************************************************************)
(* Responses to system calls.                                              *)
(***************************************************************************)
RightState(p) ==
  /\ waiting[p] = "read"  => state[p] \in {"MASTER_READING", "WORKER_READING"}
  /\ waiting[p] = "write" => state[p] \in {"MASTER_WRITTING", "WORKER_WRITTING"}

ProcessResponseMessage_AllCounted(p) ==
  /\ running = Nobody /\ waiting[p] # "none"
  /\ waiting' = [waiting EXCEPT ![p] = "none"]
  /\ \E ok \in BOOLEAN : error' = IF ~RightState(p) THEN "wrong state" ELSE IF ok THEN error ELSE "I/O"
  /\ Expect(p, responses[p] - 1)
  /\ running' = p
  /\ UNCHANGED <<job, phase, open, net, current, calls, barriers, round, last, state, created>>

ProcessResponseMessage(p) ==
  /\ running = Nobody /\ waiting[p] # "none"
  /\ waiting' = [waiting EXCEPT ![p] = "none"]
  /\ \/ /\ waiting[p] \in {"create", "read", "write"}
        /\ \E ok \in BOOLEAN :
             error' = IF ~RightState(p) THEN "wrong state" ELSE IF ok THEN error ELSE "I/O"
        /\ Expect(p, Decrement(responses[p]))
     \/ waiting[p] \in {"memory", "cpu"} /\ UNCHANGED <<responses, error>>
  /\ running' = p
  /\ UNCHANGED <<job, phase, open, net, current, calls, barriers, round, last, state, created>>

\* SM_FINISH_JOB: showResults tells the user.
ShowResults(p) ==
  /\ running = Nobody /\ phase[p] = "finishing"
  /\ phase' = [phase EXCEPT ![p] = "finished"]
  /\ UNCHANGED <<job, open, net, current, calls, barriers, running, waiting, error, round, last,
                 hpcVars>>
=============================================================================
