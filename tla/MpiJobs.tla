------------------------------ MODULE MpiJobs ------------------------------
(***************************************************************************)
(* The parallel jobs: all processes of a job run ApplicationHPC, or all    *)
(* run a program of MPI calls, over the library MPI_Base.  An action is    *)
(* one event, or one call of continueExecution inside an event.            *)
(***************************************************************************)
EXTENDS ApplicationHPC, MpiProgram

vars == <<mpiVars, hpcVars>>

IsHPC == job.app = "ApplicationHPC"

ProgramCall ==
  [op : {"cpu", "barrier"}] \cup [op : {"send"}, to : Int, size : Nat]
  \cup [op : {"recv"}, from : Int, size : Nat]
  \cup [op : {"bcast", "scatter", "gather"}, root : Int, size : Nat]

\* parseMachinesFile checks the second line and the third; the .ned files leave
\* the rest open, and give the types.
ASSUME JobsAssumption ==
  \A j \in Jobs :
    /\ j.numProcesses \in Nat \ {0} /\ j.workersSet \in 0 .. j.numProcesses
    /\ j.workersSet # 0 => j.numProcesses % j.workersSet = 0
    /\ j.app = "ApplicationHPC" =>
         /\ j.numIterations \in Nat \ {0} /\ j.workersRead \in BOOLEAN /\ j.workersWrite \in BOOLEAN
         /\ j.sliceToWorkers \in Nat /\ j.sliceToMaster \in Nat
    /\ j.app # "ApplicationHPC" => j.program \in [0 .. j.numProcesses - 1 -> Seq(ProgramCall)]

ASSUME WrapAssumption == UnsignedWrap \in Nat /\ \A j \in Jobs : j.workersSet + 1 < UnsignedWrap

Init ==
  /\ job \in Jobs
  /\ phase = [p \in Rank |-> "started"]
  /\ open = [p \in Rank |-> {}]
  /\ net = [p \in Rank |-> [q \in Rank |-> <<>>]]
  /\ current = [p \in Rank |-> NoCall]
  /\ calls = [p \in Rank |-> <<>>]
  /\ barriers = {}
  /\ running = Nobody
  /\ waiting = [p \in Rank |-> "none"]
  /\ error = "none"
  /\ round = [p \in Rank |-> IF IsHPC THEN 1 ELSE 0]   \* currentIteration starts at 1
  /\ last = [p \in Rank |-> [sent |-> 0, taken |-> 0]]
  /\ state = [p \in Rank |-> "INIT"]
  /\ responses = [p \in Rank |-> 0]
  /\ created = {}

Start(p) ==
  /\ running = Nobody
  /\ \/ ParseMachinesFile(p) \/ EstablishAllConnections(p)
     \/ SetEstablishedConnection(p) \/ WaitToExecute(p)
  /\ UNCHANGED hpcVars

Arrives(p) == \E q \in Rank : ProcessMPICallRequest(p, q) /\ UNCHANGED hpcVars

Hpc(p)     == IsHPC /\ (CalculateNextState(p) \/ ProcessResponseMessage(p) \/ ShowResults(p))
Program(p) == ~IsHPC /\ (RunProgram(p) \/ Computed(p) \/ EndProgram(p)) /\ UNCHANGED hpcVars

\* An exception ends the simulation.
Next == /\ error = "none"
        /\ \E p \in Rank : Start(p) \/ Arrives(p) \/ Hpc(p) \/ Program(p)

\* The simulator handles events as long as there are any.
Spec == Init /\ [][Next]_vars /\ WF_vars(Next)

----------------------------------------------------------------------------
TypeOK ==
  /\ job \in Jobs
  /\ phase \in [Rank -> Phases]
  /\ open \in [Rank -> SUBSET Rank] /\ \A p \in Rank : open[p] \subseteq Connections(p)
  /\ \A p \in Rank, q \in Rank : \A i \in DOMAIN net[p][q] : net[p][q][i].src = p
  /\ \A p \in Rank : \A i \in DOMAIN calls[p] : calls[p][i].op \in {"send", "bcast", "scatter"}
  /\ \A p \in Rank : current[p].call \in {"none", "recv", "bcast", "scatter", "gather", "barrier"}
  /\ barriers \subseteq Rank
  /\ running \in Rank \cup {Nobody}
  /\ waiting \in [Rank -> {"none", "create", "read", "write", "memory", "cpu"}]
  /\ error \in {"none", "no connection", "unexpected gather", "wrong state", "I/O"}
  /\ round \in [Rank -> Nat]
  /\ state \in [Rank -> States]
  /\ responses \in [Rank -> 0 .. UnsignedWrap - 1]
  /\ created \subseteq Rank

Workers(m) == {w \in Rank : w # m /\ GetMyMaster(w) = m}

\* When a master starts to write the results of an iteration, it has taken the
\* result of each of its workers, although it asks for any sender: every worker
\* has ended the iteration, and nothing is left between them and the master.
RoundClosed ==
  IsHPC => \A m \in Rank : state[m] = "MASTER_WRITTING" =>
    /\ calls[m] = <<>>
    /\ \A w \in Workers(m) :
         round[w] = round[m] + 1 /\ net[w][m] = <<>> /\ net[m][w] = <<>> /\ calls[w] = <<>>

\* A receiving call takes the message of the same round: in ApplicationHPC data
\* and results never mix over iterations, in a program the k-th call takes what
\* was sent for it, although the list is searched by sender and size only.
InRound == \A p \in Rank : last[p].sent = last[p].taken

\* No process leaves a barrier or, as root, a gather, before every process of
\* the job has entered it (checkBarriers and mpi_gather_arrives).
LeavesTogether ==
  [][\A p \in Rank :
       current[p].call \in {"barrier", "gather"} /\ current'[p].call # current[p].call
         => \A q \in Rank : round[q] >= round[p]]_vars

\* What MPI asks of programs, that all processes make the same collective calls,
\* and what the count of gather messages needs on top: a barrier between two
\* gathers of one root.
Aligned(jobs) ==
  \A j \in jobs : j.app # "ApplicationHPC" =>
    \A p, q \in 0 .. j.numProcesses - 1 : \A k \in DOMAIN j.program[p] :
      /\ j.program[p][k].op \in {"barrier", "gather"} =>
           k \in DOMAIN j.program[q] /\ j.program[q][k].op = j.program[p][k].op
      /\ j.program[p][k].op = "gather" =>
           /\ j.program[q][k].root = j.program[p][k].root
           /\ \A l \in DOMAIN j.program[p] :
                k < l /\ j.program[p][l].op = "gather" /\ j.program[p][l].root = j.program[p][k].root
                  => \E b \in DOMAIN j.program[p] : k < b /\ b < l /\ j.program[p][b].op = "barrier"

\* Nothing stops the simulation but a system call that fails, and all processes
\* of the job finish.
JobFinishes == <>(error = "I/O" \/ \A p \in Rank : phase[p] = "finished")
=============================================================================
