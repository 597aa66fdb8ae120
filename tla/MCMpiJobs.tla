----------------------------- MODULE MCMpiJobs -----------------------------
(* ApplicationHPC with one set of four and with two sets of two, with     *)
(* every choice of who reads and writes; and programs for three processes  *)
(* in which every gather stands between two barriers.                      *)
EXTENDS MpiJobs

Hpcs(iterations) ==
  {[app |-> "ApplicationHPC", numProcesses |-> s[1], workersSet |-> s[2], allToAll |-> FALSE,
    numIterations |-> iterations, workersRead |-> r, workersWrite |-> w,
    sliceToWorkers |-> 1, sliceToMaster |-> 1] :
     s \in {<<4, 4>>, <<4, 2>>}, r \in BOOLEAN, w \in BOOLEAN}

Program3(f(_)) == [app |-> "program", numProcesses |-> 3, workersSet |-> 0, allToAll |-> TRUE,
                   program |-> [p \in 0 .. 2 |-> f(p)]]

Cpu           == [op |-> "cpu"]
Barrier       == [op |-> "barrier"]
Bcast(r, s)   == [op |-> "bcast", root |-> r, size |-> s]
Scatter(r, s) == [op |-> "scatter", root |-> r, size |-> s]
Gather(r)     == [op |-> "gather", root |-> r, size |-> 1]
SendTo(q, s)  == [op |-> "send", to |-> q, size |-> s]
RecvFrom(q, s) == [op |-> "recv", from |-> q, size |-> s]

\* Barriers back to back, and a gather that is over before the next barrier.
Barriers(p) == <<Barrier, Cpu, Barrier, Gather(0), Barrier, Cpu, Barrier>>

\* Collective calls of one root after another, which the others may get to late.
Collectives(p) == <<Bcast(0, 1), Scatter(0, 1), Cpu, Bcast(0, 1), Bcast(1, 1), Bcast(0, 2), Barrier>>

\* A token, twice round: in a round one process sends to the next.
Token(p) ==
  [k \in 1 .. 6 |-> IF (k - 1) % 3 = p THEN SendTo((p + 1) % 3, 1)
                    ELSE IF k % 3 = p THEN RecvFrom((k - 1) % 3, 1) ELSE Cpu]

MCJobs == Hpcs(2) \cup {Program3(Barriers), Program3(Collectives), Program3(Token)}

\* Two gathers in a row, as MPI allows.
TwoGathers(p) == <<Gather(0), Cpu, Gather(0)>>
MCGathers == {Program3(TwoGathers)}

\* The hypothesis of AllEnterFirst: without it LeavesTogether fails.
ASSUME CallsAssumption == Aligned(MCJobs) /\ ~Aligned(MCGathers)
=============================================================================
