----------------------------- MODULE MpiProgram -----------------------------
(***************************************************************************)
(* A process that runs a program of MPI calls: how MPI_Base is meant to be *)
(* used by an application.  No application of this version uses barriers   *)
(* and collective calls, so the programs come from the configuration; what *)
(* is modelled from the code is what each call does.                       *)
(***************************************************************************)
EXTENDS MpiBase

\* The next call of p: round'[p] is its number.
Call(p) == job.program[p][round[p] + 1]

RunProgram(p) ==
  /\ running = p /\ round[p] < Len(job.program[p])
  /\ round' = [round EXCEPT ![p] = @ + 1]
  /\ UNCHANGED <<job, phase, open>>
  /\ LET c == Call(p)
     IN \/ /\ c.op = "send"
           /\ MpiSend(p, c.to, c.size)
           /\ UNCHANGED <<barriers, waiting, running>>
        \/ /\ c.op = "recv"
           /\ MpiRecv(p, c.from, c.size)
           /\ UNCHANGED <<net, error, barriers, waiting>>
        \/ /\ c.op \in {"bcast", "scatter"}
           /\ MpiFromRoot(p, c.op, c.root, c.size)
           /\ UNCHANGED <<barriers, waiting>>
        \/ /\ c.op = "gather"
           /\ MpiGather(p, c.root, c.size)
           /\ UNCHANGED <<barriers, waiting>>
        \/ /\ c.op = "barrier"
           /\ MpiBarrier(p)
           /\ UNCHANGED waiting
        \/ /\ c.op = "cpu"
           /\ waiting' = [waiting EXCEPT ![p] = "cpu"]
           /\ running' = Nobody
           /\ UNCHANGED <<net, current, calls, barriers, error, last>>

Computed(p) ==
  /\ running = Nobody /\ waiting[p] = "cpu"
  /\ waiting' = [waiting EXCEPT ![p] = "none"]
  /\ running' = p
  /\ UNCHANGED <<job, phase, open, net, current, calls, barriers, error, round, last>>

EndProgram(p) ==
  /\ running = p /\ round[p] = Len(job.program[p])
  /\ phase' = [phase EXCEPT ![p] = "finished"]
  /\ running' = Nobody
  /\ UNCHANGED <<job, open, net, current, calls, barriers, waiting, error, round, last>>
=============================================================================
