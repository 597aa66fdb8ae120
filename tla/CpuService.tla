----------------------------- MODULE CpuService -----------------------------
(***************************************************************************)
(* What a first-come first-served CPU promises to its operating system, as *)
(* ICPU_Scheduler.ned states it: computing blocks go in, at most NumCPUs   *)
(* of them are being computed at any time, nobody waits while a CPU is     *)
(* free, blocks start in the order in which they arrived, and every block  *)
(* comes back exactly once.  There are no cores, links, messages or flags  *)
(* here; CpuSchedulerFIFO shows how the code provides this.                *)
(***************************************************************************)
EXTENDS Naturals, Sequences, FiniteSets

CONSTANTS Blocks,   \* the computing blocks that applications may submit
          NumCPUs   \* how many of them can be computed at the same time

VARIABLES waiting,  \* blocks accepted and not yet started, oldest first
          running,  \* blocks being computed
          done      \* blocks given back to the operating system

serviceVars == <<waiting, running, done>>

ServiceInit == waiting = <<>> /\ running = {} /\ done = {}

Known == {waiting[i] : i \in DOMAIN waiting} \cup running \cup done

\* A new block starts at once when a CPU is free, and otherwise waits.
Submit(b) ==
  /\ b \notin Known
  /\ \/ /\ Cardinality(running) < NumCPUs
        /\ running' = running \cup {b}
        /\ UNCHANGED waiting
     \/ /\ Cardinality(running) = NumCPUs
        /\ waiting' = Append(waiting, b)
        /\ UNCHANGED running
  /\ UNCHANGED done

\* A block that ends hands its CPU to the oldest block that waits.
Finish(b) ==
  /\ b \in running
  /\ done' = done \cup {b}
  /\ \/ /\ waiting = <<>>
        /\ running' = running \ {b}
        /\ UNCHANGED waiting
     \/ /\ waiting # <<>>
        /\ running' = (running \ {b}) \cup {Head(waiting)}
        /\ waiting' = Tail(waiting)

ServiceNext == \E b \in Blocks : Submit(b) \/ Finish(b)

ServiceSafety == ServiceInit /\ [][ServiceNext]_serviceVars

\* Every block that is being computed ends.
ServiceLiveness == \A b \in Blocks : WF_serviceVars(Finish(b))

ServiceSpec == ServiceSafety /\ ServiceLiveness
=============================================================================
