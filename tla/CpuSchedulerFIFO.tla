-------------------------- MODULE CpuSchedulerFIFO --------------------------
(***************************************************************************)
(* CPU_Scheduler_FIFO: the module between an operating system and NumCPUs  *)
(* CPU cores (the cores of a node, or the virtual cores that a hypervisor  *)
(* gives to a virtual machine).  Computing blocks and energy-state         *)
(* messages travel to core c on the link toCPU[c], finished blocks come    *)
(* back on fromCPU[c]; a link delivers in order.  A core is reduced here   *)
(* to what the scheduler can see of it: it takes one message after the     *)
(* other, gives a block back when it has computed it, and stops the whole  *)
(* simulation when a block meets it turned off.                            *)
(*                                                                         *)
(* The two places of the scheduler differ in the energy states.  In a node *)
(* without hypervisor (Node.ned) the links lead to the cores, which start  *)
(* off, and the states the operating system asks for come through here.    *)
(* In a guest they lead to the hypervisor, whose cores the node turned on  *)
(* before (NodeVL.ned, H_CPUManager_Base.cc:112-123); a guest's operating  *)
(* system sends no state (VMSyscallManager.cc:164 deletes it).             *)
(***************************************************************************)
EXTENDS Integers, Sequences, FiniteSets

CONSTANTS Blocks,      \* the computing blocks applications may submit
          NoBlock,     \* "no block": a core's NULL pendingMessage
          NumCPUs,     \* the module parameter numCPUs
          OsStates,    \* energy states the operating system may ask for
          MaxLink      \* bound: the OS asks for a state only on a link shorter than this

ASSUME CpuAssumption ==
  /\ NumCPUs \in Nat \ {0}
  /\ NoBlock \notin Blocks
  /\ MaxLink \in Nat

Cores == 0 .. NumCPUs - 1

NOT_FOUND == -1

\* The two kinds of icancloud_App_CPU_Message: a block, or SM_CHANGE_CPU_STATE.
Exec(b) == [op |-> "SM_CPU_EXEC", blk |-> b]
ChangeState(s) == [op |-> "SM_CHANGE_CPU_STATE", state |-> s]

States == OsStates \cup {"INCREMENT_SPEED", "MACHINE_STATE_IDLE"}
Messages == {Exec(b) : b \in Blocks} \cup {ChangeState(s) : s \in States}

VARIABLES
  isCPU_Idle,       \* [Cores -> BOOLEAN]
  requestsQueue,    \* blocks that wait for a core, oldest first
  queueSize,        \* the scheduler's own count of requestsQueue
  nextModuleIndex,  \* the core index carried by each block's message
  toCPU,            \* messages sent to each core and not taken yet
  core,             \* the block each core is computing, or NoBlock
  fromCPU,          \* blocks each core has answered and the scheduler not yet seen
  off,              \* [Cores -> BOOLEAN]: a core's actualPState is 0
  guest,            \* is this the scheduler of a virtual machine?  Never changes
  failed,           \* an exception has stopped the simulation
  submitted,        \* history: blocks received from the OS, in order
  answered          \* history: blocks sent back to the OS, in order

schedVars == <<isCPU_Idle, requestsQueue, queueSize, nextModuleIndex>>
coreVars  == <<toCPU, core, fromCPU, off>>
hostVars  == <<guest, failed>>
osVars    == <<submitted, answered>>
vars      == <<schedVars, coreVars, hostVars, osVars>>

Elems(s) == {s[i] : i \in DOMAIN s}

Init ==
  /\ isCPU_Idle = [c \in Cores |-> TRUE]
  /\ requestsQueue = <<>>
  /\ queueSize = 0
  /\ nextModuleIndex = [b \in Blocks |-> NOT_FOUND]
  /\ toCPU = [c \in Cores |-> <<>>]
  /\ core = [c \in Cores |-> NoBlock]
  /\ fromCPU = [c \in Cores |-> <<>>]
  /\ guest \in BOOLEAN
  /\ off = [c \in Cores |-> ~guest]
  /\ failed = FALSE
  /\ submitted = <<>>
  /\ answered = <<>>

\* searchIdleCPU: c is the lowest-numbered idle core.
FirstIdle(c) == isCPU_Idle[c] /\ \A d \in Cores : d < c => ~isCPU_Idle[d]

-----------------------------------------------------------------------------
(* The scheduler's message handlers. *)

\* processRequestMessage, a computing block and a core is idle.
Dispatch(b, c) ==
  /\ FirstIdle(c)
  /\ nextModuleIndex' = [nextModuleIndex EXCEPT ![b] = c]
  /\ isCPU_Idle' = [isCPU_Idle EXCEPT ![c] = FALSE]
  /\ toCPU' = [toCPU EXCEPT ![c] = Append(@, Exec(b))]
  /\ UNCHANGED <<requestsQueue, queueSize>>

\* processRequestMessage, a computing block and no core is idle.
Enqueue(b) ==
  /\ \A c \in Cores : ~isCPU_Idle[c]
  /\ requestsQueue' = Append(requestsQueue, b)
  /\ queueSize' = queueSize + 1
  /\ UNCHANGED <<nextModuleIndex, isCPU_Idle, toCPU>>

ProcessRequest(b) ==
  /\ ~failed
  /\ b \notin Elems(submitted)
  /\ submitted' = Append(submitted, b)
  /\ (\E c \in Cores : Dispatch(b, c)) \/ Enqueue(b)
  /\ UNCHANGED <<core, fromCPU, off, hostVars, answered>>

\* processRequestMessage, SM_CHANGE_CPU_STATE: whatever cores it names, it
\* is forwarded to the first one.
ProcessChangeState(s) ==
  /\ ~failed /\ ~guest
  /\ Len(toCPU[0]) < MaxLink
  /\ toCPU' = [toCPU EXCEPT ![0] = Append(@, ChangeState(s))]
  /\ UNCHANGED <<schedVars, core, fromCPU, off, hostVars, osVars>>

\* Definitions whose name has a suffix (_Turned, _Newest ...) are faulty variants
\* of the definition after them; no specification uses them.
SpeedMessage_Turned ==
  ChangeState(IF queueSize > Len(requestsQueue) THEN "INCREMENT_SPEED"
                                                ELSE "DECREMENT_SPEED")

\* The energy message that processResponseMessage sends before the next block.
SpeedMessage ==
  ChangeState(IF queueSize >= Len(requestsQueue) THEN "INCREMENT_SPEED"
                                                 ELSE "DECREMENT_SPEED")

NextGiven(c, next, rest, msgs) ==
  /\ requestsQueue # <<>>
  /\ toCPU' = [toCPU EXCEPT ![c] = @ \o msgs]
  /\ requestsQueue' = rest
  /\ queueSize' = queueSize - 1
  /\ isCPU_Idle' = [isCPU_Idle EXCEPT ![c] = FALSE]
  /\ nextModuleIndex' = [nextModuleIndex EXCEPT ![next] = c]

GiveNextBlock_FlagIdle(c) ==
  /\ requestsQueue # <<>>
  /\ toCPU' = [toCPU EXCEPT ![c] = Append(@, Exec(Head(requestsQueue)))]
  /\ requestsQueue' = Tail(requestsQueue)
  /\ queueSize' = queueSize - 1
  /\ nextModuleIndex' = [nextModuleIndex EXCEPT ![Head(requestsQueue)] = c]
  /\ isCPU_Idle' = [isCPU_Idle EXCEPT ![c] = TRUE]

GiveNextBlock_Newest(c) ==
  LET last == Len(requestsQueue)
  IN NextGiven(c, requestsQueue[last], SubSeq(requestsQueue, 1, last - 1),
               <<ChangeState("INCREMENT_SPEED"), Exec(requestsQueue[last])>>)

GiveNextBlock_NoIndex(c) ==
  /\ requestsQueue # <<>>
  /\ toCPU' = [toCPU EXCEPT ![c] = Append(@, Exec(Head(requestsQueue)))]
  /\ requestsQueue' = Tail(requestsQueue)
  /\ queueSize' = queueSize - 1
  /\ isCPU_Idle' = [isCPU_Idle EXCEPT ![c] = FALSE]
  /\ UNCHANGED nextModuleIndex

GiveNextBlock_ThenIdle(c) ==
  NextGiven(c, Head(requestsQueue), Tail(requestsQueue),
            <<Exec(Head(requestsQueue)), ChangeState("MACHINE_STATE_IDLE")>>)

GiveNextBlock_Forgotten(c) ==
  /\ requestsQueue # <<>>
  /\ isCPU_Idle' = [isCPU_Idle EXCEPT ![c] = TRUE]
  /\ UNCHANGED <<toCPU, requestsQueue, queueSize, nextModuleIndex>>

\* processResponseMessage with blocks waiting: core c gets the oldest one.
GiveNextBlock(c) ==
  /\ requestsQueue # <<>>
  /\ LET next == Head(requestsQueue)
     IN /\ toCPU' = [toCPU EXCEPT ![c] = Append(Append(@, SpeedMessage), Exec(next))]
        /\ requestsQueue' = Tail(requestsQueue)
        /\ queueSize' = queueSize - 1
        /\ nextModuleIndex' = [nextModuleIndex EXCEPT ![next] = c]
        /\ isCPU_Idle' = [isCPU_Idle EXCEPT ![c] = FALSE]

\* processResponseMessage with nobody waiting: core c is told to go idle.
GoIdle(c) ==
  /\ requestsQueue = <<>>
  /\ isCPU_Idle' = [isCPU_Idle EXCEPT ![c] = TRUE]
  /\ toCPU' = [toCPU EXCEPT ![c] = Append(@, ChangeState("MACHINE_STATE_IDLE"))]
  /\ UNCHANGED <<requestsQueue, queueSize, nextModuleIndex>>

\* processResponseMessage: a block comes back over link l.  The core that is
\* freed is the one whose index the message carries.
ProcessResponse(l) ==
  /\ ~failed
  /\ fromCPU[l] # <<>>
  /\ LET b == Head(fromCPU[l])
         c == nextModuleIndex[b]
     IN /\ c \in Cores
        /\ GiveNextBlock(c) \/ GoIdle(c)
        /\ answered' = Append(answered, b)
  /\ fromCPU' = [fromCPU EXCEPT ![l] = Tail(@)]
  /\ UNCHANGED <<core, off, hostVars, submitted>>

-----------------------------------------------------------------------------
(* The core behind a link. *)

\* A block is the next message of core c.
BlockArrives(c) == toCPU[c] # <<>> /\ Head(toCPU[c]).op = "SM_CPU_EXEC"

\* CPUcore throws an exception: nothing happens any more in this simulation.
Stop ==
  /\ failed' = TRUE
  /\ UNCHANGED <<guest, schedVars, coreVars, osVars>>

\* processRequestMessage of a core that is on and has no block pending.
StartBlock(c) ==
  /\ ~off[c] /\ core[c] = NoBlock
  /\ core' = [core EXCEPT ![c] = Head(toCPU[c]).blk]
  /\ toCPU' = [toCPU EXCEPT ![c] = Tail(@)]
  /\ UNCHANGED <<schedVars, fromCPU, off, hostVars, osVars>>

\* CPUcore::processRequestMessage, a computing block.  It stops the simulation
\* on a core that is off, and on a core with a block pending ("Core currently
\* processing another computing block!").
CoreTakeBlock(c) ==
  /\ ~failed
  /\ BlockArrives(c)
  /\ StartBlock(c) \/ ((off[c] \/ core[c] # NoBlock) /\ Stop)

\* CPUcore::changeDeviceState: MACHINE_STATE_OFF, and any state it does not know.
TurnsOff(state) ==
  state \notin {"MACHINE_STATE_IDLE", "MACHINE_STATE_RUNNING", "INCREMENT_SPEED",
                "DECREMENT_SPEED"}

\* CPUcore::processRequestMessage, an energy state: not answered.  A guest's
\* message goes to the hypervisor and never turns a core off: INCREMENT_SPEED
\* names no core there and is dropped, and an idle core is on.
CoreTakeState(c) ==
  /\ ~failed
  /\ toCPU[c] # <<>> /\ Head(toCPU[c]).op = "SM_CHANGE_CPU_STATE"
  /\ toCPU' = [toCPU EXCEPT ![c] = Tail(@)]
  /\ off' = [off EXCEPT ![c] = ~guest /\ TurnsOff(Head(toCPU[c]).state)]
  /\ UNCHANGED <<schedVars, core, fromCPU, hostVars, osVars>>

\* CPUcore::processSelfMessage, "continueExecuting": a long block goes through
\* processRequestMessage again, which throws if the core was turned off
\* meanwhile.  On a core that is on nothing changes here.
CoreContinue(c) ==
  /\ ~failed
  /\ core[c] # NoBlock /\ off[c]
  /\ Stop

\* CPUcore::processSelfMessage: the block's time is over, it is answered.
CoreFinish(c) ==
  /\ ~failed
  /\ core[c] # NoBlock
  /\ fromCPU' = [fromCPU EXCEPT ![c] = Append(@, core[c])]
  /\ core' = [core EXCEPT ![c] = NoBlock]
  /\ UNCHANGED <<schedVars, toCPU, off, hostVars, osVars>>

CoreTake(c) == CoreTakeBlock(c) \/ CoreTakeState(c)

Next ==
  \/ \E b \in Blocks : ProcessRequest(b)
  \/ \E s \in OsStates : ProcessChangeState(s)
  \/ \E c \in Cores :
       ProcessResponse(c) \/ CoreTake(c) \/ CoreContinue(c) \/ CoreFinish(c)

\* The event loop delivers every message that was sent and every timer that
\* was set; the operating system need not send anything, and no block need be
\* long enough to be continued.
Fairness == \A c \in Cores :
  WF_vars(ProcessResponse(c)) /\ WF_vars(CoreTake(c)) /\ WF_vars(CoreFinish(c))

Spec == Init /\ [][Next]_vars /\ Fairness

-----------------------------------------------------------------------------
(* Properties. *)

TypeOK ==
  /\ isCPU_Idle \in [Cores -> BOOLEAN]
  /\ requestsQueue \in Seq(Blocks)
  /\ queueSize \in Int
  /\ nextModuleIndex \in [Blocks -> Cores \cup {NOT_FOUND}]
  /\ toCPU \in [Cores -> Seq(Messages)]
  /\ core \in [Cores -> Blocks \cup {NoBlock}]
  /\ fromCPU \in [Cores -> Seq(Blocks)]
  /\ off \in [Cores -> BOOLEAN]
  /\ guest \in BOOLEAN /\ failed \in BOOLEAN
  /\ submitted \in Seq(Blocks)
  /\ answered \in Seq(Blocks)

\* No block is on the link s, exactly one is.
NoExec(s) == \A i \in DOMAIN s : s[i].op # "SM_CPU_EXEC"
OneExec(s) == \E i \in DOMAIN s :
                /\ s[i].op = "SM_CPU_EXEC"
                /\ \A j \in DOMAIN s : s[j].op = "SM_CPU_EXEC" => j = i

\* Where the single block of a busy core can be.
Arriving(c)  == OneExec(toCPU[c]) /\ core[c] = NoBlock /\ fromCPU[c] = <<>>
Computing(c) == NoExec(toCPU[c]) /\ core[c] # NoBlock /\ fromCPU[c] = <<>>
Returning(c) == NoExec(toCPU[c]) /\ core[c] = NoBlock /\ Len(fromCPU[c]) = 1
Vacant(c)    == NoExec(toCPU[c]) /\ core[c] = NoBlock /\ fromCPU[c] = <<>>

\* isCPU_Idle tells the truth although messages are in flight both ways: an
\* idle core has no block anywhere between the scheduler and back, a busy one
\* has exactly one.
FlagTruthful(c) ==
  /\ isCPU_Idle[c] => Vacant(c)
  /\ ~isCPU_Idle[c] => Arriving(c) \/ Computing(c) \/ Returning(c)

FlagsTruthful == \A c \in Cores : FlagTruthful(c)

\* The error of a second block on one core never happens, and a guest is never
\* stopped: only in a node without hypervisor, and by a block on a core that is off.
OnlyOffCoreStops ==
  failed => ~guest /\ \E c \in Cores : off[c] /\ (BlockArrives(c) \/ core[c] # NoBlock)

\* What isCPU_Idle says of a core is what is on its way to it, on it and back;
\* so CPUcore::processRequestMessage never meets a second block while
\* pendingMessage is set, and its other error is the only one that stops a run.
CoreExclusive == FlagsTruthful /\ OnlyOffCoreStops

\* Nothing waits while a core is idle.
WorkConserving == requestsQueue # <<>> => \A c \in Cores : ~isCPU_Idle[c]

\* queueSize counts requestsQueue, so processResponseMessage always asks a core
\* for more speed when blocks wait, and its DECREMENT_SPEED branch never runs.
QueueCounted == queueSize = Len(requestsQueue)

\* The queue is the most recent part of what the operating system submitted,
\* in its order, so the next block to get a core is always the oldest.
FirstInFirstOut ==
  /\ Len(requestsQueue) <= Len(submitted)
  /\ \A i \in DOMAIN requestsQueue :
       requestsQueue[i] = submitted[Len(submitted) - Len(requestsQueue) + i]

\* Requests and responses in any interleaving keep requestsQueue first in,
\* first out, counted by queueSize, and empty whenever a core is idle.
QueueDiscipline == WorkConserving /\ QueueCounted /\ FirstInFirstOut

OnCore(c) ==
  {b \in Blocks : \/ Exec(b) \in Elems(toCPU[c])
                  \/ core[c] = b
                  \/ b \in Elems(fromCPU[c])}

\* The number of places block b is in: the queue, the cores, the answers.
Copies(b) ==
  Cardinality({i \in DOMAIN requestsQueue : requestsQueue[i] = b})
  + Cardinality({c \in Cores : b \in OnCore(c)})
  + Cardinality({i \in DOMAIN answered : answered[i] = b})

\* No block is lost and none is duplicated: a submitted block is in exactly
\* one place, and it is answered once; its message still carries the index of
\* the core it is on, so the response frees the right core.
ExactlyOnce ==
  /\ \A b \in Blocks : Copies(b) = IF b \in Elems(submitted) THEN 1 ELSE 0
  /\ \A c \in Cores : \A b \in OnCore(c) : nextModuleIndex[b] = c

\* The strengthening that makes FlagsTruthful inductive.  A block that is on a
\* core carries that core's index; a block that has no core yet (not submitted,
\* or queued) carries none, which is what tells the two apart when an index is
\* overwritten; and the queue holds submitted blocks, each once.
Carries(c) ==
  /\ \A i \in DOMAIN toCPU[c] :
       toCPU[c][i].op = "SM_CPU_EXEC" => nextModuleIndex[toCPU[c][i].blk] = c
  /\ core[c] # NoBlock => nextModuleIndex[core[c]] = c
  /\ \A i \in DOMAIN fromCPU[c] : nextModuleIndex[fromCPU[c][i]] = c

IndexCarried == \A c \in Cores : Carries(c)

NotYetPlaced ==
  /\ \A b \in Blocks : b \notin Elems(submitted) => nextModuleIndex[b] = NOT_FOUND
  /\ \A i \in DOMAIN requestsQueue :
       /\ requestsQueue[i] \in Elems(submitted)
       /\ nextModuleIndex[requestsQueue[i]] = NOT_FOUND
       /\ \A j \in DOMAIN requestsQueue : requestsQueue[i] = requestsQueue[j] => i = j

\* OnlyOffCoreStops needs that nothing ever turns off a guest's core.
StopExplained == OnlyOffCoreStops /\ (guest => \A c \in Cores : ~off[c])

IInv ==
  /\ TypeOK
  /\ FlagsTruthful
  /\ IndexCarried
  /\ NotYetPlaced
  /\ QueueDiscipline
  /\ StopExplained

\* The cores that get no message of an operating system: all cores of a guest.
Unaddressed(c) == guest \/ c # 0

\* The scheduler's MACHINE_STATE_IDLE never overtakes work: on a core that
\* only the scheduler talks to, no block is computed with an idle message
\* still behind it, so a core is never slowed down by its own scheduler.
NeverIdledWhileComputing ==
  \A c \in Cores : Unaddressed(c) /\ core[c] # NoBlock =>
    ChangeState("MACHINE_STATE_IDLE") \notin Elems(toCPU[c])

\* The strengthening that makes NeverIdledWhileComputing inductive: on such a
\* core the idle messages on the link are all in front of its block.
IdleFirst(s) ==
  \A i, j \in DOMAIN s :
    s[i].op = "SM_CPU_EXEC" /\ s[j] = ChangeState("MACHINE_STATE_IDLE") => j < i

IdleBeforeWork ==
  \A c \in Cores : Unaddressed(c) =>
    /\ core[c] # NoBlock => ChangeState("MACHINE_STATE_IDLE") \notin Elems(toCPU[c])
    /\ IdleFirst(toCPU[c])

\* The strengthening that makes ExactlyOnce inductive: an answered block is a
\* submitted one and is answered once, no answered block is on a core or in the
\* queue any more, and every other submitted block is on a core or in the queue.
Placement ==
  /\ \A i \in DOMAIN answered :
       /\ answered[i] \in Elems(submitted)
       /\ \A j \in DOMAIN answered : answered[i] = answered[j] => i = j
  /\ \A c \in Cores : OnCore(c) \subseteq Elems(submitted) \ Elems(answered)
  /\ Elems(requestsQueue) \cap Elems(answered) = {}
  /\ \A b \in Elems(submitted) :
       b \in Elems(requestsQueue) \/ b \in Elems(answered) \/ \E c \in Cores : b \in OnCore(c)

\* A core that is off has met a block, in a node without hypervisor.
NodeStopped == failed /\ ~guest

\* Every block the operating system submits is eventually answered, in a guest
\* whatever happens, and in a node unless a block meets a core that is off.
EventuallyAnswered ==
  \A b \in Blocks : b \in Elems(submitted) ~> b \in Elems(answered) \/ NodeStopped

\* The blocks between the choice of their core and the handling of their response.
Running == UNION {OnCore(c) : c \in Cores}

\* In the abstract CPU service a block runs from the moment a core is chosen
\* until its response is handled.
Service == INSTANCE CpuService
  WITH waiting <- requestsQueue,
       running <- Running,
       done    <- Elems(answered)

\* The scheduler with its cores and links provides the abstract CPU service: every
\* step is one of the service or none, and every running block ends, always in a
\* guest and in a node unless it is stopped by a core that is off.
ImplementsService ==
  Service!ServiceSafety /\ (<>NodeStopped \/ Service!ServiceLiveness)
=============================================================================
