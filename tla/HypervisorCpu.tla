--------------------------- MODULE HypervisorCpu ---------------------------
(***************************************************************************)
(* The CPU manager of the hypervisor: H_CPUManager_Base with the policy    *)
(* H_CPU_SCHED_FIFO, between the virtual cores of the guests and the cores *)
(* of the node.                                                            *)
(*   - A block runs on the first free core, or waits in coreQueue.         *)
(*   - With a computing overhead, a second block (a copy of the first one  *)
(*     with operation VM_OVERHEAD) is computed on the same core before the *)
(*     guest is answered; the answer waits in overheadStructure.           *)
(*   - A guest's change-of-state message goes to the core whose number it  *)
(*     carries.                                                            *)
(* A guest's own scheduler is CPU_Scheduler_FIFO (module CpuSchedulerFIFO):*)
(* it has at most one block out per virtual core, and after the answer it  *)
(* sends the next block or the idle message of that virtual core.          *)
(***************************************************************************)
EXTENDS Integers, Sequences, FiniteSets

CONSTANTS
  NumCPUs,     \* cores of the node
  VCores,      \* virtual cores of all guests; each has a gate of the hypervisor
  VIndex,      \* [VCores -> 0 .. NumCPUs-1]: number of a virtual core in its guest
  Overheads,   \* subset of BOOLEAN: may computing_overhead be non-zero?
  MaxBlocks    \* bound: blocks that all virtual cores together ask for

Cores  == 0 .. NumCPUs - 1
Blocks == [vcore : VCores, n : 1 .. MaxBlocks]
NoVCore == "none"
NoMsg   == [op |-> "none"]
Idle    == [op |-> "idle"]
Work    == [op : {"block", "overhead"}, block : Blocks]
Block(b)      == [op |-> "block", block |-> b]
OverheadOf(b) == [op |-> "overhead", block |-> b]

ASSUME HypAssumption ==
  /\ NumCPUs \in Nat \ {0} /\ MaxBlocks \in Nat
  /\ IsFiniteSet(VCores) /\ NoVCore \notin VCores
  /\ VIndex \in [VCores -> Cores]
  /\ Overheads \subseteq BOOLEAN

VARIABLES
  overhead,    \* computing_overhead # 0
  hyp,         \* the manager: [vmIDs, coreQueue, saved, toCore], see HypType
  core,        \* pendingMessage of each core
  fromCore,    \* responses on the links from the cores
  vstate,      \* of a virtual core: "free", "waiting" or "answered"
  failed,      \* the simulation has stopped on a null message
  arrived,     \* history: blocks in the order the guests sent them
  started,     \* history: blocks in the order they were given a core
  computed,    \* history: what the cores have computed
  stray,       \* history: messages sent to a guest that are not its answer
  everQueued   \* history: some block has found all cores busy

history == <<arrived, started, computed, stray, everQueued>>
vars == <<overhead, hyp, core, fromCore, vstate, failed, history>>

\* vmIDs: virtual core served by a core.  coreQueue: blocks that wait.  saved:
\* overheadStructure[core]->msg.  toCore: messages on the links to the cores.
HypType ==
  [vmIDs : [Cores -> VCores \cup {NoVCore}], coreQueue : Seq(Blocks),
   saved : [Cores -> Work \cup {NoMsg}], toCore : [Cores -> Seq(Work \cup {Idle})]]

Init ==
  /\ overhead \in Overheads
  /\ hyp = [vmIDs |-> [c \in Cores |-> NoVCore], coreQueue |-> <<>>,
            saved |-> [c \in Cores |-> NoMsg], toCore |-> [c \in Cores |-> <<>>]]
  /\ core = [c \in Cores |-> NoMsg]
  /\ fromCore = [c \in Cores |-> <<>>]
  /\ vstate = [v \in VCores |-> "free"]
  /\ failed = FALSE
  /\ arrived = <<>> /\ started = <<>> /\ computed = {} /\ stray = {} /\ everQueued = FALSE

-----------------------------------------------------------------------------
(* The manager's methods, as functions of its state h.  A definition whose   *)
(* name has a suffix (_Unmarked, _Jump) is a faulty variant of the next      *)
(* one; no specification uses it.                                            *)

FreeCores(h) == {c \in Cores : h.vmIDs[c] = NoVCore}
FirstFree(h) == CHOOSE c \in FreeCores(h) : \A d \in FreeCores(h) : c <= d

Send(h, c, m) == [h EXCEPT !.toCore[c] = Append(@, m)]

\* sendRequestToCore: with an overhead, its message is stored over whatever
\* overheadStructure holds for the core.
SendRequestToCore(h, c, b) ==
  Send(IF overhead THEN [h EXCEPT !.saved[c] = OverheadOf(b)] ELSE h, c, Block(b))

SchedulingCPU_Unmarked(h, b) ==
  IF FreeCores(h) # {}
  THEN SendRequestToCore(h, FirstFree(h), b)
  ELSE [h EXCEPT !.coreQueue = Append(@, b)]

SchedulingCPU_Jump(h, b) ==
  IF FreeCores(h) # {}
  THEN SendRequestToCore([h EXCEPT !.vmIDs[FirstFree(h)] = b.vcore], FirstFree(h), b)
  ELSE [h EXCEPT !.coreQueue = <<b>> \o @]

\* schedulingCPU: the first free core, or the end of the queue.
SchedulingCPU(h, b) ==
  IF FreeCores(h) # {}
  THEN SendRequestToCore([h EXCEPT !.vmIDs[FirstFree(h)] = b.vcore], FirstFree(h), b)
  ELSE [h EXCEPT !.coreQueue = Append(@, b)]

HardwareResponse_Forgets(h, c) == [h EXCEPT !.vmIDs[c] = NoVCore]

\* processHardwareResponse: the core becomes free and the oldest waiting block
\* is scheduled.
HardwareResponse(h, c) ==
  LET freed == [h EXCEPT !.vmIDs[c] = NoVCore] IN
  IF freed.coreQueue # <<>>
  THEN SchedulingCPU([freed EXCEPT !.coreQueue = Tail(@)], Head(freed.coreQueue))
  ELSE freed

\* The block that a call of HardwareResponse starts, for the history.
NextStarted(h) == IF h.coreQueue # <<>> THEN <<Head(h.coreQueue)>> ELSE <<>>

-----------------------------------------------------------------------------
(* Requests of the guests. *)

\* The number of blocks that virtual core v has asked for.
Asked(v) == Cardinality({i \in DOMAIN arrived : arrived[i].vcore = v})

\* A guest's scheduler sends the next block of a virtual core.
RequestBlock(v) ==
  LET b == [vcore |-> v, n |-> Asked(v) + 1]
  IN /\ ~failed /\ Len(arrived) < MaxBlocks
     /\ vstate[v] \in {"free", "answered"}
     /\ vstate' = [vstate EXCEPT ![v] = "waiting"]
     /\ hyp' = SchedulingCPU(hyp, b)
     /\ arrived' = Append(arrived, b)
     /\ started' = IF FreeCores(hyp) # {} THEN Append(started, b) ELSE started
     /\ everQueued' = (everQueued \/ FreeCores(hyp) = {})
     /\ UNCHANGED <<overhead, core, fromCore, failed, computed, stray>>

\* A guest's scheduler has nothing more for a virtual core: the idle message
\* carries the number of the virtual core, which is not translated.
RequestIdle(v) ==
  /\ ~failed
  /\ vstate[v] = "answered"
  /\ vstate' = [vstate EXCEPT ![v] = "free"]
  /\ hyp' = Send(hyp, VIndex[v], Idle)
  /\ UNCHANGED <<overhead, core, fromCore, failed, history>>

-----------------------------------------------------------------------------
(* Responses of the cores. *)

\* sendResponseMessage to the guest.  Only the block itself is an answer; an
\* overhead message that no core has answered would be a new request there.
Answer(m) ==
  IF m.op = "block"
  THEN vstate' = [vstate EXCEPT ![m.block.vcore] = "answered"] /\ UNCHANGED stray
  ELSE stray' = stray \cup {m} /\ UNCHANGED vstate

BlockComputed_AnswersFirst(c, m) ==
  /\ m.op = "block" /\ overhead /\ hyp.saved[c] # NoMsg
  /\ hyp' = [Send(hyp, c, hyp.saved[c]) EXCEPT !.saved[c] = m]
  /\ Answer(m)
  /\ UNCHANGED <<started, failed>>

\* A block comes back and there is an overhead: it changes places with the
\* overhead message, which goes to the same core.
BlockComputed(c, m) ==
  /\ m.op = "block" /\ overhead
  /\ IF hyp.saved[c] = NoMsg
     THEN failed' = TRUE /\ UNCHANGED hyp
     ELSE hyp' = [Send(hyp, c, hyp.saved[c]) EXCEPT !.saved[c] = m] /\ UNCHANGED failed
  /\ UNCHANGED <<vstate, started, stray>>

\* The overhead comes back: the core is given away first, and only then the
\* saved answer is read, sent and forgotten.
OverheadComputed(c, m) ==
  LET h == HardwareResponse(hyp, c) IN
  /\ m.op = "overhead"
  /\ hyp' = [h EXCEPT !.saved[c] = NoMsg]
  /\ Answer(h.saved[c])
  /\ started' = started \o NextStarted(hyp)
  /\ UNCHANGED failed

\* No overhead: the answer goes up at once.
PlainComputed(c, m) ==
  /\ m.op = "block" /\ ~overhead
  /\ hyp' = HardwareResponse(hyp, c)
  /\ Answer(m)
  /\ started' = started \o NextStarted(hyp)
  /\ UNCHANGED failed

\* processResponseMessage.
ProcessResponse(c) ==
  /\ ~failed
  /\ fromCore[c] # <<>>
  /\ fromCore' = [fromCore EXCEPT ![c] = Tail(@)]
  /\ LET m == Head(fromCore[c])
     IN BlockComputed(c, m) \/ OverheadComputed(c, m) \/ PlainComputed(c, m)
  /\ UNCHANGED <<overhead, core, arrived, computed, everQueued>>

-----------------------------------------------------------------------------
(* The cores (CPUcore). *)

CoreReceive_AnyOperation(c) ==
  /\ ~failed
  /\ hyp.toCore[c] # <<>>
  /\ core' = [core EXCEPT ![c] = Head(hyp.toCore[c])]
  /\ hyp' = [hyp EXCEPT !.toCore[c] = Tail(@)]
  /\ UNCHANGED <<overhead, fromCore, vstate, failed, history>>

\* A second block for a core that computes stops the simulation.  So does a block
\* for a core that is off, in the code; that is left out, as no core is off here:
\* the hypervisor sends a change of state to all physical cores before guests
\* run, and a guest's own changes never are to off.
CoreReceive(c) ==
  /\ ~failed
  /\ hyp.toCore[c] # <<>>
  /\ LET m == Head(hyp.toCore[c]) IN
     IF m = Idle THEN UNCHANGED <<core, failed>>
     ELSE IF core[c] # NoMsg THEN failed' = TRUE /\ UNCHANGED core
     ELSE core' = [core EXCEPT ![c] = m] /\ UNCHANGED failed
  /\ hyp' = [hyp EXCEPT !.toCore[c] = Tail(@)]
  /\ UNCHANGED <<overhead, fromCore, vstate, history>>

CoreFinish(c) ==
  /\ ~failed
  /\ core[c] # NoMsg
  /\ core' = [core EXCEPT ![c] = NoMsg]
  /\ fromCore' = [fromCore EXCEPT ![c] = Append(@, core[c])]
  /\ computed' = computed \cup {core[c]}
  /\ UNCHANGED <<overhead, hyp, vstate, failed, arrived, started, stray, everQueued>>

Next ==
  \/ \E v \in VCores : RequestBlock(v) \/ RequestIdle(v)
  \/ \E c \in Cores : ProcessResponse(c) \/ CoreReceive(c) \/ CoreFinish(c)

\* Messages are delivered and computing blocks end: both are events that the
\* simulation kernel has scheduled.
Fairness == \A c \in Cores :
  WF_vars(ProcessResponse(c)) /\ WF_vars(CoreReceive(c)) /\ WF_vars(CoreFinish(c))

Spec == Init /\ [][Next]_vars /\ Fairness

-----------------------------------------------------------------------------
(* Properties.  An overhead and a queue together break the manager (see    *)
(* SavedAnswered): a guest may then never be answered, and the simulation  *)
(* may stop on a null message.                                             *)

Sound == ~(overhead /\ everQueued)

\* Types of the manager's, the cores' and the guests' state.
TypeOK ==
  /\ overhead \in BOOLEAN /\ failed \in BOOLEAN /\ everQueued \in BOOLEAN
  /\ hyp \in HypType
  /\ core \in [Cores -> Work \cup {NoMsg}]
  /\ fromCore \in [Cores -> Seq(Work)]
  /\ vstate \in [VCores -> {"free", "waiting", "answered"}]
  /\ arrived \in Seq(Blocks) /\ started \in Seq(Blocks)
  /\ computed \subseteq Work /\ stray \subseteq Work

\* Only idle messages are on the link s; or besides them w, once.
NoWork(s) == \A i \in DOMAIN s : s[i] = Idle
OnlyWork(s, w) == \E i \in DOMAIN s :
                    s[i] = w /\ \A j \in DOMAIN s : s[j] # Idle => j = i

\* Where the single message w of core c can be: on its way there, being
\* computed, or on its way back.
Arriving(c, w)  == OnlyWork(hyp.toCore[c], w) /\ core[c] = NoMsg /\ fromCore[c] = <<>>
Computing(c, w) == NoWork(hyp.toCore[c]) /\ core[c] = w /\ fromCore[c] = <<>>
Returning(c, w) == NoWork(hyp.toCore[c]) /\ core[c] = NoMsg /\ fromCore[c] = <<w>>
Vacant(c)       == NoWork(hyp.toCore[c]) /\ core[c] = NoMsg /\ fromCore[c] = <<>>
Serves(c, w)    == Arriving(c, w) \/ Computing(c, w) \/ Returning(c, w)

\* vmIDs is exact whatever is in flight: a marked core has one message, a block
\* (or its overhead) of the virtual core it is marked with; a free core has none.
CoreExclusive ==
  ~failed => \A c \in Cores :
               IF hyp.vmIDs[c] = NoVCore THEN Vacant(c)
               ELSE \E w \in Work : Serves(c, w) /\ w.block.vcore = hyp.vmIDs[c]

\* Cores are given in the order in which the guests asked, no block waits
\* while a core is free, and coreQueue holds exactly those that have not started.
FirstComeFirstServed ==
  /\ arrived = started \o hyp.coreQueue
  /\ hyp.coreQueue # <<>> => FreeCores(hyp) = {}

\* A guest is answered only after its block, and with an overhead also the
\* block's overhead, has been computed.
OverheadPaid ==
  [][\A v \in VCores : vstate[v] = "waiting" /\ vstate'[v] = "answered" =>
       \E b \in Blocks : /\ b.vcore = v
                         /\ \A a \in Blocks : a.vcore = v /\ a.n > b.n => Block(a) \notin computed
                         /\ Block(b) \in computed
                         /\ overhead => OverheadOf(b) \in computed]_vars

\* The strengthening that makes CoreExclusive inductive and OverheadPaid follow.
\* What a core or the queue holds is the last block of a virtual core that waits,
\* each of another one; with an overhead the block's copy is saved while the block
\* is computed, unless it has been forgotten, and the block itself, computed, while
\* the copy is.
Saved(c, w) ==
  IF ~overhead THEN w.op = "block"
  ELSE IF w.op = "block" THEN hyp.saved[c] \in {OverheadOf(w.block), NoMsg}
       ELSE hyp.saved[c] = Block(w.block) /\ Block(w.block) \in computed

Outstanding(b) == vstate[b.vcore] = "waiting" /\ b.n = Asked(b.vcore)

CoreHeld(c) ==
  IF hyp.vmIDs[c] = NoVCore THEN Vacant(c)
  ELSE \E w \in Work : /\ Serves(c, w) /\ w.block.vcore = hyp.vmIDs[c]
                       /\ Outstanding(w.block) /\ Saved(c, w)
                       /\ Returning(c, w) => w \in computed

InQueue(b) == \E i \in DOMAIN hyp.coreQueue : hyp.coreQueue[i] = b

QueueHeld ==
  /\ \A b \in Blocks : InQueue(b) =>
       Outstanding(b) /\ \A c \in Cores : hyp.vmIDs[c] # b.vcore
  /\ \A i, j \in DOMAIN hyp.coreQueue :
       hyp.coreQueue[i].vcore = hyp.coreQueue[j].vcore => i = j

OneCoreEach ==
  \A c, d \in Cores : hyp.vmIDs[c] = hyp.vmIDs[d] /\ hyp.vmIDs[c] # NoVCore => c = d

ComputedPast == \A w \in computed : w.block.n <= Asked(w.block.vcore)

Held == (\A c \in Cores : CoreHeld(c)) /\ QueueHeld /\ OneCoreEach /\ ComputedPast

IInv == TypeOK /\ FirstComeFirstServed /\ (~failed => Held)

\* What Sound adds: no copy is forgotten, so that no message is stray or null.
NothingForgotten ==
  Sound => /\ ~failed /\ stray = {}
           /\ overhead => /\ hyp.coreQueue = <<>>
                          /\ \A c \in Cores :
                               hyp.vmIDs[c] # NoVCore => hyp.saved[c] # NoMsg

\* Every block that a guest sends is answered.
EventuallyAnswered ==
  \A v \in VCores : (vstate[v] = "waiting") ~> (vstate[v] # "waiting" \/ ~Sound)

\* "get the saved processed message to send it": what goes up when an overhead
\* ends is the guest's computed block.
SavedAnswered == stray = {}
=============================================================================
