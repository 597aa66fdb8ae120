# Verification of DockerSim / iCanCloud

DockerSim is a discrete-event simulator of container clouds, an extension of
iCanCloud built on OMNeT++ and INET.  Paths below are relative to `src/src/` of
the repository.  The project models the parts of the simulator that carry its
own logic, in TLA+: who may use a core, when a virtual machine is quiet, who gets
a machine and when a user leaves, how the processes of a parallel job meet, and
where a connection between virtual machines ends.  It checks them with TLC on
small instances, and proves the safety properties of every module with TLAPS, for
every value of the constants.

The kernel of OMNeT++ runs one event at a time: a handler runs to its end,
messages travel on links that keep their order, and timers fire after a delay.
In every module an action is therefore one event with all the calls it makes,
and concurrency is what really happens in the simulator: messages of different
links, timers and notifications in any order.

## 1. Inventory

Every `icancloud_Base` module has the handlers `processSelfMessage`,
`processRequestMessage` and `processResponseMessage`.  A message is one object
from request to response, so what a module writes in it comes back with it.

| Component | State it keeps | Operations | What is hard about it | Modelled |
|---|---|---|---|---|
| CPU scheduler, FIFO (`CPU_Scheduler_FIFO`) | `isCPU_Idle`, `requestsQueue`, `queueSize`; the core's index in each message | block, change of state, response | responses free a core by an index that travelled with the block; speed, idle and block messages on one link | `CpuSchedulerFIFO`, whole |
| CPU scheduler, round robin (`CPU_Scheduler_RR`) | the same, and quanta | the same; a block comes back unfinished | a change of state takes a core as a block does | planned |
| CPU core (`CPUcore`) | `pendingMessage`, power state, speed, remaining time | block, state, tick | a second block, or a block while the core is off, is an error that ends the simulation; times | its protocol, in the two modules that use it |
| CPU manager of the hypervisor (`H_CPUManager_Base`, `H_CPU_SCHED_FIFO`) | `vmIDs`, `coreQueue`, `overheadStructure` | block, state, response, set up and free a VM | guests compete; a second computation for the overhead shares its place with the next block's | `HypervisorCpu`, requests and responses |
| Network manager of the hypervisor (`H_NETManager_Base`, `H_NET_SCHED_FIFO`, `LocalNetManager`, `PortAddressTranslation`, the TCP services) | VMs with gate and address, real and virtual ports per VM, waiting requests, listeners and clients of TCP | set up a VM, listen, connect to a VM or to storage, retry, receive, close | a walk over the waiting requests that erases as it goes, one alarm each; ports and addresses used again | `HypervisorNet` |
| Other managers of the hypervisor (memory, storage) | blocks per VM | allocate, free | release at the end of a VM | planned (memory) |
| Message controllers (`VmMsgController`, `DockerDaemon`) | `migrateActive`, `pendingMessages`, four counters, saved `commId`s | request, response, stop, activation | stop and activation at any moment of a request | `MsgController` |
| Cloud manager and FCFS scheduler (`AbstractCloudManager`, `CloudSchedulerFCFS`, `RequestsManagement`, `AllocationManagement`, `StorageManagement`, `AbstractDCManager`) | request queue and temporal queue, VMs of users, pending storage and remote operations, VMs to delete | pass, start, storage, shutdown, abandon, three notifications | joins of notifications, partial answers, requests that arrive during a pass | `CloudManager` |
| Cloud users (`AbstractUser`, `userStorage`, `userBase`, `AbstractCloudUser`, `GeneralUser`) | job queues, VMs with state and pending operation, `pendingVMShutdown`, VMs waiting for storage | arrive, request attended, job finished, self message, schedule, finalize | callbacks of the manager that call back into the manager's queue | `CloudManager` |
| Other schedulers and users (`_gnup`, RR, random; `SmartUser`; generators) | variants | variants | the limit of VMs per node, the index of the next node; counts lowered twice in `SmartUser` | `CloudManager` for `_gnup`, whose pass is that of FCFS; the others not |
| Job queues, machines map | containers | insert, move, remove | bounds of indices | planned (job queues) |
| Network manager of the data centre (`NetworkManager`, `PortTable`, `VirtualIPs`) | addresses of each user's VMs, given-back addresses, ports of each node | allocate, delete, resolve, register | reuse after release, while the old owner is still linked | `NetworkManager` |
| Gate manager | gates and free gates | create, free | reuse after release | planned |
| Main memories, block cache | blocks, read-ahead, delayed writes | read, write, timer | a flush racing a read | not modelled: no module uses the block cache |
| Disks, file systems, volume managers | tables, offsets, times | translate a request | arithmetic | not modelled |
| System calls, system applications | routing | forward by operation | – | environment only |
| MPI library (`MPI_Base`, over `API_OS`) | calls that have arrived (`mpiCallList`), the current call, the barrier array, `pendingACKs`, connections | send, receive, barrier, broadcast, scatter, gather | messages that arrive before the call that wants them; rounds that could mix | `MpiBase` |
| `ApplicationHPC` | state, iteration, counts of responses | read, deliver, compute, receive results, write | a master that takes results from any sender | `ApplicationHPC`, whole |
| Other applications | workload | system calls in sequence | – | not modelled |
| Energy meters, physical scheduler | sums; the physical scheduler's methods are empty (TODO) | – | – | not modelled |

How they interact.  An application's request goes through the message
controller of its VM (and the Docker daemon of its container) to its operating
system, whose scheduler sends blocks to cores.  In a VM these cores are gates
of the hypervisor's CPU manager, which has the cores of the node.  Users call
the cloud manager's request queue directly; the manager answers a START with a
call into the user during its pass, and a STORAGE or a FREE with a call when
the last node has sent its notification; in the call the user sends its next
requests.

The processes of a parallel job are applications in different VMs.  Their messages
go through TCP connections that the hypervisors' network managers have set up: a
listener registers its port with the data centre's network manager, which every
hypervisor asks directly for addresses and ports; the managers of two nodes have
nothing else in common but the messages.

What makes each of them correct:

- *scheduler and hypervisor*: one block per core at a time, though flags are
  written when a message is sent and cores act when it arrives; order of arrival;
  no idle core while a block waits; each block answered, once, to its owner; a
  core is not told to idle while it computes;
- *message controllers*: counters that are exact, so that "prepared to migrate"
  means quiet; nothing lost, doubled or overtaken across a stop; the original
  `commId` back to the application;
- *cloud*: capacity of nodes; no request lost or doubled; a VM is destroyed and a
  job started only after the last notification; no job on a VM that is shutting
  down; users that leave leave nothing, and every user leaves;
- *MPI*: nobody leaves a collective call before the others have entered it; a
  message is taken by the call it was meant for; every job finishes;
- *network*: what is sent comes out where it was meant to; a request that waits is
  answered, or expires; nobody finds what a dead VM left; an address has one owner
  on a node;
- *containers, gates, memory*: what is freed is free, and nobody else's.

`PROJECT.json` lists the hazards, each at its line, with the properties that
watch it.

## 2. Modules

| Module | What it is |
|---|---|
| `CpuService` | abstract: a first-come first-served CPU with `NumCPUs` places, as `ICPU_Scheduler.ned` describes it; no cores, links or flags |
| `CpuSchedulerFIFO` | the scheduler with its links and cores; implements `CpuService` |
| `CpuSchedulerFIFO_proofs`, `CpuSchedulerFIFO_service` | TLAPS proofs about it: its state, and where every block is |
| `HypervisorCpu` | guests, the hypervisor's CPU manager, and cores |
| `HypervisorCpu_proofs` | TLAPS proofs about it |
| `MsgController` | the message controller of a VM, or the Docker daemon, between applications and operating system |
| `MsgController_proofs` | TLAPS proofs about it |
| `CloudManager` | users, request queue, manager, scheduler pass, and the nodes' notifications |
| `CloudManager_proofs` | TLAPS proofs about it |
| `MpiBase` | the calls and messages of the MPI library, as operators on the state of all processes |
| `ApplicationHPC` | its state machine, on top of `MpiBase` |
| `MpiProgram` | processes that run a sequence of collective calls, for the calls `ApplicationHPC` does not use |
| `MpiJobs` | composes the three: a job is one of either kind; the specification |
| `MpiJobs_proofs` | TLAPS proofs about it |
| `NetworkManager` | addresses and ports of the data centre, as operators on two variables |
| `HypervisorNet` | VMs, the hypervisors' network managers with their port translation, TCP; the specification over `NetworkManager` |
| `HypervisorNet_proofs` | TLAPS proofs about it |
| `Sublists` | what a loop keeps of a list that it filters, as an operator on a set |
| `Induction` | TLAPS: induction and recursion over an interval, the first place in a list where something holds, a list with a place less, and the lemmas of `Sublists` |
| `MC*` | instances for TLC |

Definitions with a suffix after an underscore (`HasRoom_OneMore`,
`Flush_NewestFirst`) are faulty variants of the definition after them.  No
specification uses them; substituted for it one at a time they show that each
property can fail.

**CpuSchedulerFIFO.**  `ProcessRequest` = `Dispatch` or `Enqueue` (the two
branches for a block), `ProcessChangeState` (every change of state goes to core
0), `ProcessResponse` = `GiveNextBlock` (a speed message, then the oldest block)
or `GoIdle`.  `toCPU[c]`, `fromCPU[c]` are links; `CoreTake`, `CoreFinish` the
core.  A core throws when a block meets it turned off or with another block pending:
`Stop`, which sets `failed`, and after which nothing happens any more.  `off[c]` is
that a core's power state is 0; a long block looks at it again when it is continued
(`CoreContinue`).  `guest` tells the two places of the scheduler apart, and both are
initial states: in a virtual machine the links lead to the hypervisor, whose cores
are on, and no state of the operating system comes through; in a node without
hypervisor the cores start off, and what the operating system asks for is sent to
core 0 whatever cores it names.  `submitted` and `answered` are histories.

**HypervisorCpu.**  `hyp` holds the manager's fields and the messages to the
cores.  `SchedulingCPU`, `SendRequestToCore`, `HardwareResponse` are functions of
it, composed as the methods call each other; `OverheadComputed` keeps the order of
`processResponseMessage`: the core is given away before the saved answer is
read.  A guest is what `CpuSchedulerFIFO` shows of itself: per virtual core one
block out, and after the answer the next block or an idle message.  `overhead`
is chosen in the initial state.

**MsgController.**  `place[m]` says where the single object of a message is;
`pendingMsg` are the four counters; `commId` is overwritten and restored as the
code does.  `holdsResponses` distinguishes `VmMsgController` from `DockerDaemon`,
where the code that holds responses is commented out.  `Activation` waits for
the answer to the stop, since the migration starts with it.

**CloudManager.**  Handlers of users are functions of the record `w` of the
variables they and the queue share, since they call each other and the
manager's queue within one event.  A pass is `SchedulerBlock`, one of
`RequestStartVM`, `UserStorageRequest`, `RequestShutdownVM`, `AbandonSystem` per
request examined, `SchedulerUnblock`; while `queue.blocked` nothing else happens,
and what users send goes to `temporal`.  `pending` are the manager's counts,
`flight` the notifications under way; the difference of the two is what the
joins are about.  `failed` is a thrown exception, or undefined behaviour: that of
`deleteVMfromStorageNodes`, counted as one, and that of `createConnectionToStorage`,
which reads as many connections of a request as there are storage nodes, while a
request carries one.  With two nodes or more `UserStorageRequest` is a choice
(`ReadsPastEnd`): the read stops the simulation, or yields a number for `pId`, which
is stored where nothing compares it, and the request goes on.

**MpiBase, ApplicationHPC, MpiProgram, MpiJobs.**  The state is that of all processes,
one function of the ranks per field; the operators of `MpiBase` are parts of actions.
`continueExecution`, the application's next step, is called last by every handler,
in the same event: `running` names the process that is inside it, and until it blocks
there is no other event.  `Synchronize` searches `mpiCallList` from its front by kind,
sender and size, as `searchMPICall` does, and the call blocks or goes on;
`ProcessMPICallRequest` is a message that arrives, `CheckBarriers` the array of the
master, `MpiGatherArrives` the count of a root.  `CalculateNextState` of `ApplicationHPC`
has one action per state.  `ProcessResponseMessage` is the whole
`processIOCallResponse` with its checks of state; an unexpected operation is an
error, which ends the simulation; a read or write that the storage answers with an
error ends it too, and is allowed at any access.  Connections exist inside a set
of workers only.  The unsigned counts wrap at `UnsignedWrap`.

**NetworkManager, HypervisorNet.**  `NetworkManager` has no events of its own, so it
has no `Next`: its operators are used in the actions of `HypervisorNet`.  Addresses
are numbers; they stay in the last octet, where octet-wise arithmetic is that of
numbers (`IpBasis` is 10.0.0.1 as a number).  `Hole` keeps what `generateHole` does: a given-back address comes back
as its distance from the basis, not as the address it was.  A request is followed
from the application back to it.  `CreateConnection`, `Target` and
`EnqueuePendingMessage` are the first try; `CheckPendingMessages` is one alarm, and
its `Walk` goes over the list with the index of the code, so that an erased entry
hides the next one, an entry that was looked at in vain sets a new alarm, and a
connection of an application whose port is open now is erased without more ("lost").
`GetNewPort` gives a listener a port that was given back, or the next one no
connection has; when there is none the code throws or, if all up to the last are in
use, reads past the end of `freePorts`, and `NoPorts` counts both as the exception.
`SetHBS` is the way round by the storage cells, `TcpConnect` and
`ConnectionStablished` the two ends of TCP's part, `ReceiveMessage` the lookup by
address of the VM and by port of the application.  `ManageCloseConnections` is
one node's part of closing a VM, in any order over the nodes.  An exception puts
its text in `error` and ends the behaviour.

## 3. Runs

| Run | Instance | Shows |
|---|---|---|
| `cpu_fifo` (59 415 states) | 4 blocks, 2 cores, a guest or a node, the OS turns cores on and off on links shorter than 2 | `TypeOK`, `CoreExclusive`, `QueueDiscipline`, `ExactlyOnce`, `NeverIdledWhileComputing` on cores that only the scheduler talks to, `EventuallyAnswered`, `ImplementsService` (refinement with liveness) |
| `hypervisor_cpu` (485 564) | 2 cores, 4 virtual cores of 3 guests, 4 blocks in all, with and without overhead | `TypeOK`, `CoreExclusive`, `FirstComeFirstServed`, `OverheadPaid`, `EventuallyAnswered` (which an error that stops the simulation would break) |
| `msg_vm` (18 407) | 3 application messages of 2 kinds, one OS message, 2 stops, VM and daemon | `TypeOK`, `CountersExact`, `AnsweredOnce`, `OrderKept`, `ReadyMeansQuiet`, `ClosedWhileMigrating`, `RankKept`, `StopAnswered` |
| `cloud` (69 901) | 3 users, 2 nodes with room for 1 VM each; 3/2/1 jobs on 2/1/1 VMs, files on 0/2/1 servers | `TypeOK`, `CapacityKept`, `Accounted`, `JoinComplete`, `NoJobOnDyingVM`, `GoneUsersClean`, `FailsOnlyByOverread`, `FilesDeleted`, `UsersLeave` |
| `mpi` (101 588) | 4 processes in one set of 4 or two of 2, 2 iterations, every choice of who reads and writes; programs of 3 processes | `TypeOK`, `RoundClosed`, `InRound`, `LeavesTogether`, `JobFinishes` |
| `net` (109 338) | 2 nodes, 2 users, 4 VMs, three workloads | `TypeOK`, `AlarmAhead`, `ReachesTarget`, `AddressesKept`, `GoneLeavesNothing`, `Answered` |
| `msg_rank`, `hypervisor_overhead`, `cloud_left`, `cloud_remote`, `mpi_gathers`, `net_early` | see section 5 | one violation each |

*Bounds, and why they are enough.*  `cpu_fifo`: with twice as many blocks as
cores both cores are busy, two blocks wait, and each core goes through idle,
first block, next block, idle again; in a node, core 0 is turned on before, while or
after it gets a block, or never, and turned off again.  `MaxLink` only limits the messages of the
operating system, which the code never answers; the scheduler's own are limited
by its blocks.  The theorems do not depend on either.  `hypervisor_cpu`: four
virtual cores over two cores let two blocks wait at once, or a virtual core come
back with a second block while others compute; two virtual cores have the same
number in different guests.  `msg_vm`: two network messages whose order can
be seen, another kind for the counters, a second stop after an activation.
`cloud`: the three users want four VMs where two fit, so according to the order
of arrival a START is served, refused or answered in parts, VMs are reused, a
user has more jobs than VMs, and another waits for notifications of three nodes.
Each user leaves at most once and jobs are finite, which bounds everything else.
`mpi`: with four processes in one set a fast worker can be an iteration ahead of a
slow one, with two sets masters and workers of different sets run side by side, and
two iterations make the first meet the second; the programs put sends, receives,
broadcasts, scatters and gathers between barriers, so that arrays and lists are
used again.  Counts stay far below the wrap at 8.  Sets of 0 or 1 processes are
left out (a hazard in the list).  `net`: one workload has a client, its server, a VM
that may take over the client's address and port, and another user's VM with the
server's address and port on the server's node; the second has two requests for
storage on one node that wait, are retried, succeed or expire in any order, so that
erasing one hides the other; in the third one VM has both kinds of connection and a
listener of its own.  `MaxTimes` = 1 stands for 60 tries and `ConnectionTimeout` = 0
for 15 seconds: what matters is that the second is the smaller.  Eight ports leave
room for every listener and client.

*Deadlock* is not checked: in each instance the work is finite, and the system
rightly stops when it is done.  What must not be left undone is stated by
the liveness properties.

*Fairness.*  Weak fairness of deliveries and of the end of computations: the
kernel has these events in its list and its time advances (`cpu_fifo`,
`hypervisor_cpu`, `msg_vm`); in `mpi` the next event of any kind happens, which is
all the event loop promises and enough for jobs to finish; in `net` it is the events
under way (alarms, messages, closings) as a group.  Requests of guests, applications and stop orders
are never assumed.  In `CloudManager` the pass is weakly fair, as its alarm
re-arms itself; events of nodes and jobs are strongly fair as a group: each pass
disables them for a while, but the alarm has a positive period and their delay
is finite, so passes cannot go before them for ever.  Arrival of users is not fair.

*Conditions in properties.*  `EventuallyAnswered` and the liveness half of
`ImplementsService` of `CpuSchedulerFIFO` hold without condition in a guest, and in a
node unless a block meets a core that is off (`NodeStopped`); `CoreExclusive` says that
nothing else stops the simulation, and never in a guest.  `CoreExclusive` of `HypervisorCpu` speaks of a simulation
that has not stopped (`~failed`), `FirstComeFirstServed` of every state;
`EventuallyAnswered`, and the theorem `NothingIsForgotten`, of runs where no overhead
meets a queue (`Sound`), because there the first finding loses answers.
`GoneUsersClean`, `FailsOnlyByOverread` and `UsersLeave` of `CloudManager`
hold until the first START is answered in parts (`partial`); the last two name the
read past the connections of a request (`AtOverread`), which user b with two servers
may meet, as the only other way to end.  Both sides of each
condition are reached in the runs.  `CountersExact` holds while
applications answer nothing that the OS asked them (`OsAnswered = {}`), since
responses are counted whoever asked; no application of the repository does so.

In `net` an application asks for a VM's port only after the VM listens on it
(`Early` is FALSE), because of the finding of `net_early`; storage may be asked for
early.  `CloseVMConnections` waits until the jobs of the VM are over, and those of the
VMs connected to it (`Finished`): the cloud closes VMs only then, and the code throws
otherwise.

## 4. Proofs

Every theorem holds for every value of the constants that the named assumptions
allow. The assumptions of a model are in its module (`ASSUME`), so TLC evaluates
them in each run; those in the last column are further hypotheses of the theorem.

| Module | Theorem | Property | Hypotheses |
|---|---|---|---|
| `CpuSchedulerFIFO_proofs` (`CpuAssumption`: at least one core, `NoBlock` is not a block) | `Invariant` | `IInv` | – |
| | `TypeCorrect` | `TypeOK` (no `DECREMENT_SPEED` is ever sent: that branch of `processResponseMessage` is dead) | – |
| | `CoresAreExclusive` | `CoreExclusive` | – |
| | `OnlyFirstCoreComputes` | in a node without hypervisor, no other core than 0 is ever turned on or takes a block | – |
| | `QueueIsFair` | `QueueDiscipline` | – |
| `CpuSchedulerFIFO_service` | `CoresStayAwake` | `NeverIdledWhileComputing` | – |
| | `NoBlockLost` | `ExactlyOnce` | – |
| | `ProvidesService` | the safety half of `ImplementsService` | – |
| `HypervisorCpu_proofs` (`HypAssumption`: at least one core, finitely many virtual cores) | `Invariant` | `IInv` | – |
| | `TypeCorrect`, `CoresAreExclusive`, `ServedInOrder`, `AnswersArePaid` | `TypeOK`, `CoreExclusive`, `FirstComeFirstServed`, `OverheadPaid` | – |
| | `NothingIsForgotten` | `NothingForgotten` | – (`Sound` is in it) |
| `MsgController_proofs` (`MsgAssumption`: finitely many messages, with kinds, gates and ranks) | `Invariant`, `InOrderInvariant` | `IInv`, `InOrder` | – |
| | `CountersAreExact` | `CountersExact` | – (`OsAnswered = {}` is in it) |
| | `StopAnsweredOnce`, `ReadyIsQuiet` | `AnsweredOnce`, `ReadyMeansQuiet` | `OsAnswered = {}` |
| | `StoppedIsClosed`, `OrderIsKept` | `ClosedWhileMigrating`, `OrderKept` | – |
| | `RanksAreKept` | `RankKept` | every network message of an application has a rank |
| | `TypeCorrect` | `TypeOK` | – (the counters are natural numbers if `OsAnswered = {}`, which is in it) |
| `CloudManager_proofs` (`CloudAssumption`: finitely many users, no user with more VMs than jobs) | `Invariant` | `IInv` | – |
| | `TypeCorrect`, `CapacityIsKept`, `NobodyIsForgotten` | `TypeOK`, `CapacityKept`, `Accounted` | – |
| | `NotifiedByAll`, `JobsAreSafe` | `JoinComplete`, `NoJobOnDyingVM` | – |
| | `LeftIsClean` | `GoneUsersClean` | – (until a START is answered in parts, which is in it) |
| | `HandlersFindAll`, `FilesAreDeleted` | `FailsOnlyByOverread`, `FilesDeleted` | `OneRemote` |
| | `NothingFails` | no failure at all until a START is answered in parts | `OneRemote`, no user with more than one storage node |
| `HypervisorNet_proofs` (`BasisAssumption`, `PortAssumption`, `WorkloadAssumption`) | `AlarmsSuffice` | `AlarmAhead` | `Limits` |
| | `Invariant` | `IInv` | `Limits`, `AddressRoom`, `IdsDiffer` |
| | `TypeCorrect`, `DataArrives` | `TypeOK`, `ReachesTarget` | the same |
| | `AddressesAreKept`, `GoneIsClean` | `AddressesKept`, `GoneLeavesNothing` | the same |
| `MpiJobs_proofs` (`JobsAssumption`, `WrapAssumption`: what the files of a job can say, and sets smaller than the wrap of an unsigned) | `Invariant` | `IInv` | – |
| | `TypeCorrect` | `TypeOK` | – |
| | `RoundIsClosed` | `RoundClosed` | – |
| | `RoundsDoNotMix` | `InRound`, for the jobs of `ApplicationHPC` | – |
| | `OnlySystemCallsStop` | the safety half of `JobFinishes`, for the same: `error` is `"none"` or `"I/O"` | – |
| | `AllEnterFirst` | `LeavesTogether` | `Aligned(Jobs)` |

**Hypotheses that are not the model's.** `OsAnswered = {}`: applications answer
nothing that the operating system asked them; without it a response to the OS would
lower a counter nobody raised. `Limits`: `ConnectionTimeout` (15 unless configured)
is not above `MaxTimes` (the constant 60 of `H_NETManager_Base.cc:475`); otherwise a
request that is neither young enough for another alarm nor old enough to expire is
left without one. `AddressRoom`: there are no more VMs than the number of the first
address, which is 167 772 161 for 10.0.0.1, the address of every configuration of
the repository; with more, the chains of holes below would meet. `IdsDiffer`: no VM
has the identifier of a user, as both are identifiers of OMNeT++ modules; the port
of a client is registered with user and VM in each other's place
(`LocalNetManager.cc:213`), so a VM with the number of a user would be found through
it. `OneRemote`: a user with remote storage has one VM. Without it the entry of the
user is deleted with the first of its VMs (finding 4), and the run `cloud_remote` shows
`FilesDeleted` violated; the users of run `cloud` satisfy it. `Aligned(Jobs)`: all
processes of a program make the same barriers and gathers at the same places, which
MPI asks of a program, and between two gathers of one root there is a barrier, which
MPI does not ask: without it `LeavesTogether` is violated (finding 5). TLC evaluates
it with the instance (`CallsAssumption`): the programs of run `mpi` satisfy it, those
of run `mpi_gathers` do not. Nothing is assumed of the order of sends, receives and
calls from a root.

**`CpuSchedulerFIFO`.** `FlagsTruthful`, the first half of `CoreExclusive`, by itself is
not inductive: a response frees
the core named *in the message*, so one must know that the index in a message is the
core the message is on. `IndexCarried` says so for the three places a block can be
in. When a block gets its index, that of no other block on a core may change:
`NotYetPlaced` says that a block not yet submitted, or still in the queue, has index
`NOT_FOUND`, hence is on no core (by `IndexCarried`), and that the queue has no
block twice. The second half, `OnlyOffCoreStops`, follows from the first for a second block, and
`StopExplained` adds that a guest's cores stay on.  `QueueDiscipline` supplies that the speed message is always
`INCREMENT_SPEED` (`queueSize` is the length) and that a block is dispatched at once
only when none waits. `IInv` is the conjunction. The proof has a lemma for each
handler; `OtherCore` disposes of all cores a handler does not touch, and lemmas on
links (`SendState`, `SendExec`, `TakeFirst`) say what appending or taking a message
does to "no block" and "one block" of a link.

Where every block is (`CpuSchedulerFIFO_service`) is an argument over kinds of
steps: whatever the handler, a step does nothing to the blocks, starts one, lets one
wait, or ends one. Each of these four is a step (or a stutter) of `CpuService` under
the refinement mapping, and each keeps the sets of waiting, running and answered
blocks disjoint, which is `ExactlyOnce`. `NeverIdledWhileComputing` needs the order
of a link: on a core that only the scheduler talks to, an idle message is in front
of the block on the link, never behind it.

**`HypervisorCpu`.** With an overhead, a core's block travels as two messages, and
what comes back second is read from `overheadStructure`. `CoreHeld` says what a core
that is marked has: exactly one message, on the way there, in it or on the way back,
which is the last block of the virtual core that is marked, or its overhead; and
what is saved for it. `QueueHeld` and `OneCoreEach` keep virtual cores apart: each
one waits at most once, or has one core. The saved copy may be gone (the first
finding), so `Saved` lets it be empty, and says nothing about the answer in that
case: exclusion and order are proved through the finding, until the simulation stops
on the null message. `NothingForgotten` is the condition under which the copies are
there.

**`MsgController`.** `CountersExact` equates a counter with the cardinality of a
set, and every step but one moves a single message in or out of that set. The
exception is the flush, which adds all held requests at once: their number is right
because what is held is nowhere else (`HeldAreHeld`), so the set added is disjoint
from the one that is there. "Answered once" needs to know when an answer is still
owed: `StopPending` says that with the traffic stopped a counter that is not zero
means one answer too few, and with the traffic open none is owed; the response that
brings the counters to zero finds them non-zero before, by `CountersExact`.
`RanksSaved` says that a message has its own rank until it is sent, that no entry of
`commVector` has a wrong rank, and that there is one for every ranked request that
is out or held, so `RestoreCommId` finds it. `InOrder` splits the requests made, in
their order, into those that are through and those held; the flush appends exactly
the second part to the first.

**`CloudManager`.** An event calls methods of users that call each other and loop
over VMs. Each method is a function of the world, and has a lemma that it turns any
good world (`GoodWorlds`, the types) with an invariant (`Sound`) into another; a
handler composes them. `Sound` has four parts: `ListsExact` (a user's list has
exactly its jobs that wait), `JobsPlaced` (a job has its VM alone, linked and in the
right state), `VMsConsistent`, and `Balanced`, which says for each VM that shuts
down that there is one FREE in the queues or the VM is to be deleted, and for each
job that waits for storage that there is one STORAGE or the storage nodes are asked.
Its parameters are the VMs to delete and the jobs asked, since a pass moves requests
between the queue and the manager in the middle of an event. `Room` is the capacity,
and `Joins` that the manager counts exactly the notifications under way. `IInv` is
the conjunction.

That a user leaves nothing behind (`GoneUsersClean`) is about a user that decides by
itself, from its lists, that it has ended. `Whole` says of each user: it has all of its
VMs or none yet, none is linked and forgotten, and if it leaves, or has asked to, its
VMs are gone and its jobs finished. Most of what happens in the cloud is `Calm`: no VM
comes or goes and no user leaves, so `Whole` is kept whatever else changes, and calm
steps compose. Three kinds of steps are not calm: a START that is served, which with
`IInv` gives all VMs at once or sets `partial`; a VM that goes, with the last
notification; and a user that finalizes, for which `ListsExact` and `VMsConsistent` give
that nothing is left. `LeftInv` is `partial \/ Whole(World)`. For
`FailsOnlyByOverread` and `FilesDeleted` one more part, `Files`, ties the entries of remote storage to the VMs
whose files are on the servers. A stop leaves the pass where it was, so the stopped state
still shows the request that was examined, which is what `AtOverread` asks for.

**`HypervisorNet`.** An address that was given back returns as its distance from the
basis (`Hole`), so `AddressesKept`, which says that no two linked VMs of a user on a
node have one address, is about more than a set of free addresses: the old owner is
still linked while its address, reduced, is given to another VM. Call two addresses
of one *chain* when they differ by a multiple of the basis. `Chains`: addresses in
use and holes of a user are all of different chains, and every chain was begun at
one of the addresses from the basis to the last one given; with `AddressRoom` no two
of these are of one chain, so a new address begins a new one. `Forward`: the address
of a linked VM is not below what is left of its chain, and above each hole, so
nothing that is given later can be equal to it. From these follow that lookups by
address find the VM that was meant, and `Routed` carries it along a connection to
`ReachesTarget`; `ListenersKept` does for ports what `Chains` does for addresses: a
registered real port has one listener, that of the VM it is registered for.
`CellsKept`, `LinkedKept`, `PortsKept` and `Closing` say of every table that it has
only VMs that the node has not closed yet, which gives `GoneLeavesNothing`.
`AlarmAhead` and `WaitingKept` go through `Walk`: an entry is kept with an alarm of
its own, kept because the one before was erased, or erased, so by induction over the
walk alarms are as many as entries.

**`MpiJobs`, the rounds of `ApplicationHPC`.** `RoundClosed` says little about the other
states, and `InRound` nothing about what is to come. The invariant goes by pairs of a
master and one of its workers. In a round of the master the worker is `Fresh` (nothing
between them), `Offered` (its data is on the way, or in its list if it has not asked
yet), `Working`, `Answered` (its result is on the way, and it may already be an
iteration ahead) or `Done`; `Pair` says which of these go with which state of the
master. In each of them what is between the two is at most one message, which is why a
search by sender and size alone takes the right one, and why a worker is never more
than one iteration ahead. `Counted` says that `totalResponses` is the number of workers
whose result the master has not taken (`Untaken`), and one more for the result it has
just taken: so zero means `Done` for all, whoever was first. `Silent`: nobody else
talks. Sets of 0 and of 1 are included: there the master waits for ever for its first
result (`WaitsForNobody`, a hazard of the list), so it never closes a round wrongly.
`OnlySystemCallsStop` adds that a process that runs is connected to its whole set.

**`MpiJobs`, barriers and gathers.** `Told`: who is in a barrier has told the master,
or is in its array, or has been told that it is lifted: exactly one of the three, and
no message of another barrier is on that connection. `Together`: of any barrier of the
program, if one process has passed it (has left it, or may), all have. When the array
is full, all are in a barrier that none has passed, which therefore is the same one for
all: this is what makes an array that is used again, and messages without a number,
enough. For a gather, `Sendings`: its messages are for the gather that the root is in,
or has not reached; `Ahead`: who is past it has a message at the root as long as the
root has not reached it, and the root leaves it only after all have come to it;
`Counting`: `pendingACKs` is the number of processes that have not sent yet or whose
message is on the way (`Missing`). That two messages of one sender never wait for one
root is where the barrier between two gathers is used. `Free` says that a process that
goes on was in no call, or in the one that ends. `CallInv` is the conjunction, until an
error stops the simulation; a job of `ApplicationHPC` calls neither.

**Induction.** What a loop computes is a recursive function over an interval, and
the library's induction theorems take an operator as a parameter, which the provers
cannot instantiate. `Induction` goes round that with *sets*: a set of numbers that
has 0 and the successor of each of its members has the whole interval (`UpTo`), by
the least element of the rest (`Least`, from the well-foundedness of < on the
naturals); `Recursion` shows that a step function on any set has a solution over an
interval, so a value chosen by its recursive definition is that solution. A property
of a loop is then the set of indices at which it holds. Filters (`SelectSeq` over a
queue, a list of VMs or of ports) are written `Within(list, S)`, and their elements,
order and places are lemmas over any set.

*Model-checked only.* Liveness stays with TLC, because the prover handles neither
ENABLED nor fairness: `EventuallyAnswered`, `StopAnswered`, `UsersLeave`,
`JobFinishes`, `Answered` and the liveness half of `ImplementsService`. `InRound` of
programs is model-checked for those of the run: it is about programs in which a message
is sent and taken in calls of the same number, so it depends on the program. All other
safety properties of the passing runs are theorems. Properties of the runs of section 5 are
violated, so there is nothing to prove.

## 5. Findings

1. `hypervisor_overhead`: when the overhead of a block has been computed,
   `H_CPUManager_Base.cc:178` gives the core to the next waiting block, which
   stores its own message in `overheadStructure`, and line 180 reads the answer
   from there: it sends the wrong message.
2. `msg_rank`: a response held during a migration reaches the application
   without its `commId` restored (`VmMsgController.cc:165`).
3. `cloud_left`: a user whose START was answered in parts may finish its jobs and
   leave while the rest of the START is queued; served later, it ends the
   simulation with an exception.
4. `cloud_remote`: `AllocationManagement.cc:248` deletes the user's whole entry
   of remote storage with the first VM: the files of the second are not deleted.
5. `mpi_gathers`: `MPI_Base.cc:690` counts every gather message, whoever sent it. In
   two gathers in a row a fast process is counted twice, and the root leaves before
   a slow process has entered.
6. `net_early`: `H_NETManager_Base.cc:498` erases a waiting connection between
   VMs when its port has opened, without sending it; the application waits for ever.

Other observations that the model contains and no violated run is about: in a node
without hypervisor the first block for another core than 0 stops the simulation, as
cores start off (`CPUcore.cc:47`), throw when a block arrives then (`CPUcore.cc:146`),
and are turned on through `CPU_Scheduler_FIFO.cc:134` only, which sends to core 0;
a job with files on two storage nodes or more makes `StorageManagement.cc:190` read past
the one connection of its request (`userStorage.cc:154`); a VM given to a
user without waiting jobs is "shut down" while OFF, which does nothing
(`AbstractCloudUser.cc:175`), so it stays linked for ever; the idle message of a virtual core goes to the
physical core of the same number, whatever it computes (`H_CPUManager_Base.cc:122`);
the ports of clients are registered with user and VM swapped
(`LocalNetManager.cc:213`) and never freed, and neither are the ports of listeners
(`Vm_VirtualPort_Cell.cc:149`); after a STORAGE
request the next request of the pass is skipped (`CloudSchedulerFCFS.cc:125`), which
costs order, not completion.

Outside the model: the round-robin and the random cloud scheduler compare the number of
VMs of a node with `numberOfVMperNode` and take the node whatever the result
(`CloudSchedulerRR.cc:214`, `CloudSchedulerRandom.cc:234`), and round robin wraps its
index one node too late (`CloudSchedulerRR.cc:223`).  The block model of the memory
(`RAMMemory_BlockModel.cc:211`) sends a request on as a whole when it has been searched
for, and also the blocks it was split into, whose last answer would return the same
message object; no module of the repository uses it.

## 6. What the models leave out

- *Times, speeds, sizes.*  A delay is a nondeterministic moment.  The arithmetic
  of `CPUcore` (ticks, quanta) and of overheads is planned.
- *HypervisorCpu*: `setVM` and `freeVM`, which resize gates; the check of
  `CPUcore.cc:146` for a core that is off, which is never met here: the state messages
  of a node with hypervisor are expanded to all physical cores
  (`H_CPUManager_Base.cc:112-123`), the node is on before its VMs run, and no message of
  a guest turns a core off.
- *MsgController*: gates, virtual addresses, linking of applications.
- *CloudManager*: one type of VM and of node; storage nodes have space (a request
  without space is dropped with a message in the code);
  nodes are on, memory is not counted; a job has one file system, local or remote;
  results and logs; the search of `StorageManagement` through its nested vectors,
  of which the counts are kept.  `GeneralUser` never has a negative count of VMs at
  start-up.  The result of `testLinkVM` is ignored by the code, and by the model.
- *MPI*: `mpi_irecv`, which nothing calls; `connectionDelay_s` and `startDelay_s` are
  taken to be long enough, so nobody connects before the other listens; file names
  and offsets, and sizes except where the list is searched by them.
- *HypervisorNet*: the lookups of `manage_sendMessage` (`LocalNetManager.cc:317-393`),
  which change nothing and succeed while both VMs are up; TCP, which gives a client any port no one on the node has; the
  closing of a single connection, migration, the node's own connections (user 0),
  `SM_SET_IOR` on remote nodes, the overhead (a delay), the way of answers back through
  the storage cells, the listeners' side of a closed connection; a VM with a fixed
  address.  Identifiers of VMs are unique in the simulation, as OMNeT++ makes them;
  virtual addresses are not, and users share them.
- Components marked not modelled in section 1: drivers of tables and times
  without a protocol of their own, stubs, or parts of the plan below.

## 7. Plan

Order of the modules to come, most important first.

1. **Proofs that are left.**  Of the safety properties only `InRound` for programs:
   first for a class of programs, those in which every message has a receive of its
   own kind, sender and size at the same place for all.
2. **CpuSchedulerRR** with the arithmetic of `CPUcore`: quanta, blocks that return
   unfinished; what a change of state does to the flags; fairness among blocks.
3. **PendingStorage**: `StorageManagement` in full, with two requests per job
   (local and remote) and the nested vectors, as the detail that `CloudManager`'s
   counts abstract.
4. **GateManager** and **JobQueue**: operators checked against reference definitions
   (sets of free gates, sequences); later composed with `MsgController` for reuse of
   gates while a message is on its way.
5. **HypervisorNet**, more of it: the closing of a single connection and migration;
   a workload where a listener is given the port of a client that is not established
   yet.
6. **HypervisorMemory**: allocation per VM and release.

New runs are few, and each is to answer a question of its own: one for
round robin, one for pending storage, one for the memory of the hypervisor.  The properties to be
stated there come from the hazards in `PROJECT.json` that have no property yet.
