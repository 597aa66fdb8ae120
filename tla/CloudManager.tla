---------------------------- MODULE CloudManager ----------------------------
(***************************************************************************)
(* The cloud: AbstractCloudManager with CloudSchedulerFCFS, and its users  *)
(* (GeneralUser), from the request for virtual machines to the day the     *)
(* user leaves.                                                            *)
(*   - A user sends requests to the manager's queue: START its VMs, the    *)
(*     STORAGE of a job, FREE a VM, ABANDON the system.  While a pass of   *)
(*     the scheduler runs, new requests wait in a temporal queue.          *)
(*   - The manager answers a START with a call into the user, and a        *)
(*     STORAGE or a FREE after notifications of the nodes, which arrive in *)
(*     any order: a VM is unlinked from its node only when the files and   *)
(*     the connections of all its nodes are gone.                          *)
(*   - A user gives jobs to idle VMs, one each, and frees a VM it has no   *)
(*     job for.                                                            *)
(* The simulator handles one event at a time: an action is one event and   *)
(* all the calls it makes.  The pass of the scheduler is cut into its      *)
(* iterations, and no other event happens in between.                      *)
(***************************************************************************)
EXTENDS Integers, Sequences, FiniteSets

CONSTANTS
  Users,
  NumNodes,    \* compute nodes, all of one type
  MaxVMs,      \* maximum_number_of_processes_per_node
  NumJobs,     \* [Users -> Nat \ {0}]
  Quantity,    \* [Users -> Nat \ {0}]: VMs asked for, at most one per job
  Servers      \* [Users -> Nat]: storage nodes of a job's file system, 0 if local

Nodes == 1 .. NumNodes
NoNode == 0
VMsOf(u)  == {u} \X (1 .. Quantity[u])
JobsOf(u) == {u} \X (1 .. NumJobs[u])
VMs   == UNION {VMsOf(u) : u \in Users}
Jobs  == UNION {JobsOf(u) : u \in Users}
NoVM  == <<>>

Start(u)      == [op |-> "start", user |-> u]
Abandon(u)    == [op |-> "abandon", user |-> u]
Free(v)       == [op |-> "free", user |-> v[1], vm |-> v]
Storage(j, v) == [op |-> "storage", user |-> v[1], vm |-> v, job |-> j]
Requests == {Start(u) : u \in Users} \cup {Abandon(u) : u \in Users}
              \cup {Free(v) : v \in VMs} \cup {Storage(j, v) : j \in Jobs, v \in VMs}

ASSUME CloudAssumption ==
  /\ IsFiniteSet(Users) /\ NumNodes \in Nat /\ MaxVMs \in Nat
  /\ NumJobs \in [Users -> Nat \ {0}]
  /\ Quantity \in [Users -> Nat \ {0}] /\ Servers \in [Users -> Nat]
  /\ \A u \in Users : Quantity[u] <= NumJobs[u]

VARIABLES
  queue,      \* RequestsManagement: [blocked, requests, temporal, next]
  vm,         \* [VMs -> [state, pending, host]]
  job,        \* [Jobs -> [place, vm]]: the queue of its user a job is in
  user,       \* [Users -> [status, waiting, shutdowns, wake]]
  awaiting,   \* vms_waiting_remote_st of all users
  stored,     \* userVmData: one entry per remote storage request of a user
  pending,    \* the manager's counts, see PendingType
  flight,     \* notifications on their way to the manager
  toDelete,   \* reqPendingToDelete, one VM each
  failed,     \* the simulation has stopped with an error
  partial,    \* history: a START was answered with only some of its VMs
  dirty       \* history: VMs with files on the storage nodes

world == <<queue, vm, job, user, awaiting>>
vars  == <<world, stored, pending, flight, toDelete, failed, partial, dirty>>

\* connect: numberOfConnections of a storage request.  format, close:
\* remoteStorageQuantity and connectionsQuantity of a VM.
PendingType == [connect : [Jobs -> Int], format : [VMs -> Int], close : [VMs -> Int]]

Init ==
  /\ queue = [blocked |-> FALSE, requests |-> <<>>, temporal |-> <<>>, next |-> 1]
  /\ vm = [v \in VMs |-> [state |-> "none", pending |-> "none", host |-> NoNode]]
  /\ job = [j \in Jobs |-> [place |-> "waiting", vm |-> NoVM]]
  /\ user = [u \in Users |-> [status |-> "new", waiting |-> [i \in 1 .. NumJobs[u] |-> <<u, i>>],
                              shutdowns |-> 0, wake |-> 0]]
  /\ awaiting = {}
  /\ stored = [u \in Users |-> <<>>]
  /\ pending = [connect |-> [j \in Jobs |-> 0], format |-> [v \in VMs |-> 0],
                close |-> [v \in VMs |-> 0]]
  /\ flight = pending
  /\ toDelete = {} /\ failed = FALSE /\ partial = FALSE /\ dirty = {}

-----------------------------------------------------------------------------
(* The users.  Their methods call each other and the manager's queue within  *)
(* one event: they are functions of w, the record of the variables `world'.  *)
(* A definition whose name has a suffix (_Uncounted, _Keep ...) is a faulty  *)
(* variant of the next one; no specification uses it.                        *)

World == [queue |-> queue, vm |-> vm, job |-> job, user |-> user, awaiting |-> awaiting]
Become(w) ==
  \E s \in {w} : /\ queue' = s.queue /\ vm' = s.vm /\ job' = s.job
               /\ user' = s.user /\ awaiting' = s.awaiting

Waiting(w, u) == w.user[u].waiting
Processes(w, v) == {j \in Jobs : w.job[j].vm = v /\ w.job[j].place \in {"storage", "running"}}
Exists(w, v) == w.vm[v].state \notin {"none", "gone"}
ON(w, v)     == Exists(w, v) /\ w.vm[v].state # "OFF"
IsIdle(w, v) == w.vm[v].state = "IDLE" /\ w.vm[v].pending = "none"

UserSendRequest(w, r) ==
  IF w.queue.blocked THEN [w EXCEPT !.queue.temporal = Append(@, r)]
                     ELSE [w EXCEPT !.queue.requests = Append(@, r)]

ShutdownVM_Uncounted(w, v) ==
  IF ~ON(w, v) THEN w
  ELSE UserSendRequest([w EXCEPT !.vm[v].pending = "shutdown"], Free(v))

ShutdownVM(w, v) ==
  IF ~ON(w, v) THEN w
  ELSE UserSendRequest([w EXCEPT !.vm[v].pending = "shutdown",
                                 !.user[v[1]].shutdowns = @ + 1], Free(v))

CreateFS(w, j, v) ==
  UserSendRequest([w EXCEPT !.job[j] = [place |-> "storage", vm |-> v],
                            !.user[j[1]].waiting = Tail(@),
                            !.vm[v].pending = "storage",
                            !.awaiting = @ \cup {v}], Storage(j, v))

\* Each idle VM, in the order of the user's map, takes the first waiting job.
AssignOne(w, v) ==
  IF IsIdle(w, v) /\ Waiting(w, v[1]) # <<>> THEN CreateFS(w, Head(Waiting(w, v[1])), v) ELSE w

AssignJobs(w, u) ==
  LET upTo[n \in 0 .. Quantity[u]] ==
        IF n = 0 THEN w ELSE AssignOne(upTo[n - 1], <<u, n>>)
  IN upTo[Quantity[u]]

FreeIdleVMs_Any(w, u) ==
  LET upTo[n \in 0 .. Quantity[u]] ==
        IF n = 0 THEN w
        ELSE LET s == upTo[n - 1] IN
             IF s.vm[<<u, n>>].state = "IDLE" THEN ShutdownVM(s, <<u, n>>) ELSE s
  IN upTo[Quantity[u]]

\* Every VM that is idle and has no process is shut down.
FreeOne(w, v) == IF IsIdle(w, v) /\ Processes(w, v) = {} THEN ShutdownVM(w, v) ELSE w

FreeIdleVMs(w, u) ==
  LET upTo[n \in 0 .. Quantity[u]] ==
        IF n = 0 THEN w ELSE FreeOne(upTo[n - 1], <<u, n>>)
  IN upTo[Quantity[u]]

Rotate(w, u) == [w EXCEPT !.user[u].waiting = Append(Tail(@), Head(@))]

Schedule(w, u) ==
  LET s == AssignJobs(w, u) IN
  IF Waiting(s, u) = <<>> THEN FreeIdleVMs(s, u)
  ELSE IF \E v \in VMsOf(u) : ON(s, v) THEN Rotate(s, u)
  ELSE s

ScheduleUnlessFinalizing(w, u) ==
  IF w.user[u].status = "finalizing" THEN w ELSE Schedule(w, u)

ExecutePendingJobs(w, u) ==
  LET ready == {j \in JobsOf(u) : w.job[j].place = "storage" /\ w.job[j].vm \notin w.awaiting}
  IN [w EXCEPT
       !.job = [j \in Jobs |-> IF j \in ready THEN [@[j] EXCEPT !.place = "running"] ELSE @[j]],
       !.vm  = [v \in VMs |-> IF \E j \in ready : w.job[j].vm = v
                              THEN [@[v] EXCEPT !.state = "RUNNING"] ELSE @[v]]]

\* The answer to a START: chunk are the new VMs.  Those without a job for them
\* are "shut down", which does nothing to a VM that is OFF, and forgotten.
StartAttended(w, u, chunk) ==
  LET used == {v \in chunk : Cardinality({x \in chunk : x[2] <= v[2]}) <= Len(Waiting(w, u))}
      idle == [w EXCEPT !.vm = [v \in VMs |-> IF v \in used
                                 THEN [@[v] EXCEPT !.state = "IDLE", !.pending = "none"]
                                 ELSE @[v]]]
  IN ScheduleUnlessFinalizing(idle, u)

StorageAttended(w, u, v) ==
  ScheduleUnlessFinalizing(
    ExecutePendingJobs([w EXCEPT !.awaiting = @ \ {v}, !.vm[v].state = "IDLE",
                                 !.vm[v].pending = "none"], u), u)

FinalizeUser(w, u) ==
  IF w.awaiting \cap VMsOf(u) = {} /\ w.user[u].shutdowns = 0
  THEN UserSendRequest([w EXCEPT !.user[u].status = "finalizing"], Abandon(u))
  ELSE [w EXCEPT !.user[u].status = "active"]

FreeAttended(w, u, v) ==
  LET s == [w EXCEPT !.user[u].shutdowns = @ - 1,
                     !.vm[v] = [state |-> "gone", pending |-> "none", host |-> @.host]]
      noWork == /\ Waiting(s, u) = <<>>
                /\ \A j \in JobsOf(u) : s.job[j].place # "running"
                /\ \A x \in VMsOf(u) : ~ON(s, x)
  IN ScheduleUnlessFinalizing(IF noWork THEN FinalizeUser(s, u) ELSE s, u)

JobHasFinished_Keep(w, j) == w

JobHasFinished(w, j) ==
  IF Waiting(w, j[1]) = <<>> /\ Processes(w, w.job[j].vm) = {j}
  THEN ShutdownVM(w, w.job[j].vm) ELSE w

NotifyUserJobHasFinished(w, j) ==
  LET v == w.job[j].vm
      s == [JobHasFinished(w, j) EXCEPT !.job[j].place = "finished"]
      r == IF Processes(s, v) = {} THEN [s EXCEPT !.vm[v].state = "IDLE"] ELSE s
  IN IF Waiting(w, j[1]) # <<>> THEN [r EXCEPT !.user[j[1]].wake = @ + 1] ELSE r

-----------------------------------------------------------------------------
(* Events of the users.                                                      *)

\* Between two passes: an event other than an iteration of a pass may happen.
NoPass == ~failed /\ ~queue.blocked

UserArrives(u) ==
  /\ NoPass /\ user[u].status = "new"
  /\ Become(UserSendRequest([World EXCEPT !.user[u].status = "active"], Start(u)))
  /\ UNCHANGED <<stored, pending, flight, toDelete, failed, partial, dirty>>

JobFinishes(j) ==
  /\ NoPass /\ job[j].place = "running"
  /\ Become(NotifyUserJobHasFinished(World, j))
  /\ UNCHANGED <<stored, pending, flight, toDelete, failed, partial, dirty>>

\* The message a user sends itself when a job ends and others wait.
Wake(u) ==
  /\ NoPass /\ user[u].wake > 0 /\ user[u].status # "gone"
  /\ Become(Schedule(ExecutePendingJobs([World EXCEPT !.user[u].wake = @ - 1], u), u))
  /\ UNCHANGED <<stored, pending, flight, toDelete, failed, partial, dirty>>

-----------------------------------------------------------------------------
(* Notifications of the nodes.                                               *)

Stop == failed' = TRUE /\ UNCHANGED <<world, stored, pending, toDelete, partial, dirty>>

StorageReady(j) ==
  /\ NoPass /\ flight.connect[j] > 0
  /\ flight' = [flight EXCEPT !.connect[j] = @ - 1]
  /\ IF pending.connect[j] <= 0 THEN Stop
     ELSE /\ pending' = [pending EXCEPT !.connect[j] = @ - 1]
          /\ Become(IF pending.connect[j] = 1 THEN StorageAttended(World, j[1], job[j].vm)
                                              ELSE World)
          /\ UNCHANGED <<stored, toDelete, failed, partial, dirty>>

UnlinkVM_KeepsHost(w, v) == [w EXCEPT !.vm[v].state = "OFF", !.vm[v].pending = "none"]

UnlinkVM(w, v) == [w EXCEPT !.vm[v] = [state |-> "OFF", pending |-> "none", host |-> NoNode]]

\* Both counts of v are zero: the VM goes, unless it still has a process.
Release(v) ==
  IF Processes(World, v) # {} THEN UNCHANGED <<world, toDelete, failed>>
  ELSE IF user[v[1]].status = "gone"
  THEN failed' = TRUE /\ UNCHANGED <<world, toDelete>>
  ELSE /\ toDelete' = toDelete \ {v}
       /\ Become(IF v \in toDelete THEN FreeAttended(UnlinkVM(World, v), v[1], v)
                                   ELSE UnlinkVM(World, v))
       /\ UNCHANGED failed

FSFormatted(v) ==
  /\ NoPass /\ flight.format[v] > 0
  /\ flight' = [flight EXCEPT !.format[v] = @ - 1]
  /\ pending' = [pending EXCEPT !.format[v] = @ - 1]
  /\ IF pending.format[v] = 1 /\ pending.close[v] = 0
     THEN Release(v) ELSE UNCHANGED <<world, toDelete, failed>>
  /\ UNCHANGED <<stored, partial, dirty>>

ConnectionsClosed(v) ==
  /\ NoPass /\ flight.close[v] > 0
  /\ flight' = [flight EXCEPT !.close[v] = @ - 1]
  /\ pending' = [pending EXCEPT !.close[v] = @ - 1]
  /\ IF pending.close[v] = 1 /\ pending.format[v] = 0
     THEN Release(v) ELSE UNCHANGED <<world, toDelete, failed>>
  /\ UNCHANGED <<stored, partial, dirty>>

-----------------------------------------------------------------------------
(* A pass of the scheduler: CloudSchedulerFCFS::schedule.                    *)

SchedulerBlock ==
  /\ NoPass /\ queue.requests # <<>>
  /\ queue' = [queue EXCEPT !.blocked = TRUE, !.next = 1]
  /\ UNCHANGED <<vm, job, user, awaiting, stored, pending, flight, toDelete, failed,
                 partial, dirty>>

Unblock_Drops(q) == [q EXCEPT !.blocked = FALSE, !.next = 1, !.temporal = <<>>]

Unblock(q) == [blocked |-> FALSE, next |-> 1, requests |-> q.requests \o q.temporal,
               temporal |-> <<>>]

SchedulerUnblock ==
  /\ ~failed /\ queue.blocked /\ queue.next > Len(queue.requests)
  /\ queue' = Unblock(queue)
  /\ UNCHANGED <<vm, job, user, awaiting, stored, pending, flight, toDelete, failed,
                 partial, dirty>>

EraseRequest(w) ==
  LET n == w.queue.next IN
  [w EXCEPT !.queue.requests = SubSeq(@, 1, n - 1) \o SubSeq(@, n + 1, Len(@))]
Advance(w) == [w EXCEPT !.queue.next = @ + 1]

PassAt(op) ==
  /\ queue.blocked /\ queue.next <= Len(queue.requests)
  /\ queue.requests[queue.next].op = op
Examined(op) == ~failed /\ PassAt(op)
Request == queue.requests[queue.next]

Linked(w, n) == {v \in VMs : w.vm[v].host = n}
HasRoom_OneMore(w, n) == Cardinality(Linked(w, n)) <= MaxVMs

HasRoom(w, n) == Cardinality(Linked(w, n)) < MaxVMs

SelectNode(w) ==
  LET room == {n \in Nodes : HasRoom(w, n)}
  IN IF room = {} THEN NoNode ELSE CHOOSE n \in room : \A m \in room : n <= m

\* Creates and links the VMs of u that do not exist, while a node has room.
LinkOne(w, v) ==
  IF w.vm[v].state # "none" \/ SelectNode(w) = NoNode THEN w
  ELSE [w EXCEPT !.vm[v] = [state |-> "OFF", pending |-> "none", host |-> SelectNode(w)]]

LinkVMs(w, u) ==
  LET upTo[n \in 0 .. Quantity[u]] ==
        IF n = 0 THEN w ELSE LinkOne(upTo[n - 1], <<u, n>>)
  IN upTo[Quantity[u]]

\* request_start_vm: what could be allocated is given to the user; the request
\* is erased when that was all, else it stays for the next pass.
RequestStartVM ==
  /\ Examined("start")
  /\ \E u \in {Request.user}, w \in {LinkVMs(World, Request.user)} :
     LET chunk == {v \in VMsOf(u) : vm[v].state = "none" /\ w.vm[v].state # "none"}
         all   == \A v \in VMsOf(u) : w.vm[v].state # "none"
         told  == IF chunk = {} THEN w ELSE StartAttended(w, u, chunk)
     IN IF user[u].status = "gone" /\ chunk # {} THEN Stop /\ UNCHANGED flight
        ELSE /\ Become(IF all THEN EraseRequest(told) ELSE Advance(told))
             /\ partial' = (partial \/ (chunk # {} /\ ~all))
             /\ UNCHANGED <<stored, pending, flight, toDelete, failed, dirty>>

NumberOfConnections_Targets(u) == Servers[u]

NumberOfConnections(u) == Servers[u] + 1

\* The nodes of the file system are written down, and the host and each of them
\* will notify the manager.  The request is erased but requestErased is not set:
\* the index advances over the next request.
ConnectToStorage ==
  /\ LET u == Request.user
         j == Request.job
     IN /\ stored' = IF Servers[u] = 0 THEN stored
                     ELSE [stored EXCEPT ![u] = Append(@, Request.vm)]
        /\ dirty' = IF Servers[u] = 0 THEN dirty ELSE dirty \cup {Request.vm}
        /\ pending' = [pending EXCEPT !.connect[j] = NumberOfConnections(u)]
        /\ flight' = [flight EXCEPT !.connect[j] = Servers[u] + 1]
  /\ Become(Advance(EraseRequest(World)))
  /\ UNCHANGED <<toDelete, failed, partial>>

\* A request carries one connection, and createConnectionToStorage reads one for
\* each server.  What lies past the end is undefined: the read stops the
\* simulation, or gives a pId that goes into a list nobody compares it in.
ReadsPastEnd(u) == Servers[u] > 1

UserStorageRequest ==
  /\ Examined("storage")
  /\ \/ ReadsPastEnd(Request.user) /\ Stop /\ UNCHANGED flight
     \/ ConnectToStorage

FormatQuantity_OneOnly(nodes) == 1

FormatQuantity(nodes) == nodes

RemoteShutdown_NoEntry(u, v) == 0

\* deleteVMfromStorageNodes looks at the first entry of the user only.
RemoteShutdown(u, v) == IF stored[u] # <<>> /\ Head(stored[u]) = v THEN Servers[u] ELSE 0

\* request_shutdown_vm.  After the look at the first entry every entry of the
\* user is dropped; if it was another VM's, a loop erases from an empty vector.
RequestShutdownVM ==
  /\ Examined("free")
  /\ LET v     == Request.vm
         u     == Request.user
         nodes == RemoteShutdown(u, v) + 1
     IN IF stored[u] # <<>> /\ Head(stored[u]) # v THEN Stop /\ UNCHANGED flight
        ELSE /\ toDelete' = toDelete \cup {v}
             /\ stored' = [stored EXCEPT ![u] = <<>>]
             /\ dirty' = IF nodes > 1 THEN dirty \ {v} ELSE dirty
             /\ pending' = [pending EXCEPT !.format[v] = FormatQuantity(nodes),
                                           !.close[v] = nodes]
             /\ flight' = [flight EXCEPT !.format[v] = nodes, !.close[v] = nodes]
             /\ Become(EraseRequest(World))
             /\ UNCHANGED <<failed, partial>>

AbandonSystem ==
  /\ Examined("abandon")
  /\ Become(EraseRequest([World EXCEPT !.user[Request.user].status = "gone"]))
  /\ UNCHANGED <<stored, pending, flight, toDelete, failed, partial, dirty>>

-----------------------------------------------------------------------------
Pass == \/ SchedulerBlock \/ SchedulerUnblock
        \/ RequestStartVM \/ UserStorageRequest \/ RequestShutdownVM \/ AbandonSystem

Event == \/ \E j \in Jobs : JobFinishes(j) \/ StorageReady(j)
         \/ \E u \in Users : Wake(u)
         \/ \E v \in VMs : FSFormatted(v) \/ ConnectionsClosed(v)

Next == Pass \/ Event \/ \E u \in Users : UserArrives(u)

\* The alarm re-arms itself, and it has a positive period: an event of the nodes
\* or of a job has a finite delay, so passes cannot overtake it for ever, though
\* each of them disables it for a while.  Users need not arrive.
Fairness == WF_vars(Pass) /\ SF_vars(Event)

Spec == Init /\ [][Next]_vars /\ Fairness
-----------------------------------------------------------------------------
(* What the cloud promises.                                                  *)

TypeOK ==
  /\ queue \in [blocked : BOOLEAN, requests : Seq(Requests), temporal : Seq(Requests),
                next : Nat \ {0}]
  /\ vm \in [VMs -> [state : {"none", "OFF", "IDLE", "RUNNING", "gone"},
                     pending : {"none", "storage", "shutdown"}, host : Nodes \cup {NoNode}]]
  /\ job \in [Jobs -> [place : {"waiting", "storage", "running", "finished"},
                       vm : VMs \cup {NoVM}]]
  /\ user \in [Users -> [status : {"new", "active", "finalizing", "gone"},
                         waiting : Seq(Jobs), shutdowns : Nat, wake : Nat]]
  /\ awaiting \subseteq VMs /\ toDelete \subseteq VMs /\ dirty \subseteq VMs
  /\ stored \in [Users -> Seq(VMs)]
  /\ pending \in PendingType /\ flight \in PendingType
  /\ failed \in BOOLEAN /\ partial \in BOOLEAN

\* No node has more virtual machines than its limit, although VMs of several
\* users are linked in one pass and unlinked by notifications between passes
\* (CloudSchedulerFCFS::selectNode, NodeVL::linkVM and unlinkVM).
CapacityKept == \A n \in Nodes : Cardinality(Linked(World, n)) <= MaxVMs

Queued == LET all == queue.requests \o queue.temporal
          IN [r \in Requests |-> Cardinality({i \in 1 .. Len(all) : all[i] = r})]

\* Nobody waits for something no one will do.  A VM that is shutting down has
\* one FREE in the queues or is with the manager, never both; a job that waits
\* for its storage has one STORAGE in the queues or notifications to come; and
\* the user's count of shutdowns is the number of its VMs in that state.
Accounted ==
  failed \/
  /\ \A v \in VMs : Queued[Free(v)] + (IF v \in toDelete THEN 1 ELSE 0)
                      = (IF vm[v].pending = "shutdown" THEN 1 ELSE 0)
  /\ \A j \in Jobs : job[j].place = "storage" =>
       IF pending.connect[j] > 0 THEN flight.connect[j] = pending.connect[j]
       ELSE Queued[Storage(j, job[j].vm)] = 1
  /\ \A u \in Users : user[u].shutdowns =
       Cardinality({v \in VMsOf(u) : vm[v].pending = "shutdown"})

\* A virtual machine is destroyed, and a job starts, only after the last of the
\* notifications it depends on, in whatever order they arrive: files formatted
\* and connections closed on every node, host and servers connected.
JoinComplete ==
  failed \/
  /\ \A v \in VMs : vm[v].state = "gone" => flight.format[v] + flight.close[v] = 0
  /\ \A j \in Jobs : job[j].place = "running" => flight.connect[j] = 0

\* A job is on one machine, that machine exists and is linked to a node, and it
\* is not being shut down: the choice of VMs by GeneralUser::schedule never
\* races with the requests to free them.
NoJobOnDyingVM ==
  \A j \in Jobs : job[j].place \in {"storage", "running"} =>
    /\ vm[job[j].vm].state \in {"IDLE", "RUNNING"} /\ vm[job[j].vm].host # NoNode
    /\ vm[job[j].vm].pending # "shutdown"
    /\ Processes(World, job[j].vm) = {j}

\* A user that has left has run all its jobs and given back all its VMs.
LeftNothing(u) ==
  user[u].status = "gone" =>
    /\ \A v \in VMsOf(u) : vm[v].host = NoNode
    /\ \A j \in JobsOf(u) : job[j].place = "finished"

\* ... when every START found room for all its VMs at once.
GoneUsersClean == ~partial => \A u \in Users : LeftNothing(u)

\* The pass is at a storage request that has fewer connections than servers.
AtOverread == PassAt("storage") /\ ReadsPastEnd(Request.user)

\* Under the same condition, and as long as no user has two VMs with remote
\* storage, no handler meets a user, a VM or a count that is not there any more:
\* the read of createConnectionToStorage past the connections of its request is
\* all that can stop the simulation, and with one server there is none.
FailsOnlyByOverread == ~partial => (failed => AtOverread)

\* A user that has left has no request in the manager's queues: what
\* GeneralUser::requestAttended says it asks before finalizeUser.
NothingAsked ==
  \A u \in Users : user[u].status = "gone" =>
    \A r \in Requests : r.user = u => Queued[r] = 0

\* When a VM with remote storage is gone, the storage nodes were told to delete
\* its files: what CloudSchedulerFCFS.h says of remoteShutdown.
FilesDeleted == \A v \in VMs : vm[v].state = "gone" => v \notin dirty

\* A user that has entered the cloud leaves it in the end, unless a START of
\* somebody was answered in parts, or that read stopped the simulation: every
\* path of GeneralUser leads to the answer to its last FREE.
UsersLeave ==
  \A u \in Users : user[u].status = "active" ~>
    (user[u].status = "gone" \/ partial \/ (failed /\ AtOverread))
=============================================================================
