---------------------------- MODULE HypervisorNet ----------------------------
(***************************************************************************)
(* The network of the virtual machines: on every node the hypervisor's     *)
(* network manager (H_NETManager_Base, H_NET_SCHED_FIFO, LocalNetManager), *)
(* its port translation (PortAddressTranslation, "PAT") and the TCP        *)
(* service, over the NetworkManager of the data centre.                    *)
(*                                                                         *)
(* An application of a VM listens on a virtual port or asks for a          *)
(* connection to the address of another VM of its user.  A connection to   *)
(* remote storage goes to a node that listens for the VM.  A request for a *)
(* port that is not open waits in pendingConnections, where alarms, one    *)
(* second each, try it again.  When the jobs of a VM are over the cloud    *)
(* closes its connections on each node they were made on and unlinks it.   *)
(*                                                                         *)
(* A request is followed from the application back to it: the fields the   *)
(* managers write into its message are in `route`.  TCP itself is external.*)
(***************************************************************************)
EXTENDS NetworkManager

CONSTANTS
  VM,              \* the VMs, by pid, unique in the data centre
  OwnerOf,         \* [VM -> User]
  Host,            \* [VM -> Node]
  Workloads,       \* what the users may do, to choose from:
                   \*   vms       the VMs they start,
                   \*   listeners set of [vm, node, port], on its host or on a storage node,
                   \*   requests  set of [vm, op, to, port], "create" to a VM or "storage" to a node
  Early,           \* whether an application may connect before the other listens
  MaxTimes,        \* the 60 of checkPendingMessages
  ConnectionTimeout,  \* connectionTimeOut, 15 by default
  FirstPort, LastPort,  \* REGISTERED_INITIAL_PORT, LAST_PORT
  EphemeralPorts   \* the ports from which TCP takes one for a client

ASSUME PortAssumption ==
  /\ FirstPort \in Nat /\ LastPort \in Nat /\ FirstPort < LastPort
  /\ EphemeralPorts \subseteq FirstPort .. LastPort - 1

\* Users listen for their own VMs on nodes, and connect their VMs to each other and
\* to storage nodes.
ASSUME WorkloadAssumption ==
  /\ OwnerOf \in [VM -> User] /\ Host \in [VM -> Node]
  /\ \A w \in Workloads :
       /\ w.vms \subseteq VM
       /\ \A l \in w.listeners : l.vm \in VM /\ l.node \in Node /\ l.port \in Nat
       /\ \A r \in w.requests :
            /\ r.vm \in VM /\ r.port \in Nat
            /\ \/ r.op = "create" /\ r.to \in VM /\ OwnerOf[r.to] = OwnerOf[r.vm]
               \/ r.op = "storage" /\ r.to \in Node

VARIABLES
  load,         \* the workload of this behaviour
  life,         \* [VM -> {"off", "up", "closing", "gone"}]
  ready,        \* the VMs whose files are set (SM_SET_IOR)
  listened,     \* the listeners that have been asked for
  toClose,      \* [VM -> SUBSET Node]: nodes yet to close its connections
  vms,          \* [Node -> Seq([pid, uid, virtualIP])]: the VMs of the hypervisor
  vmPorts,      \* [Node -> [known VMs -> Seq([rPort, vPort, connectionID])]]: the PAT
  portPtr,      \* [Node -> port]
  portHoles,    \* [Node -> Seq(port)]
  established,  \* [Node -> SUBSET port]: the ports marked STABLISHED in freePorts
  pending,      \* [Node -> Seq([req, timesEnqueued])]: pendingConnections
  alarms,       \* [Node -> Nat]: SM_APP_ALARM messages under way
  listening,    \* [Node -> Seq([port, app])]: the connections of the TCP server
  inUse,        \* [Node -> SUBSET port]: ports of the TCP clients
  state,        \* [Requests -> STRING]
  route,        \* [Requests -> fields of the message]
  arrived,      \* [Requests -> where the data of the connection came out]
  error         \* "none", or why the simulation stopped

cloudVars   == <<load, life, ready, listened, toClose, vms>>
patVars     == <<vmPorts, portPtr, portHoles, established>>
pendingVars == <<pending, alarms>>
tcpVars     == <<listening, inUse>>
reqVars     == <<state, route, arrived>>
vars == <<nmVars, cloudVars, patVars, pendingVars, tcpVars, reqVars, error>>

Ports       == FirstPort .. LastPort
States      == {"idle", "pending", "cells", "forwarded", "connecting", "open", "sent", "over",
                "expired", "lost"}
NoRoute     == [virtualIP |-> 0, node |-> NoAddress, port |-> PortNotFound, localPort |-> PortNotFound]
NoConnection == [op |-> "none"]
Nowhere     == [vm |-> -1, app |-> -1]
Requests    == UNION {w.requests : w \in Workloads}
Places(v)   == {Host[v]} \cup {l.node : l \in {k \in load.listeners : k.vm = v}}

Simulating == error = "none"

Init ==
  /\ NetworkInit
  /\ load \in Workloads
  /\ life = [v \in VM |-> "off"] /\ ready = {} /\ listened = {}
  /\ toClose = [v \in VM |-> {}]
  /\ vms = [n \in Node |-> <<>>]
  /\ vmPorts = [n \in Node |-> <<>>]
  /\ portPtr = [n \in Node |-> FirstPort] /\ portHoles = [n \in Node |-> <<>>]
  /\ established = [n \in Node |-> {}]
  /\ pending = [n \in Node |-> <<>>] /\ alarms = [n \in Node |-> 0]
  /\ listening = [n \in Node |-> <<>>] /\ inUse = [n \in Node |-> {}]
  /\ state = [r \in Requests |-> "idle"] /\ route = [r \in Requests |-> NoRoute]
  /\ arrived = [r \in Requests |-> Nowhere]
  /\ error = "none"

(***************************************************************************)
(* A VM starts, its files are set.                                         *)
(***************************************************************************)
LinkVM(v) ==
  /\ Simulating
  /\ v \in load.vms /\ life[v] = "off"
  /\ life' = [life EXCEPT ![v] = "up"]
  /\ AllocateVirtualIP(Host[v], OwnerOf[v], v)
  /\ vms' = [vms EXCEPT ![Host[v]] =
       Append(@, [pid |-> v, uid |-> OwnerOf[v], virtualIP |-> Last(ipsCloud'[OwnerOf[v]].cells).virtualIP])]
  /\ UNCHANGED <<portsPerNode, load, ready, listened, toClose, patVars, pendingVars, tcpVars, reqVars, error>>

\* The VMs the PAT of a node knows, with v among them.
WithVM(known, v) == [w \in DOMAIN known \cup {v} |-> IF w \in DOMAIN known THEN known[w] ELSE <<>>]

\* A port more for v.
AddPort(known, v, port) == [WithVM(known, v) EXCEPT ![v] = Append(@, port)]

SetIOR(v) ==
  /\ Simulating
  /\ life[v] = "up" /\ v \notin ready
  /\ ready' = ready \cup {v}
  /\ vmPorts' = [vmPorts EXCEPT ![Host[v]] = WithVM(@, v)]
  /\ UNCHANGED <<nmVars, load, life, listened, toClose, vms, portPtr, portHoles, established,
                 pendingVars, tcpVars, reqVars, error>>

(***************************************************************************)
(* Listening: manage_listen, then newListenConnection of the TCP server.   *)
(***************************************************************************)
NextFreePort(n) == LET free == {p \in portPtr[n] .. LastPort - 1 : p \notin established[n]}
                   IN CHOOSE p \in free : \A q \in free : p <= q

\* getNewPort, which gives port p.
GetNewPort(n, p) ==
  /\ IF portHoles[n] # <<>>
     THEN /\ p = Head(portHoles[n])
          /\ portHoles' = [portHoles EXCEPT ![n] = Tail(@)]
          /\ UNCHANGED portPtr
     ELSE /\ p = NextFreePort(n)
          /\ portPtr' = [portPtr EXCEPT ![n] = p + 1]
          /\ UNCHANGED portHoles
  /\ established' = [established EXCEPT ![n] = @ \cup {p}]

ExistsConnection(n, port) == \E i \in DOMAIN listening[n] : listening[n][i].port = port

NewListenConnection(n, port, app) ==
  IF ExistsConnection(n, port)
  THEN error' = "this connection already exists" /\ UNCHANGED listening
  ELSE listening' = [listening EXCEPT ![n] = Append(@, [port |-> port, app |-> app])] /\ UNCHANGED error

\* The code throws at LAST_PORT; if all ports up to it are marked it reads on past
\* the end of freePorts, which is counted as the same.
NoPorts(n) == portHoles[n] = <<>> /\ portPtr[n] .. LastPort - 1 \subseteq established[n]

ManageListen(l) ==
  /\ Simulating
  /\ l \in load.listeners \ listened
  /\ life[l.vm] = "up" /\ l.vm \in ready
  /\ UNCHANGED <<ipsCloud, load, life, ready, toClose, vms, pendingVars, inUse, reqVars>>
  /\ \/ /\ NoPorts(l.node)
        /\ error' = "there is no free ports"
        /\ UNCHANGED <<portsPerNode, listened, patVars, listening>>
     \/ /\ ~NoPorts(l.node)
        /\ listened' = listened \cup {l}
        /\ \E p \in Ports :
             /\ GetNewPort(l.node, p)
             /\ vmPorts' = [vmPorts EXCEPT ![l.node] =
                  AddPort(@, l.vm, [rPort |-> p, vPort |-> l.port, connectionID |-> NoConnection])]
             /\ RegisterPort(OwnerOf[l.vm], l.node, l.vm, p, l.port, "LISTEN")
             /\ NewListenConnection(l.node, p, l.vm)

(***************************************************************************)
(* Asking for a connection.                                                *)
(***************************************************************************)
\* manage_createConnection and manage_create_storage_Connection: the node and
\* the real port to connect to, or PortNotFound.
Target(r, vip) ==
  LET user == OwnerOf[r.vm]
      node == IF r.op = "create" THEN SearchNodeIP(vip, user) ELSE r.to
      vm   == IF r.op = "create" THEN GetVMid(vip, user) ELSE r.vm
  IN [virtualIP |-> vip, node |-> node, port |-> GetRealPort(node, r.port, user, vm),
      localPort |-> PortNotFound]

\* A storage request goes round by the storage cells first.
Forwarded(r) == IF r.op = "storage" THEN "cells" ELSE "forwarded"

AddressOf(v) == LET cells == ipsCloud[OwnerOf[v]].cells
                IN cells[SelectInSeq(cells, LAMBDA c : c.vmID = v)].virtualIP

\* Mutant: an alarm only for the first that waits.
EnqueuePendingMessage_OneAlarm(n, r) ==
  /\ pending' = [pending EXCEPT ![n] = Append(@, [req |-> r, timesEnqueued |-> 0])]
  /\ alarms' = [alarms EXCEPT ![n] = IF pending[n] = <<>> THEN @ + 1 ELSE @]

EnqueuePendingMessage(n, r) ==
  /\ pending' = [pending EXCEPT ![n] = Append(@, [req |-> r, timesEnqueued |-> 0])]
  /\ alarms' = [alarms EXCEPT ![n] = @ + 1]

\* An application asks for a connection to the address of a VM, or its node for
\* one to the storage node.  Applications of one user connect to each other.
CreateConnection(r) ==
  LET vip == IF r.op = "create" THEN AddressOf(r.to) ELSE -1
      t   == Target(r, vip)
      n   == Host[r.vm]
  IN /\ Simulating
     /\ r \in load.requests /\ state[r] = "idle"
     /\ life[r.vm] = "up" /\ r.vm \in ready
     /\ r.op = "create" =>
          life[r.to] = "up" /\ (Early \/ \E l \in listened : l.vm = r.to /\ l.port = r.port)
     /\ IF t.port = PortNotFound
        THEN /\ EnqueuePendingMessage(n, r)
             /\ state' = [state EXCEPT ![r] = "pending"]
             /\ route' = [route EXCEPT ![r].virtualIP = vip]
        ELSE /\ state' = [state EXCEPT ![r] = Forwarded(r)]
             /\ route' = [route EXCEPT ![r] = t]
             /\ UNCHANGED pendingVars
     /\ UNCHANGED <<nmVars, cloudVars, patVars, tcpVars, arrived, error>>

(***************************************************************************)
(* checkPendingMessages walks over the list by an index.  Removing an      *)
(* entry moves the others up, so that the walk skips the one after it.     *)
(* A `create` whose port is open now is removed, and nothing else is done. *)
(***************************************************************************)
\* Mutant: the tries are not counted.
WalkedEntry_NotCounted(walk, e) ==
  IF Target(e.req, route[e.req].virtualIP).port = PortNotFound
  THEN [walk EXCEPT !.kept = Append(@, e), !.again = @ + 1]
  ELSE [walk EXCEPT !.outcomes = @ \cup {<<e.req, "cells">>}]

\* Mutant: one try too many.
WalkedEntry_OneMore(walk, e) ==
  IF e.timesEnqueued > MaxTimes + 1
  THEN [walk EXCEPT !.outcomes = @ \cup {<<e.req, "expired">>}]
  ELSE [walk EXCEPT !.kept = Append(@, [e EXCEPT !.timesEnqueued = @ + 1]), !.again = @ + 1]

WalkedEntry(walk, e) ==
  LET t    == Target(e.req, route[e.req].virtualIP)
      late == e.timesEnqueued > MaxTimes
      tried == [e EXCEPT !.timesEnqueued = @ + 1]
      Removed(outcome) == [walk EXCEPT !.skip = TRUE, !.outcomes = @ \cup {<<e.req, outcome>>}]
  IN CASE walk.skip -> [walk EXCEPT !.skip = FALSE, !.kept = Append(@, e)]
       [] ~walk.skip /\ late /\ e.timesEnqueued > ConnectionTimeout -> Removed("expired")
       [] ~walk.skip /\ late /\ e.timesEnqueued <= ConnectionTimeout ->
            [walk EXCEPT !.kept = Append(@, tried)]
       [] ~walk.skip /\ ~late /\ t.port = PortNotFound ->
            [walk EXCEPT !.kept = Append(@, tried), !.again = @ + 1]
       [] OTHER -> Removed(IF e.req.op = "storage" THEN "cells" ELSE "lost")

Walk(list) ==
  LET after[i \in 0 .. Len(list)] ==
        IF i = 0 THEN [skip |-> FALSE, kept |-> <<>>, again |-> 0, outcomes |-> {}]
                 ELSE WalkedEntry(after[i - 1], list[i])
  IN after[Len(list)]

CheckPendingMessages(n) ==
  LET walk == Walk(pending[n])
      Outcome(r, o) == <<r, o>> \in walk.outcomes
  IN /\ Simulating
     /\ alarms[n] > 0
     /\ pending' = [pending EXCEPT ![n] = walk.kept]
     /\ alarms' = [alarms EXCEPT ![n] = @ - 1 + walk.again]
     /\ state' = [r \in Requests |-> IF \E o \in States : Outcome(r, o)
                                     THEN CHOOSE o \in States : Outcome(r, o) ELSE state[r]]
     /\ route' = [r \in Requests |-> IF Outcome(r, "cells") THEN Target(r, route[r].virtualIP)
                                     ELSE route[r]]
     /\ UNCHANGED <<nmVars, cloudVars, patVars, tcpVars, arrived, error>>

\* The storage manager puts the connection in its cells and sends it on.
SetHBS(r) ==
  /\ Simulating
  /\ state[r] = "cells"
  /\ state' = [state EXCEPT ![r] = "forwarded"]
  /\ UNCHANGED <<nmVars, cloudVars, patVars, pendingVars, tcpVars, route, arrived, error>>

(***************************************************************************)
(* Connecting.  TCP gives the client any port that is not in use.          *)
(***************************************************************************)
TcpConnect(r) ==
  LET n == Host[r.vm]
      free == {p \in EphemeralPorts \ inUse[n] : ~ExistsConnection(n, p)}
  IN /\ Simulating
     /\ state[r] = "forwarded"
     /\ \E p \in free :
          /\ inUse' = [inUse EXCEPT ![n] = @ \cup {p}]
          /\ route' = [route EXCEPT ![r].localPort = p]
     /\ state' = [state EXCEPT ![r] = "connecting"]
     /\ UNCHANGED <<nmVars, cloudVars, patVars, pendingVars, listening, arrived, error>>

\* The port is registered with the user and the VM in each other's place.
ConnectionStablished(r) ==
  LET n == Host[r.vm]
      p == route[r].localPort
  IN /\ Simulating
     /\ state[r] = "connecting"
     /\ state' = [state EXCEPT ![r] = "open"]
     /\ established' = [established EXCEPT ![n] = @ \cup {p}]
     /\ vmPorts' = [vmPorts EXCEPT ![n] =
                      AddPort(@, r.vm, [rPort |-> p, vPort |-> p, connectionID |-> r])]
     /\ RegisterPort(r.vm, n, OwnerOf[r.vm], p, p, "CONNECT")
     /\ UNCHANGED <<ipsCloud, cloudVars, portPtr, portHoles, pendingVars, tcpVars, route,
                    arrived, error>>

(***************************************************************************)
(* Data over a connection of two VMs.                                      *)
(***************************************************************************)
\* The lookups of manage_sendMessage on the way (searchNodeIP, getRealPort) are
\* left out: they change nothing, and they succeed while both VMs are up.
SendMessage(r) ==
  /\ Simulating
  /\ state[r] = "open" /\ r.op = "create"
  /\ state' = [state EXCEPT ![r] = "sent"]
  /\ UNCHANGED <<nmVars, cloudVars, patVars, pendingVars, tcpVars, route, arrived, error>>

\* Mutant: the user is not looked at.
GetGateByVIP_AnyUser(n, vip, user) ==
  LET i == SelectInSeq(vms[n], LAMBDA c : c.virtualIP = vip)
  IN IF i = 0 THEN -1 ELSE vms[n][i].pid

GetGateByVIP(n, vip, user) ==
  LET i == SelectInSeq(vms[n], LAMBDA c : c.virtualIP = vip /\ c.uid = user)
  IN IF i = 0 THEN -1 ELSE vms[n][i].pid

GetAppIndexFromPort(n, port) ==
  LET i == SelectInSeq(listening[n], LAMBDA c : c.port = port)
  IN IF i = 0 THEN -1 ELSE listening[n][i].app

ReceiveMessage(r) ==
  LET n    == route[r].node
      gate == GetGateByVIP(n, route[r].virtualIP, OwnerOf[r.vm])
      app  == GetAppIndexFromPort(n, route[r].port)
  IN /\ Simulating
     /\ state[r] = "sent"
     /\ IF app = -1 THEN error' = "port not found" /\ UNCHANGED <<state, arrived>>
        ELSE IF gate = -1 THEN error' = "VM not found" /\ UNCHANGED <<state, arrived>>
        ELSE /\ arrived' = [arrived EXCEPT ![r] = [vm |-> gate, app |-> app]]
             /\ state' = [state EXCEPT ![r] = "over"]
             /\ UNCHANGED error
     /\ UNCHANGED <<nmVars, cloudVars, patVars, pendingVars, tcpVars, route>>

(***************************************************************************)
(* A VM is closed when the jobs of its user are over: what it asked for    *)
(* and what was asked of it.                                               *)
(***************************************************************************)
Finished(r) == state[r] = "over" \/ state[r] = "expired" \/ (r.op = "storage" /\ state[r] = "open")

CloseVMConnections(v) ==
  /\ Simulating
  /\ life[v] = "up"
  /\ v \in ready
  /\ \A l \in load.listeners : l.vm = v => l \in listened
  /\ \A r \in load.requests : v \in {r.vm, r.to} => Finished(r)
  /\ life' = [life EXCEPT ![v] = "closing"]
  /\ toClose' = [toClose EXCEPT ![v] = Places(v)]
  /\ UNCHANGED <<nmVars, load, ready, listened, vms, patVars, pendingVars, tcpVars, reqVars, error>>

\* pat_closeVM: the ports of its connections become holes; those on which it
\* listened do not.
PatCloseVM(v, n) ==
  LET used == Within(vmPorts[n][v], {p \in Range(vmPorts[n][v]) : p.connectionID # NoConnection})
      free == [i \in DOMAIN used |-> used[i].rPort]
  IN /\ portHoles' = [portHoles EXCEPT ![n] = @ \o free]
     /\ established' = [established EXCEPT ![n] = @ \ Range(free)]
     /\ inUse' = [inUse EXCEPT ![n] = @ \ Range(free)]
     /\ vmPorts' = [vmPorts EXCEPT ![n] = [w \in DOMAIN @ \ {v} |-> @[w]]]

ManageCloseConnections(v, n) ==
  LET known == DOMAIN vmPorts[n]
      user  == OwnerOf[v]
  IN /\ Simulating
     /\ n \in toClose[v]
     /\ toClose' = [toClose EXCEPT ![v] = @ \ {n}]
     /\ DeleteVirtualIP_by_VMID(v, user)
     /\ FreeAllPortsOfVM(n, v, user)
     /\ \/ /\ v \in known
           /\ PatCloseVM(v, n) /\ UNCHANGED error
        \/ /\ v \notin known
           /\ error' = IF \E w \in known : OwnerOf[w] = user THEN error ELSE "there is no user"
           /\ UNCHANGED <<portHoles, established, inUse, vmPorts>>
     /\ UNCHANGED <<load, life, ready, listened, vms, portPtr, pendingVars, listening, reqVars>>

\* The last node has answered: unlinkVM, freeVM.
UnlinkVM(v) ==
  /\ Simulating
  /\ life[v] = "closing" /\ toClose[v] = {}
  /\ life' = [life EXCEPT ![v] = "gone"]
  /\ vms' = [vms EXCEPT ![Host[v]] = Within(@, {c \in Range(@) : c.pid # v})]
  /\ UNCHANGED <<nmVars, load, ready, listened, toClose, patVars, pendingVars, tcpVars, reqVars, error>>

(***************************************************************************)
(* Specification.  An error stops the simulation.  Events under way        *)
(* happen; when VMs and applications start is up to the users.             *)
(***************************************************************************)
Events ==
  \/ \E n \in Node : CheckPendingMessages(n)
  \/ \E r \in Requests : SetHBS(r) \/ TcpConnect(r) \/ ConnectionStablished(r) \/ ReceiveMessage(r)
  \/ \E v \in VM, n \in Node : ManageCloseConnections(v, n)
  \/ \E v \in VM : UnlinkVM(v)

Next ==
  \/ Events
  \/ \E v \in VM : LinkVM(v) \/ SetIOR(v) \/ CloseVMConnections(v)
  \/ \E l \in load.listeners : ManageListen(l)
  \/ \E r \in Requests : CreateConnection(r) \/ SendMessage(r)

Spec == Init /\ [][Next]_vars /\ WF_vars(Events)

-----------------------------------------------------------------------------
TypeOK ==
  /\ \A u \in User : ipsCloud[u].lastIP \in Nat /\ ipsCloud[u].holesIP \in Seq(Int)
  /\ \A n \in Node : \A i \in DOMAIN portsPerNode[n] : portsPerNode[n][i].rPort \in Ports
  /\ life \in [VM -> {"off", "up", "closing", "gone"}]
  /\ ready \subseteq VM /\ listened \subseteq load.listeners
  /\ toClose \in [VM -> SUBSET Node]
  /\ \A n \in Node : DOMAIN vmPorts[n] \subseteq VM
  /\ portPtr \in [Node -> Ports] /\ portHoles \in [Node -> Seq(Ports)]
  /\ established \in [Node -> SUBSET Ports] /\ inUse \in [Node -> SUBSET EphemeralPorts]
  /\ \A n \in Node : \A i \in DOMAIN pending[n] : pending[n][i].timesEnqueued \in 0 .. MaxTimes + 1
  /\ alarms \in [Node -> Nat]
  /\ state \in [Requests -> States]

\* A pending request always has an alarm to wait for: the walk over the list
\* skips entries and an alarm is used up by every walk, yet there are never
\* fewer alarms under way on a node than requests that wait there.
AlarmAhead == \A n \in Node : Len(pending[n]) <= alarms[n]

\* What is sent over a connection comes out at the VM, and at the application,
\* that was asked for: although two users have the same virtual addresses and
\* ports, and real ports are used again.
ReachesTarget ==
  \A r \in Requests : state[r] = "over" => arrived[r] = [vm |-> r.to, app |-> r.to]

\* On a node no two VMs of a user have the same address, not even while one of
\* them is closing and its address has been given back; and the address of a VM
\* that is up leads to it.
AddressesKept ==
  \A n \in Node : \A i, j \in DOMAIN vms[n] :
    LET a == vms[n][i]
        b == vms[n][j]
    IN /\ i # j /\ a.uid = b.uid => a.virtualIP # b.virtualIP
       /\ life[a.pid] = "up" => /\ SearchNodeIP(a.virtualIP, a.uid) = n
                                /\ GetVMid(a.virtualIP, a.uid) = a.pid

\* Nothing of a VM that is gone is left behind where others would find it: no
\* address, no port it listened on, no entry in a PAT.
GoneLeavesNothing ==
  \A v \in VM : life[v] = "gone" =>
    /\ \A i \in DOMAIN ipsCloud[OwnerOf[v]].cells : ipsCloud[OwnerOf[v]].cells[i].vmID # v
    /\ \A n \in Node : /\ v \notin DOMAIN vmPorts[n]
                       /\ \A i \in DOMAIN portsPerNode[n] : portsPerNode[n][i].vmID # v

\* A request for a connection that has to wait is answered: the connection is
\* open, or the request has expired.
Answered ==
  \A r \in Requests : state[r] = "pending" ~> state[r] \in {"open", "sent", "over", "expired"}
=============================================================================
