--------------------------- MODULE NetworkManager ---------------------------
(***************************************************************************)
(* NetworkManager, the one place that knows the virtual addresses of every *)
(* user (ipsCloud) and the real ports behind the virtual ones of every     *)
(* node (ports_per_node).  The hypervisors call it directly; it has no     *)
(* event of its own, so this module has operators and HypervisorNet the    *)
(* specification.                                                          *)
(*                                                                         *)
(* A virtual address is a number: the first of a user follows ipBasis.     *)
(* The addresses of a run stay within the last octet, where adding and     *)
(* subtracting addresses octet by octet is adding and subtracting numbers. *)
(***************************************************************************)
EXTENDS Integers, FiniteSets, SequencesExt, Sublists

CONSTANTS
  Node,     \* the nodes of the data centre, registered before any VM
  User,     \* the users, created before their VMs
  IpBasis   \* ipBasis

ASSUME BasisAssumption == IpBasis \in Nat

PortNotFound == -1   \* PORT_NOT_FOUND
NoAddress    == "no address"

VARIABLES
  ipsCloud,        \* [User -> [cells, holesIP, lastIP]]
  portsPerNode     \* [Node -> Seq([vPort, rPort, user, vmID, operation])]

nmVars == <<ipsCloud, portsPerNode>>

NetworkInit ==
  /\ ipsCloud = [u \in User |-> [cells |-> <<>>, holesIP |-> <<>>, lastIP |-> IpBasis]]
  /\ portsPerNode = [n \in Node |-> <<>>]

(***************************************************************************)
(* Addresses.                                                              *)
(***************************************************************************)
\* Mutant: the address is handed out again as it was.
Hole_AsItWas(vip) == vip

\* An address that is given back is handed out again, but not as it was: the
\* hole is its distance from the basis.
Hole(vip) == vip - IpBasis

\* The address for the next VM of a user whose entry is u, and the entry after it.
NewVIP(u) ==
  IF u.holesIP # <<>>
  THEN [ip |-> Head(u.holesIP), entry |-> [u EXCEPT !.holesIP = Tail(@)]]
  ELSE [ip |-> u.lastIP + 1,    entry |-> [u EXCEPT !.lastIP = @ + 1]]

AllocateVirtualIP(node, user, vm) ==
  LET new == NewVIP(ipsCloud[user])
  IN ipsCloud' = [ipsCloud EXCEPT ![user] =
       [new.entry EXCEPT !.cells = Append(@, [virtualIP |-> new.ip, ipNode |-> node, vmID |-> vm])]]

\* Nothing changes when the VM has no address any more.
DeleteVirtualIP_by_VMID(vm, user) ==
  LET u == ipsCloud[user]
      i == SelectInSeq(u.cells, LAMBDA c : c.vmID = vm)
  IN ipsCloud' = IF i = 0 THEN ipsCloud
                 ELSE [ipsCloud EXCEPT ![user].cells   = RemoveAt(@, i),
                                       ![user].holesIP = Append(@, Hole(u.cells[i].virtualIP))]

CellOf(vip, user) == SelectInSeq(ipsCloud[user].cells, LAMBDA c : c.virtualIP = vip)

SearchNodeIP(vip, user) ==
  LET i == CellOf(vip, user) IN IF i = 0 THEN NoAddress ELSE ipsCloud[user].cells[i].ipNode

GetVMid(vip, user) ==
  LET i == CellOf(vip, user) IN IF i = 0 THEN -1 ELSE ipsCloud[user].cells[i].vmID

(***************************************************************************)
(* Ports.                                                                  *)
(***************************************************************************)
RegisterPort(user, node, vm, rPort, vPort, operation) ==
  portsPerNode' = [portsPerNode EXCEPT ![node] =
    Append(@, [vPort |-> vPort, rPort |-> rPort, user |-> user, vmID |-> vm,
               operation |-> operation])]

GetRealPort(node, vPort, user, vm) ==
  LET i == SelectInSeq(portsPerNode[node],
             LAMBDA p : p.vPort = vPort /\ p.user = user /\ p.vmID = vm)
  IN IF i = 0 THEN PortNotFound ELSE portsPerNode[node][i].rPort

\* Mutant: the user and the VM in each other's place.
FreeAllPortsOfVM_Swapped(node, vm, user) ==
  portsPerNode' = [portsPerNode EXCEPT ![node] =
    Within(@, {p \in Range(@) : ~(p.user = vm /\ p.vmID = user)})]

FreeAllPortsOfVM(node, vm, user) ==
  portsPerNode' = [portsPerNode EXCEPT ![node] =
    Within(@, {p \in Range(@) : ~(p.user = user /\ p.vmID = vm)})]

=============================================================================
