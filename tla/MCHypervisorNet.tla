--------------------------- MODULE MCHypervisorNet ---------------------------
(* Two nodes and two users.  VM 3 belongs to the second user.  VMs 1 and 4 *)
(* are on one node, VMs 2 and 3 on the other.                              *)
EXTENDS HypervisorNet

CONSTANTS n1, n2, u1, u2

MCNode  == {n1, n2}
MCUser  == {u1, u2}
MCVM    == 1 .. 4
MCOwner == [v \in MCVM |-> IF v = 3 THEN u2 ELSE u1]
MCHost  == [v \in MCVM |-> IF v \in {1, 4} THEN n1 ELSE n2]
MCEphemeral == {2, 3}

Listens(v, n, p)  == [vm |-> v, node |-> n, port |-> p]
Create(v, w, p)   == [vm |-> v, op |-> "create", to |-> w, port |-> p]
Storage(v, n)     == [vm |-> v, op |-> "storage", to |-> n, port |-> 81]

\* VM 4 may take over the address and the port of VM 1; VM 3 listens beside VM 2.
Tenants == [vms |-> 1 .. 4,
            listeners |-> {Listens(2, n2, 80), Listens(3, n2, 80), Listens(4, n1, 80)},
            requests |-> {Create(1, 2, 80)}]

\* Both VMs of n1 wait for their storage, maybe until they give up.
Waiting == [vms |-> {1, 4},
            listeners |-> {Listens(1, n2, 81), Listens(4, n2, 81)},
            requests |-> {Storage(1, n2), Storage(4, n2)}]

\* One VM with both kinds of connection, and one back to it.
Mixed == [vms |-> {1, 2},
          listeners |-> {Listens(1, n2, 81), Listens(1, n1, 80), Listens(2, n2, 80)},
          requests |-> {Create(1, 2, 80), Create(2, 1, 80), Storage(1, n2)}]

MCWorkloads == {Tenants, Waiting, Mixed}

\* A client that may ask before the other listens.
EarlyWorkload == {[vms |-> {1, 2}, listeners |-> {Listens(2, n2, 80)},
                   requests |-> {Create(1, 2, 80)}]}
=============================================================================
