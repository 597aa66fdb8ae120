--------------------------- MODULE MCCloudManager ---------------------------
(***************************************************************************)
(* Instances of CloudManager.  The users compete for two nodes with room   *)
(* for one VM each, so that a START is answered in parts, refused, or      *)
(* served, as they arrive.  User a wants two VMs for three jobs with local *)
(* file systems; b wants one VM for two jobs with a file system on two     *)
(* servers; c, where there is one, wants one VM for one job on a server.   *)
(***************************************************************************)
EXTENDS CloudManager

CONSTANTS a, b, c

JobsMC     == [u \in Users |-> CASE u = a -> 3 [] u = b -> 2 [] u = c -> 1]
QuantityMC == [u \in Users |-> IF u = a THEN 2 ELSE 1]
ServersMC  == [u \in Users |-> CASE u = a -> 0 [] u = b -> 2 [] u = c -> 1]

\* User a with two VMs whose jobs have their files on a server.
ServersRemote == [u \in Users |-> 1]
=============================================================================
