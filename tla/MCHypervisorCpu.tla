-------------------------- MODULE MCHypervisorCpu --------------------------
(* A node with two cores and three guests: one with the virtual cores 0    *)
(* and 1 (v0 and v1), and two with a single virtual core 0 (w0 and x0).    *)
(* Four blocks in all: asked for at once, two of them wait; or a virtual   *)
(* core goes on with a second block while others compute.                  *)
EXTENDS HypervisorCpu, TLC

CONSTANTS v0, v1, w0, x0

MCVIndex == (v0 :> 0) @@ (v1 :> 1) @@ (w0 :> 0) @@ (x0 :> 0)
=============================================================================
