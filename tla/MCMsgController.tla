-------------------------- MODULE MCMsgController --------------------------
(* Two applications, on gates 0 and 1: two network messages with a rank, a *)
(* CPU message, and one message that the operating system sends.           *)
EXTENDS MsgController, TLC

CONSTANTS n1, n2, c1, o1

MCKind    == (n1 :> "NET") @@ (n2 :> "NET") @@ (c1 :> "CPU") @@ (o1 :> "NET")
MCAppGate == (n1 :> 0) @@ (n2 :> 1) @@ (c1 :> 0) @@ (o1 :> 1)
MCRank    == (n1 :> 5) @@ (n2 :> 7) @@ (c1 :> NoRank) @@ (o1 :> 9)
=============================================================================
