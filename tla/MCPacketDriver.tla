--------------------------- MODULE MCPacketDriver ---------------------------
(* Two applications with one thread each; and enough descriptors for a send  *)
(* queue of one or two.                                                      *)
EXTENDS PacketDriverRefinement, TLC

CONSTANTS p1, p2, a1, a2, a3

MCAppPid == (a1 :> p1) @@ (a2 :> p2) @@ (a3 :> p1)

Descriptors == Permutations(PD)
=============================================================================
