---------------------------- MODULE MCGateway ----------------------------
(* Gateway with a symmetry set for TLC.                                      *)
EXTENDS Gateway, TLC

GatewaySymmetry == Permutations(Requests)
=============================================================================
