---------------------------- MODULE MCGatewayPin ----------------------------
(* Instances of GatewayPin for TLC; two paths to the gateway are alike. *)
EXTENDS GatewayPin, TLC

Paths == Permutations(Pins)
=============================================================================
