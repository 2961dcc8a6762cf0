--------------------------- MODULE MCGatewayLink ---------------------------
(* Instances of GatewayLink small enough for TLC. *)
EXTENDS GatewayLink

CONSTANTS m1, m2

=============================================================================
