----------------------------- MODULE MCDelivery -----------------------------
(* An instance of Delivery small enough for TLC. *)
EXTENDS Delivery

CONSTANTS a, b

=============================================================================
