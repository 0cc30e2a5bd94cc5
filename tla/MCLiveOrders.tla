----------------------------- MODULE MCLiveOrders -----------------------------
(* One signal and one manual order for TLC. *)
EXTENDS LiveOrders

CONSTANTS s1, r1
=============================================================================
