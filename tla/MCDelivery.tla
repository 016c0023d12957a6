----------------------------- MODULE MCDelivery -----------------------------
(* Model-checking instances of Delivery: see the .cfg files for the sizes. *)
EXTENDS Delivery
=============================================================================
