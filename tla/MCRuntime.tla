----------------------------- MODULE MCRuntime -----------------------------
(* Model-checking instances of Runtime: see the .cfg files for the sizes. *)
EXTENDS Runtime
=============================================================================
