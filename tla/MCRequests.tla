----------------------------- MODULE MCRequests -----------------------------
(* Model-checking instances of Requests: see the .cfg files for the sizes. *)
EXTENDS Requests

EveryMode == {"fanout", "oauth", "static"}
GivenTimes == {None, 1, 3}
=============================================================================
