----------------------------- MODULE MCPipeline -----------------------------
(* Model-checking instances of Pipeline: see the .cfg files for the sizes. *)
EXTENDS Pipeline
=============================================================================
