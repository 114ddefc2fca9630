----------------------------- MODULE MCPipeline -----------------------------
(* Three deliveries of one flagged transaction. *)
EXTENDS Pipeline
=============================================================================
