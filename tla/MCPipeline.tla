------------------------------ MODULE MCPipeline -----------------------------
(* Small instances of AlertPipeline for TLC. *)
EXTENDS AlertPipeline
=============================================================================
