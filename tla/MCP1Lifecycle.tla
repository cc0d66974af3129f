---------------------------- MODULE MCP1Lifecycle ----------------------------
(* An instance of P1Lifecycle for TLC. *)
EXTENDS P1Lifecycle
==============================================================================
