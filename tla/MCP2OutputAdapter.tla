-------------------------- MODULE MCP2OutputAdapter --------------------------
(* An instance of P2OutputAdapter for TLC. *)
EXTENDS P2OutputAdapter
==============================================================================
