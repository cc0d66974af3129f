------------------------------- MODULE MCP2Poll -------------------------------
(* An instance of P2Poll for TLC. *)
EXTENDS P2Poll
==============================================================================
