------------------------------- MODULE MCP1Poll -------------------------------
(* An instance of P1Poll for TLC. *)
EXTENDS P1Poll
==============================================================================
