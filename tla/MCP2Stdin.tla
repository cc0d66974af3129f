------------------------------ MODULE MCP2Stdin ------------------------------
(* An instance of P2Stdin for TLC. *)
EXTENDS P2Stdin
==============================================================================
