---------------------------- MODULE MCP2AsyncInput ----------------------------
(* An instance of P2AsyncInput for TLC. *)
EXTENDS P2AsyncInput
==============================================================================
