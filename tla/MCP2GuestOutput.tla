--------------------------- MODULE MCP2GuestOutput ---------------------------
(* An instance of P2GuestOutput for TLC. *)
EXTENDS P2GuestOutput
==============================================================================
