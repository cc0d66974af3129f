---------------------------- MODULE MCP2Directory ----------------------------
(* An instance of P2Directory for TLC. *)
EXTENDS P2Directory, TLC

MCDir == <<"dot", "untyped", "refused", "typed">>

Symmetry == Permutations(Buffers) \cup Permutations(Threads)
==============================================================================
