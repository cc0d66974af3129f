--------------------------- MODULE MCP2Descriptors ---------------------------
(* An instance of P2Descriptors for TLC. *)
EXTENDS P2Descriptors, TLC

MCSymmetry == Permutations(Threads)

\* Contents may change in one of the mounts only, names in both.
MCGrants == {<<{"read", "mutate"}, Rights>>}

\* All rights, a directory with less, and a truncation.
MCRequests == {<<Rights, {}>>, <<{"read", "mutate"}, {"directory"}>>, <<{"write"}, {"truncate"}>>}
==============================================================================
