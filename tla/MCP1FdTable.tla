----------------------------- MODULE MCP1FdTable -----------------------------
(* An instance of P1FdTable for TLC. *)
EXTENDS P1FdTable, TLC

CONSTANTS names, data

\* One mount lets names change but not contents, the other the reverse.
MCMounts == {names, data}
MCBoth == <<names, data>>
MCGrant ==
  [m \in MCMounts |-> [read |-> TRUE, write |-> m = data, mutate |-> m = names]]

\* For reading, which both mounts grant, and with a right to change contents,
\* which one does; a directory keeps only the first of each.
MCAsked == {{"path_open", "fd_read"}, {"path_open", "fd_size"}}

Symmetry == Permutations(Files)
==============================================================================
