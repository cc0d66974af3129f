------------------------------ MODULE MCP1FileIO ------------------------------
(***************************************************************************)
(* An instance of P1FileIO for TLC: two instances, files of at most two    *)
(* bytes, sizes of at most three, offsets of three bits.                   *)
(***************************************************************************)
EXTENDS P1FileIO

CONSTANTS First, Second

Vec(n) == [n |-> n, ok |-> TRUE]
Bad(n) == [n |-> n, ok |-> FALSE]
Give(op, vecs) == [op |-> op, vecs |-> vecs, table |-> TRUE, ptr |-> TRUE]

\* Every shape of a vector list, and every way to reject one.
MCLists == {<<>>, <<Vec(1)>>, <<Vec(2)>>, <<Vec(1), Vec(1)>>, <<Vec(0), Vec(2)>>,
            <<Vec(2), Vec(2)>>, <<Vec(1), Bad(1)>>, <<Vec(1), Vec(1), Vec(1)>>}
MCStreams == {Give(op, v) : op \in {"read", "write"}, v \in MCLists}
MCBadPointers == {[Give(op, <<Vec(1)>>) EXCEPT !.table = t, !.ptr = ~t] : op \in {"read", "write"}, t \in BOOLEAN}
At3(r, off) == [op |-> r.op, vecs |-> r.vecs, table |-> r.table, ptr |-> r.ptr, off |-> off]
MCPositioned == {At3(Give(op, v), off) : op \in {"pread", "pwrite"},
                                         v \in {<<Vec(1), Vec(1)>>, <<Vec(2), Vec(2)>>}, off \in {0, 1, 5}}
MCSeeks == {[op |-> "seek", off |-> off, whence |-> w, ptr |-> TRUE] : off \in {0, 1, 7}, w \in 0..3}
MCFlags == [op : {"set_flags"}, append : BOOLEAN, others : {"none", "nonblock", "sync", "unknown"}]
MCAllocations == [op : {"allocate"}, off : {0, 1, 7}, len : {0, 1, 2, 3}]
MCSizes == [op : {"set_size"}, len : {0, 2, 4}]
MCTells == [op : {"tell"}, ptr : BOOLEAN]

\* The first instance makes every call; the second, with a regular file, a few
\* that change what the first one relies on.
MCCalls == MCStreams \cup MCBadPointers \cup MCPositioned \cup MCTells
             \cup MCSeeks \cup MCFlags \cup MCAllocations \cup MCSizes
MCOther == {Give("write", <<Vec(1)>>), [op |-> "set_size", len |-> 0],
            [op |-> "allocate", off |-> 0, len |-> 2]}
MCRequests == (First :> MCCalls) @@ (Second :> MCOther)
MCKinds == (First :> {"file", "dir", "stream", "stdio", "none", "closed"}) @@ (Second :> {"file"})

\* makeFS and path_open: a directory carries none of these rights, and the
\* standard streams (one kind for all three) only those to read and to write.
MCRights ==
  [kind \in {"file", "dir", "stream", "stdio", "none", "closed"} |->
     CASE kind = "file" -> {"read", "write", "seek", "tell", "allocate", "set_size", "set_flags"}
       [] kind \in {"stream", "stdio", "none"} -> {"read", "write"}
       [] OTHER -> {}]
===============================================================================
