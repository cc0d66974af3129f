----------------------------- MODULE P2Directory -----------------------------
(***************************************************************************)
(* Directory streams of Preview 2 on Linux and Darwin: each has a file     *)
(* with a cursor of its own in the same directory and reads it through a   *)
(* buffer that is shared, one user at a time, by all streams (a sync.Pool).*)
(* read-directory-entry and the destructor take the stream's mutex; entries*)
(* are removed by the host meanwhile.                                      *)
(*                                                                         *)
(* A record of a buffer is the place of its entry in the directory and     *)
(* whether the entry was removed before (Darwin's zero inode; where Linux  *)
(* leaves the record out, what is read is the same).                       *)
(***************************************************************************)
EXTENDS Integers, Sequences

CONSTANTS Threads,
          Streams,     \* directory streams, open at first
          Buffers,     \* the buffers the pool may make
          Dir,         \* what each entry is, in the order of the host
          MaxRecords,  \* records that fit a buffer
          NoBuffer

\* "." and ".."; an entry whose type the record gives; one whose type has to be
\* asked for; one with a name too long or not UTF-8; a record that is not valid.
Class == {"dot", "typed", "untyped", "refused", "invalid"}

ASSUME DirectoryAssumption ==
  Dir \in Seq(Class) /\ MaxRecords \in Nat \ {0} /\ NoBuffer \notin Buffers

VARIABLES dirs,     \* filesystemState.dirs
          closed,   \* streams whose file has been closed
          lock,     \* streams whose mutex is held
          reader,   \* directoryStream.reader
          cursor,   \* the host's cursor of each stream's file
          made,     \* buffers there are
          pool,     \* how many times each buffer is in directoryBuffers
          content,  \* the records in each buffer
          gone,     \* entries the host has removed
          call,     \* what each thread is doing
          told,     \* history: the entries told about, by stream
          ended     \* history: streams whose end was told

vars == <<dirs, closed, lock, reader, cursor, made, pool, content, gone, call, told, ended>>

Entries == 1..Len(Dir)
Record == [i : Entries, removed : BOOLEAN]
Idle == [pc |-> "idle"]

Init ==
  /\ dirs = Streams /\ closed = {} /\ lock = {}
  /\ reader = [s \in Streams |-> [buffer |-> NoBuffer, pos |-> 0, end |-> 0]]
  /\ cursor = [s \in Streams |-> 0]
  /\ made = {} /\ pool = [b \in Buffers |-> 0] /\ content = [b \in Buffers |-> << >>]
  /\ gone = {} /\ call = [t \in Threads |-> Idle]
  /\ told = [s \in Streams |-> << >>] /\ ended = {}

-----------------------------------------------------------------------------
(* The pool *)

\* Mutant: the stream keeps the buffer it has given back.
ReleasedKept(r) == [r EXCEPT !.pos = 0, !.end = 0]

\* releaseBuffer
Released(r) == [r EXCEPT !.buffer = NoBuffer, !.pos = 0, !.end = 0]

\* directoryBuffers.Put and Get.
Put(b) == pool' = IF b = NoBuffer THEN pool ELSE [pool EXCEPT ![b] = @ + 1]

\* The buffer of a stream that is going to fill it.
Gets(s, b) ==
  \/ reader[s].buffer = b /\ b # NoBuffer /\ UNCHANGED <<made, pool>>
  \/ /\ reader[s].buffer = NoBuffer /\ pool[b] > 0
     /\ pool' = [pool EXCEPT ![b] = @ - 1] /\ UNCHANGED made
  \/ /\ reader[s].buffer = NoBuffer /\ b \notin made
     /\ made' = made \cup {b} /\ UNCHANGED pool

-----------------------------------------------------------------------------
(* read-directory-entry *)

Return(t, s) == call' = [call EXCEPT ![t] = Idle] /\ lock' = lock \ {s}

\* The stream is looked up under filesystemState.mu; one that is gone traps.
ReadDirectoryEntry(t, s) ==
  /\ call[t] = Idle /\ s \in dirs
  /\ call' = [call EXCEPT ![t] = [pc |-> "readEntry", s |-> s]]
  /\ UNCHANGED <<dirs, closed, lock, reader, cursor, made, pool, content, gone, told, ended>>

\* readEntry takes the mutex; a file closed before is an error.
Locks(t) ==
  /\ call[t].pc = "readEntry" /\ call[t].s \notin lock
  /\ IF call[t].s \notin closed
     THEN call' = [call EXCEPT ![t].pc = "read"] /\ lock' = lock \cup {call[t].s}
     ELSE call' = [call EXCEPT ![t] = Idle] /\ UNCHANGED lock
  /\ UNCHANGED <<dirs, closed, reader, cursor, made, pool, content, gone, told, ended>>

Empty(s) == reader[s].pos = reader[s].end

\* ReadDirent returns n records.
Refill(t) ==
  LET s == call[t].s IN
  /\ call[t].pc = "read" /\ Empty(s)
  /\ \E b \in Buffers, n \in 1..MaxRecords :
       /\ cursor[s] + n <= Len(Dir) /\ Gets(s, b)
       /\ content' = [content EXCEPT ![b] =
                        [k \in 1..n |-> [i |-> cursor[s] + k, removed |-> cursor[s] + k \in gone]]]
       /\ reader' = [reader EXCEPT ![s] = [buffer |-> b, pos |-> 0, end |-> n]]
       /\ cursor' = [cursor EXCEPT ![s] = @ + n]
  /\ UNCHANGED <<dirs, closed, lock, gone, call, told, ended>>

\* ReadDirent is interrupted, and is called again, or fails.
RefillFails(t) ==
  LET s == call[t].s IN
  /\ call[t].pc = "read" /\ Empty(s)
  /\ \E b \in Buffers : Gets(s, b) /\ reader' = [reader EXCEPT ![s].buffer = b]
  /\ \/ UNCHANGED <<call, lock>>
     \/ Return(t, s)
  /\ UNCHANGED <<dirs, closed, cursor, content, gone, told, ended>>

\* ReadDirent returns nothing: the end.  The buffer, though just taken, is given
\* back.
RefillEnds(t) ==
  LET s == call[t].s IN
  /\ call[t].pc = "read" /\ Empty(s) /\ cursor[s] = Len(Dir)
  /\ \E b \in Buffers :
       \/ reader[s].buffer = b /\ Put(b) /\ UNCHANGED made
       \/ reader[s].buffer = NoBuffer /\ pool[b] > 0 /\ UNCHANGED <<made, pool>>
       \/ reader[s].buffer = NoBuffer /\ b \notin made /\ Put(b) /\ made' = made \cup {b}
  /\ reader' = [reader EXCEPT ![s] = Released(@)]
  /\ ended' = ended \cup {s}
  /\ Return(t, s)
  /\ UNCHANGED <<dirs, closed, cursor, content, gone, told>>

Current(s) == content[reader[s].buffer][reader[s].pos + 1]
Advanced(r) == [r EXCEPT !.pos = @ + 1]
Tell(s, i) == told' = [told EXCEPT ![s] = Append(@, i)]

Skipped(r) == Advanced(r)

\* Mutant: an entry that is refused stays where it is.
RefusedInPlace(r) == r

Refused(r) == Advanced(r)

\* One record of the buffer, up to what has to be asked of the host.
Take(t) ==
  LET s == call[t].s
      class == IF Current(s).removed THEN "dot" ELSE Dir[Current(s).i]
  IN  /\ call[t].pc = "read" /\ ~Empty(s)
      /\ \/ /\ class = "invalid"
            /\ Return(t, s) /\ UNCHANGED <<reader, told>>
         \/ /\ class = "dot"
            /\ reader' = [reader EXCEPT ![s] = Skipped(@)] /\ UNCHANGED <<call, lock, told>>
         \/ /\ class = "refused"
            /\ reader' = [reader EXCEPT ![s] = Refused(@)]
            /\ Tell(s, Current(s).i) /\ Return(t, s)
         \/ /\ class = "typed"
            /\ reader' = [reader EXCEPT ![s] = Advanced(@)]
            /\ Tell(s, Current(s).i) /\ Return(t, s)
         \/ /\ class = "untyped"
            /\ reader' = [reader EXCEPT ![s] = Advanced(@)]
            /\ call' = [call EXCEPT ![t] = [pc |-> "stat", s |-> s, i |-> Current(s).i]]
            /\ UNCHANGED <<lock, told>>
      /\ UNCHANGED <<dirs, closed, cursor, made, pool, content, gone, ended>>

\* statDirectoryEntry: an entry that is gone is passed over, any other answer
\* or error is returned.
Stat(t) ==
  LET s == call[t].s IN
  /\ call[t].pc = "stat"
  /\ IF call[t].i \in gone
     THEN call' = [call EXCEPT ![t] = [pc |-> "read", s |-> s]] /\ UNCHANGED <<lock, told>>
     ELSE Tell(s, call[t].i) /\ Return(t, s)
  /\ UNCHANGED <<dirs, closed, reader, cursor, made, pool, content, gone, ended>>

-----------------------------------------------------------------------------
(* The destructor, and the host *)

DropDirectoryStream(t, s) ==
  /\ call[t] = Idle /\ s \in dirs
  /\ dirs' = dirs \ {s}
  /\ call' = [call EXCEPT ![t] = [pc |-> "close", s |-> s]]
  /\ UNCHANGED <<closed, lock, reader, cursor, made, pool, content, gone, told, ended>>

\* Mutant: the stream is closed without its mutex.
CloseAnyTime(s) == TRUE

MayClose(s) == s \notin lock

CloseDirectoryStream(t) ==
  LET s == call[t].s IN
  /\ call[t].pc = "close" /\ MayClose(s)
  /\ Put(reader[s].buffer) /\ reader' = [reader EXCEPT ![s] = Released(@)]
  /\ closed' = closed \cup {s}
  /\ call' = [call EXCEPT ![t] = Idle]
  /\ UNCHANGED <<dirs, lock, cursor, made, content, gone, told, ended>>

\* The host removes an entry.
Remove(i) ==
  /\ Dir[i] # "dot" /\ i \notin gone
  /\ gone' = gone \cup {i}
  /\ UNCHANGED <<dirs, closed, lock, reader, cursor, made, pool, content, call, told, ended>>

Next ==
  \/ \E t \in Threads :
       \/ \E s \in Streams : ReadDirectoryEntry(t, s) \/ DropDirectoryStream(t, s)
       \/ Locks(t)
       \/ Refill(t)
       \/ RefillFails(t)
       \/ RefillEnds(t)
       \/ Take(t)
       \/ Stat(t)
       \/ CloseDirectoryStream(t)
  \/ \E i \in Entries : Remove(i)

Spec == Init /\ [][Next]_vars

-----------------------------------------------------------------------------
(* Properties *)

TypeOK ==
  /\ dirs \subseteq Streams /\ closed \subseteq Streams /\ lock \subseteq Streams
  /\ reader \in [Streams -> [buffer : Buffers \cup {NoBuffer}, pos : Nat, end : Nat]]
  /\ \A s \in Streams :
       /\ reader[s].pos <= reader[s].end
       /\ reader[s].buffer = NoBuffer => reader[s].end = 0
  /\ cursor \in [Streams -> 0..Len(Dir)]
  /\ made \subseteq Buffers /\ pool \in [Buffers -> Nat]
  /\ content \in [Buffers -> Seq(Record)]
  /\ gone \subseteq Entries /\ told \in [Streams -> Seq(Entries)] /\ ended \subseteq Streams

\* Every buffer is in the pool once or belongs to one stream, and a closed
\* stream has none: releaseBuffer at the end, in the destructor, and again for
\* a stream that is read after its end never gives a buffer back twice, keeps
\* one it has given back, or loses one.
BuffersOwned ==
  /\ \A b \in made :
       LET holders == {s \in Streams : reader[s].buffer = b}
       IN  (pool[b] = 1 /\ holders = {}) \/ (pool[b] = 0 /\ \E s \in Streams : holders = {s})
  /\ \A b \in Buffers \ made : pool[b] = 0 /\ \A s \in Streams : reader[s].buffer # b
  /\ \A s \in closed : reader[s].buffer = NoBuffer

\* "The stream mutex serializes resource close with these native fd calls": no
\* host call is made on the descriptor of a closed stream.
NativeCallsOpen ==
  \A t \in Threads : call[t].pc \in {"read", "stat"} => call[t].s \notin closed

Told(s) == {told[s][k] : k \in 1..Len(told[s])}

\* The readers of a stream together are told of every entry once and in the
\* order of the host, and one is left out only if it is "." or ".." or has been
\* removed: across refills, entries that are refused, failed calls, ends that
\* are read again, and other streams using the same buffers.
ListingInOrder ==
  \A s \in Streams :
    /\ \A k, l \in 1..Len(told[s]) : k < l => told[s][k] < told[s][l]
    /\ \A i \in Entries :
         (s \in ended \/ \E j \in Told(s) : i < j) =>
           i \in Told(s) \cup gone \/ Dir[i] = "dot"

==============================================================================
