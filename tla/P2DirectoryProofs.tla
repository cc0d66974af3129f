-------------------------- MODULE P2DirectoryProofs --------------------------
(***************************************************************************)
(* P2Directory for any directory, any number of streams, threads and       *)
(* buffers and any size of a buffer: its inductive invariant and what      *)
(* follows from it.                                                        *)
(***************************************************************************)
EXTENDS P2Directory, TLAPS

Call == [pc : {"idle"}] \cup [pc : {"readEntry", "read", "close"}, s : Streams]
          \cup [pc : {"stat"}, s : Streams, i : Entries]

Shape == TypeOK /\ call \in [Threads -> Call]

\* The thread holds the mutex of its stream.
Active(t) == call[t].pc \in {"read", "stat"}
Stats(t, s) == call[t].pc = "stat" /\ call[t].s = s

Locked ==
  /\ \A t \in Threads : Active(t) => call[t].s \in lock /\ call[t].s \notin closed
  /\ \A t, u \in Threads : Active(t) /\ Active(u) /\ call[t].s = call[u].s => t = u

Owned ==
  /\ \A b \in Buffers : pool[b] \in {0, 1} /\ (b \notin made => pool[b] = 0)
  /\ \A b \in made : pool[b] = 1 \/ \E s \in Streams : reader[s].buffer = b
  /\ \A s \in Streams : reader[s].buffer # NoBuffer =>
       /\ reader[s].buffer \in made /\ pool[reader[s].buffer] = 0 /\ s \notin closed
       /\ \A r \in Streams : reader[r].buffer = reader[s].buffer => r = s

\* What is left in the buffer of a stream are the entries before its cursor.
BufferedAt(s) ==
  reader[s].buffer # NoBuffer =>
    /\ reader[s].end <= Len(content[reader[s].buffer]) /\ reader[s].end <= cursor[s]
    /\ \A k \in 1..reader[s].end :
         /\ content[reader[s].buffer][k].i = cursor[s] - reader[s].end + k
         /\ content[reader[s].buffer][k].removed => content[reader[s].buffer][k].i \in gone

Buffered == \A s \in Streams : BufferedAt(s)

\* The entry a stream has got to.
Place(s) == cursor[s] - reader[s].end + reader[s].pos

\* The entries up to there have been told, may be left out, or are being asked
\* about; the end has been told only there.
ListedAt(s) ==
  /\ \A k \in 1..Len(told[s]) : told[s][k] <= Place(s)
  /\ \A t \in Threads : Stats(t, s) =>
       call[t].i = Place(s) /\ \A k \in 1..Len(told[s]) : told[s][k] < Place(s)
  /\ \A i \in Entries : i <= Place(s) =>
       \/ i \in gone \/ Dir[i] = "dot" \/ \E k \in 1..Len(told[s]) : told[s][k] = i
       \/ \E t \in Threads : Stats(t, s) /\ call[t].i = i
  /\ s \in ended => /\ Place(s) = Len(Dir) /\ reader[s].pos = reader[s].end
                    /\ \A t \in Threads : ~Stats(t, s)

Listed == \A s \in Streams \ closed : ListedAt(s)

IInv == Shape /\ Locked /\ Owned /\ Buffered /\ Listed /\ ListingInOrder

-----------------------------------------------------------------------------
(* What a thread is doing *)

LEMMA CallFields ==
  ASSUME call \in [Threads -> Call], NEW t \in Threads
  PROVE  /\ call[t].pc \in {"idle", "readEntry", "read", "close", "stat"}
         /\ call[t].pc # "idle" => call[t].s \in Streams
         /\ call[t].pc = "stat" => call[t].i \in Entries
         /\ call[t].pc = "readEntry" =>
              [call[t] EXCEPT !.pc = "read"] = [pc |-> "read", s |-> call[t].s]
<1>1. call[t] \in Call  BY Zenon
<1>2. CASE call[t] \in [pc : {"idle"}]  BY <1>2, Zenon
<1>3. CASE call[t] \in [pc : {"readEntry", "read", "close"}, s : Streams]  BY <1>3
<1>4. CASE call[t] \in [pc : {"stat"}, s : Streams, i : Entries]  BY <1>4, Zenon
<1> QED  BY <1>1, <1>2, <1>3, <1>4, Zenon DEF Call

LEMMA CallShapes ==
  /\ Idle \in Call /\ Idle.pc = "idle"
  /\ \A s \in Streams :
       /\ \A p \in {"readEntry", "read", "close"} :
            /\ [pc |-> p, s |-> s] \in Call
            /\ [pc |-> p, s |-> s].pc = p /\ [pc |-> p, s |-> s].s = s
       /\ \A i \in Entries :
            /\ [pc |-> "stat", s |-> s, i |-> i] \in Call
            /\ [pc |-> "stat", s |-> s, i |-> i].pc = "stat"
            /\ [pc |-> "stat", s |-> s, i |-> i].s = s
            /\ [pc |-> "stat", s |-> s, i |-> i].i = i
BY Zenon DEF Call, Idle

LEMMA CallStep ==
  ASSUME call \in [Threads -> Call], NEW t \in Threads, NEW c \in Call,
         call' = [call EXCEPT ![t] = c]
  PROVE  call' \in [Threads -> Call] /\ \A u \in Threads : call'[u] = IF u = t THEN c ELSE call[u]
BY Zenon

\* A thread that ends its call and gives up the mutex it has.
LEMMA Returns ==
  ASSUME call \in [Threads -> Call], Locked, NEW t \in Threads, NEW s \in Streams,
         Active(t), call[t].s = s, Return(t, s), closed' = closed
  PROVE  Locked' /\ call' \in [Threads -> Call] /\ call'[t].pc = "idle"
         /\ \A u \in Threads \ {t} : call'[u] = call[u]
<1>1. call' = [call EXCEPT ![t] = Idle] /\ lock' = lock \ {s}  BY Zenon DEF Return
<1>2. call' \in [Threads -> Call] /\ \A u \in Threads : call'[u] = IF u = t THEN Idle ELSE call[u]
  BY <1>1, CallShapes, CallStep
<1>3. Idle.pc \notin {"read", "stat"}  BY CallShapes
<1>4. ASSUME NEW u \in Threads, Active(u)' PROVE u # t /\ call'[u] = call[u] /\ Active(u)
  BY <1>2, <1>3, <1>4, Zenon DEF Active
<1>5. \A u \in Threads : Active(u)' => call'[u].s \in lock' /\ call'[u].s \notin closed'
  BY <1>1, <1>4, Zenon DEF Locked
<1>6. \A u, v \in Threads : Active(u)' /\ Active(v)' /\ call'[u].s = call'[v].s => u = v
  BY <1>4, Zenon DEF Locked
<1>7. Locked'  BY <1>5, <1>6, Zenon DEF Locked
<1>8. Idle.pc = "idle"  BY CallShapes, Zenon
<1> QED  BY <1>2, <1>7, <1>8, Zenon

-----------------------------------------------------------------------------
(* The listing *)

\* What the stream has told follows from where it is, and for a stream that is
\* closed stays what it was.
LEMMA ListingKept ==
  ASSUME Shape', Listed', ListingInOrder, gone \subseteq gone',
         \A s \in Streams :
           /\ \A k, l \in 1..Len(told'[s]) : k < l => told'[s][k] < told'[s][l]
           /\ s \in closed' => told'[s] = told[s] /\ (s \in ended' => s \in ended)
  PROVE  ListingInOrder'
<1> SUFFICES ASSUME NEW s \in Streams, NEW i \in Entries,
                    s \in ended' \/ \E j \in Told(s)' : i < j
             PROVE  i \in Told(s)' \cup gone' \/ Dir[i] = "dot"
  BY Zenon DEF ListingInOrder
<1>1. CASE s \in closed'
  BY <1>1 DEF ListingInOrder, Told
<1>2. CASE s \notin closed'
  <2>1. Place(s)' \in Int /\ Entries \subseteq Int /\ Len(Dir) \in Nat
    BY DirectoryAssumption DEF Place, Shape, TypeOK, Entries
  <2>2. i <= Place(s)'
    <3>1. CASE s \in ended'  BY <1>2, <2>1, <3>1 DEF Listed, ListedAt, Entries
    <3>2. CASE \E j \in Told(s)' : i < j
      <4>1. PICK k \in 1..Len(told'[s]) : i < told'[s][k]  BY <3>2, Zenon DEF Told
      <4>2. told'[s][k] <= Place(s)'  BY <1>2, <4>1, Zenon DEF Listed, ListedAt
      <4>3. told'[s][k] \in Entries  BY <4>1 DEF Shape, TypeOK
      <4>4. i \in Int /\ told'[s][k] \in Int  BY <2>1, <4>3, Zenon
      <4> QED  BY <2>1, <4>1, <4>2, <4>4
    <3> QED  BY <3>1, <3>2, Zenon
  <2>3. ASSUME NEW t \in Threads, Stats(t, s)', call'[t].i = i  PROVE FALSE
    <3>1. i = Place(s)' /\ s \notin ended' /\ \A k \in 1..Len(told'[s]) : told'[s][k] < i
      BY <1>2, <2>3 DEF Listed, ListedAt
    <3>2. PICK k \in 1..Len(told'[s]) : i < told'[s][k]  BY <3>1, Zenon DEF Told
    <3>3. told'[s][k] \in Entries  BY <3>2 DEF Shape, TypeOK
    <3>4. i \in Int /\ told'[s][k] \in Int  BY <2>1, <3>3, Zenon
    <3>5. told'[s][k] < i /\ i < told'[s][k]  BY <3>1, <3>2, Zenon
    <3> QED  BY <3>4, <3>5
  <2>4. i \in gone' \/ Dir[i] = "dot" \/ \E k \in 1..Len(told'[s]) : told'[s][k] = i
    BY <1>2, <2>2, <2>3, Zenon DEF Listed, ListedAt
  <2> QED  BY <2>4, Zenon DEF Told
<1> QED  BY <1>1, <1>2, Zenon

\* A stream that a step neither moves nor tells anything about.
LEMMA ListedElsewhere ==
  ASSUME NEW s \in Streams, ListedAt(s), gone \subseteq gone',
         told'[s] = told[s], Place(s)' = Place(s),
         s \in ended' => s \in ended /\ reader'[s].pos = reader'[s].end,
         \A u \in Threads : /\ Stats(u, s)' <=> Stats(u, s)
                            /\ Stats(u, s) => call'[u].i = call[u].i
  PROVE  ListedAt(s)'
BY DEF ListedAt

LEMMA BufferedElsewhere ==
  ASSUME NEW s \in Streams, BufferedAt(s), gone \subseteq gone',
         reader'[s].buffer = reader[s].buffer, reader'[s].end = reader[s].end,
         cursor'[s] = cursor[s],
         reader[s].buffer # NoBuffer => content'[reader[s].buffer] = content[reader[s].buffer]
  PROVE  BufferedAt(s)'
BY Zenon DEF BufferedAt

-----------------------------------------------------------------------------
(* The pool *)

LEMMA OwnedIsOwned ==
  ASSUME Shape, Owned  PROVE BuffersOwned
<1>1. ASSUME NEW b \in made
      PROVE  LET holders == {s \in Streams : reader[s].buffer = b}
             IN  (pool[b] = 1 /\ holders = {}) \/ (pool[b] = 0 /\ \E s \in Streams : holders = {s})
  <2>1. b \in Buffers /\ b # NoBuffer  BY DirectoryAssumption, Zenon DEF Shape, TypeOK
  <2>2. CASE pool[b] = 1
    <3>1. \A s \in Streams : reader[s].buffer # b  BY <2>1, <2>2 DEF Owned
    <3> QED  BY <2>2, <3>1, Zenon
  <2>3. CASE pool[b] = 0
    <3>1. PICK s \in Streams : reader[s].buffer = b  BY <2>3 DEF Owned
    <3>2. \A x \in Streams : reader[x].buffer = b => x = s  BY <2>1, <3>1, Zenon DEF Owned
    <3>3. {x \in Streams : reader[x].buffer = b} = {s}  BY <3>1, <3>2, Zenon
    <3> QED  BY <2>3, <3>3, Zenon
  <2> QED  BY <2>1, <2>2, <2>3, Zenon DEF Owned
<1>2. \A b \in Buffers \ made : pool[b] = 0 /\ \A s \in Streams : reader[s].buffer # b
  BY DirectoryAssumption DEF Owned
<1>3. \A s \in closed : reader[s].buffer = NoBuffer  BY Zenon DEF Owned, Shape, TypeOK
<1> QED  BY <1>1, <1>2, <1>3, Zenon DEF BuffersOwned

LEMMA OwnedKept ==
  ASSUME Owned, UNCHANGED <<made, pool, closed>>,
         \A s \in Streams : reader'[s].buffer = reader[s].buffer
  PROVE  Owned'
BY DEF Owned

\* A stream that takes a buffer.
LEMMA GetsOwned ==
  ASSUME Shape, Owned, NEW s \in Streams, s \notin closed, NEW b \in Buffers, Gets(s, b),
         \A x \in Streams : reader'[x].buffer = IF x = s THEN b ELSE reader[x].buffer,
         closed' = closed
  PROVE  Owned' /\ made' \subseteq Buffers /\ pool' \in [Buffers -> Nat]
<1>1. \A x \in Streams : reader'[x].buffer = IF x = s THEN b ELSE reader[x].buffer
  BY Zenon
<1>2. b # NoBuffer /\ made \subseteq Buffers /\ pool \in [Buffers -> Nat]
  BY DirectoryAssumption, Zenon DEF Shape, TypeOK
<1>3. CASE reader[s].buffer = b /\ b # NoBuffer /\ UNCHANGED <<made, pool>>
  BY <1>1, <1>2, <1>3, OwnedKept, Zenon
<1>4. CASE reader[s].buffer = NoBuffer /\ pool[b] > 0
           /\ pool' = [pool EXCEPT ![b] = @ - 1] /\ UNCHANGED made
  <2>1. pool[b] = 1 /\ b \in made  BY <1>2, <1>4 DEF Owned
  <2>2. \A x \in Streams : reader[x].buffer # b  BY <1>2, <2>1 DEF Owned
  <2>3. pool'[b] = 0 /\ \A c \in Buffers \ {b} : pool'[c] = pool[c]  BY <1>2, <1>4, <2>1
  <2>4. pool' \in [Buffers -> Nat]  BY <1>2, <1>4, <2>1
  <2>5. \A c \in Buffers : pool'[c] \in {0, 1} /\ (c \notin made' => pool'[c] = 0)
    BY <1>4, <2>1, <2>3, Zenon DEF Owned
  <2>6. \A c \in made' : pool'[c] = 1 \/ \E x \in Streams : reader'[x].buffer = c
    <3> SUFFICES ASSUME NEW c \in made', c # b  PROVE pool'[c] = 1 \/ \E x \in Streams : reader'[x].buffer = c
      BY <1>1, Zenon
    <3>1. c \in made /\ c \in Buffers /\ c # NoBuffer  BY <1>2, <1>4, DirectoryAssumption, Zenon
    <3>2. pool[c] = 1 \/ \E x \in Streams \ {s} : reader[x].buffer = c
      BY <1>4, <3>1, Zenon DEF Owned
    <3> QED  BY <1>1, <2>3, <3>1, <3>2, Zenon
  <2>7. \A x \in Streams : reader'[x].buffer # NoBuffer =>
          /\ reader'[x].buffer \in made' /\ pool'[reader'[x].buffer] = 0 /\ x \notin closed'
          /\ \A y \in Streams : reader'[y].buffer = reader'[x].buffer => y = x
    <3> SUFFICES ASSUME NEW x \in Streams, reader'[x].buffer # NoBuffer
                 PROVE  /\ reader'[x].buffer \in made' /\ pool'[reader'[x].buffer] = 0
                        /\ x \notin closed'
                        /\ \A y \in Streams : reader'[y].buffer = reader'[x].buffer => y = x
      BY Zenon
    <3>1. CASE x = s  BY <1>1, <1>4, <2>1, <2>2, <2>3, <3>1, Zenon
    <3>2. CASE x # s
      <4>1. reader[x].buffer \in made /\ reader[x].buffer \in Buffers /\ reader[x].buffer # b
        BY <1>1, <1>2, <2>2, <3>2, Zenon DEF Owned
      <4> QED  BY <1>1, <1>4, <2>3, <3>2, <4>1 DEF Owned
    <3> QED  BY <3>1, <3>2, Zenon
  <2>8. Owned'  BY <2>5, <2>6, <2>7, Zenon DEF Owned
  <2> QED  BY <1>2, <1>4, <2>4, <2>8, Zenon
<1>5. CASE reader[s].buffer = NoBuffer /\ b \notin made /\ made' = made \cup {b} /\ UNCHANGED pool
  <2>1. \A x \in Streams : reader[x].buffer # b  BY <1>2, <1>5, Zenon DEF Owned
  <2>2. pool[b] = 0  BY <1>5, Zenon DEF Owned
  <2>3. \A c \in Buffers : pool'[c] \in {0, 1} /\ (c \notin made' => pool'[c] = 0)
    BY <1>5, Zenon DEF Owned
  <2>4. \A c \in made' : pool'[c] = 1 \/ \E x \in Streams : reader'[x].buffer = c
    <3> SUFFICES ASSUME NEW c \in made', c # b  PROVE pool'[c] = 1 \/ \E x \in Streams : reader'[x].buffer = c
      BY <1>1, Zenon
    <3>1. c \in made /\ c # NoBuffer  BY <1>2, <1>5, DirectoryAssumption, Zenon
    <3>2. pool[c] = 1 \/ \E x \in Streams \ {s} : reader[x].buffer = c
      BY <1>5, <3>1, Zenon DEF Owned
    <3> QED  BY <1>1, <1>5, <3>2, Zenon
  <2>5. \A x \in Streams : reader'[x].buffer # NoBuffer =>
          /\ reader'[x].buffer \in made' /\ pool'[reader'[x].buffer] = 0 /\ x \notin closed'
          /\ \A y \in Streams : reader'[y].buffer = reader'[x].buffer => y = x
    <3> SUFFICES ASSUME NEW x \in Streams, reader'[x].buffer # NoBuffer
                 PROVE  /\ reader'[x].buffer \in made' /\ pool'[reader'[x].buffer] = 0
                        /\ x \notin closed'
                        /\ \A y \in Streams : reader'[y].buffer = reader'[x].buffer => y = x
      BY Zenon
    <3>1. CASE x = s  BY <1>1, <1>5, <2>1, <2>2, <3>1, Zenon
    <3>2. CASE x # s  BY <1>1, <1>5, <2>1, <3>2 DEF Owned
    <3> QED  BY <3>1, <3>2, Zenon
  <2> QED  BY <1>2, <1>5, <2>3, <2>4, <2>5, Zenon DEF Owned
<1> QED  BY <1>3, <1>4, <1>5, Zenon DEF Gets

\* A stream that gives its buffer back, if it has one.
LEMMA ReleaseOwned ==
  ASSUME Shape, Owned, NEW s \in Streams, Put(reader[s].buffer),
         reader' = [reader EXCEPT ![s] = Released(@)], made' = made,
         closed' \subseteq closed \cup {s}, closed \subseteq closed'
  PROVE  Owned' /\ pool' \in [Buffers -> Nat]
<1>1. \A x \in Streams : reader'[x].buffer = IF x = s THEN NoBuffer ELSE reader[x].buffer
  BY Zenon DEF Shape, TypeOK, Released
<1>2. NoBuffer \notin Buffers /\ made \subseteq Buffers /\ pool \in [Buffers -> Nat]
  BY DirectoryAssumption, Zenon DEF Shape, TypeOK
<1>3. CASE reader[s].buffer = NoBuffer
  BY <1>1, <1>2, <1>3 DEF Owned, Put
<1>4. CASE reader[s].buffer # NoBuffer
  <2> DEFINE b == reader[s].buffer
  <2>1. b \in made /\ b \in Buffers /\ pool[b] = 0  BY <1>2, <1>4, Zenon DEF Owned
  <2>2. pool' = [pool EXCEPT ![b] = 1]  BY <1>2, <1>4, <2>1 DEF Put
  <2>3. pool' \in [Buffers -> Nat] /\ pool'[b] = 1
        /\ \A c \in Buffers \ {b} : pool'[c] = pool[c]
    BY <1>2, <2>1, <2>2, Zenon
  <2>4. \A x \in Streams : reader[x].buffer = b => x = s  BY <1>4, Zenon DEF Owned
  <2>5. Owned'  BY <1>1, <1>2, <1>4, <2>1, <2>3, <2>4 DEF Owned
  <2> QED  BY <2>3, <2>5, Zenon
<1> QED  BY <1>3, <1>4, Zenon

-----------------------------------------------------------------------------
(* The actions *)

\* A step that only changes what a thread without a mutex is doing.
LEMMA CallOnly ==
  ASSUME IInv, NEW t \in Threads, ~Active(t), NEW c \in Call, c.pc # "stat",
         call' = [call EXCEPT ![t] = c], dirs' \subseteq Streams, lock' \subseteq Streams,
         UNCHANGED <<closed, reader, cursor, made, pool, content, gone, told, ended>>
  PROVE  Shape' /\ Owned' /\ Buffered' /\ Listed' /\ ListingInOrder'
<1>1. call' \in [Threads -> Call] /\ \A u \in Threads : call'[u] = IF u = t THEN c ELSE call[u]
  BY CallStep, Zenon DEF IInv, Shape
<1>2. Shape'  BY <1>1, Zenon DEF IInv, Shape, TypeOK
<1>3. Owned'  BY OwnedKept, Zenon DEF IInv
<1>4. Buffered'  BY BufferedElsewhere, Zenon DEF IInv, Buffered
<1>5. Listed'
  <2> SUFFICES ASSUME NEW s \in Streams, s \notin closed  PROVE ListedAt(s)'
    BY Zenon DEF Listed
  <2>1. \A u \in Threads : /\ Stats(u, s)' <=> Stats(u, s)
                           /\ Stats(u, s) => call'[u].i = call[u].i
    BY <1>1, Zenon DEF Stats, Active
  <2>2. ListedAt(s)  BY Zenon DEF IInv, Listed
  <2>3. Place(s)' = Place(s)  BY Zenon DEF Place
  <2>4. s \in ended => reader[s].pos = reader[s].end  BY <2>2, Zenon DEF ListedAt
  <2> QED  BY <2>1, <2>2, <2>3, <2>4, ListedElsewhere, Zenon
<1>6. ListingInOrder'  BY Zenon DEF IInv, ListingInOrder, Told
<1> QED  BY <1>2, <1>3, <1>4, <1>5, <1>6, Zenon

LEMMA ReadDirectoryEntryKeeps ==
  ASSUME IInv, NEW t \in Threads, NEW s \in Streams, ReadDirectoryEntry(t, s)
  PROVE  IInv'
<1> DEFINE c == [pc |-> "readEntry", s |-> s]
<1>1. c \in Call /\ c.pc = "readEntry"  BY CallShapes, Zenon
<1>2. ~Active(t)  BY CallShapes, Zenon DEF ReadDirectoryEntry, Active
<1>3. call' = [call EXCEPT ![t] = c]  BY Zenon DEF ReadDirectoryEntry
<1> HIDE DEF c
<1>4. Shape' /\ Owned' /\ Buffered' /\ Listed' /\ ListingInOrder'
  BY <1>1, <1>2, <1>3, CallOnly, Zenon DEF ReadDirectoryEntry, IInv, Shape, TypeOK
<1>5. \A u \in Threads : call'[u] = IF u = t THEN c ELSE call[u]
  BY <1>1, <1>3, CallStep, Zenon DEF IInv, Shape
<1>6. Locked'  BY <1>1, <1>5 DEF Locked, Active, ReadDirectoryEntry, IInv
<1> QED  BY <1>4, <1>6, Zenon DEF IInv

LEMMA DropDirectoryStreamKeeps ==
  ASSUME IInv, NEW t \in Threads, NEW s \in Streams, DropDirectoryStream(t, s)
  PROVE  IInv'
<1> DEFINE c == [pc |-> "close", s |-> s]
<1>1. c \in Call /\ c.pc = "close"  BY CallShapes, Zenon
<1>2. ~Active(t)  BY CallShapes, Zenon DEF DropDirectoryStream, Active
<1>3. call' = [call EXCEPT ![t] = c]  BY Zenon DEF DropDirectoryStream
<1> HIDE DEF c
<1>4. Shape' /\ Owned' /\ Buffered' /\ Listed' /\ ListingInOrder'
  BY <1>1, <1>2, <1>3, CallOnly, Zenon DEF DropDirectoryStream, IInv, Shape, TypeOK
<1>5. \A u \in Threads : call'[u] = IF u = t THEN c ELSE call[u]
  BY <1>1, <1>3, CallStep, Zenon DEF IInv, Shape
<1>6. Locked'  BY <1>1, <1>5 DEF Locked, Active, DropDirectoryStream, IInv
<1> QED  BY <1>4, <1>6, Zenon DEF IInv

LEMMA LocksKeeps ==
  ASSUME IInv, NEW t \in Threads, Locks(t)
  PROVE  IInv'
<1> DEFINE s == call[t].s
<1>1. call[t].pc = "readEntry" /\ s \in Streams /\ s \notin lock /\ ~Active(t)
  BY CallFields, Zenon DEF Locks, IInv, Shape, Active
<1>2. CASE s \notin closed
  <2> DEFINE c == [pc |-> "read", s |-> s]
  <2>1. c \in Call /\ c.pc = "read" /\ c.s = s  BY <1>1, CallShapes, Zenon
  <2>2. call' = [call EXCEPT ![t] = c] /\ lock' = lock \cup {s}
    BY <1>1, <1>2, CallFields, Zenon DEF Locks, IInv, Shape
  <2> HIDE DEF c, s
  <2>3. Shape' /\ Owned' /\ Buffered' /\ Listed' /\ ListingInOrder'
    BY <1>1, <2>1, <2>2, CallOnly, Zenon DEF Locks, IInv, Shape, TypeOK
  <2>4. \A u \in Threads : call'[u] = IF u = t THEN c ELSE call[u]
    BY <2>1, <2>2, CallStep, Zenon DEF IInv, Shape
  <2>5. Locked'  BY <1>1, <1>2, <2>1, <2>2, <2>4 DEF Locked, Active, Locks, IInv
  <2> QED  BY <2>3, <2>5, Zenon DEF IInv
<1>3. CASE s \in closed
  <2>1. Idle \in Call /\ Idle.pc = "idle"  BY CallShapes, Zenon
  <2>2. call' = [call EXCEPT ![t] = Idle] /\ lock' = lock  BY <1>3, Zenon DEF Locks
  <2> HIDE DEF s
  <2>3. Shape' /\ Owned' /\ Buffered' /\ Listed' /\ ListingInOrder'
    BY <1>1, <2>1, <2>2, CallOnly, Zenon DEF Locks, IInv, Shape, TypeOK
  <2>4. \A u \in Threads : call'[u] = IF u = t THEN Idle ELSE call[u]
    BY <2>1, <2>2, CallStep, Zenon DEF IInv, Shape
  <2>5. Locked'  BY <2>1, <2>2, <2>4 DEF Locked, Active, Locks, IInv
  <2> QED  BY <2>3, <2>5, Zenon DEF IInv
<1> QED  BY <1>2, <1>3, Zenon

LEMMA RemoveKeeps ==
  ASSUME IInv, NEW j \in Entries, Remove(j)
  PROVE  IInv'
<1>1. gone \subseteq gone' /\ gone' \subseteq Entries  BY Zenon DEF Remove, IInv, Shape, TypeOK
<1>2. Shape'  BY <1>1, Zenon DEF Remove, IInv, Shape, TypeOK
<1>3. Locked' /\ Owned'  BY Zenon DEF Remove, IInv, Locked, Active, Owned
<1>4. Buffered'  BY <1>1, BufferedElsewhere, Zenon DEF Remove, IInv, Buffered
<1>5. Listed'
  <2> SUFFICES ASSUME NEW s \in Streams, s \notin closed  PROVE ListedAt(s)'
    BY Zenon DEF Listed, Remove
  <2>1. ListedAt(s) /\ Place(s)' = Place(s)  BY Zenon DEF IInv, Listed, Place, Remove
  <2>2. s \in ended => reader[s].pos = reader[s].end  BY <2>1, Zenon DEF ListedAt
  <2>3. \A u \in Threads : Stats(u, s)' <=> Stats(u, s)  BY Zenon DEF Stats, Remove
  <2> QED  BY <1>1, <2>1, <2>2, <2>3, ListedElsewhere, Zenon DEF Remove
<1>6. ListingInOrder'  BY <1>1 DEF Remove, IInv, ListingInOrder, Told
<1> QED  BY <1>2, <1>3, <1>4, <1>5, <1>6, Zenon DEF IInv

\* The thread that has the mutex of a stream is the only one that works on it.
LEMMA Holder ==
  ASSUME IInv, NEW t \in Threads, Active(t)
  PROVE  /\ call[t].s \in Streams /\ call[t].s \notin closed /\ call[t].s \in lock
         /\ \A u \in Threads : Stats(u, call[t].s) => u = t
         /\ BufferedAt(call[t].s) /\ ListedAt(call[t].s)
<1>1. call[t].s \in Streams  BY CallFields, Zenon DEF Active, IInv, Shape
<1>2. call[t].s \notin closed /\ call[t].s \in lock  BY Zenon DEF IInv, Locked
<1>3. \A u \in Threads : Stats(u, call[t].s) => u = t  BY Zenon DEF IInv, Locked, Active, Stats
<1> QED  BY <1>1, <1>2, <1>3, Zenon DEF IInv, Buffered, Listed

LEMMA Numbers ==
  ASSUME Shape, NEW s \in Streams
  PROVE  /\ reader[s].buffer \in Buffers \cup {NoBuffer}
         /\ reader[s].pos \in Nat /\ reader[s].end \in Nat /\ cursor[s] \in Nat
         /\ reader[s].pos <= reader[s].end /\ cursor[s] <= Len(Dir) /\ Len(Dir) \in Nat
         /\ reader[s].buffer = NoBuffer => reader[s].end = 0
         /\ Place(s) \in Int
BY DirectoryAssumption DEF Shape, TypeOK, Place

\* Streams a step of the one that has the mutex of s has nothing to do with.
LEMMA OtherStreams ==
  ASSUME IInv, NEW t \in Threads, NEW s \in Streams, Active(t), call[t].s = s,
         NEW x \in Streams \ closed, x # s, gone' = gone,
         reader'[x] = reader[x], cursor'[x] = cursor[x], told'[x] = told[x],
         x \in ended' => x \in ended,
         \A u \in Threads \ {t} : call'[u] = call[u],
         call'[t].pc = "idle" \/ call'[t].s = s
  PROVE  ListedAt(x)'
<1>1. ListedAt(x) /\ Place(x)' = Place(x)  BY Zenon DEF IInv, Listed, Place
<1>2. x \in ended => reader[x].pos = reader[x].end  BY <1>1, Zenon DEF ListedAt
<1>3. \A u \in Threads : /\ Stats(u, x)' <=> Stats(u, x)
                         /\ Stats(u, x) => call'[u].i = call[u].i
  BY Zenon DEF Stats
<1> QED  BY <1>1, <1>2, <1>3, ListedElsewhere, Zenon

LEMMA RefillKeeps ==
  ASSUME IInv, NEW t \in Threads, Refill(t)
  PROVE  IInv'
<1>0. PICK s \in Streams : s = call[t].s  BY Holder, Zenon DEF Refill, Active
<1>1. /\ call[t].pc = "read" /\ Active(t) /\ Empty(s)
      /\ UNCHANGED <<dirs, closed, lock, gone, call, told, ended>>
  BY <1>0, Zenon DEF Refill, Active
<1> DEFINE Filled(v, m) ==
             [k \in 1..m |-> [i |-> cursor[v] + k, removed |-> cursor[v] + k \in gone]]
<1>f. ASSUME NEW v \in Streams, NEW m \in Nat
      PROVE  /\ Filled(v, m) = [k \in 1..m |-> [i |-> cursor[v] + k,
                                                removed |-> cursor[v] + k \in gone]]
             /\ \A k \in 1..m : /\ Filled(v, m)[k].i = cursor[v] + k
                                /\ Filled(v, m)[k].removed => Filled(v, m)[k].i \in gone
  BY Zenon
<1>p. PICK b \in Buffers, n \in 1..MaxRecords :
        /\ cursor[call[t].s] + n <= Len(Dir) /\ Gets(call[t].s, b)
        /\ content' = [content EXCEPT ![b] = Filled(call[t].s, n)]
        /\ reader' = [reader EXCEPT ![call[t].s] = [buffer |-> b, pos |-> 0, end |-> n]]
        /\ cursor' = [cursor EXCEPT ![call[t].s] = @ + n]
  BY Zenon DEF Refill
<1> HIDE DEF Filled
<1>2. /\ cursor[s] + n <= Len(Dir) /\ Gets(s, b)
      /\ content' = [content EXCEPT ![b] = Filled(s, n)]
      /\ reader' = [reader EXCEPT ![s] = [buffer |-> b, pos |-> 0, end |-> n]]
      /\ cursor' = [cursor EXCEPT ![s] = @ + n]
  BY <1>0, <1>p, Zenon
<1>3. /\ s \in Streams /\ s \notin closed /\ BufferedAt(s) /\ ListedAt(s)
      /\ \A u \in Threads : ~Stats(u, s)
  BY <1>0, <1>1, Holder, Zenon DEF Stats
<1> DEFINE q == Filled(s, n)
           r == [buffer |-> b, pos |-> 0, end |-> n]
<1>4. n \in Nat /\ n >= 1 /\ b # NoBuffer  BY DirectoryAssumption
<1>5. /\ cursor[s] \in Nat /\ Len(Dir) \in Nat /\ reader[s].pos \in Nat
      /\ reader[s].end = reader[s].pos
  BY <1>1, <1>3, Numbers, Zenon DEF IInv, Empty
<1>6. q \in Seq(Record) /\ Len(q) = n
  <2>1. ASSUME NEW k \in 1..n
        PROVE  [i |-> cursor[s] + k, removed |-> cursor[s] + k \in gone] \in Record
    <3>1. cursor[s] + k \in Entries  BY <1>2, <1>4, <1>5 DEF Entries
    <3>2. (cursor[s] + k \in gone) \in BOOLEAN  OBVIOUS
    <3> QED  BY <3>1, <3>2, Zenon DEF Record
  <2>2. q = [k \in 1..n |-> [i |-> cursor[s] + k, removed |-> cursor[s] + k \in gone]]
    BY <1>3, <1>4, <1>f, Zenon
  <2>3. [k \in 1..n |-> [i |-> cursor[s] + k, removed |-> cursor[s] + k \in gone]]
          \in [1..n -> Record]
    BY <2>1, Zenon
  <2> HIDE DEF q
  <2>4. q \in [1..n -> Record]  BY <2>2, <2>3, Zenon
  <2> QED  BY <1>4, <2>4
<1>7. \A k \in 1..n : q[k].i = cursor[s] + k /\ (q[k].removed => q[k].i \in gone)
  BY <1>3, <1>4, <1>f, Zenon
<1>8. r.buffer = b /\ r.pos = 0 /\ r.end = n
      /\ r \in [buffer : Buffers \cup {NoBuffer}, pos : Nat, end : Nat]
  BY <1>4, Zenon
<1>9. content' = [content EXCEPT ![b] = q] /\ reader' = [reader EXCEPT ![s] = r]
  BY <1>2, Zenon
<1> HIDE DEF q, r
<1>10. /\ content' \in [Buffers -> Seq(Record)] /\ content'[b] = q
       /\ \A c \in Buffers \ {b} : content'[c] = content[c]
  BY <1>6, <1>9, Zenon DEF IInv, Shape, TypeOK
<1>11. /\ reader' \in [Streams -> [buffer : Buffers \cup {NoBuffer}, pos : Nat, end : Nat]]
       /\ reader'[s] = r /\ \A x \in Streams \ {s} : reader'[x] = reader[x]
  BY <1>3, <1>8, <1>9, Zenon DEF IInv, Shape, TypeOK
<1>12. /\ cursor' \in [Streams -> 0..Len(Dir)] /\ cursor'[s] = cursor[s] + n
       /\ \A x \in Streams \ {s} : cursor'[x] = cursor[x]
  BY <1>2, <1>3, <1>4, <1>5 DEF IInv, Shape, TypeOK
<1>13. Owned' /\ made' \subseteq Buffers /\ pool' \in [Buffers -> Nat]
  <2>1. Shape /\ Owned  BY Zenon DEF IInv
  <2> QED  BY <1>1, <1>2, <1>3, <1>8, <1>11, <2>1, GetsOwned, Zenon
<1>14. Shape'
  <2>1. \A x \in Streams : reader'[x].pos <= reader'[x].end
                           /\ (reader'[x].buffer = NoBuffer => reader'[x].end = 0)
    <3> SUFFICES ASSUME NEW x \in Streams
                 PROVE  reader'[x].pos <= reader'[x].end
                        /\ (reader'[x].buffer = NoBuffer => reader'[x].end = 0)
      BY Zenon
    <3>1. CASE x = s  BY <1>4, <1>8, <1>11, <3>1
    <3>2. CASE x # s
      <4>1. reader'[x] = reader[x]  BY <1>11, <3>2, Zenon
      <4>2. reader[x].pos <= reader[x].end /\ (reader[x].buffer = NoBuffer => reader[x].end = 0)
        BY Numbers, Zenon DEF IInv
      <4> QED  BY <4>1, <4>2, Zenon
    <3> QED  BY <3>1, <3>2, Zenon
  <2> QED  BY <1>1, <1>10, <1>11, <1>12, <1>13, <2>1, Zenon DEF IInv, Shape, TypeOK
<1>15. Locked'  BY <1>1, Zenon DEF IInv, Locked, Active
<1>16. Buffered'
  <2> SUFFICES ASSUME NEW x \in Streams  PROVE BufferedAt(x)'
    BY Zenon DEF Buffered
  <2>1. CASE x = s
    <3>1. /\ reader'[s].buffer = b /\ reader'[s].end = n /\ cursor'[s] = cursor[s] + n
          /\ content'[b] = q /\ Len(q) = n /\ gone' = gone
      BY <1>1, <1>6, <1>8, <1>10, <1>11, <1>12, Zenon
    <3>2. \A k \in 1..n : q[k].i = cursor'[s] - n + k /\ (q[k].removed => q[k].i \in gone)
      BY <1>4, <1>5, <1>7, <3>1
    <3>3. n <= Len(q) /\ n <= cursor'[s]  BY <1>4, <1>5, <3>1
    <3> QED  BY <2>1, <3>1, <3>2, <3>3, Zenon DEF BufferedAt
  <2>2. CASE x # s
    <3>1. reader[x].buffer # b
      BY <1>4, <1>8, <1>11, <1>13, <2>2, <1>3 DEF Owned
    <3>2. reader[x].buffer # NoBuffer => reader[x].buffer \in Buffers \ {b}
      BY <3>1, Numbers, Zenon DEF IInv
    <3> QED  BY <1>1, <1>10, <1>11, <1>12, <2>2, <3>2, BufferedElsewhere, Zenon DEF IInv, Buffered
  <2> QED  BY <2>1, <2>2, Zenon
<1>17. Listed'
  <2> SUFFICES ASSUME NEW x \in Streams \ closed  PROVE ListedAt(x)'
    BY <1>1, Zenon DEF Listed
  <2>1. CASE x = s
    <3>1. Place(s)' = Place(s)  BY <1>5, <1>8, <1>11, <1>12, <1>4 DEF Place
    <3>2. s \notin ended
      <4>1. Place(s) = cursor[s]  BY <1>5 DEF Place
      <4>2. cursor[s] # Len(Dir)  BY <1>2, <1>4, <1>5
      <4> QED  BY <1>3, <4>1, <4>2, Zenon DEF ListedAt
    <3>3. \A u \in Threads : ~Stats(u, s) /\ ~Stats(u, s)'  BY <1>1, <1>3, Zenon DEF Stats
    <3> QED  BY <1>1, <1>3, <2>1, <3>1, <3>2, <3>3, ListedElsewhere, Zenon
  <2>2. CASE x # s
    <3>1. /\ reader'[x] = reader[x] /\ cursor'[x] = cursor[x] /\ told'[x] = told[x]
          /\ gone' = gone /\ (x \in ended' => x \in ended) /\ Active(t) /\ call[t].s = s
      BY <1>1, <1>3, <1>11, <1>12, <2>2, <1>0, Zenon
    <3>2. (\A u \in Threads \ {t} : call'[u] = call[u]) /\ (call'[t].pc = "idle" \/ call'[t].s = s)
      BY <1>1, <1>3, <1>11, <1>12, <2>2, <1>0, Zenon
    <3> QED  BY <2>2, <3>1, <3>2, OtherStreams, Zenon
  <2> QED  BY <2>1, <2>2, Zenon
<1>18. ListingInOrder'  BY <1>1, ZenonT(30) DEF IInv, ListingInOrder, Told
<1> QED  BY <1>13, <1>14, <1>15, <1>16, <1>17, <1>18, Zenon DEF IInv

LEMMA RefillFailsKeeps ==
  ASSUME IInv, NEW t \in Threads, RefillFails(t)
  PROVE  IInv'
<1>0. PICK s \in Streams : s = call[t].s  BY Holder, Zenon DEF RefillFails, Active
<1>1. /\ call[t].pc = "read" /\ Active(t) /\ Empty(s)
      /\ UNCHANGED <<dirs, closed, cursor, content, gone, told, ended>>
      /\ (UNCHANGED <<call, lock>> \/ Return(t, s))
  BY <1>0, Zenon DEF RefillFails, Active
<1>2. PICK b \in Buffers : Gets(s, b) /\ reader' = [reader EXCEPT ![s].buffer = b]
  BY <1>0, Zenon DEF RefillFails
<1>3. /\ s \notin closed /\ BufferedAt(s) /\ ListedAt(s) /\ \A u \in Threads : ~Stats(u, s)
      /\ b # NoBuffer
  BY <1>0, <1>1, Holder, DirectoryAssumption, Zenon DEF Stats
<1>4. /\ reader' \in [Streams -> [buffer : Buffers \cup {NoBuffer}, pos : Nat, end : Nat]]
      /\ \A x \in Streams \ {s} : reader'[x] = reader[x]
      /\ reader'[s].buffer = b /\ reader'[s].pos = reader[s].pos /\ reader'[s].end = reader[s].end
  BY <1>2, Zenon DEF IInv, Shape, TypeOK
<1>5. /\ Locked' /\ call' \in [Threads -> Call] /\ lock' \subseteq Streams
      /\ (call'[t] = call[t] \/ call'[t].pc = "idle")
      /\ \A u \in Threads \ {t} : call'[u] = call[u]
  <2>1. CASE UNCHANGED <<call, lock>>
    BY <1>1, <2>1, Zenon DEF IInv, Locked, Active, Shape, TypeOK
  <2>2. CASE Return(t, s)
    <3>1. lock' \subseteq Streams  BY <2>2, Zenon DEF Return, IInv, Shape, TypeOK
    <3> QED  BY <1>0, <1>1, <2>2, <3>1, Returns, Zenon DEF IInv, Shape
  <2> QED  BY <1>1, <2>1, <2>2, Zenon
<1>6. Owned' /\ made' \subseteq Buffers /\ pool' \in [Buffers -> Nat]
  <2>1. Shape /\ Owned  BY Zenon DEF IInv
  <2> QED  BY <1>1, <1>2, <1>3, <1>4, <2>1, GetsOwned
<1>7. Shape'
  <2>1. ASSUME NEW x \in Streams
        PROVE  reader'[x].pos <= reader'[x].end
               /\ (reader'[x].buffer = NoBuffer => reader'[x].end = 0)
    <3>1. CASE x = s  BY <1>3, <1>4, <3>1, Numbers, Zenon DEF IInv
    <3>2. CASE x # s
      <4>1. reader'[x] = reader[x]  BY <1>4, <3>2, Zenon
      <4>2. reader[x].pos <= reader[x].end /\ (reader[x].buffer = NoBuffer => reader[x].end = 0)
        BY Numbers, Zenon DEF IInv
      <4> QED  BY <4>1, <4>2, Zenon
    <3> QED  BY <3>1, <3>2, Zenon
  <2> QED  BY <1>1, <1>4, <1>5, <1>6, <2>1, Zenon DEF IInv, Shape, TypeOK
<1>8. Buffered'
  <2> SUFFICES ASSUME NEW x \in Streams  PROVE BufferedAt(x)'
    BY Zenon DEF Buffered
  <2>1. CASE x = s /\ reader[s].buffer = NoBuffer
    <3>1. reader'[s].end = 0 /\ cursor'[s] \in Nat  BY <1>1, <1>4, <2>1, Numbers, Zenon DEF IInv
    <3>2. Len(content'[b]) \in Nat  BY <1>1 DEF IInv, Shape, TypeOK
    <3> QED  BY <1>4, <2>1, <3>1, <3>2 DEF BufferedAt
  <2>2. CASE x = s /\ reader[s].buffer # NoBuffer
    <3>1. reader[s].buffer = b  BY <1>2, <2>2, Zenon DEF Gets
    <3> QED  BY <1>1, <1>3, <1>4, <2>2, <3>1, BufferedElsewhere, Zenon
  <2>3. CASE x # s
    BY <1>1, <1>4, <2>3, BufferedElsewhere, Zenon DEF IInv, Buffered
  <2> QED  BY <2>1, <2>2, <2>3, Zenon
<1>9. Listed'
  <2> SUFFICES ASSUME NEW x \in Streams \ closed  PROVE ListedAt(x)'
    BY <1>1, Zenon DEF Listed
  <2>1. CASE x = s
    <3>1. Place(s)' = Place(s)  BY <1>1, <1>4, Zenon DEF Place
    <3>2. \A u \in Threads : ~Stats(u, s) /\ ~Stats(u, s)'
      BY <1>1, <1>3, <1>5, Zenon DEF Stats
    <3> QED  BY <1>1, <1>3, <1>4, <2>1, <3>1, <3>2, ListedElsewhere, Zenon DEF Empty
  <2>2. CASE x # s
    <3>1. /\ reader'[x] = reader[x] /\ cursor'[x] = cursor[x] /\ told'[x] = told[x]
          /\ gone' = gone /\ (x \in ended' => x \in ended) /\ Active(t) /\ call[t].s = s
      BY <1>0, <1>1, <1>4, <1>5, <2>2, Zenon
    <3>2. (\A u \in Threads \ {t} : call'[u] = call[u]) /\ (call'[t].pc = "idle" \/ call'[t].s = s)
      BY <1>0, <1>1, <1>4, <1>5, <2>2, Zenon
    <3> QED  BY <2>2, <3>1, <3>2, OtherStreams, Zenon
  <2> QED  BY <2>1, <2>2, Zenon
<1>10. ListingInOrder'  BY <1>1, ZenonT(30) DEF IInv, ListingInOrder, Told
<1> QED  BY <1>5, <1>6, <1>7, <1>8, <1>9, <1>10, Zenon DEF IInv

LEMMA RefillEndsKeeps ==
  ASSUME IInv, NEW t \in Threads, RefillEnds(t)
  PROVE  IInv'
<1>0. PICK s \in Streams : s = call[t].s  BY Holder, Zenon DEF RefillEnds, Active
<1>1. /\ call[t].pc = "read" /\ Active(t) /\ Empty(s) /\ cursor[s] = Len(Dir)
      /\ UNCHANGED <<dirs, closed, cursor, content, gone, told>>
      /\ Return(t, s) /\ ended' = ended \cup {s}
      /\ reader' = [reader EXCEPT ![s] = Released(@)]
  BY <1>0, Zenon DEF RefillEnds, Active
<1>2. /\ s \notin closed /\ ListedAt(s) /\ \A u \in Threads : ~Stats(u, s)
  BY <1>0, <1>1, Holder, Zenon DEF Stats
<1>3. /\ reader' \in [Streams -> [buffer : Buffers \cup {NoBuffer}, pos : Nat, end : Nat]]
      /\ \A x \in Streams \ {s} : reader'[x] = reader[x]
      /\ reader'[s].buffer = NoBuffer /\ reader'[s].pos = 0 /\ reader'[s].end = 0
  BY <1>1, ZenonT(30) DEF IInv, Shape, TypeOK, Released
<1>4. /\ Locked' /\ call' \in [Threads -> Call] /\ lock' \subseteq Streams
      /\ call'[t].pc = "idle" /\ \A u \in Threads \ {t} : call'[u] = call[u]
  <2>1. lock' \subseteq Streams  BY <1>1, Zenon DEF Return, IInv, Shape, TypeOK
  <2> QED  BY <1>0, <1>1, <2>1, Returns, Zenon DEF IInv, Shape
<1>5. Owned' /\ made' \subseteq Buffers /\ pool' \in [Buffers -> Nat]
  <2>1. PICK b \in Buffers :
          \/ reader[s].buffer = b /\ Put(b) /\ UNCHANGED made
          \/ reader[s].buffer = NoBuffer /\ pool[b] > 0 /\ UNCHANGED <<made, pool>>
          \/ reader[s].buffer = NoBuffer /\ b \notin made /\ Put(b) /\ made' = made \cup {b}
    BY <1>0, Zenon DEF RefillEnds
  <2>2. Shape /\ Owned /\ made \subseteq Buffers /\ pool \in [Buffers -> Nat] /\ b # NoBuffer
    BY DirectoryAssumption, Zenon DEF IInv, Shape, TypeOK
  <2>3. CASE reader[s].buffer = b /\ Put(b) /\ UNCHANGED made
    BY <1>1, <2>2, <2>3, ReleaseOwned, Zenon
  <2>4. CASE reader[s].buffer = NoBuffer /\ pool[b] > 0 /\ UNCHANGED <<made, pool>>
    <3>1. \A x \in Streams : reader'[x].buffer = reader[x].buffer  BY <1>3, <2>4, Zenon
    <3> QED  BY <1>1, <2>2, <2>4, <3>1, OwnedKept, Zenon
  <2>5. CASE reader[s].buffer = NoBuffer /\ b \notin made /\ Put(b) /\ made' = made \cup {b}
    <3>1. \A x \in Streams : reader'[x].buffer = reader[x].buffer  BY <1>3, <2>5, Zenon
    <3>2. pool[b] = 0 /\ \A x \in Streams : reader[x].buffer # b  BY <2>2, <2>5, Zenon DEF Owned
    <3>3. /\ pool' \in [Buffers -> Nat] /\ pool'[b] = 1
          /\ \A c \in Buffers \ {b} : pool'[c] = pool[c]
      BY <2>2, <2>5, <3>2 DEF Put
    <3>4. \A c \in Buffers : pool'[c] \in {0, 1} /\ (c \notin made' => pool'[c] = 0)
      BY <2>2, <2>5, <3>3, Zenon DEF Owned
    <3>5. \A c \in made' : pool'[c] = 1 \/ \E x \in Streams : reader'[x].buffer = c
      BY <2>2, <2>5, <3>1, <3>3 DEF Owned
    <3>6. ASSUME NEW x \in Streams, reader'[x].buffer # NoBuffer
          PROVE  /\ reader'[x].buffer \in made' /\ pool'[reader'[x].buffer] = 0 /\ x \notin closed'
                 /\ \A y \in Streams : reader'[y].buffer = reader'[x].buffer => y = x
      <4>1. /\ reader[x].buffer \in made /\ pool[reader[x].buffer] = 0 /\ x \notin closed
            /\ \A y \in Streams : reader[y].buffer = reader[x].buffer => y = x
        BY <2>2, <3>1, <3>6, Zenon DEF Owned
      <4>2. reader[x].buffer \in Buffers \ {b}  BY <2>2, <3>2, <4>1, Zenon
      <4> QED  BY <1>1, <2>5, <3>1, <3>3, <4>1, <4>2, SMTT(30)
    <3>7. Owned'  BY <3>4, <3>5, <3>6, Zenon DEF Owned
    <3> QED  BY <2>2, <2>5, <3>3, <3>7, Zenon
  <2> QED  BY <2>1, <2>3, <2>4, <2>5, Zenon
<1>6. Shape'
  <2>1. ASSUME NEW x \in Streams
        PROVE  reader'[x].pos <= reader'[x].end
               /\ (reader'[x].buffer = NoBuffer => reader'[x].end = 0)
    <3>1. CASE x = s
      <4>1. reader'[s].pos = 0 /\ reader'[s].end = 0  BY <1>3, Zenon
      <4>2. 0 <= 0  BY SMTT(30)
      <4> QED  BY <3>1, <4>1, <4>2, Zenon
    <3>2. CASE x # s
      <4>1. reader'[x] = reader[x]  BY <1>3, <3>2, Zenon
      <4>2. reader[x].pos <= reader[x].end /\ (reader[x].buffer = NoBuffer => reader[x].end = 0)
        BY Numbers, Zenon DEF IInv
      <4> QED  BY <4>1, <4>2, Zenon
    <3> QED  BY <3>1, <3>2, Zenon
  <2> QED  BY <1>1, <1>3, <1>4, <1>5, <2>1, Zenon DEF IInv, Shape, TypeOK
<1>7. Buffered'
  <2> SUFFICES ASSUME NEW x \in Streams  PROVE BufferedAt(x)'
    BY Zenon DEF Buffered
  <2>1. CASE x = s  BY <1>3, <2>1, Zenon DEF BufferedAt
  <2>2. CASE x # s  BY <1>1, <1>3, <2>2, BufferedElsewhere, Zenon DEF IInv, Buffered
  <2> QED  BY <2>1, <2>2, Zenon
<1>8. Listed'
  <2> SUFFICES ASSUME NEW x \in Streams \ closed  PROVE ListedAt(x)'
    BY <1>1, Zenon DEF Listed
  <2>1. CASE x = s
    <3>1. Place(s)' = Place(s) /\ Place(s) = Len(Dir)
      BY <1>1, <1>3, Numbers DEF Place, Empty, IInv
    <3>2. \A u \in Threads : ~Stats(u, s) /\ ~Stats(u, s)'
      BY <1>1, <1>2, <1>4, Zenon DEF Stats
    <3> QED  BY <1>1, <1>2, <1>3, <2>1, <3>1, <3>2, Zenon DEF ListedAt
  <2>2. CASE x # s
    <3>1. /\ reader'[x] = reader[x] /\ cursor'[x] = cursor[x] /\ told'[x] = told[x]
          /\ gone' = gone /\ (x \in ended' => x \in ended) /\ Active(t) /\ call[t].s = s
      BY <1>0, <1>1, <1>3, <1>4, <2>2, Zenon
    <3>2. (\A u \in Threads \ {t} : call'[u] = call[u]) /\ (call'[t].pc = "idle" \/ call'[t].s = s)
      BY <1>0, <1>1, <1>3, <1>4, <2>2, Zenon
    <3> QED  BY <2>2, <3>1, <3>2, OtherStreams, Zenon
  <2> QED  BY <2>1, <2>2, Zenon
<1>9. ListingInOrder'
  <2>1. \A x \in Streams : x \in closed' => x # s  BY <1>1, <1>2, Zenon
  <2> QED  BY <1>1, <1>6, <1>8, <2>1, ListingKept, Zenon DEF IInv, ListingInOrder
<1> QED  BY <1>4, <1>5, <1>6, <1>7, <1>8, <1>9, Zenon DEF IInv

-----------------------------------------------------------------------------
(* Closing a stream, and the calls that read one *)

LEMMA CloseDirectoryStreamKeeps ==
  ASSUME IInv, NEW t \in Threads, CloseDirectoryStream(t)
  PROVE  IInv'
<1>0. PICK s \in Streams : s = call[t].s
  BY CallFields, Zenon DEF CloseDirectoryStream, IInv, Shape
<1>1. /\ call[t].pc = "close" /\ s \notin lock /\ Put(reader[s].buffer)
      /\ reader' = [reader EXCEPT ![s] = Released(@)] /\ closed' = closed \cup {s}
      /\ call' = [call EXCEPT ![t] = Idle]
      /\ UNCHANGED <<dirs, lock, cursor, made, content, gone, told, ended>>
  BY <1>0, Zenon DEF CloseDirectoryStream, MayClose
<1>2. /\ reader' \in [Streams -> [buffer : Buffers \cup {NoBuffer}, pos : Nat, end : Nat]]
      /\ \A x \in Streams \ {s} : reader'[x] = reader[x]
      /\ reader'[s].buffer = NoBuffer /\ reader'[s].pos = 0 /\ reader'[s].end = 0
  BY <1>1, Zenon DEF IInv, Shape, TypeOK, Released
<1>3. /\ call' \in [Threads -> Call]
      /\ \A u \in Threads : call'[u] = IF u = t THEN Idle ELSE call[u]
  BY <1>1, CallShapes, CallStep, SMTT(30) DEF IInv, Shape
<1>4. Locked'  BY <1>1, <1>3, CallShapes DEF IInv, Locked, Active
<1>5. Owned' /\ pool' \in [Buffers -> Nat]
  <2>1. Shape /\ Owned  BY Zenon DEF IInv
  <2> QED  BY <1>1, <2>1, ReleaseOwned, Zenon
<1>6. Shape'
  <2>1. ASSUME NEW x \in Streams
        PROVE  reader'[x].pos <= reader'[x].end
               /\ (reader'[x].buffer = NoBuffer => reader'[x].end = 0)
    <3>1. CASE x = s  BY <1>2, <3>1
    <3>2. CASE x # s
      <4>1. reader'[x] = reader[x]  BY <1>2, <3>2, Zenon
      <4>2. reader[x].pos <= reader[x].end /\ (reader[x].buffer = NoBuffer => reader[x].end = 0)
        BY Numbers DEF IInv
      <4> QED  BY <4>1, <4>2, Zenon
    <3> QED  BY <3>1, <3>2, Zenon
  <2> QED  BY <1>1, <1>2, <1>3, <1>5, <2>1, Zenon DEF IInv, Shape, TypeOK
<1>7. Buffered'
  <2> SUFFICES ASSUME NEW x \in Streams  PROVE BufferedAt(x)'
    BY DEF Buffered
  <2>1. CASE x = s  BY <1>2, <2>1 DEF BufferedAt
  <2>2. CASE x # s  BY <1>1, <1>2, <2>2, BufferedElsewhere, Zenon DEF IInv, Buffered
  <2> QED  BY <2>1, <2>2
<1>8. Listed'
  <2> SUFFICES ASSUME NEW x \in Streams \ closed, x # s  PROVE ListedAt(x)'
    BY <1>1, Zenon DEF Listed
  <2>1. ListedAt(x) /\ Place(x)' = Place(x)  BY <1>1, <1>2, Zenon DEF IInv, Listed, Place
  <2>2. x \in ended => reader'[x].pos = reader'[x].end  BY <1>2, <2>1, Zenon DEF ListedAt
  <2>3. \A u \in Threads : /\ Stats(u, x)' <=> Stats(u, x)
                           /\ Stats(u, x) => call'[u].i = call[u].i
    BY <1>1, <1>3, CallShapes, SMTT(30) DEF Stats
  <2> QED  BY <1>1, <2>1, <2>2, <2>3, ListedElsewhere, Zenon
<1>9. ListingInOrder'  BY <1>1, Zenon DEF IInv, ListingInOrder, Told
<1> QED  BY <1>4, <1>5, <1>6, <1>7, <1>8, <1>9, Zenon DEF IInv

\* Telling the entry a stream has just got to.
LEMMA Tells ==
  ASSUME IInv, NEW s \in Streams, NEW i \in Entries, Tell(s, i),
         \A k \in 1..Len(told[s]) : told[s][k] < i
  PROVE  /\ told' \in [Streams -> Seq(Entries)]
         /\ \A x \in Streams \ {s} : told'[x] = told[x]
         /\ \A k \in 1..Len(told'[s]) : told'[s][k] <= i
         /\ \A k \in 1..Len(told[s]) : k \in 1..Len(told'[s]) /\ told'[s][k] = told[s][k]
         /\ \E k \in 1..Len(told'[s]) : told'[s][k] = i
         /\ \A x \in Streams : \A k, l \in 1..Len(told'[x]) : k < l => told'[x][k] < told'[x][l]
<1>1. told \in [Streams -> Seq(Entries)] /\ told[s] \in Seq(Entries)
  BY Zenon DEF IInv, Shape, TypeOK
<1>2. told' = [told EXCEPT ![s] = Append(told[s], i)]  BY <1>1, Zenon DEF Tell
<1>3. /\ Append(told[s], i) \in Seq(Entries) /\ Len(told[s]) \in Nat
      /\ Len(Append(told[s], i)) = Len(told[s]) + 1
      /\ \A k \in 1..Len(told[s]) : Append(told[s], i)[k] = told[s][k]
      /\ Append(told[s], i)[Len(told[s]) + 1] = i
  BY <1>1
<1>4. /\ told' \in [Streams -> Seq(Entries)] /\ told'[s] = Append(told[s], i)
      /\ \A x \in Streams \ {s} : told'[x] = told[x]
  BY <1>1, <1>2, <1>3, Zenon
<1>5. \A k \in 1..Len(told[s]) : told[s][k] \in Int  BY <1>1 DEF Entries
<1>6. \A k \in 1..Len(told'[s]) : k \in 1..Len(told[s]) \/ k = Len(told[s]) + 1
  BY <1>3, <1>4
<1>7. i \in Int  BY DEF Entries
<1>8. \A k \in 1..Len(told'[s]) : told'[s][k] <= i
  BY <1>3, <1>4, <1>5, <1>6, <1>7, SMTT(30)
<1>9. \A k, l \in 1..Len(told'[s]) : k < l => told'[s][k] < told'[s][l]
  <2> SUFFICES ASSUME NEW k \in 1..Len(told'[s]), NEW l \in 1..Len(told'[s]), k < l
               PROVE  told'[s][k] < told'[s][l]
    BY Zenon
  <2>1. k \in 1..Len(told[s])  BY <1>3, <1>4
  <2>2. CASE l \in 1..Len(told[s])
    BY <1>3, <1>4, <2>1, <2>2, Zenon DEF IInv, ListingInOrder
  <2>3. CASE l = Len(told[s]) + 1  BY <1>3, <1>4, <2>1, <2>3, Zenon
  <2> QED  BY <1>6, <2>2, <2>3, Zenon
<1>10. ASSUME NEW x \in Streams
       PROVE  \A k, l \in 1..Len(told'[x]) : k < l => told'[x][k] < told'[x][l]
  BY <1>4, <1>9, Zenon DEF IInv, ListingInOrder
<1>11. \E k \in 1..Len(told'[s]) : told'[s][k] = i
  <2>1. Len(told[s]) + 1 \in 1..Len(told'[s])  BY <1>3, <1>4
  <2> QED  BY <1>3, <1>4, <2>1, Zenon
<1>12. \A k \in 1..Len(told[s]) : k \in 1..Len(told'[s]) /\ told'[s][k] = told[s][k]
  BY <1>3, <1>4
<1> QED  BY <1>4, <1>8, <1>10, <1>11, <1>12, Zenon

LEMMA StatKeeps ==
  ASSUME IInv, NEW t \in Threads, Stat(t)
  PROVE  IInv'
<1>0. PICK s \in Streams : s = call[t].s  BY Holder, Zenon DEF Stat, Active
<1>1. /\ call[t].pc = "stat" /\ Active(t) /\ Stats(t, s) /\ call[t].i \in Entries
      /\ UNCHANGED <<dirs, closed, reader, cursor, made, pool, content, gone, ended>>
  BY <1>0, CallFields, Zenon DEF Stat, Active, Stats, IInv, Shape
<1>2. /\ s \notin closed /\ s \in lock /\ ListedAt(s) /\ \A u \in Threads : Stats(u, s) => u = t
  BY <1>0, <1>1, Holder, Zenon
<1>3. PICK i \in Entries : i = call[t].i  BY <1>1, Zenon
<1>4. /\ i = Place(s) /\ s \notin ended /\ Place(s)' = Place(s)
      /\ \A k \in 1..Len(told[s]) : told[s][k] < i
  BY <1>1, <1>2, <1>3, Zenon DEF ListedAt, Place
<1>5. Owned'  BY <1>1, OwnedKept, Zenon DEF IInv
<1>6. Buffered'  BY <1>1, BufferedElsewhere, Zenon DEF IInv, Buffered
<1>7. CASE i \in gone
  <2> DEFINE c == [pc |-> "read", s |-> s]
  <2>1. c \in Call /\ c.pc = "read" /\ c.s = s  BY CallShapes, Zenon
  <2>2. call' = [call EXCEPT ![t] = c] /\ UNCHANGED <<lock, told>>
    BY <1>0, <1>3, <1>7, Zenon DEF Stat
  <2> HIDE DEF c
  <2>3. call' \in [Threads -> Call] /\ \A u \in Threads : call'[u] = IF u = t THEN c ELSE call[u]
    BY <2>1, <2>2, CallStep, Zenon DEF IInv, Shape
  <2>4. Shape'  BY <1>1, <2>2, <2>3, Zenon DEF IInv, Shape, TypeOK
  <2>5. Locked'  BY <1>0, <1>1, <1>2, <2>1, <2>2, <2>3 DEF IInv, Locked, Active
  <2>6. Listed'
    <3> SUFFICES ASSUME NEW x \in Streams \ closed  PROVE ListedAt(x)'
      BY <1>1, Zenon DEF Listed
    <3>1. CASE x = s
      <4>1. \A u \in Threads : ~Stats(u, s)'  BY <1>2, <2>1, <2>3, Zenon DEF Stats
      <4>2. \A u \in Threads : Stats(u, s) /\ call[u].i = i => i \in gone  BY <1>7, Zenon
      <4>3. \A j \in Entries : (\E u \in Threads : Stats(u, s) /\ call[u].i = j) => j = i
        BY <1>2, <1>3, Zenon
      <4> QED  BY <1>1, <1>2, <1>4, <1>7, <2>2, <3>1, <4>1, <4>3, ZenonT(30) DEF ListedAt
    <3>2. CASE x # s
      <4>1. /\ reader'[x] = reader[x] /\ cursor'[x] = cursor[x] /\ told'[x] = told[x]
            /\ gone' = gone /\ (x \in ended' => x \in ended) /\ Active(t) /\ call[t].s = s
        BY <1>0, <1>1, <2>1, <2>2, <2>3, <3>2, Zenon
      <4>2. (\A u \in Threads \ {t} : call'[u] = call[u]) /\ (call'[t].pc = "idle" \/ call'[t].s = s)
        BY <1>0, <1>1, <2>1, <2>2, <2>3, <3>2, Zenon
      <4> QED  BY <3>2, <4>1, <4>2, OtherStreams, Zenon
    <3> QED  BY <3>1, <3>2, Zenon
  <2>7. ListingInOrder'  BY <1>1, <2>2, ZenonT(30) DEF IInv, ListingInOrder, Told
  <2> QED  BY <1>5, <1>6, <2>4, <2>5, <2>6, <2>7, Zenon DEF IInv
<1>8. CASE i \notin gone
  <2>1. Tell(s, i) /\ Return(t, s)  BY <1>0, <1>3, <1>8, Zenon DEF Stat
  <2>2. /\ Locked' /\ call' \in [Threads -> Call] /\ lock' \subseteq Streams
        /\ call'[t].pc = "idle" /\ \A u \in Threads \ {t} : call'[u] = call[u]
    <3>1. lock' \subseteq Streams  BY <2>1, Zenon DEF Return, IInv, Shape, TypeOK
    <3> QED  BY <1>0, <1>1, <2>1, <3>1, Returns, Zenon DEF IInv, Shape
  <2>3. /\ told' \in [Streams -> Seq(Entries)]
        /\ \A x \in Streams \ {s} : told'[x] = told[x]
        /\ \A k \in 1..Len(told'[s]) : told'[s][k] <= i
        /\ \A k \in 1..Len(told[s]) : k \in 1..Len(told'[s]) /\ told'[s][k] = told[s][k]
        /\ \E k \in 1..Len(told'[s]) : told'[s][k] = i
        /\ \A x \in Streams : \A k, l \in 1..Len(told'[x]) : k < l => told'[x][k] < told'[x][l]
    BY <1>4, <2>1, Tells, Zenon
  <2>4. Shape'  BY <1>1, <2>2, <2>3, Zenon DEF IInv, Shape, TypeOK
  <2>5. Listed'
    <3> SUFFICES ASSUME NEW x \in Streams \ closed  PROVE ListedAt(x)'
      BY <1>1 DEF Listed
    <3>1. CASE x = s
      <4>1. \A u \in Threads : ~Stats(u, s)'  BY <1>2, <2>2, Zenon DEF Stats
      <4>2. \A j \in Entries : (\E u \in Threads : Stats(u, s) /\ call[u].i = j) => j = i
        BY <1>2, <1>3
      <4>3. \A j \in Entries : j <= Place(s)' =>
              j \in gone \/ Dir[j] = "dot" \/ \E k \in 1..Len(told'[s]) : told'[s][k] = j
        BY <1>2, <1>4, <2>3, <4>2, ZenonT(30) DEF ListedAt
      <4> QED  BY <1>1, <1>4, <2>3, <3>1, <4>1, <4>3, Zenon DEF ListedAt
    <3>2. CASE x # s
      <4>1. /\ reader'[x] = reader[x] /\ cursor'[x] = cursor[x] /\ told'[x] = told[x]
            /\ gone' = gone /\ (x \in ended' => x \in ended) /\ Active(t) /\ call[t].s = s
        BY <1>0, <1>1, <2>2, <2>3, <3>2, Zenon
      <4>2. (\A u \in Threads \ {t} : call'[u] = call[u]) /\ (call'[t].pc = "idle" \/ call'[t].s = s)
        BY <1>0, <1>1, <2>2, <2>3, <3>2, Zenon
      <4> QED  BY <3>2, <4>1, <4>2, OtherStreams, Zenon
    <3> QED  BY <3>1, <3>2
  <2>6. ListingInOrder'
    <3>1. \A x \in Streams : x \in closed' => x # s  BY <1>1, <1>2, Zenon
    <3> QED  BY <1>1, <2>3, <2>4, <2>5, <3>1, ListingKept, Zenon DEF IInv
  <2> QED  BY <1>5, <1>6, <2>2, <2>4, <2>5, <2>6, Zenon DEF IInv
<1> QED  BY <1>7, <1>8, Zenon

\* The next record of a buffer that is not empty.
LEMMA CurrentRecord ==
  ASSUME IInv, NEW s \in Streams, ~Empty(s)
  PROVE  /\ Current(s).i = Place(s) + 1 /\ Current(s).i \in Entries
         /\ Current(s).removed => Current(s).i \in gone
         /\ reader[s].pos + 1 <= reader[s].end
<1>1. /\ reader[s].buffer # NoBuffer /\ reader[s].pos + 1 \in 1..reader[s].end
      /\ reader[s].pos \in Nat /\ reader[s].end \in Nat /\ cursor[s] \in Nat
      /\ cursor[s] <= Len(Dir) /\ Len(Dir) \in Nat
  BY Numbers DEF IInv, Empty
<1>2. BufferedAt(s)  BY Zenon DEF IInv, Buffered
<1>3. /\ Current(s).i = cursor[s] - reader[s].end + (reader[s].pos + 1)
      /\ Current(s).removed => Current(s).i \in gone
      /\ reader[s].end <= cursor[s]
  BY <1>1, <1>2, Zenon DEF BufferedAt, Current
<1>4. Current(s).i = Place(s) + 1  BY <1>1, <1>3, SMTT(30) DEF Place
<1>5. Current(s).i \in Entries  BY <1>1, <1>3, SMTT(30) DEF Entries
<1> QED  BY <1>1, <1>3, <1>4, <1>5

LEMMA Advances ==
  ASSUME IInv, NEW s \in Streams, ~Empty(s), reader' = [reader EXCEPT ![s] = Advanced(@)],
         UNCHANGED <<closed, cursor, made, pool, content, gone>>
  PROVE  /\ reader' \in [Streams -> [buffer : Buffers \cup {NoBuffer}, pos : Nat, end : Nat]]
         /\ \A x \in Streams : reader'[x].pos <= reader'[x].end
                               /\ (reader'[x].buffer = NoBuffer => reader'[x].end = 0)
         /\ \A x \in Streams \ {s} : reader'[x] = reader[x]
         /\ Owned' /\ Buffered' /\ Place(s)' = Place(s) + 1
<1>1. reader \in [Streams -> [buffer : Buffers \cup {NoBuffer}, pos : Nat, end : Nat]]
  BY Zenon DEF IInv, Shape, TypeOK
<1>2. /\ reader' \in [Streams -> [buffer : Buffers \cup {NoBuffer}, pos : Nat, end : Nat]]
      /\ \A x \in Streams \ {s} : reader'[x] = reader[x]
      /\ reader'[s].buffer = reader[s].buffer /\ reader'[s].end = reader[s].end
      /\ reader'[s].pos = reader[s].pos + 1
  BY <1>1 DEF Advanced
<1>3. ASSUME NEW x \in Streams
      PROVE  reader'[x].pos <= reader'[x].end
             /\ (reader'[x].buffer = NoBuffer => reader'[x].end = 0)
  BY <1>2, Numbers, CurrentRecord, ZenonT(30) DEF IInv
<1>4. \A x \in Streams : reader'[x].buffer = reader[x].buffer /\ reader'[x].end = reader[x].end
  BY <1>2, Zenon
<1>5. Owned'  BY <1>4, OwnedKept, Zenon DEF IInv
<1>6. Buffered'  BY <1>4, BufferedElsewhere, Zenon DEF IInv, Buffered
<1>7. Place(s)' = Place(s) + 1
  <2>1. cursor[s] \in Nat /\ reader[s].end \in Nat /\ reader[s].pos \in Nat
    BY Numbers, Zenon DEF IInv
  <2> QED  BY <1>2, <2>1 DEF Place
<1> QED  BY <1>2, <1>3, <1>5, <1>6, <1>7, Zenon

LEMMA TakeKeeps ==
  ASSUME IInv, NEW t \in Threads, Take(t)
  PROVE  IInv'
<1>0. PICK s \in Streams : s = call[t].s  BY Holder, Zenon DEF Take, Active
<1>1. /\ call[t].pc = "read" /\ Active(t) /\ ~Empty(s)
      /\ UNCHANGED <<dirs, closed, cursor, made, pool, content, gone, ended>>
  BY <1>0, Zenon DEF Take, Active
<1>2. /\ s \notin closed /\ s \in lock /\ ListedAt(s) /\ \A u \in Threads : ~Stats(u, s)
      /\ s \notin ended
  BY <1>0, <1>1, Holder, ZenonT(30) DEF Stats, ListedAt, Empty
<1>3. PICK i \in Entries : i = Current(s).i  BY <1>1, CurrentRecord, Zenon
<1>4. /\ i = Place(s) + 1 /\ (Current(s).removed => i \in gone)
      /\ Place(s) \in Int /\ Entries \subseteq Int
      /\ \A k \in 1..Len(told[s]) : told[s][k] <= Place(s) /\ told[s][k] \in Int
  <2>1. Entries \subseteq Int  BY DEF Entries
  <2>2. \A k \in 1..Len(told[s]) : told[s][k] \in Entries
    BY DEF IInv, Shape, TypeOK
  <2> QED  BY <1>1, <1>2, <1>3, <2>1, <2>2, CurrentRecord, Numbers, Zenon DEF IInv, ListedAt
<1>5. \/ Return(t, s) /\ UNCHANGED <<reader, told>>
      \/ /\ i \in gone \/ Dir[i] = "dot"
         /\ reader' = [reader EXCEPT ![s] = Advanced(@)] /\ UNCHANGED <<call, lock, told>>
      \/ reader' = [reader EXCEPT ![s] = Advanced(@)] /\ Tell(s, i) /\ Return(t, s)
      \/ /\ reader' = [reader EXCEPT ![s] = Advanced(@)]
         /\ call' = [call EXCEPT ![t] = [pc |-> "stat", s |-> s, i |-> i]]
         /\ UNCHANGED <<lock, told>>
  BY <1>0, <1>3, <1>4, Zenon DEF Take, Skipped, Refused
<1>6. Return(t, s) => /\ Locked' /\ call' \in [Threads -> Call] /\ lock' \subseteq Streams
                      /\ call'[t].pc = "idle" /\ \A u \in Threads \ {t} : call'[u] = call[u]
  <2>1. Return(t, s) => lock' \subseteq Streams  BY Zenon DEF Return, IInv, Shape, TypeOK
  <2> QED  BY <1>0, <1>1, <2>1, Returns, Zenon DEF IInv, Shape
<1>7. CASE Return(t, s) /\ UNCHANGED <<reader, told>>
  <2>1. Shape'  BY <1>1, <1>6, <1>7, Zenon DEF IInv, Shape, TypeOK
  <2>2. Owned'  BY <1>1, <1>7, OwnedKept, Zenon DEF IInv
  <2>3. Buffered'  BY <1>1, <1>7, BufferedElsewhere, Zenon DEF IInv, Buffered
  <2>4. Listed'
    <3> SUFFICES ASSUME NEW x \in Streams \ closed  PROVE ListedAt(x)'
      BY <1>1, Zenon DEF Listed
    <3>1. CASE x = s
      <4>1. \A u \in Threads : ~Stats(u, s)'  BY <1>2, <1>6, <1>7, Zenon DEF Stats
      <4>2. Place(s)' = Place(s)  BY <1>1, <1>7, Zenon DEF Place
      <4> QED  BY <1>1, <1>2, <1>7, <3>1, <4>1, <4>2, ListedElsewhere, Zenon
    <3>2. CASE x # s
      <4>1. /\ reader'[x] = reader[x] /\ cursor'[x] = cursor[x] /\ told'[x] = told[x]
            /\ gone' = gone /\ (x \in ended' => x \in ended) /\ Active(t) /\ call[t].s = s
        BY <1>0, <1>1, <1>6, <1>7, <3>2, Zenon
      <4>2. (\A u \in Threads \ {t} : call'[u] = call[u]) /\ (call'[t].pc = "idle" \/ call'[t].s = s)
        BY <1>0, <1>1, <1>6, <1>7, <3>2, Zenon
      <4> QED  BY <3>2, <4>1, <4>2, OtherStreams, Zenon
    <3> QED  BY <3>1, <3>2
  <2>5. ListingInOrder'  BY <1>1, <1>7, ZenonT(30) DEF IInv, ListingInOrder, Told
  <2> QED  BY <1>6, <1>7, <2>1, <2>2, <2>3, <2>4, <2>5, Zenon DEF IInv
<1>8. reader' = [reader EXCEPT ![s] = Advanced(@)] =>
        /\ reader' \in [Streams -> [buffer : Buffers \cup {NoBuffer}, pos : Nat, end : Nat]]
        /\ \A x \in Streams : reader'[x].pos <= reader'[x].end
                              /\ (reader'[x].buffer = NoBuffer => reader'[x].end = 0)
        /\ \A x \in Streams \ {s} : reader'[x] = reader[x]
        /\ Owned' /\ Buffered' /\ Place(s)' = i
  BY <1>1, <1>4, Advances, Zenon
<1>9. CASE /\ i \in gone \/ Dir[i] = "dot"
           /\ reader' = [reader EXCEPT ![s] = Advanced(@)] /\ UNCHANGED <<call, lock, told>>
  <2>1. Shape'  BY <1>1, <1>8, <1>9, Zenon DEF IInv, Shape, TypeOK
  <2>2. Locked'  BY <1>1, <1>9, Zenon DEF IInv, Locked, Active
  <2>3. Listed'
    <3> SUFFICES ASSUME NEW x \in Streams \ closed  PROVE ListedAt(x)'
      BY <1>1, SMTT(30) DEF Listed
    <3>1. CASE x = s
      <4>1. \A u \in Threads : ~Stats(u, s)'  BY <1>2, <1>9, Zenon DEF Stats
      <4>2. \A j \in Entries : j <= i => j <= Place(s) \/ j = i  BY <1>4
      <4>3. \A k \in 1..Len(told[s]) : told[s][k] <= i  BY <1>4
      <4> QED  BY <1>1, <1>2, <1>8, <1>9, <3>1, <4>1, <4>2, <4>3, Zenon DEF ListedAt
    <3>2. CASE x # s
      <4>1. /\ reader'[x] = reader[x] /\ cursor'[x] = cursor[x] /\ told'[x] = told[x]
            /\ gone' = gone /\ (x \in ended' => x \in ended) /\ Active(t) /\ call[t].s = s
        BY <1>0, <1>1, <1>8, <1>9, <3>2, Zenon
      <4>2. (\A u \in Threads \ {t} : call'[u] = call[u]) /\ (call'[t].pc = "idle" \/ call'[t].s = s)
        BY <1>0, <1>1, <1>8, <1>9, <3>2, Zenon
      <4> QED  BY <3>2, <4>1, <4>2, OtherStreams
    <3> QED  BY <3>1, <3>2
  <2>4. ListingInOrder'  BY <1>1, <1>9, ZenonT(30) DEF IInv, ListingInOrder, Told
  <2> QED  BY <1>8, <1>9, <2>1, <2>2, <2>3, <2>4, Zenon DEF IInv
<1>10. CASE reader' = [reader EXCEPT ![s] = Advanced(@)] /\ Tell(s, i) /\ Return(t, s)
  <2>1. \A k \in 1..Len(told[s]) : told[s][k] < i  BY <1>4
  <2>2. /\ told' \in [Streams -> Seq(Entries)]
        /\ \A x \in Streams \ {s} : told'[x] = told[x]
        /\ \A k \in 1..Len(told'[s]) : told'[s][k] <= i
        /\ \A k \in 1..Len(told[s]) : k \in 1..Len(told'[s]) /\ told'[s][k] = told[s][k]
        /\ \E k \in 1..Len(told'[s]) : told'[s][k] = i
        /\ \A x \in Streams : \A k, l \in 1..Len(told'[x]) : k < l => told'[x][k] < told'[x][l]
    BY <1>10, <2>1, Tells, Zenon
  <2>3. Shape'  BY <1>1, <1>6, <1>8, <1>10, <2>2, Zenon DEF IInv, Shape, TypeOK
  <2>4. Listed'
    <3> SUFFICES ASSUME NEW x \in Streams \ closed  PROVE ListedAt(x)'
      BY <1>1 DEF Listed
    <3>1. CASE x = s
      <4>1. \A u \in Threads : ~Stats(u, s)'  BY <1>2, <1>6, <1>10, Zenon DEF Stats
      <4>2. \A j \in Entries : j <= i => j <= Place(s) \/ j = i  BY <1>4
      <4>3. \A j \in Entries : j <= i =>
              j \in gone \/ Dir[j] = "dot" \/ \E k \in 1..Len(told'[s]) : told'[s][k] = j
        BY <1>2, <2>2, <4>2, Zenon DEF ListedAt
      <4> QED  BY <1>1, <1>2, <1>8, <1>10, <2>2, <3>1, <4>1, <4>3, SMTT(30) DEF ListedAt
    <3>2. CASE x # s
      <4>1. /\ reader'[x] = reader[x] /\ cursor'[x] = cursor[x] /\ told'[x] = told[x]
            /\ gone' = gone /\ (x \in ended' => x \in ended) /\ Active(t) /\ call[t].s = s
        BY <1>0, <1>1, <1>6, <1>8, <1>10, <2>2, <3>2, Zenon
      <4>2. (\A u \in Threads \ {t} : call'[u] = call[u]) /\ (call'[t].pc = "idle" \/ call'[t].s = s)
        BY <1>0, <1>1, <1>6, <1>8, <1>10, <2>2, <3>2, Zenon
      <4> QED  BY <3>2, <4>1, <4>2, OtherStreams
    <3> QED  BY <3>1, <3>2
  <2>5. ListingInOrder'
    <3>1. \A x \in Streams : x \in closed' => x # s  BY <1>1, <1>2, Zenon
    <3> QED  BY <1>1, <2>2, <2>3, <2>4, <3>1, ListingKept, Zenon DEF IInv
  <2> QED  BY <1>6, <1>8, <1>10, <2>3, <2>4, <2>5, Zenon DEF IInv
<1>11. CASE /\ reader' = [reader EXCEPT ![s] = Advanced(@)]
            /\ call' = [call EXCEPT ![t] = [pc |-> "stat", s |-> s, i |-> i]]
            /\ UNCHANGED <<lock, told>>
  <2> DEFINE c == [pc |-> "stat", s |-> s, i |-> i]
  <2>1. c \in Call /\ c.pc = "stat" /\ c.s = s /\ c.i = i  BY CallShapes, Zenon
  <2>2. call' = [call EXCEPT ![t] = c]  BY <1>11, Zenon
  <2> HIDE DEF c
  <2>3. call' \in [Threads -> Call] /\ \A u \in Threads : call'[u] = IF u = t THEN c ELSE call[u]
    BY <2>1, <2>2, CallStep, Zenon DEF IInv, Shape
  <2>4. Shape'  BY <1>1, <1>8, <1>11, <2>3, Zenon DEF IInv, Shape, TypeOK
  <2>5. Locked'  BY <1>0, <1>1, <1>2, <1>11, <2>1, <2>3, SMTT(30) DEF IInv, Locked, Active
  <2>6. Listed'
    <3> SUFFICES ASSUME NEW x \in Streams \ closed  PROVE ListedAt(x)'
      BY <1>1 DEF Listed
    <3>1. CASE x = s
      <4>1. \A u \in Threads : Stats(u, s)' <=> u = t  BY <1>2, <2>1, <2>3, Zenon DEF Stats
      <4>2. call'[t].i = i  BY <2>1, <2>3, Zenon
      <4>3. \A j \in Entries : j <= i => j <= Place(s) \/ j = i  BY <1>4
      <4>4. \A k \in 1..Len(told[s]) : told[s][k] <= i /\ told[s][k] < i  BY <1>4
      <4>5. \A j \in Entries : j <= i =>
              \/ j \in gone \/ Dir[j] = "dot" \/ \E k \in 1..Len(told[s]) : told[s][k] = j
              \/ \E u \in Threads : Stats(u, s)' /\ call'[u].i = j
        BY <1>2, <4>1, <4>2, <4>3, Zenon DEF ListedAt
      <4> QED  BY <1>1, <1>2, <1>8, <1>11, <3>1, <4>1, <4>2, <4>4, <4>5, SMTT(30) DEF ListedAt
    <3>2. CASE x # s
      <4>1. /\ reader'[x] = reader[x] /\ cursor'[x] = cursor[x] /\ told'[x] = told[x]
            /\ gone' = gone /\ (x \in ended' => x \in ended) /\ Active(t) /\ call[t].s = s
        BY <1>0, <1>1, <1>8, <1>11, <2>1, <2>3, <3>2, Zenon
      <4>2. (\A u \in Threads \ {t} : call'[u] = call[u]) /\ (call'[t].pc = "idle" \/ call'[t].s = s)
        BY <1>0, <1>1, <1>8, <1>11, <2>1, <2>3, <3>2, Zenon
      <4> QED  BY <3>2, <4>1, <4>2, OtherStreams
    <3> QED  BY <3>1, <3>2
  <2>7. ListingInOrder'  BY <1>1, <1>11, Zenon DEF IInv, ListingInOrder, Told
  <2> QED  BY <1>8, <1>11, <2>4, <2>5, <2>6, <2>7, Zenon DEF IInv
<1> QED  BY <1>5, <1>7, <1>9, <1>10, <1>11, Zenon

-----------------------------------------------------------------------------
(* The theorems *)

LEMMA InitIInv ==
  ASSUME Init  PROVE IInv
<1>1. Len(Dir) \in Nat  BY DirectoryAssumption
<1>2. call \in [Threads -> Call] /\ \A t \in Threads : call[t].pc = "idle"
  BY CallShapes, Zenon DEF Init
<1>3. \A s \in Streams : reader[s].buffer = NoBuffer /\ reader[s].pos = 0 /\ reader[s].end = 0
                         /\ cursor[s] = 0 /\ told[s] = << >>
  BY Zenon DEF Init
<1>4. Shape
  <2>1. reader \in [Streams -> [buffer : Buffers \cup {NoBuffer}, pos : Nat, end : Nat]]
    BY Zenon DEF Init
  <2>2. content \in [Buffers -> Seq(Record)] /\ told \in [Streams -> Seq(Entries)]
    BY DEF Init
  <2>3. cursor \in [Streams -> 0..Len(Dir)] /\ pool \in [Buffers -> Nat]
    BY <1>1 DEF Init
  <2> QED  BY <1>2, <1>3, <2>1, <2>2, <2>3 DEF Init, Shape, TypeOK
<1>5. Locked  BY <1>2, Zenon DEF Locked, Active
<1>6. Owned  BY <1>3, Zenon DEF Owned, Init
<1>7. Buffered  BY <1>3, Zenon DEF Buffered, BufferedAt
<1>8. \A s \in Streams : Place(s) = 0 /\ Len(told[s]) = 0  BY <1>3 DEF Place
<1>9. \A s \in Streams : s \notin ended  BY Zenon DEF Init
<1>10. Listed
  <2> SUFFICES ASSUME NEW s \in Streams  PROVE ListedAt(s)
    BY Zenon DEF Listed
  <2>1. \A i \in Entries : ~(i <= 0)  BY DEF Entries
  <2>2. \A t \in Threads : ~Stats(t, s)  BY <1>2, Zenon DEF Stats
  <2> QED  BY <1>8, <1>9, <2>1, <2>2 DEF ListedAt
<1>11. ListingInOrder  BY <1>8, <1>9 DEF ListingInOrder, Told
<1> QED  BY <1>4, <1>5, <1>6, <1>7, <1>10, <1>11, Zenon DEF IInv

LEMMA NextIInv ==
  ASSUME IInv, [Next]_vars  PROVE IInv'
<1>1. CASE UNCHANGED vars
  <2>1. Shape' /\ Locked' /\ Owned'
    BY <1>1, Zenon DEF vars, IInv, Shape, TypeOK, Locked, Active, Owned
  <2>2. Buffered'  BY <1>1, BufferedElsewhere, Zenon DEF vars, IInv, Buffered
  <2>3. Listed'
    <3> SUFFICES ASSUME NEW s \in Streams \ closed  PROVE ListedAt(s)'
      BY <1>1, Zenon DEF Listed, vars
    <3>1. ListedAt(s) /\ Place(s)' = Place(s)  BY <1>1, Zenon DEF vars, IInv, Listed, Place
    <3>2. s \in ended => reader[s].pos = reader[s].end  BY <3>1, Zenon DEF ListedAt
    <3>3. \A u \in Threads : Stats(u, s)' <=> Stats(u, s)  BY <1>1, Zenon DEF vars, Stats
    <3> QED  BY <1>1, <3>1, <3>2, <3>3, ListedElsewhere, Zenon DEF vars
  <2>4. ListingInOrder'  BY <1>1, Zenon DEF vars, IInv, ListingInOrder, Told
  <2> QED  BY <2>1, <2>2, <2>3, <2>4, Zenon DEF IInv
<1>2. ASSUME NEW t \in Threads, NEW s \in Streams, ReadDirectoryEntry(t, s)  PROVE IInv'
  BY <1>2, ReadDirectoryEntryKeeps, Zenon
<1>3. ASSUME NEW t \in Threads, NEW s \in Streams, DropDirectoryStream(t, s)  PROVE IInv'
  BY <1>3, DropDirectoryStreamKeeps
<1>4. ASSUME NEW t \in Threads, Locks(t)  PROVE IInv'  BY <1>4, LocksKeeps, Zenon
<1>5. ASSUME NEW t \in Threads, Refill(t)  PROVE IInv'  BY <1>5, RefillKeeps
<1>6. ASSUME NEW t \in Threads, RefillFails(t)  PROVE IInv'  BY <1>6, RefillFailsKeeps
<1>7. ASSUME NEW t \in Threads, RefillEnds(t)  PROVE IInv'  BY <1>7, RefillEndsKeeps
<1>8. ASSUME NEW t \in Threads, Take(t)  PROVE IInv'  BY <1>8, TakeKeeps
<1>9. ASSUME NEW t \in Threads, Stat(t)  PROVE IInv'  BY <1>9, StatKeeps
<1>10. ASSUME NEW t \in Threads, CloseDirectoryStream(t)  PROVE IInv'
  BY <1>10, CloseDirectoryStreamKeeps
<1>11. ASSUME NEW i \in Entries, Remove(i)  PROVE IInv'  BY <1>11, RemoveKeeps, Zenon
<1> QED
  BY <1>1, <1>2, <1>3, <1>4, <1>5, <1>6, <1>7, <1>8, <1>9, <1>10, <1>11, Zenon DEF Next

\* The inductive invariant of directory streams: who has a mutex, whose a
\* buffer is, what is in it, and how far each listing has got.
THEOREM DirectoryInvariant == Spec => []IInv
<1>1. Init => IInv  BY InitIInv, Zenon
<1>2. IInv /\ [Next]_vars => IInv'  BY NextIInv, Zenon
<1> QED  BY <1>1, <1>2, PTL DEF Spec

\* releaseBuffer gives every buffer back once, and no stream keeps one it gave
\* back, for any number of streams sharing any number of buffers.
THEOREM PoolKept == Spec => []BuffersOwned
<1>1. IInv => BuffersOwned  BY OwnedIsOwned, Zenon DEF IInv
<1> QED  BY <1>1, DirectoryInvariant, PTL

\* The mutex of a stream keeps its destructor out of the host calls of
\* readEntry, whoever calls either.
THEOREM HostCallsOpen == Spec => []NativeCallsOpen
<1>1. IInv => NativeCallsOpen  BY Zenon DEF IInv, Locked, Active, NativeCallsOpen
<1> QED  BY <1>1, DirectoryInvariant, PTL

\* Every directory is listed in order and without gaps, whatever its entries
\* are, however many fit a buffer and whichever are removed meanwhile.
THEOREM ListedInOrder == Spec => []ListingInOrder
<1>1. IInv => ListingInOrder  BY Zenon DEF IInv
<1> QED  BY <1>1, DirectoryInvariant, PTL
==============================================================================
