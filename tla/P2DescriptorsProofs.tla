------------------------- MODULE P2DescriptorsProofs -------------------------
(***************************************************************************)
(* The inductive invariant of P2Descriptors, for any number of threads,    *)
(* mounts and reps and any limits, and the safety properties that follow   *)
(* from it.                                                                *)
(***************************************************************************)
EXTENDS P2Descriptors, FiniteSetTheorems, TLAPS

DescEntry == [mount : Mounts, flags : SUBSET Rights, dir : BOOLEAN]
StreamEntry == [mount : Mounts, read : BOOLEAN]

New == {Nothing, [table |-> "dirs"]} \cup [table : {"descs"}, entry : DescEntry]
         \cup [table : {"streams"}, entry : StreamEntry]

DescCall == [op : {"desc"}, at : {"act", "add"}, held : 0..2, borrows : SUBSET Nat,
             parents : 0..2, effects : SUBSET Rights, new : New, mounts : SUBSET Mounts]
GetCall == [op : {"getDirectories"}, at : {"dup", "add", "rollback"}, i : Nat, held : 0..1,
            out : SUBSET Nat, borrows : {{}}]
WriterCall == [op : {"writer"}, held : {0}, borrows : SUBSET Nat]
DropCall == [op : {"dropStream"}, held : {1}, borrows : {{}}, rep : Nat]
Call == {Idle} \cup DescCall \cup GetCall \cup WriterCall \cup DropCall

Shape ==
  /\ granted \in [Mounts -> SUBSET Rights] /\ base \in SUBSET Mounts
  /\ phase \in {"prepare", "running", "ending", "over", "failed"}
  /\ nextDesc \in Nat \ {0} /\ nextStream \in Nat \ {0} /\ dirs \in Nat /\ stdStreams \in Nat
  /\ DOMAIN descs \subseteq 1..(nextDesc - 1) /\ DOMAIN streams \subseteq 1..(nextStream - 1)
  /\ call \in [Threads -> Call]

\* A call holds the parents it has opened, or the new file.
HoldsAt(c) ==
  /\ c.op = "desc" => /\ c.held <= c.parents \/ c.at = "add"
                      /\ c.at = "add" => c.held = 1 /\ c.new.table # "none"
                      /\ c.new.table # "none" => c.parents = 0
  /\ c.op = "getDirectories" => c.held = (IF c.at = "add" THEN 1 ELSE 0)
Holds == \A t \in Threads : HoldsAt(call[t])

\* Before and after the instance there is nothing but the mounts.
Quiet ==
  phase \in {"prepare", "failed", "over"} =>
    /\ DOMAIN descs = {} /\ DOMAIN streams = {} /\ dirs = 0 /\ \A t \in Threads : call[t] = Idle
    /\ phase # "prepare" => base = {}

\* What the host granted to the mount of a descriptor, of a stream and of a
\* file that is about to become one.
DescGranted(e) == e \in DescEntry /\ e.flags \subseteq granted[e.mount]
StreamGranted(e) ==
  e \in StreamEntry /\ (IF e.read THEN "read" ELSE "write") \in granted[e.mount]
NewGranted(n) ==
  /\ n.table = "descs" => DescGranted(n.entry)
  /\ n.table = "streams" => StreamGranted(n.entry)
CallGranted(c) ==
  c.op = "desc" =>
    /\ NewGranted(c.new)
    /\ c.effects # {} => \E m \in Mounts : c.mounts = {m} /\ c.effects \subseteq granted[m]

WithinGrant ==
  /\ \A r \in DOMAIN descs : DescGranted(descs[r])
  /\ \A r \in DOMAIN streams : StreamGranted(streams[r])
  /\ \A t \in Threads : CallGranted(call[t])

\* A descriptor belongs to the guest or to one get-directories.
Gets(t) == call[t].op = "getDirectories"
DescsOwned ==
  /\ handed \subseteq DOMAIN descs
  /\ \A t \in Threads : Gets(t) =>
       /\ call[t].i >= 1 /\ (call[t].at = "add" => call[t].i <= NMounts)
       /\ call[t].out \subseteq DOMAIN descs /\ call[t].out \cap handed = {}
  /\ \A t, u \in Threads : Gets(t) /\ Gets(u) /\ t # u => call[t].out \cap call[u].out = {}
  /\ \A r \in DOMAIN descs : r \in handed \/ \E t \in Threads : Gets(t) /\ r \in call[t].out

\* An adapter that was handed out is the one in the cache.
AdaptersCached ==
  /\ \A p \in adapters : p[1] \in DOMAIN outputs /\ p = <<p[1], outputs[p[1]]>>
  /\ \A t \in Threads : call[t].op = "writer" => call[t].borrows \subseteq DOMAIN streams
  /\ \A r \in DOMAIN outputs :
       r \in DOMAIN streams \/ \E t \in Threads : call[t].op = "dropStream" /\ call[t].rep = r

Accounted ==
  open = Cardinality(base) + Cardinality(DOMAIN descs) + Cardinality(DOMAIN streams)
           + dirs + Cardinality(HeldFiles)

IInv == /\ Shape /\ Holds /\ Quiet /\ WithinGrant /\ DescsOwned /\ AdaptersCached
        /\ QuotasHold /\ Accounted

-----------------------------------------------------------------------------
(* The plans of the calls *)

\* What a plan for the descriptors a and b asks for is granted to their mount.
PlanGranted(a, b, p) ==
  /\ p.parents \in 0..2 /\ p.effects \subseteq Rights /\ p.new \in New
  /\ p.new.table # "none" => p.parents = 0
  /\ NewGranted(p.new)
  /\ p.effects # {} => a.mount = b.mount /\ p.effects \subseteq granted[a.mount]

LEMMA PlanIs ==
  ASSUME NEW allowed, NEW parents, NEW effects, NEW new,
         NEW p \in Plan(allowed, parents, effects, new)
  PROVE  allowed /\ p.parents = parents /\ p.effects = effects /\ p.new = new
BY DEF Plan

\* A call that opens no file: it needs its effects among the flags of both.
LEMMA EffectGranted ==
  ASSUME Shape, NEW a, DescGranted(a), NEW b, DescGranted(b),
         NEW p, p.parents \in 0..2, p.effects \subseteq Rights, p.new = Nothing,
         p.effects # {} => a.mount = b.mount /\ p.effects \subseteq b.flags
  PROVE  PlanGranted(a, b, p)
BY DEF PlanGranted, DescGranted, NewGranted, Nothing, New

LEMMA OpenAtGranted ==
  ASSUME Shape, NEW a, DescGranted(a), NEW p \in OpenAt(a)
  PROVE  PlanGranted(a, a, p)
<1>1. PICK r \in Requests : \E d \in MayOpen(r[1], r[2]) : p \in OpenPlan(a, r[1], r[2], d)
  BY SMT DEF OpenAt
<1>2. PICK d \in BOOLEAN :
        /\ ChildFlags(a, r[1], r[2]) /\ p.parents = 0
        /\ p.effects = {k \in {"mutate"} : "create" \in r[2]} \cup
                       {k \in {"write"} : "truncate" \in r[2] /\ "directory" \notin r[2]}
        /\ p.new = [table |-> "descs", entry |->
                      [mount |-> a.mount, flags |-> r[1] \cap Rights, dir |-> d]]
  <2>1. PICK d \in BOOLEAN : p \in OpenPlan(a, r[1], r[2], d)
    BY <1>1, Zenon DEF MayOpen
  <2> QED
    BY <2>1 DEF OpenPlan, Plan
<1>3. a.mount \in Mounts /\ a.flags \in SUBSET Rights /\ a.flags \subseteq granted[a.mount]
  BY Zenon DEF DescGranted, DescEntry
<1>4. r[1] \cap Rights \subseteq a.flags
  BY <1>2, Zenon DEF ChildFlags
<1>5. p.effects \subseteq a.flags
  BY <1>2, <1>4, Zenon DEF ChildFlags, Rights
<1>6. p.new.table = "descs" /\ p.new.entry \in DescEntry /\ DescGranted(p.new.entry)
  BY <1>2, <1>3, <1>4 DEF DescEntry, DescGranted
<1>7. p.new \in New
  BY <1>2, <1>6, Zenon DEF New
<1> QED
  BY <1>2, <1>3, <1>5, <1>6, <1>7 DEF PlanGranted, NewGranted

LEMMA StreamPlanGranted ==
  ASSUME Shape, NEW a, DescGranted(a), NEW reading \in BOOLEAN,
         (IF reading THEN "read" ELSE "write") \in a.flags,
         NEW p, p.parents = 0, p.new = Stream(a, reading),
         p.effects = {IF reading THEN "read" ELSE "write"}
  PROVE  PlanGranted(a, a, p)
<1>1. a.mount \in Mounts /\ a.flags \subseteq granted[a.mount] /\ a.flags \subseteq Rights
  BY Zenon DEF DescGranted, DescEntry
<1>2. p.new.table = "streams" /\ StreamGranted(p.new.entry) /\ p.new \in New
  BY <1>1 DEF Stream, StreamGranted, StreamEntry, New
<1> QED
  BY <1>1, <1>2 DEF PlanGranted, NewGranted

LEMMA PlansGranted ==
  ASSUME Shape, NEW a, DescGranted(a), NEW b, DescGranted(b), NEW p \in Plans(a, b)
  PROVE  PlanGranted(a, b, p)
<1>1. CASE p \in OpenAt(a) /\ a = b
  BY <1>1, OpenAtGranted, Zenon
<1>2. CASE p \in ReadViaStream(a) /\ a = b
  <2>1. "read" \in a.flags /\ p.parents = 0 /\ p.effects = {"read"} /\ p.new = Stream(a, TRUE)
    BY <1>2 DEF ReadViaStream, Plan, Stream
  <2> QED
    BY <1>2, <2>1, StreamPlanGranted, Zenon
<1>3. CASE p \in WriteViaStream(a) \cup AppendViaStream(a) /\ a = b
  <2>1. "write" \in a.flags /\ p.parents = 0 /\ p.effects = {"write"} /\ p.new = Stream(a, FALSE)
    <3>1. p \in Plan("write" \in a.flags, 0, {"write"}, Stream(a, FALSE))
      BY <1>3, Zenon DEF WriteViaStream, AppendViaStream
    <3> QED
      BY <3>1, PlanIs, Zenon
  <2> QED
    BY <1>3, <2>1, StreamPlanGranted, Zenon
<1>4. CASE p \in ReadDirectory(a) /\ a = b
  <2>1. p.parents = 0 /\ p.effects = {} /\ p.new = [table |-> "dirs"]
    BY <1>4 DEF ReadDirectory, Plan
  <2> QED
    BY <2>1 DEF PlanGranted, NewGranted, New
<1>5. CASE p \in CreateDirectoryAt(a) \cup RemoveAt(a) \cup SetTimesAt(a) \cup SymlinkAt(a) /\ a = b
  <2>1. "mutate" \in a.flags /\ p.parents \in 0..2 /\ p.effects = {"mutate"} /\ p.new = Nothing
    BY <1>5 DEF CreateDirectoryAt, RemoveAt, SetTimesAt, SymlinkAt, Plan
  <2> QED
    BY <1>5, <2>1, EffectGranted, Zenon DEF Rights
<1>6. CASE p \in SyncDescriptor(a) \cup SetSize(a) \cup DirectWrite(a) \cup SetTimes(a) /\ a = b
  <2>1. "write" \in a.flags /\ p.parents \in 0..2 /\ p.effects = {"write"} /\ p.new = Nothing
    BY <1>6 DEF SyncDescriptor, SetSize, DirectWrite, SetTimes, Plan
  <2> QED
    BY <1>6, <2>1, EffectGranted, Zenon DEF Rights
<1>7. CASE p \in DirectRead(a) /\ a = b
  <2>1. "read" \in a.flags /\ p.parents \in 0..2 /\ p.effects = {"read"} /\ p.new = Nothing
    BY <1>7 DEF DirectRead, Plan
  <2> QED
    BY <1>7, <2>1, EffectGranted, Zenon DEF Rights
<1>8. CASE p \in ReadlinkAt(a) /\ a = b
  <2>1. p.parents \in 0..2 /\ p.effects = {} /\ p.new = Nothing
    BY <1>8 DEF ReadlinkAt, Plan
  <2> QED
    BY <1>8, <2>1, EffectGranted, Zenon
<1>9. CASE p \in RenameAt(a, b) \cup LinkAt(a, b)
  <2>1. /\ "mutate" \in b.flags /\ a.mount = b.mount /\ p.parents \in 0..2
        /\ p.effects = {"mutate"} /\ p.new = Nothing
    BY <1>9 DEF RenameAt, LinkAt, Plan
  <2> QED
    BY <2>1, EffectGranted, Zenon DEF Rights
<1> QED
  BY <1>1, <1>2, <1>3, <1>4, <1>5, <1>6, <1>7, <1>8, <1>9, Zenon DEF Plans

-----------------------------------------------------------------------------
(* A thread's call, and the files that calls hold *)

HeldIn(c) == IF c.op = "none" THEN 0 ELSE c.held

LEMMA CallIs ==
  ASSUME Shape, NEW t \in Threads
  PROVE  /\ call[t] \in Call
         /\ call[t].op = "none" => call[t] = Idle
         /\ call[t].op = "desc" => call[t] \in DescCall
         /\ call[t].op = "getDirectories" => call[t] \in GetCall
         /\ call[t].op = "writer" => call[t] \in WriterCall
         /\ call[t].op = "dropStream" => call[t] \in DropCall
         /\ Held(t) \in 0..2
<1>1. call[t] \in Call
  BY Zenon DEF Shape
<1> QED
  BY <1>1 DEF Call, Idle, DescCall, GetCall, WriterCall, DropCall, Held

LEMMA CallChanges ==
  ASSUME Shape, NEW t \in Threads, NEW c \in Call, call' = [call EXCEPT ![t] = c]
  PROVE  /\ call' \in [Threads -> Call] /\ call'[t] = c
         /\ \A u \in Threads : u # t => call'[u] = call[u] /\ Held(u)' = Held(u)
         /\ Held(t)' = HeldIn(c)
BY Zenon DEF Shape, Held, HeldIn

LEMMA UpToFinite ==
  ASSUME NEW n \in Int
  PROVE  IsFiniteSet(1..n)
<1>1. 1 \in Int
  OBVIOUS
<1> QED
  BY <1>1, FS_Interval, Zenon

LEMMA HeldFinite ==
  IsFiniteSet(HeldFiles) /\ Cardinality(HeldFiles) \in Nat
<1>1. 2 \in Int
  OBVIOUS
<1>2. IsFiniteSet(Threads \X (1..2))
  <2>1. IsFiniteSet(Threads)
    BY DescriptorAssumption, Zenon
  <2>2. IsFiniteSet(1..2)
    BY <1>1, UpToFinite, Zenon
  <2> QED
    BY <2>1, <2>2, FS_Product, Zenon
<1>3. IsFiniteSet(HeldFiles)
  BY <1>2, FS_Subset, Zenon DEF HeldFiles
<1> QED
  BY <1>3, FS_CardinalityType, Zenon

LEMMA HeldKept ==
  ASSUME \A u \in Threads : Held(u)' = Held(u)
  PROVE  HeldFiles' = HeldFiles
BY Zenon DEF HeldFiles

LEMMA HeldMore ==
  ASSUME NEW t \in Threads, Held(t) \in 0..1, Held(t)' = Held(t) + 1,
         \A u \in Threads : u # t => Held(u)' = Held(u)
  PROVE  Cardinality(HeldFiles') = Cardinality(HeldFiles) + 1
<1>1. PICK f : f = <<t, Held(t) + 1>>
  BY Zenon
<1>2. f \notin HeldFiles
  <2>1. f[1] = t /\ f[2] = Held(t) + 1
    BY <1>1, Zenon
  <2>2. ~(Held(t) + 1 <= Held(t))
    OBVIOUS
  <2> QED
    BY <2>1, <2>2, Zenon DEF HeldFiles
<1>3. HeldFiles' = HeldFiles \cup {f}
  BY <1>1 DEF HeldFiles
<1> QED
  BY <1>2, <1>3, HeldFinite, FS_AddElement, Zenon

LEMMA HeldReleased ==
  ASSUME NEW t \in Threads, Held(t) \in 0..2, Held(t)' = 0,
         \A u \in Threads : u # t => Held(u)' = Held(u)
  PROVE  Cardinality(HeldFiles') = Cardinality(HeldFiles) - Held(t)
<1>1. CASE Held(t) = 0
  <2>1. HeldFiles' = HeldFiles
    BY <1>1, HeldKept, Zenon
  <2> QED
    BY <1>1, <2>1, HeldFinite
<1>2. CASE Held(t) = 1
  <2>1. <<t, 1>> \in HeldFiles /\ HeldFiles' = HeldFiles \ {<<t, 1>>}
    BY <1>2, SMTT(30) DEF HeldFiles
  <2> QED
    BY <1>2, <2>1, HeldFinite, FS_RemoveElement, ZenonT(30)
<1>3. CASE Held(t) = 2
  <2>1. PICK S : S = HeldFiles \ {<<t, 1>>}
    BY Zenon
  <2>2. <<t, 1>> \in HeldFiles /\ <<t, 2>> \in S /\ HeldFiles' = S \ {<<t, 2>>}
    BY <1>3, <2>1 DEF HeldFiles
  <2>3. IsFiniteSet(S) /\ Cardinality(S) = Cardinality(HeldFiles) - 1
    BY <2>1, <2>2, HeldFinite, FS_RemoveElement, Zenon
  <2>4. Cardinality(HeldFiles') = Cardinality(S) - 1
    BY <2>2, <2>3, FS_RemoveElement, Zenon
  <2> QED
    BY <1>3, <2>3, <2>4, HeldFinite
<1> QED
  BY <1>1, <1>2, <1>3

LEMMA TablesFinite ==
  ASSUME Shape
  PROVE  /\ IsFiniteSet(DOMAIN descs) /\ Cardinality(DOMAIN descs) \in Nat
         /\ IsFiniteSet(DOMAIN streams) /\ Cardinality(DOMAIN streams) \in Nat
         /\ IsFiniteSet(base) /\ Cardinality(base) \in Nat
<1>1. IsFiniteSet(1..(nextDesc - 1)) /\ IsFiniteSet(1..(nextStream - 1)) /\ IsFiniteSet(Mounts)
  BY DescriptorAssumption, UpToFinite DEF Shape, Mounts
<1>2. IsFiniteSet(DOMAIN descs) /\ IsFiniteSet(DOMAIN streams) /\ IsFiniteSet(base)
  BY <1>1, FS_Subset, Zenon DEF Shape
<1> QED
  BY <1>2, FS_CardinalityType, Zenon

LEMMA LimitsNat ==
  MaxDescriptors \in Nat /\ MaxStreams \in Nat /\ MaxDirectoryStreams \in Nat
BY DescriptorAssumption, Zenon

\* The numbers that count files, and what the invariant says of them.
LEMMA Counts ==
  ASSUME IInv
  PROVE  /\ open \in Int /\ dirs \in Nat /\ stdStreams \in Nat
         /\ Cardinality(base) \in Nat /\ Cardinality(DOMAIN descs) \in Nat
         /\ Cardinality(DOMAIN streams) \in Nat /\ Cardinality(HeldFiles) \in Nat
         /\ MaxDescriptors \in Nat /\ MaxStreams \in Nat /\ MaxDirectoryStreams \in Nat
         /\ Cardinality(DOMAIN descs) <= MaxDescriptors
         /\ Cardinality(DOMAIN streams) + stdStreams <= MaxStreams
         /\ dirs <= MaxDirectoryStreams
         /\ open = Cardinality(base) + Cardinality(DOMAIN descs) + Cardinality(DOMAIN streams)
                     + dirs + Cardinality(HeldFiles)
<1>1. dirs \in Nat /\ stdStreams \in Nat
  BY Zenon DEF IInv, Shape
<1>2. /\ Cardinality(base) \in Nat /\ Cardinality(DOMAIN descs) \in Nat
      /\ Cardinality(DOMAIN streams) \in Nat
  BY TablesFinite, Zenon DEF IInv
<1>3. open = Cardinality(base) + Cardinality(DOMAIN descs) + Cardinality(DOMAIN streams)
               + dirs + Cardinality(HeldFiles)
  BY Zenon DEF IInv, Accounted
<1>4. /\ Cardinality(DOMAIN descs) <= MaxDescriptors
      /\ Cardinality(DOMAIN streams) + stdStreams <= MaxStreams
      /\ dirs <= MaxDirectoryStreams
  BY Zenon DEF IInv, QuotasHold
<1>5. open \in Int
  BY <1>1, <1>2, <1>3, HeldFinite
<1> QED
  BY <1>1, <1>2, <1>3, <1>4, <1>5, HeldFinite, LimitsNat, Zenon

\* The same numbers with one descriptor, and so one file, less.
LEMMA CountsLess ==
  ASSUME IInv
  PROVE  /\ Cardinality(DOMAIN descs) - 1 <= MaxDescriptors
         /\ open - 1 = Cardinality(base) + (Cardinality(DOMAIN descs) - 1)
                        + Cardinality(DOMAIN streams) + dirs + Cardinality(HeldFiles)
BY Counts, SMTT(30)

-----------------------------------------------------------------------------
(* Who owns the descriptors *)

\* The descriptors of the guest and of one thread.
Share(t) == handed \cup {r \in DOMAIN descs : Gets(t) /\ r \in call[t].out}

\* A step of one thread that leaves the descriptors of the others alone.
LEMMA OwnersChange ==
  ASSUME IInv, NEW t \in Threads, \A u \in Threads : u # t => call'[u] = call[u],
         DOMAIN descs' \ Share(t)' = DOMAIN descs \ Share(t), handed' \subseteq DOMAIN descs',
         Gets(t)' => /\ call'[t].i >= 1 /\ (call'[t].at = "add" => call'[t].i <= NMounts)
                     /\ call'[t].out \subseteq DOMAIN descs' /\ call'[t].out \cap handed' = {}
  PROVE  DescsOwned'
<1> DEFINE Others == DOMAIN descs \ Share(t)
<1>1. \A u \in Threads : u # t => (Gets(u)' <=> Gets(u))
  BY Zenon DEF Gets
<1>2. ASSUME NEW u \in Threads, u # t, Gets(u)
      PROVE  call[u].out \subseteq Others
  BY <1>2, Zenon DEF IInv, DescsOwned, Share
<1>3. Others \subseteq DOMAIN descs' /\ Others \cap handed' = {}
  BY Zenon DEF Share
<1>4. Gets(t)' => Others \cap call'[t].out = {}
  BY Zenon DEF Share
<1>5. ASSUME NEW u \in Threads, Gets(u)'
      PROVE  /\ call'[u].i >= 1 /\ (call'[u].at = "add" => call'[u].i <= NMounts)
             /\ call'[u].out \subseteq DOMAIN descs' /\ call'[u].out \cap handed' = {}
  <2>1. CASE u = t
    BY <1>5, <2>1, Zenon
  <2>2. CASE u # t
    <3>1. Gets(u) /\ call'[u] = call[u]
      BY <1>1, <1>5, <2>2, Zenon
    <3>2. call[u].i >= 1 /\ (call[u].at = "add" => call[u].i <= NMounts)
      BY <3>1, Zenon DEF IInv, DescsOwned
    <3> QED
      BY <1>2, <1>3, <2>2, <3>1, <3>2, Zenon
  <2> QED
    BY <2>1, <2>2, Zenon
<1>6. ASSUME NEW u \in Threads, NEW v \in Threads, Gets(u)', Gets(v)', u # v
      PROVE  call'[u].out \cap call'[v].out = {}
  <2>1. CASE u # t /\ v # t
    <3>1. Gets(u) /\ Gets(v) /\ call'[u] = call[u] /\ call'[v] = call[v]
      BY <1>1, <1>6, <2>1, Zenon
    <3> QED
      BY <1>6, <3>1, Zenon DEF IInv, DescsOwned
  <2>2. CASE u = t
    BY <1>1, <1>2, <1>4, <1>6, <2>2, Zenon
  <2>3. CASE v = t
    BY <1>1, <1>2, <1>4, <1>6, <2>3, Zenon
  <2> QED
    BY <2>1, <2>2, <2>3, Zenon
<1>7. ASSUME NEW r \in DOMAIN descs'
      PROVE  r \in handed' \/ \E u \in Threads : Gets(u)' /\ r \in call'[u].out
  <2>1. CASE r \in Share(t)'
    BY <2>1, Zenon DEF Share
  <2>2. CASE r \in Others
    <3>1. r \in DOMAIN descs /\ r \notin handed /\ ~(Gets(t) /\ r \in call[t].out)
      BY <2>2, Zenon DEF Share
    <3>2. PICK u \in Threads : Gets(u) /\ r \in call[u].out
      BY <3>1, Zenon DEF IInv, DescsOwned
    <3> QED
      BY <1>1, <3>1, <3>2, Zenon
  <2> QED
    BY <1>7, <2>1, <2>2, Zenon
<1>8. DescsOwned' <=>
        /\ handed' \subseteq DOMAIN descs'
        /\ \A u \in Threads : Gets(u)' =>
             /\ call'[u].i >= 1 /\ (call'[u].at = "add" => call'[u].i <= NMounts)
             /\ call'[u].out \subseteq DOMAIN descs' /\ call'[u].out \cap handed' = {}
        /\ \A u, v \in Threads : Gets(u)' /\ Gets(v)' /\ u # v => call'[u].out \cap call'[v].out = {}
        /\ \A r \in DOMAIN descs' : r \in handed' \/ \E u \in Threads : Gets(u)' /\ r \in call'[u].out
  BY Zenon DEF DescsOwned
<1> QED
  BY <1>5, <1>6, <1>7, <1>8, Zenon

\* A thread that is in no get-directories, before and after, and no descriptor
\* comes or goes.
LEMMA OwnersKept ==
  ASSUME IInv, NEW t \in Threads, \A u \in Threads : u # t => call'[u] = call[u],
         ~Gets(t), ~Gets(t)', descs' = descs, handed' = handed
  PROVE  DescsOwned'
<1>1. Share(t)' = Share(t)
  BY Zenon DEF Share
<1>2. handed' \subseteq DOMAIN descs'
  BY Zenon DEF IInv, DescsOwned
<1> QED
  BY <1>1, <1>2, OwnersChange, Zenon

-----------------------------------------------------------------------------
(* Steps that change one call and no table *)

LEMMA HoldsKept ==
  ASSUME Shape, Holds, NEW t \in Threads, NEW c \in Call, call' = [call EXCEPT ![t] = c], HoldsAt(c)
  PROVE  Holds'
<1> SUFFICES ASSUME NEW u \in Threads PROVE HoldsAt(call'[u])
  BY Zenon DEF Holds, HoldsAt
<1>1. CASE u = t
  BY <1>1, CallChanges, Zenon
<1>2. CASE u # t
  BY <1>2, CallChanges, Zenon DEF Holds
<1> QED
  BY <1>1, <1>2, Zenon

\* A thread has a call in progress only while the instance runs or ends.
LEMMA Alive ==
  ASSUME IInv, NEW t \in Threads, call[t].op # "none"
  PROVE  phase \in {"running", "ending"}
BY DEF IInv, Shape, Quiet, Idle

LEMMA OnlyCall ==
  ASSUME IInv, NEW t \in Threads, NEW c \in Call, call' = [call EXCEPT ![t] = c],
         UNCHANGED <<granted, phase, base, tables, history>>,
         phase \in {"running", "ending"}, HoldsAt(c), CallGranted(c),
         c.op \in {"none", "desc", "writer"}, call[t].op \in {"none", "desc", "writer"},
         c.op = "writer" => c.borrows \subseteq DOMAIN streams,
         open' = open - Held(t) + HeldIn(c), HeldIn(c) \in {0, Held(t), Held(t) + 1},
         HeldIn(c) \in 0..2
  PROVE  IInv'
<1>1. /\ call'[t] = c /\ call' \in [Threads -> Call] /\ Held(t)' = HeldIn(c)
      /\ \A u \in Threads : u # t => call'[u] = call[u] /\ Held(u)' = Held(u)
  BY CallChanges, Zenon DEF IInv
<1>2. Shape'
  BY <1>1, Zenon DEF IInv, Shape, tables
<1>3. Holds'
  BY HoldsKept, Zenon DEF IInv
<1>4. Quiet'
  BY Zenon DEF Quiet
<1>5. WithinGrant'
  <2>1. \A u \in Threads : CallGranted(call'[u])
    BY <1>1, Zenon DEF IInv, WithinGrant
  <2>2. granted' = granted /\ descs' = descs /\ streams' = streams
    BY Zenon DEF tables
  <2> QED
    BY <2>1, <2>2, Zenon DEF IInv, WithinGrant, CallGranted, NewGranted, DescGranted, StreamGranted
<1>6. DescsOwned'
  BY <1>1, OwnersKept, Zenon DEF Gets, tables, history
<1>7. AdaptersCached'
  BY <1>1, ZenonT(30) DEF IInv, AdaptersCached, tables, history
<1>8. QuotasHold'
  BY Zenon DEF IInv, QuotasHold, tables
<1>9. Accounted'
  <2>1. Cardinality(HeldFiles') = Cardinality(HeldFiles) - Held(t) + HeldIn(c)
    <3>1. Held(t) \in 0..2 /\ Cardinality(HeldFiles) \in Nat
      BY CallIs, HeldFinite, Zenon DEF IInv
    <3>2. CASE HeldIn(c) = 0
      BY <1>1, <3>1, <3>2, HeldReleased
    <3>3. CASE HeldIn(c) = Held(t)
      BY <1>1, <3>1, <3>3, HeldKept, SMTT(30)
    <3>4. CASE HeldIn(c) = Held(t) + 1
      BY <1>1, <3>1, <3>4, HeldMore, SMTT(30)
    <3> QED
      BY <3>2, <3>3, <3>4, Zenon
  <2>2. descs' = descs /\ streams' = streams /\ base' = base /\ dirs' = dirs
    BY Zenon DEF tables
  <2>3. Held(t) \in 0..2 /\ HeldIn(c) \in 0..2 /\ dirs \in Nat
    BY CallIs, Zenon DEF IInv, Shape
  <2> QED
    BY <2>1, <2>2, <2>3, Counts, SMTT(30) DEF Accounted
<1> QED
  BY <1>2, <1>3, <1>4, <1>5, <1>6, <1>7, <1>8, <1>9, Zenon DEF IInv

LEMMA BeginKeeps ==
  ASSUME IInv, NEW t \in Threads, Begin(t)
  PROVE  IInv'
<1>0. PICK ra \in DOMAIN descs, rb \in DOMAIN descs : \E p \in Plans(descs[ra], descs[rb]) :
        call' = [call EXCEPT ![t] =
          [op |-> "desc", at |-> "act", held |-> 0, borrows |-> {ra, rb},
           parents |-> p.parents, effects |-> p.effects, new |-> p.new,
           mounts |-> {descs[ra].mount, descs[rb].mount}]]
  BY Zenon DEF Begin
<1>1. PICK p \in Plans(descs[ra], descs[rb]) :
        call' = [call EXCEPT ![t] =
          [op |-> "desc", at |-> "act", held |-> 0, borrows |-> {ra, rb},
           parents |-> p.parents, effects |-> p.effects, new |-> p.new,
           mounts |-> {descs[ra].mount, descs[rb].mount}]]
  BY <1>0, Zenon
<1>2. PICK c : c = [op |-> "desc", at |-> "act", held |-> 0, borrows |-> {ra, rb},
           parents |-> p.parents, effects |-> p.effects, new |-> p.new,
           mounts |-> {descs[ra].mount, descs[rb].mount}]
  BY Zenon
<1>3. DescGranted(descs[ra]) /\ DescGranted(descs[rb])
  BY Zenon DEF IInv, WithinGrant
<1>4. PlanGranted(descs[ra], descs[rb], p)
  BY <1>3, PlansGranted, Zenon DEF IInv
<1>5. descs[ra].mount \in Mounts /\ descs[rb].mount \in Mounts /\ ra \in Nat /\ rb \in Nat
  BY <1>3, SMTT(30) DEF DescGranted, DescEntry, IInv, Shape
<1>6. c \in DescCall
  BY <1>2, <1>4, <1>5, SMTT(30) DEF PlanGranted, DescCall
<1>7. HoldsAt(c)
  BY <1>2, <1>4, SMTT(30) DEF PlanGranted, HoldsAt
<1>8. CallGranted(c)
  BY <1>2, <1>4, <1>5, Zenon DEF PlanGranted, CallGranted
<1>9. call[t].op = "none" /\ Held(t) = 0 /\ HeldIn(c) = 0 /\ c.op = "desc"
  BY <1>2, SMTT(30) DEF Begin, Idle, Held, HeldIn
<1>10. open' = open /\ open \in Int
  BY TablesFinite, HeldFinite, SMTT(30) DEF Begin, IInv, Accounted, Shape
<1>11. /\ UNCHANGED <<granted, phase, base, tables, history>> /\ phase = "running"
       /\ call' = [call EXCEPT ![t] = c]
  BY <1>1, <1>2, Zenon DEF Begin
<1>12. c \in Call
  BY <1>6, Zenon DEF Call
<1>13. /\ open' = open - Held(t) + HeldIn(c) /\ HeldIn(c) \in {0, Held(t), Held(t) + 1}
       /\ HeldIn(c) \in 0..2
  BY <1>9, <1>10
<1> QED
  BY <1>7, <1>8, <1>9, <1>11, <1>12, <1>13, OnlyCall, Zenon

LEMMA OpenInt ==
  ASSUME IInv
  PROVE  open \in Int
BY TablesFinite, HeldFinite DEF IInv, Accounted, Shape

LEMMA DoneKeeps ==
  ASSUME IInv, NEW t \in Threads, call[t].op = "desc", Done(t),
         UNCHANGED <<granted, phase, base, tables, history>>
  PROVE  IInv'
<1>1. Idle \in Call /\ Idle.op = "none" /\ HoldsAt(Idle) /\ CallGranted(Idle) /\ HeldIn(Idle) = 0
  BY Zenon DEF Call, Idle, HoldsAt, CallGranted, HeldIn
<1>2. Held(t) = call[t].held /\ Held(t) \in 0..2
  BY CallIs, Zenon DEF IInv, Held
<1>3. call' = [call EXCEPT ![t] = Idle] /\ open' = open - Held(t) + HeldIn(Idle)
  BY <1>1, <1>2, OpenInt DEF Done
<1>4. phase \in {"running", "ending"}
  BY Alive, Zenon
<1>5. HeldIn(Idle) \in {0, Held(t), Held(t) + 1} /\ HeldIn(Idle) \in 0..2
  BY <1>1
<1> QED
  BY <1>1, <1>3, <1>4, <1>5, OnlyCall, Zenon

LEMMA AcquireKeeps ==
  ASSUME IInv, NEW t \in Threads, call[t].op = "desc", NEW where \in {"act", "add"},
         Acquire(t, where), UNCHANGED <<granted, phase, base, tables, history>>,
         where = "act" => call[t].held < call[t].parents,
         where = "add" => call[t].held = 0 /\ call[t].new.table # "none"
  PROVE  IInv'
<1>1. call[t] \in DescCall /\ HoldsAt(call[t]) /\ CallGranted(call[t])
  BY CallIs, Zenon DEF IInv, Holds, WithinGrant
<1>2. PICK c : c = [call[t] EXCEPT !.held = @ + 1, !.at = where]
  BY Zenon
<1>3. call[t].held \in 0..1 /\ call[t].parents \in 0..2
  BY <1>1 DEF DescCall
<1>4. /\ c \in DescCall /\ c.op = "desc" /\ c.held = call[t].held + 1 /\ c.at = where
      /\ c.parents = call[t].parents /\ c.new = call[t].new /\ c.effects = call[t].effects
      /\ c.mounts = call[t].mounts
  <2>1. PICK d \in DescCall : d = call[t]
    BY <1>1, Zenon
  <2>2. c = [d EXCEPT !.held = d.held + 1, !.at = where] /\ d.held + 1 \in 0..2
    BY <1>2, <1>3, <2>1, SMTT(30)
  <2> QED
    BY <2>1, <2>2, Zenon DEF DescCall
<1>5. HoldsAt(c)
  BY <1>1, <1>3, <1>4, SMTT(30) DEF HoldsAt
<1>6. CallGranted(c)
  BY <1>1, <1>4, Zenon DEF CallGranted
<1>7. Held(t) = call[t].held /\ HeldIn(c) = Held(t) + 1
  BY <1>4, Zenon DEF Held, HeldIn
<1>8. call' = [call EXCEPT ![t] = c]
  BY <1>2, Zenon DEF Acquire, IInv, Shape
<1>9. open' = open - Held(t) + HeldIn(c)
  BY <1>3, <1>7, OpenInt DEF Acquire
<1>10. phase \in {"running", "ending"} /\ c \in Call /\ HeldIn(c) \in 0..2
  BY <1>3, <1>4, <1>7, Alive, SMTT(30) DEF Call
<1> QED
  BY <1>4, <1>5, <1>6, <1>7, <1>8, <1>9, <1>10, OnlyCall, Zenon

LEMMA OpenParentKeeps ==
  ASSUME IInv, NEW t \in Threads, OpenParent(t)
  PROVE  IInv'
<1>1. CASE Acquire(t, "act")
  BY <1>1, AcquireKeeps, Zenon DEF OpenParent
<1>2. CASE Done(t)
  BY <1>2, DoneKeeps, Zenon DEF OpenParent
<1> QED
  BY <1>1, <1>2, Zenon DEF OpenParent

LEMMA ActKeeps ==
  ASSUME IInv, NEW t \in Threads, Act(t)
  PROVE  IInv'
<1>1. CASE Done(t)
  BY <1>1, DoneKeeps, Zenon DEF Act
<1>2. CASE call[t].new.table # "none" /\ Acquire(t, "add")
  <2>1. call[t].op = "desc" /\ call[t].held = call[t].parents
    BY Zenon DEF Act
  <2>2. call[t].held = 0
    BY <1>2, <2>1, Zenon DEF IInv, Holds, HoldsAt
  <2> QED
    BY <1>2, <2>1, <2>2, AcquireKeeps, Zenon DEF Act
<1> QED
  BY <1>1, <1>2, Zenon DEF Act

-----------------------------------------------------------------------------
(* Steps that put an entry into a table *)

LEMMA WithIs ==
  ASSUME NEW f, NEW r, NEW v
  PROVE  /\ DOMAIN With(f, r, v) = DOMAIN f \cup {r} /\ With(f, r, v)[r] = v
         /\ \A x \in DOMAIN f : x # r => With(f, r, v)[x] = f[x]
BY Zenon DEF With

LEMMA WithoutIs ==
  ASSUME NEW f, NEW r
  PROVE  /\ DOMAIN Without(f, r) = DOMAIN f \ {r}
         /\ \A x \in DOMAIN f \ {r} : Without(f, r)[x] = f[x]
BY Zenon DEF Without

\* A thread goes from one call to another.
LEMMA CallGoes ==
  ASSUME IInv, NEW t \in Threads, NEW c \in Call, call' = [call EXCEPT ![t] = c],
         granted' = granted, HoldsAt(c), CallGranted(c),
         phase' = phase, phase \in {"running", "ending"}
  PROVE  /\ call'[t] = c /\ call' \in [Threads -> Call] /\ Holds' /\ Quiet'
         /\ \A u \in Threads : u # t => call'[u] = call[u] /\ Held(u)' = Held(u)
         /\ Held(t)' = HeldIn(c)
         /\ \A u \in Threads : CallGranted(call[u])'
<1>1. /\ call'[t] = c /\ call' \in [Threads -> Call] /\ Held(t)' = HeldIn(c)
      /\ \A u \in Threads : u # t => call'[u] = call[u] /\ Held(u)' = Held(u)
  BY CallChanges, Zenon DEF IInv
<1>2. Holds'
  BY HoldsKept, Zenon DEF IInv
<1>3. Quiet'
  BY Zenon DEF Quiet
<1>4. \A u \in Threads : CallGranted(call'[u])
  BY <1>1, Zenon DEF IInv, WithinGrant
<1>5. \A u \in Threads : CallGranted(call[u])'
  BY <1>4, Zenon DEF CallGranted, NewGranted, DescGranted, StreamGranted
<1> QED
  BY <1>1, <1>2, <1>3, <1>5, Zenon

LEMMA IdleCall ==
  /\ Idle \in Call /\ Idle.op = "none" /\ HoldsAt(Idle) /\ CallGranted(Idle) /\ HeldIn(Idle) = 0
BY Zenon DEF Call, Idle, HoldsAt, CallGranted, HeldIn

\* A new rep is not in use.
LEMMA NewDesc ==
  ASSUME Shape, NEW e, descs' = With(descs, nextDesc, e), nextDesc' = nextDesc + 1
  PROVE  /\ DOMAIN descs' = DOMAIN descs \cup {nextDesc} /\ nextDesc \notin DOMAIN descs
         /\ descs'[nextDesc] = e /\ \A r \in DOMAIN descs : descs'[r] = descs[r]
         /\ DOMAIN descs' \subseteq 1..(nextDesc' - 1)
         /\ Cardinality(DOMAIN descs') = Cardinality(DOMAIN descs) + 1
<1>1. nextDesc \notin DOMAIN descs /\ nextDesc \in Nat \ {0}
  BY SMTT(30) DEF Shape
<1>2. DOMAIN descs' = DOMAIN descs \cup {nextDesc}
  BY WithIs, Zenon
<1>3. Cardinality(DOMAIN descs') = Cardinality(DOMAIN descs) + 1
  BY <1>1, <1>2, TablesFinite, FS_AddElement, Zenon
<1>4. descs'[nextDesc] = e /\ \A r \in DOMAIN descs : descs'[r] = descs[r]
  BY <1>1, Zenon DEF With
<1>5. DOMAIN descs' \subseteq 1..(nextDesc' - 1)
  BY <1>1, <1>2 DEF Shape
<1> QED
  BY <1>1, <1>2, <1>3, <1>4, <1>5, Zenon

LEMMA NewStream ==
  ASSUME Shape, NEW e, streams' = With(streams, nextStream, e), nextStream' = nextStream + 1
  PROVE  /\ DOMAIN streams' = DOMAIN streams \cup {nextStream} /\ nextStream \notin DOMAIN streams
         /\ streams'[nextStream] = e /\ \A r \in DOMAIN streams : streams'[r] = streams[r]
         /\ DOMAIN streams' \subseteq 1..(nextStream' - 1)
         /\ Cardinality(DOMAIN streams') = Cardinality(DOMAIN streams) + 1
<1>1. nextStream \notin DOMAIN streams /\ nextStream \in Nat \ {0}
  BY SMTT(30) DEF Shape
<1>2. DOMAIN streams' = DOMAIN streams \cup {nextStream}
  BY WithIs, Zenon
<1>3. Cardinality(DOMAIN streams') = Cardinality(DOMAIN streams) + 1
  BY <1>1, <1>2, TablesFinite, FS_AddElement, Zenon
<1>4. streams'[nextStream] = e /\ \A r \in DOMAIN streams : streams'[r] = streams[r]
  BY <1>1, SMTT(30) DEF With
<1>5. DOMAIN streams' \subseteq 1..(nextStream' - 1)
  BY <1>1, <1>2 DEF Shape
<1> QED
  BY <1>1, <1>2, <1>3, <1>4, <1>5

LEMMA AddInsertDescKeeps ==
  ASSUME IInv, NEW t \in Threads, Add(t), Insert(call[t].new),
         call' = [call EXCEPT ![t] = Idle], open' = open, call[t].new.table = "descs"
  PROVE  IInv'
<1>1. /\ call[t].op = "desc" /\ call[t].at = "add" /\ call[t] \in DescCall
      /\ HoldsAt(call[t]) /\ CallGranted(call[t])
  BY CallIs, Zenon DEF Add, IInv, Holds, WithinGrant
<1>2. PICK e : e = call[t].new.entry
  BY Zenon
<1>3. /\ Cardinality(DOMAIN descs) < MaxDescriptors /\ descs' = With(descs, nextDesc, e)
      /\ nextDesc' = nextDesc + 1 /\ handed' = handed \cup {nextDesc}
      /\ UNCHANGED <<streams, nextStream, outputs, dirs, stdStreams>>
      /\ UNCHANGED <<granted, phase, base, adapters>>
  BY <1>2, Zenon DEF Insert, Add
<1>4. DescGranted(e)
  BY <1>1, <1>2, Zenon DEF CallGranted, NewGranted
<1>5. Held(t) = 1
  BY <1>1, Zenon DEF HoldsAt, Held
<1>6. phase \in {"running", "ending"}
  BY <1>1, Alive, Zenon
<1>7. /\ call'[t] = Idle /\ call' \in [Threads -> Call] /\ Holds' /\ Quiet'
      /\ \A u \in Threads : u # t => call'[u] = call[u] /\ Held(u)' = Held(u)
      /\ Held(t)' = 0 /\ \A u \in Threads : CallGranted(call[u])'
  BY <1>3, <1>6, IdleCall, CallGoes, Zenon
<1>8. /\ DOMAIN descs' = DOMAIN descs \cup {nextDesc} /\ nextDesc \notin DOMAIN descs
      /\ descs'[nextDesc] = e /\ \A r \in DOMAIN descs : descs'[r] = descs[r]
      /\ DOMAIN descs' \subseteq 1..(nextDesc' - 1)
      /\ Cardinality(DOMAIN descs') = Cardinality(DOMAIN descs) + 1
  BY <1>3, NewDesc, Zenon DEF IInv
<1>9. Shape'
  BY <1>3, <1>7, <1>8, SMTT(30) DEF IInv, Shape
<1>10. WithinGrant'
  BY <1>3, <1>4, <1>7, <1>8, ZenonT(30) DEF IInv, WithinGrant, DescGranted, StreamGranted
<1>11. DescsOwned'
  <2>1. ~Gets(t) /\ ~Gets(t)' /\ handed \subseteq DOMAIN descs
    BY <1>1, <1>7, IdleCall, Zenon DEF IInv, DescsOwned, Gets
  <2>2. Share(t) = handed /\ Share(t)' = handed'
    BY <2>1, Zenon DEF Share
  <2>3. DOMAIN descs' \ handed' = DOMAIN descs \ handed /\ handed' \subseteq DOMAIN descs'
    BY <1>3, <1>8, <2>1, Zenon
  <2> QED
    BY <1>7, <2>1, <2>2, <2>3, OwnersChange, Zenon
<1>12. AdaptersCached'
  BY <1>1, <1>3, <1>7, IdleCall, ZenonT(30) DEF IInv, AdaptersCached
<1>13. QuotasHold' /\ Accounted'
  <2>1. Cardinality(HeldFiles') = Cardinality(HeldFiles) - 1
    BY <1>5, <1>7, HeldReleased, SMTT(30)
  <2>2. /\ Cardinality(DOMAIN descs) < MaxDescriptors
        /\ Cardinality(DOMAIN descs') = Cardinality(DOMAIN descs) + 1
        /\ streams' = streams /\ dirs' = dirs /\ stdStreams' = stdStreams /\ base' = base
    BY <1>3, <1>8, Zenon
  <2> QED
    BY <2>1, <2>2, Counts, SMTT(30) DEF QuotasHold, Accounted
<1> QED
  BY <1>7, <1>9, <1>10, <1>11, <1>12, <1>13, Zenon DEF IInv

LEMMA AddInsertDirKeeps ==
  ASSUME IInv, NEW t \in Threads, Add(t), Insert(call[t].new),
         call' = [call EXCEPT ![t] = Idle], open' = open, call[t].new.table = "dirs"
  PROVE  IInv'
<1>1. /\ call[t].op = "desc" /\ call[t].at = "add" /\ HoldsAt(call[t])
  BY Zenon DEF Add, IInv, Holds
<1>2. /\ dirs < MaxDirectoryStreams /\ dirs' = dirs + 1
      /\ UNCHANGED <<descs, streams, nextDesc, nextStream, outputs, stdStreams, handed>>
      /\ UNCHANGED <<granted, phase, base, adapters>>
  BY Zenon DEF Insert, Add
<1>3. Held(t) = 1
  BY <1>1, Zenon DEF HoldsAt, Held
<1>4. phase \in {"running", "ending"}
  BY <1>1, Alive, Zenon
<1>5. /\ call'[t] = Idle /\ call' \in [Threads -> Call] /\ Holds' /\ Quiet'
      /\ \A u \in Threads : u # t => call'[u] = call[u] /\ Held(u)' = Held(u)
      /\ Held(t)' = 0 /\ \A u \in Threads : CallGranted(call[u])'
  BY <1>2, <1>4, IdleCall, CallGoes, ZenonT(30)
<1>6. Shape'
  BY <1>2, <1>5, SMTT(30) DEF IInv, Shape
<1>7. WithinGrant'
  BY <1>2, <1>5, Zenon DEF IInv, WithinGrant, DescGranted, StreamGranted
<1>8. DescsOwned'
  BY <1>1, <1>2, <1>5, IdleCall, OwnersKept, Zenon DEF Gets
<1>9. AdaptersCached'
  BY <1>1, <1>2, <1>5, IdleCall, ZenonT(30) DEF IInv, AdaptersCached
<1>10. QuotasHold' /\ Accounted'
  <2>1. Cardinality(HeldFiles') = Cardinality(HeldFiles) - 1
    BY <1>3, <1>5, HeldReleased, SMTT(30)
  <2>2. /\ dirs < MaxDirectoryStreams /\ dirs' = dirs + 1
        /\ descs' = descs /\ streams' = streams /\ stdStreams' = stdStreams /\ base' = base
    BY <1>2, Zenon
  <2> QED
    BY <2>1, <2>2, Counts, SMTT(30) DEF QuotasHold, Accounted
<1> QED
  BY <1>5, <1>6, <1>7, <1>8, <1>9, <1>10, Zenon DEF IInv

\* A call on a descriptor that ends leaves the adapters alone.
LEMMA AdaptersStay ==
  ASSUME AdaptersCached, NEW t \in Threads, call[t].op # "dropStream", call'[t].op # "writer",
         \A u \in Threads : u # t => call'[u] = call[u],
         UNCHANGED <<adapters, outputs>>, DOMAIN streams \subseteq DOMAIN streams'
  PROVE  AdaptersCached'
<1>1. \A p \in adapters' : p[1] \in DOMAIN outputs' /\ p = <<p[1], outputs'[p[1]]>>
  BY Zenon DEF AdaptersCached
<1>2. ASSUME NEW u \in Threads, call'[u].op = "writer"
      PROVE  call'[u].borrows \subseteq DOMAIN streams'
  <2>1. call'[u] = call[u]
    BY <1>2, Zenon
  <2>2. call[u].borrows \subseteq DOMAIN streams
    BY <1>2, <2>1, Zenon DEF AdaptersCached
  <2> QED
    BY <2>1, <2>2, Zenon
<1>3. ASSUME NEW r \in DOMAIN outputs'
      PROVE  r \in DOMAIN streams' \/ \E u \in Threads : call'[u].op = "dropStream" /\ call'[u].rep = r
  <2>1. r \in DOMAIN streams \/ \E u \in Threads : call[u].op = "dropStream" /\ call[u].rep = r
    BY Zenon DEF AdaptersCached
  <2> QED
    BY <2>1, Zenon
<1> QED
  BY <1>1, <1>2, <1>3, Zenon DEF AdaptersCached

LEMMA AddInsertStreamKeeps ==
  ASSUME IInv, NEW t \in Threads, Add(t), Insert(call[t].new),
         call' = [call EXCEPT ![t] = Idle], open' = open, call[t].new.table = "streams"
  PROVE  IInv'
<1>1. /\ call[t].op = "desc" /\ call[t].at = "add" /\ call[t] \in DescCall
      /\ HoldsAt(call[t]) /\ CallGranted(call[t])
  BY CallIs, Zenon DEF Add, IInv, Holds, WithinGrant
<1>2. PICK e : e = call[t].new.entry
  BY Zenon
<1>3. /\ ~StreamsFull /\ streams' = With(streams, nextStream, e) /\ nextStream' = nextStream + 1
      /\ UNCHANGED <<descs, nextDesc, outputs, dirs, stdStreams, handed>>
      /\ UNCHANGED <<granted, phase, base, adapters>>
  BY <1>2, Zenon DEF Insert, Add
<1>4. StreamGranted(e)
  BY <1>1, <1>2, Zenon DEF CallGranted, NewGranted
<1>5. Held(t) = 1
  BY <1>1, Zenon DEF HoldsAt, Held
<1>6. phase \in {"running", "ending"}
  BY <1>1, Alive, Zenon
<1>7. /\ call'[t] = Idle /\ call' \in [Threads -> Call] /\ Holds' /\ Quiet'
      /\ \A u \in Threads : u # t => call'[u] = call[u] /\ Held(u)' = Held(u)
      /\ Held(t)' = 0 /\ \A u \in Threads : CallGranted(call[u])'
  BY <1>3, <1>6, IdleCall, CallGoes, Zenon
<1>8. /\ DOMAIN streams' = DOMAIN streams \cup {nextStream} /\ nextStream \notin DOMAIN streams
      /\ streams'[nextStream] = e /\ \A r \in DOMAIN streams : streams'[r] = streams[r]
      /\ DOMAIN streams' \subseteq 1..(nextStream' - 1)
      /\ Cardinality(DOMAIN streams') = Cardinality(DOMAIN streams) + 1
  BY <1>3, NewStream, Zenon DEF IInv
<1>9. Shape'
  BY <1>3, <1>7, <1>8, SMTT(30) DEF IInv, Shape
<1>10. WithinGrant'
  <2>1. \A r \in DOMAIN streams' : StreamGranted(streams'[r])
    BY <1>4, <1>8, Zenon DEF IInv, WithinGrant
  <2>2. \A r \in DOMAIN descs' : DescGranted(descs'[r])
    BY <1>3, Zenon DEF IInv, WithinGrant
  <2> QED
    BY <1>3, <1>7, <2>1, <2>2, Zenon DEF WithinGrant, DescGranted, StreamGranted
<1>11. DescsOwned'
  BY <1>1, <1>3, <1>7, IdleCall, OwnersKept, Zenon DEF Gets
<1>12. AdaptersCached'
  <2>1. call[t].op # "dropStream" /\ call'[t].op # "writer"
    BY <1>1, <1>7, IdleCall, Zenon
  <2>2. DOMAIN streams \subseteq DOMAIN streams' /\ UNCHANGED <<adapters, outputs>>
    BY <1>3, <1>8, Zenon
  <2> QED
    BY <1>7, <2>1, <2>2, AdaptersStay, Zenon DEF IInv
<1>13. QuotasHold' /\ Accounted'
  <2>1. Cardinality(HeldFiles') = Cardinality(HeldFiles) - 1
    BY <1>5, <1>7, HeldReleased, SMTT(30)
  <2>2. /\ ~(Cardinality(DOMAIN streams) + stdStreams >= MaxStreams)
        /\ Cardinality(DOMAIN streams') = Cardinality(DOMAIN streams) + 1
        /\ descs' = descs /\ dirs' = dirs /\ stdStreams' = stdStreams /\ base' = base
    BY <1>3, <1>8, Zenon DEF StreamsFull
  <2> QED
    BY <2>1, <2>2, Counts, SMTT(30) DEF QuotasHold, Accounted
<1> QED
  BY <1>7, <1>9, <1>10, <1>11, <1>12, <1>13, Zenon DEF IInv

LEMMA AddKeeps ==
  ASSUME IInv, NEW t \in Threads, Add(t)
  PROVE  IInv'
<1>1. CASE Done(t) /\ UNCHANGED <<tables, handed>>
  BY <1>1, DoneKeeps, Zenon DEF Add, history
<1>2. CASE Insert(call[t].new) /\ call' = [call EXCEPT ![t] = Idle] /\ UNCHANGED open
  <2>1. call[t].op = "desc" /\ call[t].at = "add"
    BY Zenon DEF Add
  <2>2. call[t].new \in New /\ call[t].new.table # "none"
    BY <2>1, CallIs, Zenon DEF IInv, DescCall, Holds, HoldsAt
  <2>3. call[t].new.table \in {"descs", "dirs", "streams"}
    BY <2>2, SMTT(30) DEF New, Nothing
  <2> QED
    BY <1>2, <2>3, AddInsertDescKeeps, AddInsertDirKeeps, AddInsertStreamKeeps, Zenon
<1> QED
  BY <1>1, <1>2, Zenon DEF Add

-----------------------------------------------------------------------------
(* get-directories *)

LEMMA GetCallIs ==
  ASSUME IInv, NEW t \in Threads, call[t].op = "getDirectories"
  PROVE  /\ call[t] \in GetCall /\ call[t].i \in Nat \ {0} /\ call[t].out \subseteq DOMAIN descs
         /\ call[t].out \in SUBSET Nat
         /\ Held(t) = (IF call[t].at = "add" THEN 1 ELSE 0)
         /\ call[t].at = "add" => call[t].i \in Mounts
         /\ phase \in {"running", "ending"}
<1>1. call[t] \in GetCall /\ phase \in {"running", "ending"}
  BY CallIs, Alive, Zenon DEF IInv
<1>2. call[t].i \in Nat /\ call[t].out \in SUBSET Nat
  BY <1>1, Zenon DEF GetCall
<1>3. /\ call[t].i >= 1 /\ call[t].out \subseteq DOMAIN descs
      /\ call[t].at = "add" => call[t].i <= NMounts
  BY Zenon DEF IInv, DescsOwned, Gets
<1>4. Held(t) = (IF call[t].at = "add" THEN 1 ELSE 0)
  BY Zenon DEF IInv, Holds, HoldsAt, Held
<1> QED
  BY <1>1, <1>2, <1>3, <1>4, DescriptorAssumption DEF Mounts

\* The call of a get-directories after a step.
GetAt(i, where, held, out) ==
  [op |-> "getDirectories", at |-> where, i |-> i, held |-> held, out |-> out, borrows |-> {}]

LEMMA GetAtCall ==
  ASSUME NEW i \in Nat, NEW where \in {"dup", "add", "rollback"},
         NEW held, held = (IF where = "add" THEN 1 ELSE 0), NEW out \in SUBSET Nat
  PROVE  /\ GetAt(i, where, held, out) \in Call /\ HoldsAt(GetAt(i, where, held, out))
         /\ CallGranted(GetAt(i, where, held, out)) /\ HeldIn(GetAt(i, where, held, out)) = held
BY SMTT(30) DEF GetAt, Call, GetCall, HoldsAt, CallGranted, HeldIn

LEMMA GetDirectoriesKeeps ==
  ASSUME IInv, NEW t \in Threads, GetDirectories(t)
  PROVE  IInv'
<1>1. PICK c : c = GetAt(1, "dup", 0, {})
  BY Zenon
<1>2. c \in Call /\ HoldsAt(c) /\ CallGranted(c) /\ HeldIn(c) = 0
  BY <1>1, GetAtCall
<1>3. c.op = "getDirectories" /\ c.i = 1 /\ c.out = {} /\ c.at = "dup"
  BY <1>1, Zenon DEF GetAt
<1>4. /\ call' = [call EXCEPT ![t] = c] /\ phase = "running" /\ call[t] = Idle
      /\ UNCHANGED <<granted, phase, base, open, descs, streams, nextDesc, nextStream, outputs, dirs,
                     stdStreams, handed, adapters>>
  BY <1>1, Zenon DEF GetDirectories, Step, GetAt, tables, history
<1>5. /\ call'[t] = c /\ call' \in [Threads -> Call] /\ Holds' /\ Quiet'
      /\ \A u \in Threads : u # t => call'[u] = call[u] /\ Held(u)' = Held(u)
      /\ Held(t)' = 0 /\ \A u \in Threads : CallGranted(call[u])'
  BY <1>2, <1>4, CallGoes, Zenon
<1>6. Shape'
  BY <1>4, <1>5, Zenon DEF IInv, Shape
<1>7. WithinGrant'
  BY <1>4, <1>5, Zenon DEF IInv, WithinGrant, DescGranted, StreamGranted
<1>8. DescsOwned'
  <2>1. ~Gets(t) /\ call'[t].out = {} /\ call'[t].i = 1 /\ call'[t].at = "dup"
    BY <1>3, <1>4, <1>5, IdleCall, Zenon DEF Gets
  <2>2. Share(t) = handed /\ Share(t)' = handed'
    BY <2>1, Zenon DEF Share
  <2>3. handed' = handed /\ descs' = descs /\ handed \subseteq DOMAIN descs
    BY <1>4, Zenon DEF IInv, DescsOwned
  <2>4. call'[t].i >= 1
    BY <2>1
  <2>5. DOMAIN descs' \ Share(t)' = DOMAIN descs \ Share(t) /\ handed' \subseteq DOMAIN descs'
    BY <2>2, <2>3, Zenon
  <2>6. call'[t].out \subseteq DOMAIN descs' /\ call'[t].out \cap handed' = {}
    BY <2>1, Zenon
  <2> QED
    BY <1>5, <2>1, <2>4, <2>5, <2>6, OwnersChange, Zenon
<1>9. AdaptersCached'
  BY <1>3, <1>4, <1>5, IdleCall, ZenonT(30) DEF IInv, AdaptersCached
<1>10. QuotasHold'
  BY <1>4, Zenon DEF IInv, QuotasHold
<1>11. Accounted'
  <2>1. Held(t) = 0
    BY <1>4, IdleCall, Zenon DEF Held
  <2>2. HeldFiles' = HeldFiles
    BY <2>1, <1>5, HeldKept, Zenon
  <2> QED
    BY <2>2, <1>4, Zenon DEF IInv, Accounted
<1> QED
  BY <1>5, <1>6, <1>7, <1>8, <1>9, <1>10, <1>11, Zenon DEF IInv

LEMMA GetDupKeeps ==
  ASSUME IInv, NEW t \in Threads, GetDup(t)
  PROVE  IInv'
<1>1. /\ call[t].op = "getDirectories" /\ call[t].at = "dup"
      /\ UNCHANGED <<granted, phase, base, descs, streams, nextDesc, nextStream, outputs, dirs,
                     stdStreams, adapters>>
  BY Zenon DEF GetDup, tables
<1>2. /\ call[t].i \in Nat \ {0} /\ call[t].out \subseteq DOMAIN descs /\ call[t].out \in SUBSET Nat
      /\ Held(t) = 0 /\ phase \in {"running", "ending"}
  BY <1>1, GetCallIs, Zenon
<1>3. QuotasHold'
  BY <1>1, Zenon DEF IInv, QuotasHold
<1>4. CASE /\ handed' = handed \cup call[t].out /\ call' = [call EXCEPT ![t] = Idle] /\ open' = open
  <2>1. /\ call'[t] = Idle /\ call' \in [Threads -> Call] /\ Holds' /\ Quiet'
        /\ \A u \in Threads : u # t => call'[u] = call[u] /\ Held(u)' = Held(u)
        /\ Held(t)' = 0 /\ \A u \in Threads : CallGranted(call[u])'
    BY <1>1, <1>2, <1>4, IdleCall, CallGoes, Zenon
  <2>2. Shape'
    BY <1>1, <2>1, Zenon DEF IInv, Shape
  <2>3. WithinGrant'
    BY <1>1, <2>1, Zenon DEF IInv, WithinGrant, DescGranted, StreamGranted
  <2>4. DescsOwned'
    <3>1. Gets(t) /\ ~Gets(t)' /\ handed \subseteq DOMAIN descs
      BY <1>1, <2>1, IdleCall, Zenon DEF Gets, IInv, DescsOwned
    <3>2. Share(t) = handed \cup call[t].out /\ Share(t)' = handed'
      BY <1>2, <3>1, Zenon DEF Share
    <3>3. handed' \subseteq DOMAIN descs' /\ descs' = descs
      BY <1>1, <1>2, <1>4, <3>1, Zenon
    <3> QED
      BY <1>4, <2>1, <3>1, <3>2, <3>3, OwnersChange, ZenonT(30)
  <2>5. AdaptersCached'
    BY <1>1, <2>1, IdleCall, SMTT(30) DEF IInv, AdaptersCached
  <2>6. HeldFiles' = HeldFiles
    BY <1>2, <2>1, HeldKept, Zenon
  <2>7. Accounted'
    BY <1>1, <1>4, <2>6, Zenon DEF IInv, Accounted
  <2> QED
    BY <1>3, <2>1, <2>2, <2>3, <2>4, <2>5, <2>7, ZenonT(30) DEF IInv
<1>5. ASSUME NEW where \in {"add", "rollback"}, NEW c,
             c = GetAt(call[t].i, where, IF where = "add" THEN 1 ELSE 0, call[t].out),
             call' = [call EXCEPT ![t] = c], call[t].i <= NMounts, handed' = handed,
             open' = open + (IF where = "add" THEN 1 ELSE 0)
      PROVE  IInv'
  <2>1. c \in Call /\ HoldsAt(c) /\ CallGranted(c) /\ HeldIn(c) = (IF where = "add" THEN 1 ELSE 0)
    BY <1>2, <1>5, GetAtCall, SMTT(30)
  <2>2. c.op = "getDirectories" /\ c.i = call[t].i /\ c.out = call[t].out /\ c.at = where
    BY <1>5, Zenon DEF GetAt
  <2>3. /\ call'[t] = c /\ call' \in [Threads -> Call] /\ Holds' /\ Quiet'
        /\ \A u \in Threads : u # t => call'[u] = call[u] /\ Held(u)' = Held(u)
        /\ Held(t)' = HeldIn(c) /\ \A u \in Threads : CallGranted(call[u])'
    BY <1>1, <1>2, <1>5, <2>1, CallGoes, Zenon
  <2>4. Shape'
    BY <1>1, <2>3, Zenon DEF IInv, Shape
  <2>5. WithinGrant'
    BY <1>1, <2>3, Zenon DEF IInv, WithinGrant, DescGranted, StreamGranted
  <2>6. DescsOwned'
    <3>1. Gets(t) /\ Gets(t)' /\ call'[t].out = call[t].out /\ call'[t].i = call[t].i
      BY <1>1, <2>2, <2>3, Zenon DEF Gets
    <3>2. handed' = handed /\ descs' = descs
      BY <1>1, <1>5, Zenon
    <3>3. Share(t)' = Share(t)
      BY <3>1, <3>2, Zenon DEF Share
    <3>4. call[t].i >= 1 /\ call[t].out \cap handed = {} /\ handed \subseteq DOMAIN descs
      BY <3>1, Zenon DEF IInv, DescsOwned
    <3> QED
      BY <1>2, <1>5, <2>3, <3>1, <3>2, <3>3, <3>4, OwnersChange, ZenonT(30)
  <2>7. AdaptersCached'
    BY <1>1, <2>2, <2>3, SMTT(30) DEF IInv, AdaptersCached
  <2>8. Accounted'
    <3>1. CASE where = "add"
      <4>1. Cardinality(HeldFiles') = Cardinality(HeldFiles) + 1
        <5>1. Held(t) \in 0..1 /\ Held(t)' = Held(t) + 1
          BY <1>2, <2>1, <2>3, <3>1, SMTT(30)
        <5> QED
          BY <2>3, <5>1, HeldMore, Zenon
      <4>2. open' = open + 1 /\ base' = base /\ descs' = descs /\ streams' = streams /\ dirs' = dirs
        BY <1>1, <1>5, <3>1, Zenon
      <4> QED
        BY <4>1, <4>2, Counts, SMTT(30) DEF Accounted
    <3>2. CASE where = "rollback"
      <4>1. HeldFiles' = HeldFiles
        BY <1>2, <2>1, <2>3, <3>2, HeldKept, Zenon
      <4>2. open' = open + 0 /\ base' = base /\ descs' = descs /\ streams' = streams /\ dirs' = dirs
        BY <1>1, <1>5, <3>2, Zenon
      <4> QED
        BY <4>1, <4>2, Counts, SMTT(30) DEF Accounted
    <3> QED
      BY <3>1, <3>2, Zenon
  <2> QED
    BY <1>3, <2>3, <2>4, <2>5, <2>6, <2>7, <2>8, ZenonT(30) DEF IInv
<1>6. CASE call[t].i <= NMounts /\ Step(t, call[t].i, "add", 1, call[t].out) /\ open' = open + 1 /\ handed' = handed
  BY <1>5, <1>6, Zenon DEF Step, GetAt
<1>7. CASE call[t].i <= NMounts /\ Step(t, call[t].i, "rollback", 0, call[t].out) /\ open' = open /\ handed' = handed
  <2>1. open' = open + (IF "rollback" = "add" THEN 1 ELSE 0)
    BY <1>7, OpenInt, SMTT(30)
  <2>2. call' = [call EXCEPT ![t] = GetAt(call[t].i, "rollback", IF "rollback" = "add" THEN 1 ELSE 0,
                                          call[t].out)]
    BY <1>7, Zenon DEF Step, GetAt
  <2> QED
    BY <1>5, <1>7, <2>1, <2>2, Zenon
<1> QED
  BY <1>4, <1>6, <1>7, Zenon DEF GetDup

LEMMA GetAddKeeps ==
  ASSUME IInv, NEW t \in Threads, GetAdd(t)
  PROVE  IInv'
<1>1. /\ call[t].op = "getDirectories" /\ call[t].at = "add"
      /\ UNCHANGED <<granted, phase, base, streams, nextStream, outputs, dirs, stdStreams,
                     handed, adapters>>
  BY Zenon DEF GetAdd, history
<1>2. /\ call[t].i \in Nat \ {0} /\ call[t].out \subseteq DOMAIN descs /\ call[t].out \in SUBSET Nat
      /\ Held(t) = 1 /\ phase \in {"running", "ending"} /\ call[t].i \in Mounts
  BY <1>1, GetCallIs, Zenon
<1>3. CASE /\ Cardinality(DOMAIN descs) < MaxDescriptors
           /\ descs' = With(descs, nextDesc, [mount |-> call[t].i, flags |-> granted[call[t].i], dir |-> TRUE])
           /\ nextDesc' = nextDesc + 1
           /\ Step(t, call[t].i + 1, "dup", 0, call[t].out \cup {nextDesc}) /\ open' = open
  <2>1. PICK e : e = [mount |-> call[t].i, flags |-> granted[call[t].i], dir |-> TRUE]
    BY Zenon
  <2>2. DescGranted(e)
    BY <1>2, <2>1, Zenon DEF DescGranted, DescEntry, IInv, Shape
  <2>3. PICK c : c = GetAt(call[t].i + 1, "dup", 0, call[t].out \cup {nextDesc})
    BY Zenon
  <2>4. nextDesc \in Nat \ {0} /\ call[t].out \cup {nextDesc} \in SUBSET Nat /\ call[t].i + 1 \in Nat
    BY <1>2 DEF IInv, Shape
  <2>5. c \in Call /\ HoldsAt(c) /\ CallGranted(c) /\ HeldIn(c) = 0
    BY <2>3, <2>4, GetAtCall, SMTT(30)
  <2>6. /\ c.op = "getDirectories" /\ c.i = call[t].i + 1 /\ c.out = call[t].out \cup {nextDesc}
        /\ c.at = "dup"
    BY <2>3, Zenon DEF GetAt
  <2>7. call' = [call EXCEPT ![t] = c]
    BY <1>3, <2>3, Zenon DEF Step, GetAt
  <2>8. /\ call'[t] = c /\ call' \in [Threads -> Call] /\ Holds' /\ Quiet'
        /\ \A u \in Threads : u # t => call'[u] = call[u] /\ Held(u)' = Held(u)
        /\ Held(t)' = 0 /\ \A u \in Threads : CallGranted(call[u])'
    BY <1>1, <1>2, <2>5, <2>7, CallGoes, Zenon
  <2>9. /\ DOMAIN descs' = DOMAIN descs \cup {nextDesc} /\ nextDesc \notin DOMAIN descs
        /\ descs'[nextDesc] = e /\ \A r \in DOMAIN descs : descs'[r] = descs[r]
        /\ DOMAIN descs' \subseteq 1..(nextDesc' - 1)
        /\ Cardinality(DOMAIN descs') = Cardinality(DOMAIN descs) + 1
    BY <1>3, <2>1, NewDesc, Zenon DEF IInv
  <2>10. Shape'
    <3>1. nextDesc' \in Nat \ {0}
      BY <1>3, <2>4, SMTT(30)
    <3> QED
      BY <1>1, <2>8, <2>9, <3>1, ZenonT(30) DEF IInv, Shape
  <2>11. WithinGrant'
    BY <1>1, <2>2, <2>8, <2>9, Zenon DEF IInv, WithinGrant, DescGranted, StreamGranted
  <2>12. DescsOwned'
    <3>1. Gets(t) /\ Gets(t)' /\ call'[t].out = call[t].out \cup {nextDesc} /\ call'[t].at = "dup"
      BY <1>1, <2>6, <2>8, Zenon DEF Gets
    <3>2. call'[t].i >= 1
      BY <1>2, <2>6, <2>8, SMTT(30)
    <3>3. call[t].out \cap handed = {} /\ handed \subseteq DOMAIN descs /\ handed' = handed
      BY <1>1, <3>1, Zenon DEF IInv, DescsOwned
    <3>4. DOMAIN descs' = DOMAIN descs \cup {nextDesc} /\ nextDesc \notin DOMAIN descs
      BY <2>9, Zenon
    <3>5. Share(t) = handed \cup call[t].out /\ Share(t)' = handed \cup call[t].out \cup {nextDesc}
      BY <1>2, <3>1, <3>3, <3>4, Zenon DEF Share
    <3>6. /\ DOMAIN descs' \ Share(t)' = DOMAIN descs \ Share(t) /\ handed' \subseteq DOMAIN descs'
          /\ call'[t].out \subseteq DOMAIN descs' /\ call'[t].out \cap handed' = {}
      BY <1>2, <3>1, <3>3, <3>4, <3>5, ZenonT(30)
    <3> QED
      BY <2>8, <3>1, <3>2, <3>6, OwnersChange, Zenon
  <2>13. AdaptersCached'
    BY <1>1, <2>6, <2>8, SMTT(30) DEF IInv, AdaptersCached
  <2>14. QuotasHold' /\ Accounted'
    <3>1. Cardinality(HeldFiles') = Cardinality(HeldFiles) - 1
      BY <1>2, <2>8, HeldReleased, SMTT(30)
    <3>2. /\ Cardinality(DOMAIN descs) < MaxDescriptors
          /\ Cardinality(DOMAIN descs') = Cardinality(DOMAIN descs) + 1 /\ open' = open
          /\ streams' = streams /\ dirs' = dirs /\ stdStreams' = stdStreams /\ base' = base
      BY <1>1, <1>3, <2>9, Zenon
    <3> QED
      BY <3>1, <3>2, Counts, SMTT(30) DEF QuotasHold, Accounted
  <2> QED
    BY <2>8, <2>10, <2>11, <2>12, <2>13, <2>14, Zenon DEF IInv
<1>4. CASE /\ Step(t, call[t].i, "rollback", 0, call[t].out) /\ open' = open - 1
           /\ descs' = descs /\ nextDesc' = nextDesc
  <2>1. PICK c : c = GetAt(call[t].i, "rollback", 0, call[t].out)
    BY Zenon
  <2>2. c \in Call /\ HoldsAt(c) /\ CallGranted(c) /\ HeldIn(c) = 0
    BY <1>2, <2>1, GetAtCall, SMTT(30)
  <2>3. c.op = "getDirectories" /\ c.i = call[t].i /\ c.out = call[t].out /\ c.at = "rollback"
    BY <2>1, Zenon DEF GetAt
  <2>4. call' = [call EXCEPT ![t] = c]
    BY <1>4, <2>1, ZenonT(30) DEF Step, GetAt
  <2>5. /\ call'[t] = c /\ call' \in [Threads -> Call] /\ Holds' /\ Quiet'
        /\ \A u \in Threads : u # t => call'[u] = call[u] /\ Held(u)' = Held(u)
        /\ Held(t)' = 0 /\ \A u \in Threads : CallGranted(call[u])'
    BY <1>1, <1>2, <2>2, <2>4, CallGoes, Zenon
  <2>6. Shape'
    BY <1>1, <1>4, <2>5, Zenon DEF IInv, Shape
  <2>7. WithinGrant'
    BY <1>1, <1>4, <2>5, Zenon DEF IInv, WithinGrant, DescGranted, StreamGranted
  <2>8. DescsOwned'
    <3>1. /\ Gets(t) /\ Gets(t)' /\ call'[t].out = call[t].out /\ call'[t].i = call[t].i
          /\ call'[t].at = "rollback"
      BY <1>1, <2>3, <2>5, Zenon DEF Gets
    <3>2. handed' = handed /\ descs' = descs
      BY <1>1, <1>4, Zenon
    <3>3. Share(t)' = Share(t)
      BY <3>1, <3>2, Zenon DEF Share
    <3>4. call[t].i >= 1 /\ call[t].out \cap handed = {} /\ handed \subseteq DOMAIN descs
      BY <3>1, Zenon DEF IInv, DescsOwned
    <3> QED
      BY <1>2, <2>5, <3>1, <3>2, <3>3, <3>4, OwnersChange, ZenonT(30)
  <2>9. AdaptersCached'
    BY <1>1, <2>3, <2>5, SMTT(30) DEF IInv, AdaptersCached
  <2>10. QuotasHold'
    BY <1>1, <1>4, Zenon DEF IInv, QuotasHold
  <2>11. Accounted'
    <3>1. Cardinality(HeldFiles') = Cardinality(HeldFiles) - 1
      BY <1>2, <2>5, HeldReleased
    <3>2. open' = open - 1 /\ base' = base /\ descs' = descs /\ streams' = streams /\ dirs' = dirs
      BY <1>1, <1>4, Zenon
    <3> QED
      BY <3>1, <3>2, Counts, SMTT(30) DEF Accounted
  <2> QED
    BY <2>5, <2>6, <2>7, <2>8, <2>9, <2>10, <2>11, SMTT(30) DEF IInv
<1> QED
  BY <1>3, <1>4, Zenon DEF GetAdd

\* A descriptor leaves the table.
LEMMA DescGone ==
  ASSUME Shape, NEW r \in DOMAIN descs, descs' = Without(descs, r)
  PROVE  /\ DOMAIN descs' = DOMAIN descs \ {r} /\ \A x \in DOMAIN descs' : descs'[x] = descs[x]
         /\ Cardinality(DOMAIN descs') = Cardinality(DOMAIN descs) - 1
<1>1. DOMAIN descs' = DOMAIN descs \ {r}
  BY WithoutIs, Zenon
<1>2. \A x \in DOMAIN descs' : descs'[x] = descs[x]
  BY Zenon DEF Without
<1>3. Cardinality(DOMAIN descs') = Cardinality(DOMAIN descs) - 1
  BY <1>1, TablesFinite, FS_RemoveElement, Zenon
<1> QED
  BY <1>1, <1>2, <1>3, Zenon

\* Some rep is the smallest: it is one of the set.
LEMMA MinIn ==
  ASSUME NEW S \in SUBSET Nat, S # {}
  PROVE  Min(S) \in S
<1>1. PICK R : R = OpToRel(<, Nat) /\ IsWellFoundedOn(R, Nat)
  BY NatLessThanWellFounded, Zenon
<1>2. \A m, n \in Nat : m < n => <<m, n>> \in R
  BY <1>1, Zenon DEF OpToRel
<1>3. PICK n \in S : \A m \in S : ~(<<m, n>> \in R)
  BY <1>1, WFMin, Zenon
<1>4. \A m \in S : m \in Nat /\ n \in Nat /\ ~(m < n)
  BY <1>2, <1>3, Zenon
<1>5. \A m, k \in Nat : ~(m < k) => k <= m
  BY SMTT(30)
<1>6. \A m \in S : n <= m
  BY <1>4, <1>5, Zenon
<1> QED
  BY <1>6, Zenon DEF Min

LEMMA RollbackKeeps ==
  ASSUME IInv, NEW t \in Threads, Rollback(t)
  PROVE  IInv'
<1>1. /\ call[t].op = "getDirectories" /\ call[t].at = "rollback"
      /\ UNCHANGED <<granted, phase, base, streams, nextDesc, nextStream, outputs, dirs, stdStreams,
                     handed, adapters>>
  BY Zenon DEF Rollback, history
<1>2. /\ call[t].i \in Nat \ {0} /\ call[t].out \subseteq DOMAIN descs /\ call[t].out \in SUBSET Nat
      /\ Held(t) = 0 /\ phase \in {"running", "ending"}
  BY <1>1, GetCallIs, Zenon
<1>3. CASE call[t].out = {} /\ call' = [call EXCEPT ![t] = Idle] /\ descs' = descs /\ open' = open
  <2>1. /\ call'[t] = Idle /\ call' \in [Threads -> Call] /\ Holds' /\ Quiet'
        /\ \A u \in Threads : u # t => call'[u] = call[u] /\ Held(u)' = Held(u)
        /\ Held(t)' = 0 /\ \A u \in Threads : CallGranted(call[u])'
    BY <1>1, <1>2, <1>3, IdleCall, CallGoes, Zenon
  <2>2. Shape'
    BY <1>1, <1>3, <2>1, Zenon DEF IInv, Shape
  <2>3. WithinGrant'
    BY <1>1, <1>3, <2>1, Zenon DEF IInv, WithinGrant, DescGranted, StreamGranted
  <2>4. DescsOwned'
    <3>1. Gets(t) /\ ~Gets(t)' /\ handed \subseteq DOMAIN descs
      BY <1>1, <2>1, IdleCall, Zenon DEF Gets, IInv, DescsOwned
    <3>2. handed' = handed /\ descs' = descs /\ call[t].out = {}
      BY <1>1, <1>3, Zenon
    <3>3. Share(t) = handed /\ Share(t)' = handed
      BY <3>1, <3>2, Zenon DEF Share
    <3> QED
      BY <2>1, <3>1, <3>2, <3>3, OwnersChange, Zenon
  <2>5. AdaptersCached'
    BY <1>1, <2>1, IdleCall, SMTT(30) DEF IInv, AdaptersCached
  <2>6. HeldFiles' = HeldFiles
    BY <1>2, <2>1, HeldKept, Zenon
  <2>7. Accounted'
    BY <1>1, <1>3, <2>6, Zenon DEF IInv, Accounted
  <2>8. QuotasHold'
    BY <1>1, <1>3, Zenon DEF IInv, QuotasHold
  <2> QED
    BY <2>1, <2>2, <2>3, <2>4, <2>5, <2>7, <2>8, ZenonT(30) DEF IInv
<1>4. CASE /\ call[t].out # {} /\ descs' = Without(descs, Min(call[t].out)) /\ open' = open - 1
           /\ Step(t, call[t].i, "rollback", 0, call[t].out \ {Min(call[t].out)})
  <2>1. PICK r \in call[t].out : r = Min(call[t].out)
    BY <1>2, <1>4, MinIn, Zenon
  <2>2. PICK c : c = GetAt(call[t].i, "rollback", 0, call[t].out \ {r})
    BY Zenon
  <2>3. c \in Call /\ HoldsAt(c) /\ CallGranted(c) /\ HeldIn(c) = 0
    BY <1>2, <2>2, GetAtCall, SMTT(30)
  <2>4. c.op = "getDirectories" /\ c.i = call[t].i /\ c.out = call[t].out \ {r} /\ c.at = "rollback"
    BY <2>2, Zenon DEF GetAt
  <2>5. call' = [call EXCEPT ![t] = c]
    BY <1>4, <2>1, <2>2, Zenon DEF Step, GetAt
  <2>6. /\ call'[t] = c /\ call' \in [Threads -> Call] /\ Holds' /\ Quiet'
        /\ \A u \in Threads : u # t => call'[u] = call[u] /\ Held(u)' = Held(u)
        /\ Held(t)' = 0 /\ \A u \in Threads : CallGranted(call[u])'
    BY <1>1, <1>2, <2>3, <2>5, CallGoes, Zenon
  <2>7. /\ r \in DOMAIN descs
        /\ DOMAIN descs' = DOMAIN descs \ {r} /\ \A x \in DOMAIN descs' : descs'[x] = descs[x]
        /\ Cardinality(DOMAIN descs') = Cardinality(DOMAIN descs) - 1
    BY <1>2, <1>4, <2>1, DescGone, Zenon DEF IInv
  <2>8. Shape'
    BY <1>1, <2>6, <2>7, Zenon DEF IInv, Shape
  <2>9. WithinGrant'
    BY <1>1, <2>6, <2>7, Zenon DEF IInv, WithinGrant, DescGranted, StreamGranted
  <2>10. DescsOwned'
    <3>1. /\ Gets(t) /\ Gets(t)' /\ call'[t].out = call[t].out \ {r} /\ call'[t].i = call[t].i
          /\ call'[t].at = "rollback"
      BY <1>1, <2>4, <2>6, Zenon DEF Gets
    <3>2. /\ call[t].i >= 1 /\ call[t].out \cap handed = {} /\ handed \subseteq DOMAIN descs
          /\ handed' = handed
      BY <1>1, <3>1, Zenon DEF IInv, DescsOwned
    <3>3. r \in call[t].out /\ DOMAIN descs' = DOMAIN descs \ {r}
      BY <2>1, <2>7, Zenon
    <3>4. Share(t) = handed \cup call[t].out /\ Share(t)' = handed \cup (call[t].out \ {r})
      BY <1>2, <3>1, <3>2, <3>3, Zenon DEF Share
    <3>5. /\ DOMAIN descs' \ Share(t)' = DOMAIN descs \ Share(t) /\ handed' \subseteq DOMAIN descs'
          /\ call'[t].out \subseteq DOMAIN descs' /\ call'[t].out \cap handed' = {}
      BY <1>2, <3>1, <3>2, <3>3, <3>4, ZenonT(30)
    <3> QED
      BY <2>6, <3>1, <3>2, <3>5, OwnersChange, Zenon
  <2>11. AdaptersCached'
    BY <1>1, <2>4, <2>6, SMTT(30) DEF IInv, AdaptersCached
  <2>12. QuotasHold' /\ Accounted'
    <3>1. HeldFiles' = HeldFiles
      BY <1>2, <2>6, HeldKept, Zenon
    <3>2. /\ Cardinality(DOMAIN descs') = Cardinality(DOMAIN descs) - 1 /\ open' = open - 1
          /\ streams' = streams /\ dirs' = dirs /\ stdStreams' = stdStreams /\ base' = base
      BY <1>1, <1>4, <2>7, Zenon
    <3>3. /\ Cardinality(DOMAIN descs) - 1 <= MaxDescriptors
          /\ open - 1 = Cardinality(base) + (Cardinality(DOMAIN descs) - 1)
                         + Cardinality(DOMAIN streams) + dirs + Cardinality(HeldFiles)
      BY CountsLess, Zenon
    <3>4. QuotasHold'
      BY <3>2, <3>3, Counts, Zenon DEF QuotasHold
    <3>5. Accounted'
      BY <3>1, <3>2, <3>3, Zenon DEF Accounted
    <3> QED
      BY <3>4, <3>5, Zenon
  <2> QED
    BY <2>6, <2>8, <2>9, <2>10, <2>11, <2>12, ZenonT(30) DEF IInv
<1> QED
  BY <1>3, <1>4, Zenon DEF Rollback, RollbackSet

-----------------------------------------------------------------------------
(* Output adapters and drops *)

\* No call changes.
LEMMA CallsKept ==
  ASSUME IInv, call' = call, granted' = granted
  PROVE  /\ Holds' /\ HeldFiles' = HeldFiles /\ \A u \in Threads : CallGranted(call[u])'
         /\ phase' \in {"running", "ending"} => Quiet'
<1>1. Holds'
  BY Zenon DEF IInv, Holds, HoldsAt
<1>2. HeldFiles' = HeldFiles
  BY HeldKept, Zenon DEF Held
<1>3. \A u \in Threads : CallGranted(call[u])
  BY Zenon DEF IInv, WithinGrant
<1>4. \A u \in Threads : CallGranted(call[u])'
  BY <1>3, Zenon DEF CallGranted, NewGranted, DescGranted, StreamGranted
<1>5. phase' \in {"running", "ending"} => Quiet'
  BY Zenon DEF Quiet
<1> QED
  BY <1>1, <1>2, <1>4, <1>5, Zenon

LEMMA WriterBeginKeeps ==
  ASSUME IInv, NEW t \in Threads, NEW r, WriterBegin(t, r), r \in Nat
  PROVE  IInv'
<1>1. /\ phase = "running" /\ call[t] = Idle /\ r \in DOMAIN streams /\ open' = open /\ handed' = handed
      /\ UNCHANGED <<granted, phase, base, descs, streams, nextDesc, nextStream, outputs, dirs, stdStreams>>
  BY Zenon DEF WriterBegin, tables
<1>2. CASE r \in DOMAIN outputs /\ adapters' = adapters \cup {<<r, outputs[r]>>} /\ call' = call
  <2>1. Holds' /\ Quiet' /\ HeldFiles' = HeldFiles /\ \A u \in Threads : CallGranted(call[u])'
    BY <1>1, <1>2, CallsKept, Zenon
  <2>2. Shape'
    BY <1>1, <1>2, Zenon DEF IInv, Shape
  <2>3. WithinGrant'
    BY <1>1, <2>1, Zenon DEF IInv, WithinGrant, DescGranted, StreamGranted
  <2>4. DescsOwned'
    BY <1>1, <1>2, Zenon DEF IInv, DescsOwned, Gets
  <2>5. AdaptersCached'
    BY <1>1, <1>2, SMTT(30) DEF IInv, AdaptersCached
  <2>6. QuotasHold' /\ Accounted'
    BY <1>1, <2>1, Zenon DEF IInv, QuotasHold, Accounted
  <2> QED
    BY <2>1, <2>2, <2>3, <2>4, <2>5, <2>6, Zenon DEF IInv
<1>3. CASE adapters' = adapters /\ call' = [call EXCEPT ![t] = [op |-> "writer", held |-> 0, borrows |-> {r}]]
  <2>1. PICK c : c = [op |-> "writer", held |-> 0, borrows |-> {r}]
    BY Zenon
  <2>2. c \in Call /\ c.op = "writer" /\ c.borrows = {r} /\ HoldsAt(c) /\ CallGranted(c) /\ HeldIn(c) = 0
    BY <2>1, Zenon DEF Call, WriterCall, HoldsAt, CallGranted, HeldIn
  <2>3. call[t].op = "none" /\ Held(t) = 0
    BY <1>1, IdleCall, Zenon DEF Held
  <2>4. open' = open - Held(t) + HeldIn(c) /\ HeldIn(c) \in {0, Held(t), Held(t) + 1} /\ HeldIn(c) \in 0..2
    BY <1>1, <2>2, <2>3, OpenInt, SMTT(30)
  <2>5. UNCHANGED <<granted, phase, base, tables, history>> /\ call' = [call EXCEPT ![t] = c]
    BY <1>1, <1>3, <2>1, Zenon DEF tables, history
  <2>6. c.borrows \subseteq DOMAIN streams
    BY <1>1, <2>2, Zenon
  <2> QED
    BY <1>1, <2>2, <2>3, <2>4, <2>5, <2>6, OnlyCall, Zenon
<1> QED
  BY <1>2, <1>3, Zenon DEF WriterBegin

LEMMA WriterStoreKeeps ==
  ASSUME IInv, NEW t \in Threads, WriterStore(t)
  PROVE  IInv'
<1>1. /\ call[t].op = "writer" /\ call' = [call EXCEPT ![t] = Idle]
      /\ UNCHANGED <<granted, phase, base, open, descs, streams, nextDesc, nextStream, dirs, stdStreams, handed>>
  BY Zenon DEF WriterStore
<1>2. PICK r \in call[t].borrows : outputs' = Cached(t, r) /\ adapters' = adapters \cup {<<r, outputs'[r]>>}
  BY Zenon DEF WriterStore
<1>3. phase \in {"running", "ending"} /\ Held(t) = 0
  BY <1>1, Alive, CallIs, Zenon DEF IInv, WriterCall, Held
<1>4. r \in DOMAIN streams
  BY <1>1, <1>2, Zenon DEF IInv, AdaptersCached
<1>5. /\ call'[t] = Idle /\ call' \in [Threads -> Call] /\ Holds' /\ Quiet'
      /\ \A u \in Threads : u # t => call'[u] = call[u] /\ Held(u)' = Held(u)
      /\ Held(t)' = 0 /\ \A u \in Threads : CallGranted(call[u])'
  BY <1>1, <1>3, IdleCall, CallGoes, Zenon
<1>6. Shape'
  BY <1>1, <1>5, Zenon DEF IInv, Shape
<1>7. WithinGrant'
  BY <1>1, <1>5, Zenon DEF IInv, WithinGrant, DescGranted, StreamGranted
<1>8. DescsOwned'
  BY <1>1, <1>5, IdleCall, ZenonT(30) DEF IInv, DescsOwned, Gets
<1>9. AdaptersCached'
  <2>1. /\ DOMAIN outputs' = DOMAIN outputs \cup {r}
        /\ \A x \in DOMAIN outputs : outputs'[x] = outputs[x]
    BY <1>2, Zenon DEF Cached, With
  <2>2. \A p \in adapters' : p[1] \in DOMAIN outputs' /\ p = <<p[1], outputs'[p[1]]>>
    BY <1>2, <2>1 DEF IInv, AdaptersCached
  <2>3. \A u \in Threads : call'[u].op = "writer" => call'[u].borrows \subseteq DOMAIN streams'
    BY <1>1, <1>5, IdleCall, Zenon DEF IInv, AdaptersCached
  <2>4. \A x \in DOMAIN outputs' :
          x \in DOMAIN streams' \/ \E u \in Threads : call'[u].op = "dropStream" /\ call'[u].rep = x
    BY <1>1, <1>4, <1>5, <2>1, Zenon DEF IInv, AdaptersCached
  <2> QED
    BY <2>2, <2>3, <2>4, Zenon DEF AdaptersCached
<1>10. HeldFiles' = HeldFiles
  BY <1>3, <1>5, HeldKept, Zenon
<1>11. QuotasHold' /\ Accounted'
  BY <1>1, <1>10, Zenon DEF IInv, QuotasHold, Accounted
<1> QED
  BY <1>5, <1>6, <1>7, <1>8, <1>9, <1>11, Zenon DEF IInv

LEMMA DropDescriptorKeeps ==
  ASSUME IInv, NEW r, DropDescriptor(r)
  PROVE  IInv'
<1>1. /\ phase \in {"running", "ending"} /\ r \in DOMAIN descs /\ r \in handed
      /\ descs' = Without(descs, r) /\ handed' = handed \ {r} /\ open' = open - 1
      /\ UNCHANGED <<granted, phase, base, streams, nextDesc, nextStream, outputs, dirs, stdStreams,
                     call, adapters>>
  BY Zenon DEF DropDescriptor
<1>2. Holds' /\ Quiet' /\ HeldFiles' = HeldFiles /\ \A u \in Threads : CallGranted(call[u])'
  BY <1>1, CallsKept, Zenon
<1>3. /\ DOMAIN descs' = DOMAIN descs \ {r} /\ \A x \in DOMAIN descs' : descs'[x] = descs[x]
      /\ Cardinality(DOMAIN descs') = Cardinality(DOMAIN descs) - 1
  BY <1>1, DescGone, Zenon DEF IInv
<1>4. Shape'
  BY <1>1, <1>3, Zenon DEF IInv, Shape
<1>5. WithinGrant'
  <2>1. /\ \A x \in DOMAIN descs : DescGranted(descs[x])
        /\ \A x \in DOMAIN streams : StreamGranted(streams[x])
    BY Zenon DEF IInv, WithinGrant
  <2>2. \A x \in DOMAIN descs' : DescGranted(descs'[x])
    BY <1>3, <2>1, Zenon
  <2>3. \A x \in DOMAIN descs' : DescGranted(descs[x])'
    BY <1>1, <2>2, Zenon DEF DescGranted
  <2>4. \A x \in DOMAIN streams' : StreamGranted(streams[x])'
    BY <1>1, <2>1, Zenon DEF StreamGranted
  <2> QED
    BY <1>2, <2>3, <2>4, Zenon DEF WithinGrant
<1>6. DescsOwned'
  <2>1. handed' \subseteq DOMAIN descs'
    BY <1>1, <1>3, Zenon DEF IInv, DescsOwned
  <2>2. ASSUME NEW u \in Threads, Gets(u)'
        PROVE  /\ call'[u].i >= 1 /\ (call'[u].at = "add" => call'[u].i <= NMounts)
               /\ call'[u].out \subseteq DOMAIN descs' /\ call'[u].out \cap handed' = {}
    <3>1. /\ Gets(u) /\ call[u].i >= 1 /\ (call[u].at = "add" => call[u].i <= NMounts)
          /\ call[u].out \subseteq DOMAIN descs /\ call[u].out \cap handed = {}
      BY <1>1, <2>2, Zenon DEF IInv, DescsOwned, Gets
    <3>2. call[u].out \subseteq DOMAIN descs' /\ call[u].out \cap handed' = {}
      BY <1>1, <1>3, <3>1, Zenon
    <3> QED
      BY <1>1, <3>1, <3>2, Zenon
  <2>3. \A u, v \in Threads : Gets(u)' /\ Gets(v)' /\ u # v => call'[u].out \cap call'[v].out = {}
    BY <1>1, Zenon DEF IInv, DescsOwned, Gets
  <2>4. \A x \in DOMAIN descs' : x \in handed' \/ \E u \in Threads : Gets(u)' /\ x \in call'[u].out
    BY <1>1, <1>3, Zenon DEF IInv, DescsOwned, Gets
  <2> QED
    BY <2>1, <2>2, <2>3, <2>4, Zenon DEF DescsOwned
<1>7. AdaptersCached'
  BY <1>1, Zenon DEF IInv, AdaptersCached
<1>8. QuotasHold' /\ Accounted'
  <2>1. /\ Cardinality(DOMAIN descs') = Cardinality(DOMAIN descs) - 1 /\ open' = open - 1
        /\ streams' = streams /\ dirs' = dirs /\ stdStreams' = stdStreams /\ base' = base
        /\ HeldFiles' = HeldFiles
    BY <1>1, <1>2, <1>3, Zenon
  <2> QED
    BY <2>1, Counts, SMTT(30) DEF QuotasHold, Accounted
<1> QED
  BY <1>2, <1>4, <1>5, <1>6, <1>7, <1>8, Zenon DEF IInv

\* A stream leaves the table.
LEMMA StreamGone ==
  ASSUME Shape, NEW r \in DOMAIN streams, streams' = Without(streams, r)
  PROVE  /\ DOMAIN streams' = DOMAIN streams \ {r} /\ \A x \in DOMAIN streams' : streams'[x] = streams[x]
         /\ Cardinality(DOMAIN streams') = Cardinality(DOMAIN streams) - 1
<1>1. DOMAIN streams' = DOMAIN streams \ {r}
  BY WithoutIs, Zenon
<1>2. \A x \in DOMAIN streams' : streams'[x] = streams[x]
  BY Zenon DEF Without
<1>3. Cardinality(DOMAIN streams') = Cardinality(DOMAIN streams) - 1
  BY <1>1, TablesFinite, FS_RemoveElement, Zenon
<1> QED
  BY <1>1, <1>2, <1>3, Zenon

LEMMA DropStreamKeeps ==
  ASSUME IInv, NEW t \in Threads, NEW r \in Nat, DropStream(t, r)
  PROVE  IInv'
<1>1. /\ phase \in {"running", "ending"} /\ call[t] = Idle /\ r \in DOMAIN streams /\ ~Lent("stream", r)
      /\ streams' = Without(streams, r)
      /\ UNCHANGED <<granted, phase, base, open, descs, nextDesc, nextStream, outputs, dirs, stdStreams,
                     handed, adapters>>
  BY Zenon DEF DropStream, history
<1>2. PICK c : c = [op |-> "dropStream", held |-> 1, borrows |-> {}, rep |-> r]
  BY Zenon
<1>3. c \in Call /\ c.op = "dropStream" /\ c.rep = r /\ HoldsAt(c) /\ CallGranted(c) /\ HeldIn(c) = 1
  BY <1>2, Zenon DEF Call, DropCall, HoldsAt, CallGranted, HeldIn
<1>4. call' = [call EXCEPT ![t] = c]
  BY <1>2, Zenon DEF DropStream
<1>5. /\ call'[t] = c /\ call' \in [Threads -> Call] /\ Holds' /\ Quiet'
      /\ \A u \in Threads : u # t => call'[u] = call[u] /\ Held(u)' = Held(u)
      /\ Held(t)' = 1 /\ \A u \in Threads : CallGranted(call[u])'
  BY <1>1, <1>3, <1>4, CallGoes, Zenon
<1>6. /\ DOMAIN streams' = DOMAIN streams \ {r} /\ \A x \in DOMAIN streams' : streams'[x] = streams[x]
      /\ Cardinality(DOMAIN streams') = Cardinality(DOMAIN streams) - 1
  BY <1>1, StreamGone, Zenon DEF IInv
<1>7. Shape'
  BY <1>1, <1>5, <1>6, Zenon DEF IInv, Shape
<1>8. WithinGrant'
  BY <1>1, <1>5, <1>6, ZenonT(30) DEF IInv, WithinGrant, DescGranted, StreamGranted
<1>9. DescsOwned'
  BY <1>1, <1>3, <1>5, IdleCall, OwnersKept, Zenon DEF Gets
<1>10. AdaptersCached'
  <2>1. \A p \in adapters' : p[1] \in DOMAIN outputs' /\ p = <<p[1], outputs'[p[1]]>>
    BY <1>1, Zenon DEF IInv, AdaptersCached
  <2>2. \A u \in Threads : call[u].op = "writer" => r \notin call[u].borrows
    BY <1>1, Zenon DEF Lent
  <2>3. \A u \in Threads : call'[u].op = "writer" => call'[u].borrows \subseteq DOMAIN streams'
    BY <1>3, <1>5, <1>6, <2>2, SMTT(30) DEF IInv, AdaptersCached
  <2>4. \A x \in DOMAIN outputs' :
          x \in DOMAIN streams' \/ \E u \in Threads : call'[u].op = "dropStream" /\ call'[u].rep = x
    BY <1>1, <1>3, <1>5, <1>6, IdleCall, SMTT(30) DEF IInv, AdaptersCached
  <2> QED
    BY <2>1, <2>3, <2>4, Zenon DEF AdaptersCached
<1>11. QuotasHold' /\ Accounted'
  <2>1. Held(t) = 0
    BY <1>1, IdleCall, Zenon DEF Held
  <2>2. Cardinality(HeldFiles') = Cardinality(HeldFiles) + 1
    BY <1>5, <2>1, HeldMore, SMTT(30)
  <2>3. /\ Cardinality(DOMAIN streams') = Cardinality(DOMAIN streams) - 1 /\ open' = open
        /\ descs' = descs /\ dirs' = dirs /\ stdStreams' = stdStreams /\ base' = base
    BY <1>1, <1>6, Zenon
  <2> QED
    BY <2>2, <2>3, Counts, SMTT(30) DEF QuotasHold, Accounted
<1> QED
  BY <1>5, <1>7, <1>8, <1>9, <1>10, <1>11, Zenon DEF IInv

LEMMA DropCachesKeeps ==
  ASSUME IInv, NEW t \in Threads, DropCaches(t)
  PROVE  IInv'
<1>1. /\ call[t].op = "dropStream" /\ call' = [call EXCEPT ![t] = Idle]
      /\ outputs' = Without(outputs, call[t].rep) /\ open' = open - call[t].held
      /\ adapters' = {p \in adapters : p[1] # call[t].rep}
      /\ UNCHANGED <<granted, phase, base, descs, streams, nextDesc, nextStream, dirs, stdStreams, handed>>
  BY Zenon DEF DropCaches, Forgotten, Done
<1>2. phase \in {"running", "ending"} /\ call[t].held = 1 /\ Held(t) = 1
  BY <1>1, Alive, CallIs, Zenon DEF IInv, DropCall, Held
<1>3. /\ call'[t] = Idle /\ call' \in [Threads -> Call] /\ Holds' /\ Quiet'
      /\ \A u \in Threads : u # t => call'[u] = call[u] /\ Held(u)' = Held(u)
      /\ Held(t)' = 0 /\ \A u \in Threads : CallGranted(call[u])'
  BY <1>1, <1>2, IdleCall, CallGoes, Zenon
<1>4. Shape'
  BY <1>1, <1>3, Zenon DEF IInv, Shape
<1>5. WithinGrant'
  BY <1>1, <1>3, Zenon DEF IInv, WithinGrant, DescGranted, StreamGranted
<1>6. DescsOwned'
  BY <1>1, <1>3, IdleCall, OwnersKept, Zenon DEF Gets
<1>7. AdaptersCached'
  <2>1. /\ DOMAIN outputs' = DOMAIN outputs \ {call[t].rep}
        /\ \A x \in DOMAIN outputs' : outputs'[x] = outputs[x]
    BY <1>1, Zenon DEF Without
  <2>2. \A p \in adapters' : p[1] \in DOMAIN outputs' /\ p = <<p[1], outputs'[p[1]]>>
    BY <1>1, <2>1, Zenon DEF IInv, AdaptersCached
  <2>3. \A u \in Threads : call'[u].op = "writer" => call'[u].borrows \subseteq DOMAIN streams'
    BY <1>1, <1>3, IdleCall, Zenon DEF IInv, AdaptersCached
  <2>4. \A x \in DOMAIN outputs' :
          x \in DOMAIN streams' \/ \E u \in Threads : call'[u].op = "dropStream" /\ call'[u].rep = x
    BY <1>1, <1>3, <2>1, Zenon DEF IInv, AdaptersCached
  <2> QED
    BY <2>2, <2>3, <2>4, Zenon DEF AdaptersCached
<1>8. QuotasHold'
  BY <1>1, ZenonT(30) DEF IInv, QuotasHold
<1>9. Accounted'
  <2>1. Cardinality(HeldFiles') = Cardinality(HeldFiles) - 1
    BY <1>2, <1>3, HeldReleased, SMTT(30)
  <2>2. open' = open - 1 /\ base' = base /\ descs' = descs /\ streams' = streams /\ dirs' = dirs
    BY <1>1, <1>2, Zenon
  <2> QED
    BY <2>1, <2>2, Counts, SMTT(30) DEF Accounted
<1> QED
  BY <1>3, <1>4, <1>5, <1>6, <1>7, <1>8, <1>9, ZenonT(30) DEF IInv

LEMMA DropDirectoryStreamKeeps ==
  ASSUME IInv, DropDirectoryStream
  PROVE  IInv'
<1>1. /\ phase \in {"running", "ending"} /\ dirs > 0 /\ dirs' = dirs - 1 /\ open' = open - 1
      /\ UNCHANGED <<granted, phase, base, descs, streams, nextDesc, nextStream, outputs, stdStreams,
                     call, handed, adapters>>
  BY Zenon DEF DropDirectoryStream, history
<1>2. Holds' /\ Quiet' /\ HeldFiles' = HeldFiles /\ \A u \in Threads : CallGranted(call[u])'
  BY <1>1, CallsKept, Zenon
<1>3. dirs \in Nat /\ dirs' \in Nat
  BY <1>1, SMTT(30) DEF IInv, Shape
<1>4. Shape'
  BY <1>1, <1>3, Zenon DEF IInv, Shape
<1>5. WithinGrant'
  BY <1>1, <1>2, Zenon DEF IInv, WithinGrant, DescGranted, StreamGranted
<1>6. DescsOwned' /\ AdaptersCached'
  BY <1>1, Zenon DEF IInv, DescsOwned, Gets, AdaptersCached
<1>7. QuotasHold' /\ Accounted'
  <2>1. /\ dirs' = dirs - 1 /\ open' = open - 1 /\ HeldFiles' = HeldFiles
        /\ descs' = descs /\ streams' = streams /\ stdStreams' = stdStreams /\ base' = base
    BY <1>1, <1>2, Zenon
  <2> QED
    BY <2>1, Counts, SMTT(30) DEF QuotasHold, Accounted
<1> QED
  BY <1>2, <1>4, <1>5, <1>6, <1>7, Zenon DEF IInv

LEMMA StandardStreamKeeps ==
  ASSUME IInv, ReserveStandardStream \/ ReleaseStandardStream
  PROVE  IInv'
<1>1. /\ phase \in {"running", "ending"} /\ stdStreams' \in {stdStreams - 1, stdStreams + 1}
      /\ stdStreams' = stdStreams - 1 => stdStreams > 0
      /\ stdStreams' = stdStreams + 1 => ~StreamsFull
      /\ UNCHANGED <<granted, phase, base, open, descs, streams, nextDesc, nextStream, outputs, dirs,
                     call, handed, adapters>>
  BY SMTT(30) DEF ReserveStandardStream, ReleaseStandardStream, StandardFull, history, IInv, Shape
<1>2. Holds' /\ Quiet' /\ HeldFiles' = HeldFiles /\ \A u \in Threads : CallGranted(call[u])'
  BY <1>1, CallsKept, Zenon
<1>3. stdStreams \in Nat /\ stdStreams' \in Nat
  BY <1>1, SMTT(30) DEF IInv, Shape
<1>4. Shape'
  BY <1>1, <1>3, Zenon DEF IInv, Shape
<1>5. WithinGrant'
  BY <1>1, <1>2, Zenon DEF IInv, WithinGrant, DescGranted, StreamGranted
<1>6. DescsOwned' /\ AdaptersCached'
  BY <1>1, Zenon DEF IInv, DescsOwned, Gets, AdaptersCached
<1>7. QuotasHold'
  <2>1. Cardinality(DOMAIN streams) + stdStreams' <= MaxStreams
    BY <1>1, Counts, SMTT(30) DEF StreamsFull
  <2> QED
    BY <1>1, <2>1, Zenon DEF IInv, QuotasHold
<1>8. Accounted'
  BY <1>1, <1>2, Zenon DEF IInv, Accounted
<1> QED
  BY <1>2, <1>4, <1>5, <1>6, <1>7, <1>8, ZenonT(30) DEF IInv

-----------------------------------------------------------------------------
(* The course of Run *)

LEMMA PhaseKeeps ==
  ASSUME IInv, Prepared \/ InstanceEnds
  PROVE  IInv'
<1>1. /\ phase' \in {"running", "ending"}
      /\ UNCHANGED <<granted, base, open, descs, streams, nextDesc, nextStream, outputs, dirs,
                     stdStreams, call, handed, adapters>>
  BY Zenon DEF Prepared, InstanceEnds, tables, history
<1>2. Holds' /\ Quiet' /\ HeldFiles' = HeldFiles /\ \A u \in Threads : CallGranted(call[u])'
  BY <1>1, CallsKept, Zenon
<1>3. Shape'
  BY <1>1, Zenon DEF IInv, Shape
<1>4. WithinGrant'
  BY <1>1, <1>2, Zenon DEF IInv, WithinGrant, DescGranted, StreamGranted
<1>5. DescsOwned' /\ AdaptersCached'
  BY <1>1, Zenon DEF IInv, DescsOwned, Gets, AdaptersCached
<1>6. QuotasHold' /\ Accounted'
  BY <1>1, <1>2, Zenon DEF IInv, QuotasHold, Accounted
<1> QED
  BY <1>2, <1>3, <1>4, <1>5, <1>6, Zenon DEF IInv

LEMMA BaseAccounted ==
  ASSUME IInv, open' - Cardinality(base') = open - Cardinality(base), open' \in Int,
         Cardinality(base') \in Nat,
         descs' = descs, streams' = streams, dirs' = dirs, HeldFiles' = HeldFiles
  PROVE  Accounted'
<1>1. PICK n \in Int : n = Cardinality(DOMAIN descs) + Cardinality(DOMAIN streams)
                                + dirs + Cardinality(HeldFiles)
  BY Counts
<1>2. open = Cardinality(base) + n
  BY <1>1, Counts
<1>3. open' = Cardinality(base') + n
  BY <1>1, <1>2, Counts, SMTT(30)
<1>4. open' = Cardinality(base') + Cardinality(DOMAIN descs) + Cardinality(DOMAIN streams)
                + dirs + Cardinality(HeldFiles)
  BY <1>1, <1>3, Counts, SMTT(30)
<1> QED
  BY <1>4, Zenon DEF Accounted

\* The base directories of mounts are opened or closed while nothing else is.
LEMMA BaseKeeps ==
  ASSUME IInv, base' \in SUBSET Mounts, open' - Cardinality(base') = open - Cardinality(base),
         open' \in Int, Cardinality(base') \in Nat,
         phase' \in {"prepare", "failed", "over"}, phase' # "prepare" => base' = {},
         DOMAIN descs = {}, DOMAIN streams = {}, dirs = 0, \A t \in Threads : call[t] = Idle,
         UNCHANGED <<granted, descs, streams, nextDesc, nextStream, outputs, dirs, stdStreams, call,
                     handed, adapters>>
  PROVE  IInv'
<1>1. Holds' /\ HeldFiles' = HeldFiles /\ \A u \in Threads : CallGranted(call[u])'
  BY CallsKept, Zenon
<1>2. Shape'
  BY Zenon DEF IInv, Shape
<1>3. Quiet'
  BY Zenon DEF Quiet
<1>4. WithinGrant'
  BY <1>1, Zenon DEF IInv, WithinGrant, DescGranted, StreamGranted
<1>5. DescsOwned' /\ AdaptersCached'
  BY Zenon DEF IInv, DescsOwned, Gets, AdaptersCached
<1>6. QuotasHold'
  BY Zenon DEF IInv, QuotasHold
<1>7. Accounted'
  BY <1>1, BaseAccounted, Zenon
<1> QED
  BY <1>1, <1>2, <1>3, <1>4, <1>5, <1>6, <1>7, ZenonT(30) DEF IInv

LEMMA PrepareMountKeeps ==
  ASSUME IInv, NEW i \in Mounts, PrepareMount(i)
  PROVE  IInv'
<1>1. /\ phase = "prepare" /\ base = 1..(i - 1)
      /\ UNCHANGED <<granted, descs, streams, nextDesc, nextStream, outputs, dirs, stdStreams, call,
                     handed, adapters>>
  BY Zenon DEF PrepareMount, tables, history
<1>2. DOMAIN descs = {} /\ DOMAIN streams = {} /\ dirs = 0 /\ \A t \in Threads : call[t] = Idle
  BY <1>1, Zenon DEF IInv, Quiet
<1>3. base \in SUBSET Mounts /\ IsFiniteSet(base) /\ Cardinality(base) \in Nat /\ open \in Int
  BY TablesFinite, OpenInt, Zenon DEF IInv, Shape
<1>4. CASE base' = base \cup {i} /\ open' = open + 1 /\ phase' = phase
  <2>1. i \notin base
    BY <1>1, DescriptorAssumption, SMTT(30) DEF Mounts
  <2>2. Cardinality(base') = Cardinality(base) + 1
    BY <1>3, <1>4, <2>1, FS_AddElement, Zenon
  <2>3. base' \in SUBSET Mounts
    BY <1>3, <1>4, Zenon
  <2>4. /\ open' - Cardinality(base') = open - Cardinality(base) /\ open' \in Int
        /\ Cardinality(base') \in Nat
    BY <1>3, <1>4, <2>2, SMTT(30)
  <2> QED
    BY <1>1, <1>2, <1>4, <2>3, <2>4, BaseKeeps, ZenonT(30)
<1>5. CASE base' = {} /\ open' = open - Cardinality(base) /\ phase' = "failed"
  <2>1. Cardinality(base') = 0
    BY <1>5, FS_EmptySet, Zenon
  <2>2. base' \in SUBSET Mounts
    BY <1>5, Zenon
  <2>3. /\ open' - Cardinality(base') = open - Cardinality(base) /\ open' \in Int
        /\ Cardinality(base') \in Nat
    BY <1>3, <1>5, <2>1
  <2> QED
    BY <1>1, <1>2, <1>5, <2>2, <2>3, BaseKeeps, Zenon
<1> QED
  BY <1>4, <1>5, Zenon DEF PrepareMount

LEMMA CloseMountsKeeps ==
  ASSUME IInv, CloseMounts
  PROVE  IInv'
<1>1. /\ DOMAIN descs = {} /\ DOMAIN streams = {} /\ dirs = 0 /\ \A t \in Threads : call[t] = Idle
      /\ UNCHANGED <<granted, descs, streams, nextDesc, nextStream, outputs, dirs, stdStreams, call,
                     handed, adapters>>
  BY Zenon DEF CloseMounts, Empty, tables, history
<1>2. base' = {} /\ open' = open - Cardinality(base) /\ phase' = "over"
  BY Zenon DEF CloseMounts
<1>3. Cardinality(base) \in Nat /\ open \in Int /\ Cardinality(base') = 0
  BY <1>2, TablesFinite, OpenInt, FS_EmptySet, ZenonT(30) DEF IInv
<1>4. /\ open' - Cardinality(base') = open - Cardinality(base) /\ open' \in Int
      /\ Cardinality(base') \in Nat
  BY <1>2, <1>3, SMTT(30)
<1>5. base' \in SUBSET Mounts
  BY <1>2, Zenon
<1> QED
  BY <1>1, <1>2, <1>4, <1>5, BaseKeeps, ZenonT(30)

LEMMA Starts ==
  ASSUME Init
  PROVE  IInv
<1>1. /\ dirs = 0 /\ stdStreams = 0 /\ phase = "prepare" /\ base = {} /\ open = 0
      /\ nextDesc = 1 /\ nextStream = 1 /\ call = [t \in Threads |-> Idle] /\ handed = {} /\ adapters = {}
  BY Zenon DEF Init
<1>2. DOMAIN descs = {} /\ DOMAIN streams = {} /\ DOMAIN outputs = {}
  BY Zenon DEF Init, Empty
<1>3. \A t \in Threads : call[t] = Idle /\ Held(t) = 0
  BY <1>1, IdleCall, Zenon DEF Held
<1>4. Shape
  BY <1>1, <1>2, IdleCall, DescriptorAssumption, SMTT(30) DEF Shape, Init
<1>5. Holds /\ Quiet
  BY <1>1, <1>2, <1>3, IdleCall, Zenon DEF Holds, Quiet
<1>6. WithinGrant
  BY <1>2, <1>3, IdleCall, Zenon DEF WithinGrant
<1>7. DescsOwned /\ AdaptersCached
  BY <1>1, <1>2, <1>3, IdleCall, Zenon DEF DescsOwned, Gets, AdaptersCached
<1>8. Cardinality({}) = 0
  BY FS_EmptySet, Zenon
<1>9. QuotasHold
  BY <1>1, <1>2, <1>8, DescriptorAssumption, SMTT(30) DEF QuotasHold
<1>10. HeldFiles = {}
  BY <1>3, SMTT(30) DEF HeldFiles
<1>11. Accounted
  BY <1>1, <1>2, <1>8, <1>10, SMTT(30) DEF Accounted
<1> QED
  BY <1>4, <1>5, <1>6, <1>7, <1>9, <1>11, ZenonT(30) DEF IInv

-----------------------------------------------------------------------------
(* Theorems *)

LEMMA StepKeeps ==
  ASSUME IInv, Next
  PROVE  IInv'
<1>1. \A r \in 1..MaxReps : r \in Nat
  BY SMTT(30)
<1>2. ASSUME NEW t \in Threads, ThreadStep(t)
      PROVE  IInv'
  <2>1. CASE Begin(t)
    BY <2>1, BeginKeeps, Zenon
  <2>2. CASE OpenParent(t) \/ Act(t) \/ Add(t)
    BY <2>2, OpenParentKeeps, ActKeeps, AddKeeps, Zenon
  <2>3. CASE GetDirectories(t) \/ GetDup(t)
    BY <2>3, GetDirectoriesKeeps, GetDupKeeps, Zenon
  <2>4. CASE GetAdd(t) \/ Rollback(t)
    BY <2>4, GetAddKeeps, RollbackKeeps, Zenon
  <2>5. CASE WriterStore(t) \/ DropCaches(t)
    BY <2>5, WriterStoreKeeps, DropCachesKeeps, SMTT(30)
  <2>6. ASSUME NEW r \in 1..MaxReps, WriterBegin(t, r) \/ DropStream(t, r)
        PROVE  IInv'
    BY <1>1, <2>6, WriterBeginKeeps, DropStreamKeeps, Zenon
  <2> QED
    BY <1>2, <2>1, <2>2, <2>3, <2>4, <2>5, <2>6, ZenonT(30) DEF ThreadStep
<1>3. ASSUME NEW i \in Mounts, PrepareMount(i)
      PROVE  IInv'
  BY <1>3, PrepareMountKeeps, Zenon
<1>4. ASSUME NEW r \in 1..MaxReps, DropDescriptor(r)
      PROVE  IInv'
  BY <1>4, DropDescriptorKeeps, Zenon
<1>5. CASE Prepared \/ InstanceEnds
  BY <1>5, PhaseKeeps, Zenon
<1>6. CASE CloseMounts
  BY <1>6, CloseMountsKeeps, Zenon
<1>7. CASE ReserveStandardStream \/ ReleaseStandardStream
  BY <1>7, StandardStreamKeeps, SMTT(30)
<1>8. CASE DropDirectoryStream
  BY <1>8, DropDirectoryStreamKeeps, Zenon
<1> QED
  BY <1>2, <1>3, <1>4, <1>5, <1>6, <1>7, <1>8, ZenonT(30) DEF Next

LEMMA StutterKeeps ==
  ASSUME IInv, UNCHANGED vars
  PROVE  IInv'
<1>1. UNCHANGED <<granted, phase, base, open, descs, streams, nextDesc, nextStream, outputs, dirs,
                  stdStreams, call, handed, adapters>>
  BY Zenon DEF vars, tables, history
<1>2. Holds' /\ HeldFiles' = HeldFiles /\ \A u \in Threads : CallGranted(call[u])'
  BY <1>1, CallsKept, Zenon
<1>3. Shape' /\ Quiet'
  BY <1>1, Zenon DEF IInv, Shape, Quiet
<1>4. WithinGrant'
  BY <1>1, <1>2, Zenon DEF IInv, WithinGrant, DescGranted, StreamGranted
<1>5. DescsOwned' /\ AdaptersCached'
  BY <1>1, Zenon DEF IInv, DescsOwned, Gets, AdaptersCached
<1>6. QuotasHold' /\ Accounted'
  BY <1>1, <1>2, Zenon DEF IInv, QuotasHold, Accounted
<1> QED
  BY <1>2, <1>3, <1>4, <1>5, <1>6, ZenonT(30) DEF IInv

\* The inductive invariant of the resources of an instance: who owns each
\* descriptor, stream and host file, and what the host granted to each.
THEOREM DescriptorsInvariant == Spec => []IInv
<1>1. Init => IInv
  BY Starts, Zenon
<1>2. IInv /\ [Next]_vars => IInv'
  BY StepKeeps, StutterKeeps, Zenon
<1> QED
  BY <1>1, <1>2, PTL DEF Spec

\* Every open host file has exactly one owner, and none is open once Run has
\* returned, for any number of threads and mounts (openAt, addDescriptor,
\* get-directories and its rollback, the stream constructors, the drops, closeMounts).
THEOREM FilesAccounted == Spec => []HandlesAccounted
<1>1. IInv => HandlesAccounted
  <2> SUFFICES ASSUME IInv PROVE HandlesAccounted
    BY Zenon
  <2>1. CASE phase \notin {"failed", "over"}
    BY <2>1, Zenon DEF IInv, Accounted, HandlesAccounted
  <2>2. CASE phase \in {"failed", "over"}
    <3>1. /\ DOMAIN descs = {} /\ DOMAIN streams = {} /\ dirs = 0 /\ base = {}
          /\ \A t \in Threads : call[t] = Idle
      BY <2>2, Zenon DEF IInv, Quiet
    <3>2. \A t \in Threads : Held(t) = 0
      BY <3>1, IdleCall, Zenon DEF Held
    <3>3. HeldFiles = {}
      BY <3>2, SMTT(30) DEF HeldFiles
    <3>4. Cardinality({}) = 0
      BY FS_EmptySet, Zenon
    <3>5. open = 0
      BY <3>1, <3>3, <3>4, SMTT(30) DEF IInv, Accounted
    <3> QED
      BY <3>5, Zenon DEF IInv, Accounted, HandlesAccounted
  <2> QED
    BY <2>1, <2>2, Zenon
<1> QED
  BY <1>1, DescriptorsInvariant, PTL

\* The limits on descriptors, streams and directory streams hold whatever calls
\* interleave (addDescriptor, addStream, ReserveStandardStream).
THEOREM LimitsKept == Spec => []QuotasHold
<1>1. IInv => QuotasHold
  BY Zenon DEF IInv
<1> QED
  BY <1>1, DescriptorsInvariant, PTL

\* No chain of open-at calls, and no stream, reaches an effect that the host did
\* not grant to the mount it started from (validateChildFlags and the checks of
\* the handlers).
THEOREM OnlyGrantedEffects == Spec => []EffectsGranted
<1>1. IInv => EffectsGranted
  BY ZenonT(30) DEF IInv, WithinGrant, CallGranted, StreamGranted, EffectsGranted
<1> QED
  BY <1>1, DescriptorsInvariant, PTL

\* Every descriptor in the table can be dropped by the guest or will be handed to
\* it or rolled back by the get-directories that made it.
THEOREM NoneOrphaned == Spec => []NoOrphan
<1>1. IInv => NoOrphan
  BY ZenonT(30) DEF IInv, DescsOwned, Gets, NoOrphan
<1> QED
  BY <1>1, DescriptorsInvariant, PTL

\* A stream has one output adapter for as long as it lives, and the cache keeps
\* none of a stream whose drop is complete (writer, subscribeOutput, dropStream).
THEOREM AdapterUnique == Spec => []OneAdapter
<1>1. IInv => OneAdapter
  <2> SUFFICES ASSUME IInv PROVE OneAdapter
    BY SMTT(30)
  <2>1. \A p, q \in adapters : p[1] = q[1] => p = q
    BY Zenon DEF IInv, AdaptersCached
  <2>2. DOMAIN outputs \subseteq
          DOMAIN streams \cup {call[t].rep : t \in {u \in Threads : call[u].op = "dropStream"}}
    BY Zenon DEF IInv, AdaptersCached
  <2> QED
    BY <2>1, <2>2, Zenon DEF OneAdapter
<1> QED
  BY <1>1, DescriptorsInvariant, PTL

==============================================================================
