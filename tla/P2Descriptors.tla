---------------------------- MODULE P2Descriptors ----------------------------
(***************************************************************************)
(* The resources of one Preview 2 instance: preopened mounts, descriptors, *)
(* file and directory streams, the standard streams that share their       *)
(* limit, and the adapters cached for output streams.  Calls of several    *)
(* threads interleave wherever the code holds no lock.  A call that its    *)
(* checks refuse returns at once and changes nothing, so it is not a step; *)
(* errno values and names in paths are left out.                           *)
(***************************************************************************)
EXTENDS Integers, FiniteSets, FiniteSetsExt

CONSTANTS Threads, NMounts,
          Grants,          \* the rights the host may give to the mounts
          Requests,        \* pairs of descriptor and open flags open-at is called with
          MaxDescriptors, MaxStreams, MaxDirectoryStreams,
          MaxReps          \* bound on the reps that are ever used

Mounts == 1..NMounts
Rights == {"read", "write", "mutate"}
DescriptorFlags == Rights \cup {"sync"}   \* "unknown" stands for any other bit
OpenFlags == {"create", "directory", "truncate"}

ASSUME DescriptorAssumption ==
  /\ NMounts \in Nat /\ MaxReps \in Nat /\ IsFiniteSet(Threads)
  /\ Grants \subseteq [Mounts -> SUBSET Rights]
  /\ Requests \subseteq (SUBSET (DescriptorFlags \cup {"unknown"})) \X SUBSET OpenFlags
  /\ {MaxDescriptors, MaxStreams, MaxDirectoryStreams} \subseteq Nat

VARIABLES granted,   \* mount.flags
          phase,     \* of Run: prepare, running, ending, over or failed
          base,      \* mounts whose base directory is open
          open,      \* number of open host files
          descs, streams,        \* the tables, by rep
          nextDesc, nextStream,
          outputs,   \* adapter cached for an output stream, named by its maker
          dirs,      \* number of directory streams
          stdStreams,
          call,      \* what each thread is doing
          handed,    \* descriptors the guest has been given
          adapters   \* adapters handed out for the streams that exist

tables == <<descs, streams, nextDesc, nextStream, outputs, dirs, stdStreams>>
history == <<handed, adapters>>
vars == <<granted, phase, base, open, tables, call, history>>

Empty == [r \in {} |-> 0]
Without(f, r) == [x \in DOMAIN f \ {r} |-> f[x]]
With(f, r, v) == [x \in DOMAIN f \cup {r} |-> IF x = r THEN v ELSE f[x]]

Idle == [op |-> "none"]

Held(t) == IF call[t].op = "none" THEN 0 ELSE call[t].held

\* The files of calls in progress.  No call holds more than two: the parents of
\* a rename or of a link.
HeldFiles == {h \in Threads \X (1..2) : h[2] <= Held(h[1])}

Lent(kind, r) ==
  \E t \in Threads :
    /\ call[t].op # "none" /\ r \in call[t].borrows
    /\ kind = IF call[t].op = "writer" THEN "stream" ELSE "desc"

Init ==
  /\ dirs = 0 /\ stdStreams = 0 /\ granted \in Grants /\ phase = "prepare" /\ base = {} /\ open = 0
  /\ descs = Empty /\ streams = Empty /\ outputs = Empty /\ nextDesc = 1 /\ nextStream = 1
  /\ call = [t \in Threads |-> Idle]
  /\ handed = {} /\ adapters = {}

-----------------------------------------------------------------------------
(* Run: prepareFilesystem, the instance, closeMounts.                        *)

PrepareMount(i) ==
  /\ phase = "prepare" /\ base = 1..(i - 1)
  /\ \/ base' = base \cup {i} /\ open' = open + 1 /\ UNCHANGED phase
     \/ base' = {} /\ open' = open - Cardinality(base) /\ phase' = "failed"
  /\ UNCHANGED <<granted, tables, call, history>>

Prepared ==
  /\ phase = "prepare" /\ base = Mounts /\ phase' = "running"
  /\ UNCHANGED <<granted, base, open, tables, call, history>>

\* The instance is closed, and the runtime drops what the guest still owns.
InstanceEnds ==
  /\ phase = "running" /\ \A t \in Threads : call[t] = Idle
  /\ phase' = "ending"
  /\ UNCHANGED <<granted, base, open, tables, call, history>>

CloseMounts ==
  /\ phase = "ending" /\ \A t \in Threads : call[t] = Idle
  /\ descs = Empty /\ streams = Empty /\ dirs = 0 /\ stdStreams = 0
  /\ base' = {} /\ open' = open - Cardinality(base) /\ phase' = "over"
  /\ UNCHANGED <<granted, tables, call, history>>

-----------------------------------------------------------------------------
(* Calls on descriptors *)

\* Mutant: the right to write is left to the host.
ChildFlagsUnwritten(n, req, oflags) ==
  /\ req \subseteq DescriptorFlags /\ req \cap {"read", "mutate"} \subseteq n.flags
  /\ "truncate" \in oflags => "write" \in req
  /\ oflags \cap {"create", "truncate"} # {} \/ "write" \in req => "mutate" \in n.flags

\* validateChildFlags
ChildFlags(n, req, oflags) ==
  /\ req \subseteq DescriptorFlags /\ req \cap Rights \subseteq n.flags
  /\ "sync" \in req => "write" \in n.flags
  /\ "truncate" \in oflags => "write" \in req
  /\ oflags \cap {"create", "truncate"} # {} \/ "write" \in req => "mutate" \in n.flags

\* What a call that passes its checks is going to do: the parent directories it
\* opens first, what the host is asked for, and the table entry for a file it
\* opens.  There is no plan for a call that is refused.
Plan(allowed, parents, effects, new) ==
  {p \in {[parents |-> parents, effects |-> effects, new |-> new]} : allowed}

Nothing == [table |-> "none"]
Stream(a, reading) == [table |-> "streams", entry |-> [mount |-> a.mount, read |-> reading]]

\* Of the flags only the rights are kept: the three sync flags are asked for
\* here and never looked at again.
OpenPlan(a, req, oflags, dir) ==
  Plan(a.dir /\ ChildFlags(a, req, oflags), 0,
       {k \in {"mutate"} : "create" \in oflags} \cup
         {k \in {"write"} : "truncate" \in oflags /\ "directory" \notin oflags},
       [table |-> "descs", entry |-> [mount |-> a.mount, flags |-> req \cap Rights, dir |-> dir]])

\* The file opened may turn out to be a directory, but not if opened for writing.
MayOpen(req, oflags) ==
  {dir \in BOOLEAN : IF "directory" \in oflags THEN dir ELSE dir => "write" \notin req}

OpenAt(a) ==
  UNION {UNION {OpenPlan(a, r[1], r[2], dir) : dir \in MayOpen(r[1], r[2])} : r \in Requests}

ReadViaStream(a) == Plan("read" \in a.flags, 0, {"read"}, Stream(a, TRUE))
WriteViaStream(a) == Plan("write" \in a.flags, 0, {"write"}, Stream(a, FALSE))
AppendViaStream(a) == Plan("write" \in a.flags, 0, {"write"}, Stream(a, FALSE))
ReadDirectory(a) == Plan(a.dir, 0, {}, [table |-> "dirs"])
CreateDirectoryAt(a) == Plan("mutate" \in a.flags, 1, {"mutate"}, Nothing)
RemoveAt(a) == Plan("mutate" \in a.flags, 1, {"mutate"}, Nothing)
RenameAt(a, b) ==
  Plan("mutate" \in a.flags \cap b.flags /\ a.mount = b.mount, 2, {"mutate"}, Nothing)
SyncDescriptor(a) == Plan("write" \in a.flags, 0, {"write"}, Nothing)
SetSize(a) == Plan("write" \in a.flags, 0, {"write"}, Nothing)
DirectRead(a) == Plan("read" \in a.flags, 0, {"read"}, Nothing)
DirectWrite(a) == Plan("write" \in a.flags, 0, {"write"}, Nothing)
SetTimes(a) == Plan("write" \in a.flags, 0, {"write"}, Nothing)
SetTimesAt(a) == Plan("mutate" \in a.flags, 0, {"mutate"}, Nothing)
LinkAt(a, b) == Plan("mutate" \in b.flags /\ a.mount = b.mount, 2, {"mutate"}, Nothing)
ReadlinkAt(a) == Plan(TRUE, 1, {}, Nothing)
SymlinkAt(a) == Plan("mutate" \in a.flags, 1, {"mutate"}, Nothing)

Plans(a, b) ==
  IF a = b
  THEN OpenAt(a) \cup ReadViaStream(a) \cup WriteViaStream(a) \cup AppendViaStream(a)
         \cup ReadDirectory(a) \cup CreateDirectoryAt(a) \cup RemoveAt(a) \cup SyncDescriptor(a)
         \cup SetSize(a) \cup DirectRead(a) \cup DirectWrite(a) \cup SetTimes(a) \cup SetTimesAt(a)
         \cup ReadlinkAt(a) \cup SymlinkAt(a) \cup RenameAt(a, a) \cup LinkAt(a, a)
  ELSE RenameAt(a, b) \cup LinkAt(a, b)

Begin(t) ==
  /\ phase = "running" /\ call[t] = Idle
  /\ \E ra, rb \in DOMAIN descs : \E p \in Plans(descs[ra], descs[rb]) :
       call' = [call EXCEPT ![t] =
         [op |-> "desc", at |-> "act", held |-> 0, borrows |-> {ra, rb},
          parents |-> p.parents, effects |-> p.effects, new |-> p.new,
          mounts |-> {descs[ra].mount, descs[rb].mount}]]
  /\ UNCHANGED <<granted, phase, base, open, tables, history>>

\* Mutant: a failing call returns without the deferred closes.
DoneLeaking(t) ==
  call' = [call EXCEPT ![t] = Idle] /\ UNCHANGED open

\* The call returns and its deferred closes run.
Done(t) ==
  call' = [call EXCEPT ![t] = Idle] /\ open' = open - call[t].held

Acquire(t, where) ==
  /\ call' = [call EXCEPT ![t].held = @ + 1, ![t].at = where]
  /\ open' = open + 1

OpenParent(t) ==
  /\ call[t].op = "desc" /\ call[t].at = "act" /\ call[t].held < call[t].parents
  /\ Acquire(t, "act") \/ Done(t)
  /\ UNCHANGED <<granted, phase, base, tables, history>>

\* The host carries the call out, or fails.
Act(t) ==
  /\ call[t].op = "desc" /\ call[t].at = "act" /\ call[t].held = call[t].parents
  /\ \/ Done(t)
     \/ call[t].new.table # "none" /\ Acquire(t, "add")
  /\ UNCHANGED <<granted, phase, base, tables, history>>

StreamsFull == Cardinality(DOMAIN streams) + stdStreams >= MaxStreams

\* The new file enters its table.
Insert(new) ==
  CASE new.table = "descs" ->
         /\ Cardinality(DOMAIN descs) < MaxDescriptors /\ nextDesc <= MaxReps
         /\ descs' = With(descs, nextDesc, new.entry) /\ nextDesc' = nextDesc + 1
         /\ handed' = handed \cup {nextDesc}
         /\ UNCHANGED <<streams, nextStream, outputs, dirs, stdStreams>>
    [] new.table = "dirs" ->
         /\ dirs < MaxDirectoryStreams /\ dirs' = dirs + 1
         /\ UNCHANGED <<descs, streams, nextDesc, nextStream, outputs, stdStreams, handed>>
    [] new.table = "streams" ->
         /\ ~StreamsFull /\ nextStream <= MaxReps
         /\ streams' = With(streams, nextStream, new.entry) /\ nextStream' = nextStream + 1
         /\ UNCHANGED <<descs, nextDesc, outputs, dirs, stdStreams, handed>>

\* Stat, the offset or the quota fails and the new file is closed; or it is added.
Add(t) ==
  /\ call[t].op = "desc" /\ call[t].at = "add"
  /\ \/ Done(t) /\ UNCHANGED <<tables, handed>>
     \/ Insert(call[t].new) /\ call' = [call EXCEPT ![t] = Idle] /\ UNCHANGED open
  /\ UNCHANGED <<granted, phase, base, adapters>>

-----------------------------------------------------------------------------
(* get-directories *)

Step(t, i, where, held, out) ==
  call' = [call EXCEPT ![t] = [op |-> "getDirectories", at |-> where, i |-> i,
                               held |-> held, out |-> out, borrows |-> {}]]

GetDirectories(t) ==
  /\ phase = "running" /\ call[t] = Idle /\ Step(t, 1, "dup", 0, {})
  /\ UNCHANGED <<granted, phase, base, open, tables, history>>

GetDup(t) ==
  LET c == call[t]
  IN  /\ c.op = "getDirectories" /\ c.at = "dup"
      /\ \/ /\ c.i > NMounts /\ handed' = handed \cup c.out
            /\ call' = [call EXCEPT ![t] = Idle] /\ UNCHANGED open
         \/ c.i <= NMounts /\ Step(t, c.i, "add", 1, c.out) /\ open' = open + 1 /\ UNCHANGED handed
         \/ c.i <= NMounts /\ Step(t, c.i, "rollback", 0, c.out) /\ UNCHANGED <<open, handed>>
      /\ UNCHANGED <<granted, phase, base, tables, adapters>>

\* Stat of the new file or the quota fails and it is closed; or it is added.
GetAdd(t) ==
  LET c == call[t]
  IN  /\ c.op = "getDirectories" /\ c.at = "add"
      /\ \/ /\ Cardinality(DOMAIN descs) < MaxDescriptors /\ nextDesc <= MaxReps
            /\ descs' = With(descs, nextDesc,
                             [mount |-> c.i, flags |-> granted[c.i], dir |-> TRUE])
            /\ nextDesc' = nextDesc + 1
            /\ Step(t, c.i + 1, "dup", 0, c.out \cup {nextDesc}) /\ UNCHANGED open
         \/ /\ Step(t, c.i, "rollback", 0, c.out) /\ open' = open - 1
            /\ UNCHANGED <<descs, nextDesc>>
      /\ UNCHANGED <<granted, phase, base, streams, nextStream, outputs, dirs, stdStreams, history>>

\* Mutant: the rollback leaves the first directory.
RollbackFrom(out) == {r \in out : \E q \in out : q < r}

RollbackSet(out) == out

\* rollbackDirectories, one descriptor after the other.  TakeOwn finds each of
\* them, since no handle of this call has been given to anybody yet; the code
\* passes over one that it does not find.
Rollback(t) ==
  LET c == call[t]
      out == RollbackSet(c.out)
  IN  /\ c.op = "getDirectories" /\ c.at = "rollback"
      /\ IF out = {}
         THEN call' = [call EXCEPT ![t] = Idle] /\ UNCHANGED <<descs, open>>
         ELSE /\ descs' = Without(descs, Min(out)) /\ open' = open - 1
              /\ Step(t, c.i, "rollback", 0, c.out \ {Min(out)})
      /\ UNCHANGED <<granted, phase, base, streams, nextDesc, nextStream, outputs, dirs, stdStreams, history>>

-----------------------------------------------------------------------------
(* Output adapters: writer and subscribeOutput.  The cache is looked up, an  *)
(* adapter is made without the lock, and the first one stored is used.       *)

WriterBegin(t, r) ==
  /\ phase = "running" /\ call[t] = Idle /\ r \in DOMAIN streams /\ ~streams[r].read
  /\ IF r \in DOMAIN outputs
     THEN adapters' = adapters \cup {<<r, outputs[r]>>} /\ UNCHANGED call
     ELSE /\ call' = [call EXCEPT ![t] = [op |-> "writer", held |-> 0, borrows |-> {r}]]
          /\ UNCHANGED adapters
  /\ UNCHANGED <<granted, phase, base, open, tables, handed>>

\* Mutant: the adapter is stored without a second look at the cache.
CachedOver(t, r) == With(outputs, r, t)

Cached(t, r) == IF r \in DOMAIN outputs THEN outputs ELSE With(outputs, r, t)

WriterStore(t) ==
  /\ call[t].op = "writer"
  /\ \E r \in call[t].borrows :
       outputs' = Cached(t, r) /\ adapters' = adapters \cup {<<r, outputs'[r]>>}
  /\ call' = [call EXCEPT ![t] = Idle]
  /\ UNCHANGED <<granted, phase, base, open, descs, streams, nextDesc, nextStream, dirs, stdStreams, handed>>

-----------------------------------------------------------------------------
(* Drops.  The runtime lets the guest drop only what it owns and has not lent. *)

DropDescriptor(r) ==
  /\ phase \in {"running", "ending"} /\ r \in DOMAIN descs \cap handed /\ ~Lent("desc", r)
  /\ descs' = Without(descs, r) /\ handed' = handed \ {r} /\ open' = open - 1
  /\ UNCHANGED <<granted, phase, base, streams, nextDesc, nextStream, outputs, dirs, stdStreams,
                 call, adapters>>

Forgotten(r) == Without(outputs, r)

\* dropStream: the table under one lock, then the caches under another.
DropStream(t, r) ==
  /\ phase \in {"running", "ending"} /\ call[t] = Idle /\ r \in DOMAIN streams
  /\ ~Lent("stream", r)
  /\ streams' = Without(streams, r)
  /\ call' = [call EXCEPT ![t] = [op |-> "dropStream", held |-> 1, borrows |-> {}, rep |-> r]]
  /\ UNCHANGED <<granted, phase, base, open, descs, nextDesc, nextStream, outputs, dirs, stdStreams, history>>

DropCaches(t) ==
  /\ call[t].op = "dropStream"
  /\ outputs' = Forgotten(call[t].rep) /\ Done(t)
  /\ adapters' = {p \in adapters : p[1] # call[t].rep}
  /\ UNCHANGED <<granted, phase, base, descs, streams, nextDesc, nextStream, dirs, stdStreams, handed>>

StandardFull == StreamsFull

ReserveStandardStream ==
  /\ phase = "running" /\ ~StandardFull /\ stdStreams' = stdStreams + 1
  /\ UNCHANGED <<granted, phase, base, open, descs, streams, nextDesc, nextStream, outputs, dirs,
                 call, history>>

ReleaseStandardStream ==
  /\ phase \in {"running", "ending"} /\ stdStreams > 0 /\ stdStreams' = stdStreams - 1
  /\ UNCHANGED <<granted, phase, base, open, descs, streams, nextDesc, nextStream, outputs, dirs,
                 call, history>>

DropDirectoryStream ==
  /\ phase \in {"running", "ending"} /\ dirs > 0 /\ dirs' = dirs - 1 /\ open' = open - 1
  /\ UNCHANGED <<granted, phase, base, descs, streams, nextDesc, nextStream, outputs, stdStreams,
                 call, history>>

ThreadStep(t) ==
  \/ Begin(t) \/ OpenParent(t) \/ Act(t) \/ Add(t)
  \/ GetDirectories(t) \/ GetDup(t) \/ GetAdd(t) \/ Rollback(t)
  \/ WriterStore(t) \/ DropCaches(t)
  \/ \E r \in 1..MaxReps : WriterBegin(t, r) \/ DropStream(t, r)

Next ==
  \/ \E i \in Mounts : PrepareMount(i)
  \/ Prepared \/ InstanceEnds \/ CloseMounts
  \/ \E t \in Threads : ThreadStep(t)
  \/ \E r \in 1..MaxReps : DropDescriptor(r)
  \/ ReserveStandardStream \/ ReleaseStandardStream \/ DropDirectoryStream

Spec == Init /\ [][Next]_vars

-----------------------------------------------------------------------------
(* Properties *)

\* Every open host file has exactly one owner: a mount, a table entry or a call
\* that is to close it or hand it over.  So no path of a handler, its failures
\* included, loses a file or closes one twice; and after Run has returned, also
\* from a preopen that failed half-way, no host file is open.
HandlesAccounted ==
  /\ open = Cardinality(base) + Cardinality(DOMAIN descs) + Cardinality(DOMAIN streams)
              + dirs + Cardinality(HeldFiles)
  /\ phase \in {"failed", "over"} => open = 0

\* The tables keep to their limits, standard and file streams together, though
\* calls of several threads pass the checks.
QuotasHold ==
  /\ Cardinality(DOMAIN descs) <= MaxDescriptors
  /\ Cardinality(DOMAIN streams) + stdStreams <= MaxStreams
  /\ dirs <= MaxDirectoryStreams

\* Whatever chain of opens and drops led to it, the host is asked to read,
\* write or rename only in a mount whose configuration grants that, by a call
\* or through a stream, and no call reaches from one mount into another.
EffectsGranted ==
  /\ \A t \in Threads : call[t].op = "desc" /\ call[t].effects # {} =>
       \E m \in Mounts : call[t].mounts = {m} /\ call[t].effects \subseteq granted[m]
  /\ \A r \in DOMAIN streams :
       (IF streams[r].read THEN "read" ELSE "write") \in granted[streams[r].mount]

\* A descriptor in the table has been given to the guest or is about to be: a
\* get-directories that fails leaves none that nobody can drop.
NoOrphan ==
  DOMAIN descs \subseteq
    handed \cup UNION {call[t].out : t \in {u \in Threads : call[u].op = "getDirectories"}}

\* All users of an output stream get the same adapter, so that its permits and
\* its pending write are one, and the cache holds nothing of a stream that has
\* been dropped (writer, subscribeOutput, dropStream).
OneAdapter ==
  /\ \A p, q \in adapters : p[1] = q[1] => p = q
  /\ DOMAIN outputs \subseteq
       DOMAIN streams \cup {call[t].rep : t \in {u \in Threads : call[u].op = "dropStream"}}
==============================================================================
