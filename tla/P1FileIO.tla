------------------------------- MODULE P1FileIO -------------------------------
(***************************************************************************)
(* Preview 1 descriptor input and output: fd_read, fd_write, fd_pread,     *)
(* fd_pwrite, fd_seek, fd_tell, fd_allocate, fd_filestat_set_size and      *)
(* fd_fdstat_set_flags, by several instances whose descriptors are open on *)
(* one host file.  A call makes one host call per vector, and the other    *)
(* instances run between two of them.  Bytes are named by their writer.    *)
(***************************************************************************)
EXTENDS Integers, Sequences, FiniteSets, FiniteSetsExt, SequencesExt

CONSTANTS
  Procs,      \* instances, each with one descriptor
  Kinds,      \* what the descriptor of each may be
  Rights,     \* the rights that a descriptor of each kind carries
  Platforms,  \* the host platforms: "linux", "darwin", "windows"
  Requests,   \* the calls the guest of each instance makes
  MaxIOVecs,  \* e.cfg.MaxIOVecs
  MaxU32,     \* the largest Preview 1 size
  MaxInt,     \* the largest host offset; guest offsets are mod 2*(MaxInt+1)
  MaxSize     \* bound: the room on the host's disk

ASSUME FileIOAssumption ==
  /\ {MaxIOVecs, MaxU32, MaxInt, MaxSize} \subseteq Nat
  /\ MaxSize <= MaxInt

VARIABLES
  platform,  \* the host
  file,      \* the bytes of the file; 0 is a hole
  fds,       \* the descriptors: kind, host position, entry flag, host flag
  call       \* the call each instance is in

vars == <<platform, file, fds, call>>

Idle == [pc |-> "idle"]

Init ==
  /\ platform \in Platforms /\ file = <<>>
  /\ \E kind \in [Procs -> UNION {Kinds[p] : p \in Procs}] :
       /\ \A p \in Procs : kind[p] \in Kinds[p]
       /\ fds = [p \in Procs |-> [kind |-> kind[p], pos |-> 0, append |-> FALSE, hostAppend |-> FALSE]]
  /\ call = [p \in Procs |-> Idle]

Word == 2 * (MaxInt + 1)
Signed(x) == IF x > MaxInt THEN x - Word ELSE x

\* f.file is set; the descriptor has a host file, its own or, as a standard
\* stream that is an *os.File, one the host passed in; and it is on the file.
HasFile(d) == d.kind \in {"file", "dir"}
HasHostFile(d) == d.kind \in {"file", "dir", "stdio"}
OnFile(d) == d.kind \in {"file", "stdio"}

(***************************************************************************)
(* What each handler checks before it touches the host, in its order: in   *)
(* "if code == 0 && condition { code = e }" the first condition that holds *)
(* gives the code.                                                         *)
(***************************************************************************)
FirstError(checks) ==
  LET failed == {i \in DOMAIN checks : checks[i][1]}
  IN  IF failed = {} THEN "OK" ELSE checks[Min(failed)][2]

Total(vecs) == FoldLeft(LAMBDA t, v : t + v.n, 0, vecs)

\* A vector is a length and whether it lies within the guest's memory.
TooLong(vecs, i) == Total(SubSeq(vecs, 1, i)) > MaxU32
Iovecs(r) ==
  LET wrong == {i \in DOMAIN r.vecs : ~r.vecs[i].ok \/ TooLong(r.vecs, i)}
  IN  FirstError(<< <<Len(r.vecs) > MaxIOVecs, "ENOMEM">>,
                    <<~r.table, "EFAULT">>,
                    <<wrong # {} /\ ~r.vecs[Min(wrong)].ok, "EFAULT">>,
                    <<wrong # {}, "EOVERFLOW">> >>)

Entry(d, rights) ==
  << <<d.kind = "closed", "EBADF">>, <<~(rights \subseteq Rights[d.kind]), "ENOTCAPABLE">> >>

\* fd_write and fd_read; fd_pwrite and fd_pread.
StreamChecks(d, right, r) ==
  FirstError(Entry(d, {right}) \o << <<Iovecs(r) # "OK", Iovecs(r)>>, <<~r.ptr, "EFAULT">> >>)
PositionedChecks(d, right, r) ==
  FirstError(Entry(d, {right, "seek"}) \o
             << <<Iovecs(r) # "OK", Iovecs(r)>>, <<r.off > MaxInt, "EOVERFLOW">>,
                <<~HasFile(d), "EBADF">>, <<~r.ptr, "EFAULT">> >>)

Target(d, r) == <<0, d.pos, Len(file)>>[r.whence + 1] + Signed(r.off)
SeekChecks(d, r) ==
  FirstError(Entry(d, {"seek"}) \o
             << <<~HasFile(d), "ESPIPE">>, <<d.kind = "dir", "EBADF">>,
                <<r.whence \notin 0..2, "EINVAL">>, <<~r.ptr, "EFAULT">> >>)
TellChecks(d) == FirstError(Entry(d, {"tell"}) \o << <<~HasFile(d), "ESPIPE">> >>)

\* end := p[1] + p[2] wraps as a uint64.
End(r) == (r.off + r.len) % Word
Wraps(r) == End(r) < r.off
AllocateChecks(d, r) ==
  FirstError(Entry(d, {"allocate"}) \o
             << <<~HasFile(d), "EBADF">>, <<Wraps(r) \/ End(r) > MaxInt, "EINVAL">> >>)
SetSizeChecks(d, r) ==
  FirstError(Entry(d, {"set_size"}) \o
             << <<~HasFile(d), "EBADF">>, <<r.len > MaxInt, "EOVERFLOW">> >>)
SetFlagsChecks(d, r) ==
  FirstError(Entry(d, {"set_flags"}) \o
             << <<r.others = "unknown", "EINVAL">>, <<r.others = "sync", "ENOTSUP">>,
                <<~HasHostFile(d) /\ (r.append \/ r.others = "nonblock"), "ENOTSUP">> >>)

Checks(d, r) ==
  CASE r.op \in {"write", "read"} -> StreamChecks(d, r.op, r)
    [] r.op = "pwrite" -> PositionedChecks(d, "write", r)
    [] r.op = "pread" -> PositionedChecks(d, "read", r)
    [] r.op = "seek" -> SeekChecks(d, r)
    [] r.op = "tell" -> TellChecks(d)
    [] r.op = "allocate" -> AllocateChecks(d, r)
    [] r.op = "set_size" -> SetSizeChecks(d, r)
    [] r.op = "set_flags" -> SetFlagsChecks(d, r)

Moving == {"write", "read", "pwrite", "pread"}

\* The result of a call stays visible until the guest goes on.
Done(p, code, count) ==
  call' = [call EXCEPT ![p] = [pc |-> "done", r |-> @.r, code |-> code, count |-> count,
                               moved |-> @.moved, start |-> @.start]]

Begin(p, r) ==
  /\ call[p].pc = "idle"
  /\ LET code == Checks(fds[p], r)
         new == [pc |-> "run", r |-> r, moved |-> 0, start |-> fds[p].pos]
     IN  IF code # "OK"
         THEN call' = [call EXCEPT ![p] = [pc |-> "done", r |-> r, code |-> code, count |-> 0,
                                           moved |-> 0, start |-> fds[p].pos]]
         ELSE call' = [call EXCEPT ![p] =
                IF r.op \in Moving
                THEN new @@ [bufs |-> r.vecs, off |-> IF r.op \in {"pwrite", "pread"} THEN r.off ELSE 0,
                             total |-> 0, err |-> FALSE, stop |-> FALSE]
                ELSE new]
  /\ UNCHANGED <<platform, file, fds>>

Return(p) ==
  /\ call[p].pc = "done"
  /\ call' = [call EXCEPT ![p] = Idle]
  /\ UNCHANGED <<platform, file, fds>>

(***************************************************************************)
(* The host: n bytes of p's at a place, the file growing over a hole.      *)
(***************************************************************************)
Put(at, n, p) ==
  IF n = 0 THEN file
  ELSE [i \in 1..Max({Len(file), at + n}) |->
          IF i > at /\ i <= at + n THEN p ELSE IF i <= Len(file) THEN file[i] ELSE 0]
Resized(n) == [i \in 1..n |-> IF i <= Len(file) THEN file[i] ELSE 0]

\* A read or a write may be short, with or without an error; a stream's may
\* return a count that makes no sense.
WriteOutcomes(d, at, len) ==
  CASE d.kind = "stream" -> [n : -1..(len + 1), err : BOOLEAN]
    [] d.kind = "none" -> {[n |-> len, err |-> FALSE]}
    [] d.kind = "dir" -> {[n |-> 0, err |-> TRUE]}
    [] OTHER -> {o \in [n : 0..len, err : BOOLEAN] : at + o.n <= MaxSize}
ReadOutcomes(d, at, len) ==
  LET left == Max({0, Len(file) - at})
  IN  CASE d.kind = "stream" -> [n : -1..(len + 1), err : {"none", "eof", "fail"}]
        [] d.kind = "none" -> {[n |-> 0, err |-> "eof"]}
        [] d.kind = "dir" -> {[n |-> 0, err |-> "fail"]}
        [] OTHER -> {o \in [n : 0..Min({len, left}), err : {"none", "eof", "fail"}] :
                       /\ o.err = "none" /\ o.n = 0 => len = 0
                       /\ o.err = "eof" => o.n = left /\ left < len}

Sensible(o, len) == o.n \in 0..len
Head0(c) == Head(c.bufs).n
InLoop(p, op) ==
  call[p].pc = "run" /\ call[p].r.op = op /\ call[p].bufs # <<>> /\ ~call[p].stop

\* One turn of a transfer's loop.
Turn(c, n, err, stop) ==
  [c EXCEPT !.bufs = Tail(@), !.off = @ + n, !.total = @ + n, !.moved = @ + n,
            !.err = err, !.stop = stop]

\* Where a write lands: at the end of the file when the host's handle says so.
At(d, place) == IF d.hostAppend THEN Len(file) ELSE place

FdWrite(p) ==
  /\ InLoop(p, "write")
  /\ LET c == call[p]  d == fds[p]  len == Head0(c)  at == At(d, d.pos)
     IN  \E o \in WriteOutcomes(d, at, len) :
           LET n == IF Sensible(o, len) THEN o.n ELSE 0
               err == o.err \/ o.n # len
           IN  /\ call' = [call EXCEPT ![p] = Turn(c, n, err, err)]
               /\ file' = IF OnFile(d) THEN Put(at, n, p) ELSE file
               /\ fds' = IF OnFile(d) /\ n > 0 THEN [fds EXCEPT ![p].pos = at + n] ELSE fds
  /\ UNCHANGED platform

FdRead(p) ==
  /\ InLoop(p, "read")
  /\ LET c == call[p]  d == fds[p]  len == Head0(c)
     IN  \E o \in ReadOutcomes(d, d.pos, len) :
           LET n == IF Sensible(o, len) THEN o.n ELSE 0
               failed == o.err = "fail" \/ ~Sensible(o, len)
           IN  /\ call' = [call EXCEPT ![p] = Turn(c, n, failed, failed \/ o.err = "eof" \/ n < len)]
               /\ fds' = IF HasHostFile(d) THEN [fds EXCEPT ![p].pos = @ + n] ELSE fds
  /\ UNCHANGED <<platform, file>>

\* pwrite on a host handle in append mode appends; Windows does it with
\* file.Write, which also moves the position.
WriteAtMoves(d) == platform = "windows" /\ d.append
WriteAt(p) ==
  /\ InLoop(p, "pwrite")
  /\ LET c == call[p]  d == fds[p]  len == Head0(c)
         at == At(d, IF WriteAtMoves(d) THEN d.pos ELSE c.off)
     IN  \E o \in WriteOutcomes(d, at, len) :
           /\ call' = [call EXCEPT ![p] = Turn(c, o.n, o.err, o.err \/ o.n < len)]
           /\ file' = Put(at, o.n, p)
           /\ fds' = IF WriteAtMoves(d) /\ o.n > 0 THEN [fds EXCEPT ![p].pos = at + o.n] ELSE fds
  /\ UNCHANGED platform

ReadAt(p) ==
  /\ InLoop(p, "pread")
  /\ LET c == call[p]  d == fds[p]  len == Head0(c)
     IN  \E o \in ReadOutcomes(d, c.off, len) :
           call' = [call EXCEPT ![p] = Turn(c, o.n, o.err = "fail", o.err = "fail" \/ o.n < len)]
  /\ UNCHANGED <<platform, file, fds>>

\* Mutant: the error of a vector is reported although others moved bytes.
FailedAlways(c) == c.err

\* What a transfer reports: an error only when nothing moved, except that
\* fd_pread reports the error of a later vector too.
Failed(c) == c.err /\ (c.total = 0 \/ c.r.op = "pread")
Finish(p) ==
  /\ call[p].pc = "run" /\ call[p].r.op \in Moving
  /\ call[p].bufs = <<>> \/ call[p].stop
  /\ IF Failed(call[p]) THEN Done(p, "EIO", 0) ELSE Done(p, "OK", call[p].total)
  /\ UNCHANGED <<platform, file, fds>>

Running(p, op) == call[p].pc = "run" /\ call[p].r.op = op

HostFails(p) ==
  /\ call[p].pc = "sized" \/ \E op \in {"allocate", "set_size", "set_flags"} : Running(p, op)
  /\ Done(p, "EIO", 0)
  /\ UNCHANGED <<platform, file, fds>>

\* The host refuses a negative offset, and one beyond the bound MaxSize.
FdSeek(p) ==
  /\ Running(p, "seek")
  /\ LET at == Target(fds[p], call[p].r)
     IN  IF at \notin 0..MaxSize THEN Done(p, "EINVAL", 0) /\ UNCHANGED fds
         ELSE Done(p, "OK", at) /\ fds' = [fds EXCEPT ![p].pos = at]
  /\ UNCHANGED <<platform, file>>

FdTell(p) ==
  /\ Running(p, "tell")
  /\ IF call[p].r.ptr THEN Done(p, "OK", fds[p].pos) ELSE Done(p, "EFAULT", 0)
  /\ UNCHANGED <<platform, file, fds>>

FdFilestatSetSize(p) ==
  /\ Running(p, "set_size") /\ fds[p].kind = "file" /\ call[p].r.len <= MaxSize
  /\ file' = Resized(call[p].r.len)
  /\ Done(p, "OK", 0)
  /\ UNCHANGED <<platform, fds>>
\* Linux: fallocate, which refuses a negative offset and grows the file.
AllocateLinux(p) ==
  /\ Running(p, "allocate") /\ platform = "linux" /\ fds[p].kind = "file"
  /\ LET r == call[p].r
     IN  /\ r.off <= MaxInt /\ r.len \in 1..MaxInt /\ r.off + r.len <= MaxSize
         /\ file' = Resized(Max({Len(file), r.off + r.len}))
  /\ Done(p, "OK", 0)
  /\ UNCHANGED <<platform, fds>>

\* Elsewhere the size is read first.  Darwin asks where the next hole is,
\* puts the position back, and gives up on a hole within the old file.
Holes(off, end, size) == \E i \in (off + 1)..Min({end, size}) : file[i] = 0
AllocateStat(p) ==
  /\ Running(p, "allocate") /\ platform # "linux" /\ fds[p].kind = "file"
  /\ LET r == call[p].r
         queried == platform = "darwin" /\ r.off < Len(file) /\ r.len > 0
     IN  IF queried /\ Holes(r.off, End(r), Len(file))
         THEN Done(p, "EOPNOTSUPP", 0)
         ELSE call' = [call EXCEPT ![p] = [pc |-> "sized", r |-> r, seen |-> Len(file),
                                           moved |-> 0, start |-> @.start]]
  /\ UNCHANGED <<platform, file, fds>>

\* Mutant: the file is truncated to the end of the range in any case.
GrowsAlways(c) == TRUE

\* info.Size() < end
Grows(c) == c.seen < End(c.r)
AllocateGrow(p) ==
  /\ call[p].pc = "sized"
  /\ IF Grows(call[p])
     THEN End(call[p].r) <= MaxSize /\ file' = Resized(End(call[p].r))
     ELSE UNCHANGED file
  /\ Done(p, "OK", 0)
  /\ UNCHANGED <<platform, fds>>

\* Windows reopens the handle to append, seeks it to where it was, and makes
\* it the entry's file.
PositionReopened(d) == d.pos

\* Mutant: the flag is recorded but the host file is left as it was opened.
HostFlagKept(d, r) == d.hostAppend

HostFlag(d, r) == HasHostFile(d) /\ r.append
FdFdstatSetFlags(p) ==
  /\ Running(p, "set_flags") /\ (platform = "windows" => call[p].r.others # "nonblock")
  /\ LET d == fds[p]  r == call[p].r
         reopened == platform = "windows" /\ HasHostFile(d) /\ r.append # d.append
     IN  fds' = [fds EXCEPT ![p] =
                   [d EXCEPT !.append = r.append, !.hostAppend = HostFlag(d, r),
                             !.kind = IF reopened /\ @ = "stdio" THEN "file" ELSE @,
                             !.pos = IF reopened THEN PositionReopened(d) ELSE @]]
  /\ Done(p, "OK", 0)
  /\ UNCHANGED <<platform, file>>

Step(p) ==
  \/ FdWrite(p) \/ FdRead(p) \/ WriteAt(p) \/ ReadAt(p) \/ Finish(p)
  \/ FdSeek(p) \/ FdTell(p) \/ FdFilestatSetSize(p)
  \/ AllocateLinux(p) \/ AllocateStat(p) \/ AllocateGrow(p)
  \/ FdFdstatSetFlags(p) \/ HostFails(p)

Next == \E p \in Procs : Step(p) \/ Return(p) \/ \E r \in Requests[p] : Begin(p, r)

Spec == Init /\ [][Next]_vars

-------------------------------------------------------------------------------
(***************************************************************************)
(* Properties.                                                             *)
(***************************************************************************)

\* Every byte a call moved is reported, and no others: fd_read, fd_write and
\* fd_pwrite return an error only when no vector moved a byte, a host stream's
\* senseless count included.  The descriptor's position moves by what fd_read
\* and fd_write report and by fd_seek; the positioned calls, the allocation's
\* hole query and the reopening of a Windows handle leave it alone.
TransfersAccounted ==
  \A p \in Procs : call[p].pc = "done" =>
    LET c == call[p]  pos == fds[p].pos
    IN  /\ c.r.op \in {"read", "write", "pwrite"} => c.count = c.moved /\ c.count \in 0..MaxU32
        /\ OnFile(fds[p]) =>
             CASE c.r.op = "read" \/ (c.r.op = "write" /\ ~fds[p].append) -> pos = c.start + c.count
               [] c.r.op = "seek" /\ c.code = "OK" -> pos = c.count
               [] c.r.op = "write" \/ (c.r.op = "pwrite" /\ WriteAtMoves(fds[p])) -> TRUE
               [] OTHER -> pos = c.start

\* A write by a descriptor in append mode leaves every byte already in the
\* file where it is, whoever wrote it and whatever happened between two
\* vectors: the entry's flag and the host's handle agree (setHostFileFlags).
AppendNeverOverwrites ==
  [][\A p \in Procs :
       fds[p].append /\ call[p].pc = "run" /\ call[p].r.op \in {"write", "pwrite"}
         /\ call'[p] # call[p] => IsPrefix(file, file')]_vars

\* fd_allocate never drops a byte that was in the file when it read the size,
\* though it grows the file by setting its size; and when it succeeds the file
\* covers the range it was asked for, as numbers: the sum that wraps is refused.
AllocateKeepsAndCovers ==
  [][\A p \in Procs :
       LET c == call[p]
           seen == IF c.pc = "sized" THEN c.seen ELSE 0
       IN  c.pc \in {"run", "sized"} /\ c.r.op = "allocate" /\ call'[p].pc = "done" =>
             /\ IsPrefix(SubSeq(file, 1, Min({seen, Len(file)})), file')
             /\ call'[p].code = "OK" => c.r.off + c.r.len <= Max({Len(file'), seen})]_vars
===============================================================================
