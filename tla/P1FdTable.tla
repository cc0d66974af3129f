------------------------------ MODULE P1FdTable ------------------------------
(***************************************************************************)
(* The descriptor table of one Preview 1 instance (fsState.fds): preopens, *)
(* path_open, fd_close, fd_renumber, fd_fdstat_set_rights, the directory   *)
(* iterator fd_readdir keeps, and closeFS.  Every operation runs under the *)
(* state's lock, so each is one action; a call refused before it changes   *)
(* anything is a stuttering step.                                          *)
(*                                                                         *)
(* Rights are sets of names.  Only the rights these operations look at are *)
(* kept; fd_size stands for fd_allocate and fd_filestat_set_size, which    *)
(* path_open treats alike, and path_mutate for directoryMutationRights,    *)
(* which a mount grants together.                                          *)
(***************************************************************************)
EXTENDS Integers, FiniteSets, Sequences

CONSTANTS Mounts,         \* configured mounts
          MountSeq,       \* the mounts in the order of their guest paths
          Grant,          \* per mount: [read, write, mutate : BOOLEAN]
          Files,          \* host file objects; bounds how many are open
          Asked,          \* the sets of rights guests ask for
          Std,            \* number of standard streams (3 in the code)
          Width,          \* fd numbers wrap at Width (2^32 in the code)
          RenumberLimit,  \* largest target of fd_renumber (2^31 - 1)
          MaxFDs,         \* fsState.maxFDs
          NoFile, NoMount, NoEntry,
          Stale           \* a dirIter that was closed and not replaced

Rights == {"path_open", "fd_readdir", "path_mutate", "path_set_size",
           "fd_read", "fd_write", "fd_size"}

FD == 0..(Width - 1)

ASSUME FdAssumption ==
  /\ Width \in Nat /\ MaxFDs \in Nat /\ MaxFDs < Width /\ Std \in Nat
  /\ RenumberLimit \in FD
  /\ MountSeq \in Seq(Mounts) /\ Std + Len(MountSeq) <= MaxFDs
  /\ \A i, j \in 1..Len(MountSeq) : MountSeq[i] = MountSeq[j] => i = j
  /\ Grant \in [Mounts -> [read : BOOLEAN, write : BOOLEAN, mutate : BOOLEAN]]
  /\ Asked \subseteq SUBSET Rights
  /\ NoFile \notin Files /\ Stale \notin Files /\ NoFile # Stale
  /\ NoMount \notin Mounts

VARIABLES fds,      \* fsState.fds
          nextFD,   \* fsState.nextFD
          hosts,    \* the host files that are open, and how
          effects   \* history: what the last call changed on the host, by mount

vars == <<fds, nextFD, hosts, effects>>

-----------------------------------------------------------------------------
(* Rights *)

DirectoryReadRights == {"path_open", "fd_readdir"}
FileReadRights == {"fd_read"}
FileWriteRights == {"fd_write", "fd_size"}
DirectoryMutationRights == {"path_mutate"}
DirectoryRights ==
  {"path_open", "fd_readdir", "path_mutate", "path_set_size"}

If(cond, set) == IF cond THEN set ELSE {}

MountRights(m) ==
  If(Grant[m].read, DirectoryReadRights)
    \cup If(Grant[m].write, {"path_open", "path_set_size"})
    \cup If(Grant[m].mutate, DirectoryMutationRights)

Inherited(m) ==
  If(Grant[m].read, DirectoryReadRights \cup FileReadRights)
    \cup If(Grant[m].write, FileWriteRights \cup {"path_open", "path_set_size"})
    \cup If(Grant[m].mutate, DirectoryMutationRights)

-----------------------------------------------------------------------------
(* Entries and host files *)

Entry == [file : Files \cup {NoFile}, iter : Files \cup {NoFile, Stale},
          rights : SUBSET Rights, inheriting : SUBSET Rights,
          mount : Mounts \cup {NoMount}]
ASSUME NoEntryAssumption == NoEntry \notin Entry

HostFile == [dir : BOOLEAN, mode : {"r", "w", "rw"}, mount : Mounts]

Closed == [dir |-> FALSE, mode |-> "none", mount |-> NoMount]

TypeOK ==
  /\ fds \in [FD -> Entry \cup {NoEntry}]
  /\ nextFD \in FD
  /\ hosts \in [Files -> HostFile \cup {Closed}]
  /\ effects \in SUBSET (Mounts \X {"create", "truncate", "write", "mutate"})

Used == {fd \in FD : fds[fd] # NoEntry}
Open == {f \in Files : hosts[f] # Closed}

StdEntry(fd) ==
  [file |-> NoFile, iter |-> NoFile,
   rights |-> IF fd = 0 THEN {"fd_read"} ELSE {"fd_write"},
   inheriting |-> {}, mount |-> NoMount]

Preopen(f, m) ==
  [file |-> f, iter |-> NoFile, rights |-> MountRights(m),
   inheriting |-> Inherited(m), mount |-> m]

\* makeFS: the standard streams, then the preopens behind them.
Init ==
  \E of \in [1..Len(MountSeq) -> Files] :
    /\ \A i, j \in 1..Len(MountSeq) : of[i] = of[j] => i = j
    /\ fds = [fd \in FD |->
                IF fd < Std THEN StdEntry(fd)
                ELSE IF fd < Std + Len(MountSeq)
                     THEN Preopen(of[fd - Std + 1], MountSeq[fd - Std + 1])
                     ELSE NoEntry]
    /\ nextFD = Std + Len(MountSeq)
    /\ hosts = [f \in Files |->
                  IF \E i \in 1..Len(MountSeq) : of[i] = f
                  THEN [dir |-> TRUE, mode |-> "r",
                        mount |-> MountSeq[CHOOSE i \in 1..Len(MountSeq) :
                                             of[i] = f]]
                  ELSE Closed]
    /\ effects = {}

Require(fd, right) == fds[fd] # NoEntry /\ right \in fds[fd].rights

\* resolve: fd is a directory the guest may look up names in.
Resolve(fd) ==
  fds[fd] # NoEntry /\ fds[fd].file # NoFile /\ hosts[fds[fd].file].dir

\* The host files an entry refers to, and closing them.
Held(entry) == {entry.file, entry.iter} \cap Files
CloseHosts(closing) ==
  [f \in Files |-> IF f \in closing THEN Closed ELSE hosts[f]]

-----------------------------------------------------------------------------
(* path_open *)

\* alloc's probe: the first free number from nextFD on, with uint32 wrap-around.
Fresh(start) ==
  CHOOSE fd \in FD \ Used :
    \A g \in FD \ Used : (fd - start) % Width <= (g - start) % Width

Alloc(entry) ==
  LET fd == Fresh(nextFD)
  IN  /\ Cardinality(Used) < MaxFDs
      /\ fds' = [fds EXCEPT ![fd] = entry]
      /\ nextFD' = (fd + 1) % Width

\* What a guest passes to path_open, besides the directory and the name.
Request == [create : BOOLEAN, trunc : BOOLEAN, directory : BOOLEAN,
            rights : Asked, inheriting : Asked]

\* Mutant: no right is required to truncate.
PathOpenAllowedTruncating(fd, q) ==
  /\ Resolve(fd) /\ Require(fd, "path_open")
  /\ q.rights \cup q.inheriting \subseteq fds[fd].inheriting
  /\ q.create => Require(fd, "path_mutate")
  /\ Cardinality(Used) < MaxFDs

\* Mutant: the limit is left to alloc.
PathOpenAllowedOverLimit(fd, q) ==
  /\ Resolve(fd) /\ Require(fd, "path_open")
  /\ q.rights \cup q.inheriting \subseteq fds[fd].inheriting
  /\ q.create => Require(fd, "path_mutate")
  /\ q.trunc => Require(fd, "path_set_size")

\* Every check pathOpen makes before the host is asked to open anything.
PathOpenAllowed(fd, q) ==
  /\ Resolve(fd) /\ Require(fd, "path_open")
  /\ q.rights \cup q.inheriting \subseteq fds[fd].inheriting
  /\ q.create => Require(fd, "path_mutate")
  /\ q.trunc => Require(fd, "path_set_size")
  /\ Cardinality(Used) < MaxFDs

HostWrite(q) == q.rights \cap FileWriteRights # {} \/ q.trunc

Mode(q) ==
  IF HostWrite(q) THEN IF "fd_read" \in q.rights THEN "rw" ELSE "w" ELSE "r"

\* What the host may make of an open with these flags: a file unless
\* O_DIRECTORY is given, and a directory without O_TRUNC.  Windows opens
\* directories also for writing and with O_CREAT, which creates one where both
\* are given; the others only for reading an existing one.  (The mode of a
\* directory makes no difference to anything and is always "r" here.)
HostOpens(q) ==
  If(~q.trunc, {[dir |-> TRUE, mode |-> "r"]})
    \cup If(~q.directory, {[dir |-> FALSE, mode |-> Mode(q)]})

\* The retry after a failed open for rights that a directory does not keep.
RetryCandidates(q) ==
  If(HostWrite(q) /\ "fd_write" \notin q.rights /\ ~q.create /\ ~q.trunc,
     {[dir |-> d, mode |-> "r"] : d \in BOOLEAN})

\* Mutant: the retry keeps what it opened even when that is a regular file.
RetryOpensAny(q) == RetryCandidates(q)

RetryOpens(q) == {o \in RetryCandidates(q) : o.dir}

\* What an open may have changed on the host, whether or not it succeeded.
OpenEffects(fd, q) ==
  {fds[fd].mount} \X (If(q.create, {"create"}) \cup If(q.trunc, {"truncate"}))

\* The host has opened o as f below the directory at fd.
Opened(fd, f, o) ==
  [hosts EXCEPT ![f] = [dir |-> o.dir, mode |-> o.mode, mount |-> fds[fd].mount]]

\* The file is open and passed the checks on what it turned out to be.  The
\* result pointer was checked beforehand, so storing fd cannot fail.
PathOpen(fd, q, f) ==
  /\ PathOpenAllowed(fd, q)
  /\ f \notin Open
  /\ \E o \in HostOpens(q) \cup RetryOpens(q) :
       /\ q.directory => o.dir
       /\ ~(o.dir /\ "fd_write" \in q.rights)
       /\ hosts' = Opened(fd, f, o)
       /\ Alloc([file |-> f, iter |-> NoFile,
                 rights |-> IF o.dir THEN q.rights \cap DirectoryRights
                                     ELSE q.rights,
                 inheriting |-> q.inheriting, mount |-> fds[fd].mount])
  /\ effects' \in SUBSET OpenEffects(fd, q)

\* Mutant: what was opened in vain stays open.
PathOpenRejectsOpen(fd, q, f) ==
  /\ PathOpenAllowed(fd, q)
  /\ f \notin Open
  /\ \E o \in HostOpens(q) \cup RetryCandidates(q) : hosts' = Opened(fd, f, o)
  /\ effects' \in SUBSET OpenEffects(fd, q)
  /\ UNCHANGED <<fds, nextFD>>

\* The file is open, but Stat fails or it is the wrong kind: it is closed again.
PathOpenRejects(fd, q, f) ==
  /\ PathOpenAllowed(fd, q)
  /\ f \notin Open
  /\ \E o \in HostOpens(q) \cup RetryCandidates(q) :
       hosts' = [Opened(fd, f, o) EXCEPT ![f] = Closed]
  /\ effects' \in SUBSET OpenEffects(fd, q)
  /\ UNCHANGED <<fds, nextFD>>

\* The host refused.
PathOpenFails(fd, q) ==
  /\ PathOpenAllowed(fd, q)
  /\ effects' \in SUBSET OpenEffects(fd, q)
  /\ UNCHANGED <<fds, nextFD, hosts>>

-----------------------------------------------------------------------------
(* The other operations on the table *)

FdClose(fd) ==
  /\ fds[fd] # NoEntry
  /\ hosts' = CloseHosts(Held(fds[fd]))
  /\ fds' = [fds EXCEPT ![fd] = NoEntry]
  /\ effects' = {}
  /\ UNCHANGED nextFD

FdRenumber(from, to) ==
  /\ fds[from] # NoEntry /\ fds[to] # NoEntry
  /\ to <= RenumberLimit /\ from # to
  /\ hosts' = CloseHosts(Held(fds[to]))
  /\ fds' = [fds EXCEPT ![to] = fds[from], ![from] = NoEntry]
  /\ effects' = {}
  /\ UNCHANGED nextFD

FdFdstatSetRights(fd, base, inheriting) ==
  /\ fds[fd] # NoEntry
  /\ base \subseteq fds[fd].rights
  /\ inheriting \subseteq fds[fd].inheriting
  /\ fds' = [fds EXCEPT ![fd].rights = base, ![fd].inheriting = inheriting]
  /\ effects' = {}
  /\ UNCHANGED <<nextFD, hosts>>

\* fd_readdir, when positionDirectory needs a new iterator and gets one: f.
FdReaddirReopens(fd, f) ==
  /\ Require(fd, "fd_readdir") /\ fds[fd].file # NoFile
  /\ hosts[fds[fd].file].dir
  /\ f \notin Open
  /\ hosts' = [CloseHosts({fds[fd].iter}) EXCEPT
                 ![f] = [dir |-> TRUE, mode |-> "r", mount |-> fds[fd].mount]]
  /\ fds' = [fds EXCEPT ![fd].iter = f]
  /\ effects' = {}
  /\ UNCHANGED nextFD

\* The same, when openAt fails: the old iterator is closed but still referred
\* to.
FdReaddirFails(fd) ==
  /\ Require(fd, "fd_readdir") /\ fds[fd].file # NoFile
  /\ hosts' = CloseHosts({fds[fd].iter})
  /\ fds' = [fds EXCEPT ![fd].iter = IF @ = NoFile THEN NoFile ELSE Stale]
  /\ effects' = {}
  /\ UNCHANGED nextFD

\* fd_write and fd_pwrite to a file, fd_allocate and fd_filestat_set_size.  The
\* host takes them only on a file open for writing.
FdChange(fd) ==
  /\ \E right \in FileWriteRights : Require(fd, right)
  /\ fds[fd].file # NoFile
  /\ hosts[fds[fd].file].mode \in {"w", "rw"}
  /\ effects' = {<<fds[fd].mount, "write">>}
  /\ UNCHANGED <<fds, nextFD, hosts>>

\* path_create_directory, path_unlink_file, path_remove_directory,
\* path_symlink; path_rename and path_link need it of both directories.
PathMutate(fd) ==
  /\ Resolve(fd) /\ Require(fd, "path_mutate")
  /\ effects' = {<<fds[fd].mount, "mutate">>}
  /\ UNCHANGED <<fds, nextFD, hosts>>

\* closeFS: the state is closed and no call will be made on it again.
CloseTable ==
  /\ hosts' = CloseHosts(UNION {Held(fds[fd]) : fd \in Used})
  /\ fds' = [fd \in FD |-> NoEntry]
  /\ effects' = {}
  /\ UNCHANGED nextFD

Next ==
  \/ \E fd \in FD, q \in Request :
       \/ \E f \in Files : PathOpen(fd, q, f) \/ PathOpenRejects(fd, q, f)
       \/ PathOpenFails(fd, q)
  \/ \E fd \in FD :
       \/ FdClose(fd)
       \/ FdReaddirFails(fd)
       \/ FdChange(fd)
       \/ PathMutate(fd)
       \/ \E to \in FD : FdRenumber(fd, to)
       \/ \E base, inheriting \in Asked : FdFdstatSetRights(fd, base, inheriting)
       \/ \E f \in Files : FdReaddirReopens(fd, f)
  \/ CloseTable

Spec == Init /\ [][Next]_vars

-----------------------------------------------------------------------------
(* Properties *)

\* The places that refer to host file f.
Owners(f) ==
  {fd \in Used : fds[fd].file = f} \X {"file"}
    \cup {fd \in Used : fds[fd].iter = f} \X {"iter"}

\* Every open host file is referred to from exactly one place in the table,
\* and what the table refers to is open: pathOpen's error paths, alloc's
\* wrap-around, fd_renumber onto an open descriptor and positionDirectory leak
\* nothing and close nothing twice.  (An iterator that could not be replaced
\* stays behind closed: Stale.)
HostFilesOwned ==
  /\ \A f \in Open : Cardinality(Owners(f)) = 1
  /\ \A fd \in Used : Held(fds[fd]) \subseteq Open

\* The table never outgrows MaxOpenFiles.
TableBounded == Cardinality(Used) <= MaxFDs

\* What a descriptor may do, or may pass on, its mount was configured with,
\* however many path_open, fd_renumber and fd_fdstat_set_rights lie between.
RightsWithinMount ==
  \A fd \in Used :
    fds[fd].mount # NoMount =>
      fds[fd].rights \cup fds[fd].inheriting \subseteq Inherited(fds[fd].mount)

\* A right to read or to change data comes with a host file opened for it, and
\* no directory descriptor has such a right (pathOpen's access mode, its retry,
\* and the rights it removes from directories).
ModeMatchesRights ==
  \A fd \in Used :
    fds[fd].file # NoFile =>
      LET h == hosts[fds[fd].file] IN
      /\ "fd_read" \in fds[fd].rights => h.mode \in {"r", "rw"} /\ ~h.dir
      /\ fds[fd].rights \cap FileWriteRights # {} =>
           h.mode \in {"w", "rw"} /\ ~h.dir

\* The host is changed only as the mount's configuration allows: contents on a
\* mount with Write, names on one with MutateDirectory.
EffectsGranted ==
  \A e \in effects :
    IF e[2] \in {"truncate", "write"} THEN Grant[e[1]].write
    ELSE Grant[e[1]].mutate

\* "The guest descriptor limit must be checked before either flag reaches"
\* openAt: a path_open that fails with EMFILE created and truncated nothing.
FullOpensNothing ==
  [][Cardinality(Used) >= MaxFDs =>
       effects' \subseteq Mounts \X {"write", "mutate"}]_vars

\* The rights attached to an open file only shrink, whatever number the file
\* is moved to.
RightsOnlyShrink ==
  [][\A a, b \in FD :
       /\ fds[a] # NoEntry /\ fds'[b] # NoEntry
       /\ fds[a].file # NoFile /\ fds[a].file = fds'[b].file
       => /\ fds'[b].rights \subseteq fds[a].rights
          /\ fds'[b].inheriting \subseteq fds[a].inheriting]_vars
==============================================================================
