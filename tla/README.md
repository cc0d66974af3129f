# TLA+ models of the WASI providers

This directory models the Go host implementation of WASI Preview 1 and
Preview 2 in `src/`: what runs concurrently, what is shared, what is closed by
whom, and what a guest can rely on. The modules are written from the source; the
`map` of `PROJECT.json` says which lines each definition stands for.

## The system

**Preview 1** (`src/internal/core`, selected by `src/p1` and `src/register`) is
a plugin. The runtime registers it, starts it once, calls its 46 host functions
from the goroutines its guests run on, tells it when an instance closes and
stops it once.

| part | source | what it does |
| --- | --- | --- |
| lifecycle | `core.go`, `fs.go` | `start`, `stop`; one `fsState` per instance identity, created on first use, closed by `closeInstance` or `closeAll`; each host call runs under its state's lock |
| descriptor table | `fs.go`, `core.go` | fds 0-2, preopens, `path_open`, `fd_close`, `fd_renumber`, rights, the open-file limit |
| directory reading | `fs.go` | `fd_readdir` with cookies over a cached directory iterator |
| file and stream I/O | `core.go`, `fs.go` | `fd_read/write/pread/pwrite/seek/tell`, stat, times, sizes |
| paths | `fs.go`, `fs_linux.go`, `fs_darwin.go`, `fs_windows.go`, `../winfs` | resolution beneath a mount, link, rename, symlink, unlink |
| poll | `poll.go`, `poll_unix.go`, `poll_windows.go`, `clock.go` | `poll_oneoff`: subscriptions, deadlines, waiting, cancellation |
| arguments, environment, clocks, random | `core.go`, `clock.go` | copying host values into guest memory |
| configuration | `core.go`, `definition.go`, `wasi.go`, `p1/p1.go` | JSON decoding and validation of the plugin's options |

**Preview 2** (`src/p2`) builds component-model imports for one run of a
component.

| part | source | what it does |
| --- | --- | --- |
| input adapter | `io.go` | `asyncInput`: a blocking `io.Reader` as a pollable stream |
| output adapter | `io.go` | `outputAdapter`: a blocking `io.Writer` behind a one-slot queue and a worker |
| poll-safe output | `io.go` | `pollSafeOutput`: keeps what a readiness probe learnt |
| streams of an instance | `p2.go` | `hostState`, read/write/flush/splice/skip and their blocking forms, write permits |
| stdin | `clocks.go`, `p2.go` | `stdinMu`, buffered bytes, the pending error |
| clocks and poll | `clocks.go` | timers, `poll`, `block`, the waiting workers |
| filesystem | `filesystem.go`, `path*.go`, `directory*.go`, `stat*.go`, `set_times*.go`, `mutation_leaf*.go` | descriptors, file streams, preopens, path operations |
| resources and quotas | `filesystem.go`, `p2.go`, `sockets.go` | bounded tables of descriptors, streams, pollables, errors, networks |
| sockets | `sockets.go` | denied network resources |

`src/cmd/wit-surface` is a build tool and `src/register/catalog.go` a constant.

The parts meet in few places. In Preview 1 every host call goes through
`binding.callback`, which finds the state of the calling instance and locks it;
the table, the I/O and `poll_oneoff` run under that lock. In Preview 2 calls of
several threads run at once; each table has a lock that is held for one lookup
or insertion, and each stream and adapter has its own. A poll starts a goroutine
per pollable, which waits on the same streams the guest uses.

## Modules

`MC*` modules hold the values TLC needs, `*Proofs` modules the proofs. Definitions under a comment "Mutant:" are used by no specification;
each is a plausible mistake in the definition that follows, and some property
notices it when it takes that definition's place.

### Preview 1

`P1Lifecycle` - the provider as a whole. The guard (`fs`, `states`, `claimed`,
`closed`) is what `fsState`'s guard holds; what the code does under `guard.mu`
is one action (`EnterKnown`, `EnterClaim`, `CloseInstance`, `CloseAll`), except
that `makeFS`, for `start` or for a call (`EnterNew`), opens and stores its
preopens one by one (`OpenPreopen`, `StorePreopen`) and may fail at each
(`MakeFSFails`); until a call's `makeFS` is done nobody else gets the guard
(`GuardFree`). A state's own lock is the variable `mu`, because handlers may block
in `poll_oneoff` or on a host stream while they hold it: `LockState` is
`state.mu.Lock()` with the check of `state.closed` behind it; `HandlerReturns`,
`HandlerBlocks`, `HandlerWakes` and `PollInterrupted` are a handler reduced to
what others see of it. `closeInstance` (one per identity) and `closeAll` are
sequences of steps that interleave with everything.

`P1FdTable` - the table of one state. Each host call runs under the state's
lock and is one action. Rights are sets; the host is a set of open files with
their access mode, and `effects` is what the last call changed on it. What the
host makes of an open is a choice among what its flags permit; a file that was
opened and then turned out to be of the wrong kind is opened and closed
(`PathOpenRejects`). The iterator that `fd_readdir` keeps is a second host file of an entry.

`P1FileIO` - reading, writing, seeking, allocating and resizing on descriptors
of several instances that are open on one host file. A call makes one host call
per vector and the others run in between. Bytes are named by their writer;
offsets and sizes have a small width and wrap as the code's do. A descriptor is
a file, a directory, a stream, a standard stream that is an `*os.File`, or
closed; its rights are those `makeFS` and `path_open` give to its kind, so that
`fd_fdstat_set_flags` on a standard stream is refused for want of a right before
it comes to the flags. The platform is a constant of a behaviour, because appending, positioned writes and allocation
differ.

`P1Poll` - one `poll_oneoff`: the checks, the first look, the wait, the measured
time, the second look and the pause, with streams that become ready and unready
and a context that may end at any time. Times are numbers of a small width that
saturate where the code's do: the measured time at the largest `uint64`, what
remains and an interval at the largest `Duration`. `passed` is the time that
really went by, which the code does not know.

`PathWalk` - the four walks that resolve a guest path component by component
below a handle (Linux without `openat2`, Darwin, Windows, Preview 2), with the
handles they keep for `..`, on a small tree whose directories other processes
rename. They open, create (exclusively or not), take a handle for metadata, or
only stat, with or without following a last link. `PathMeaning` says with `Resolve` what a path means on a tree that does
not change; it is apart because `Resolve` is recursive.

### Preview 2

`P2InputContract` - what an input stream promises: bytes once and in order, a
failure once after them, then the end. `P2AsyncInput` - `asyncInput`, with its
reading goroutine and several callers; it implements the contract
(`Contract == INSTANCE P2InputContract`; the four variables of the contract are
history variables of the same names). `TryRead` is two actions, because the read
it starts may finish before its second `collect`; the mutex is held in between.
`P2Stdin` - the standard input of an instance above such a stream (`stdinMu`,
the byte and the error a probe left), which implements the same contract towards
the guest.

`P2OutputAdapter` - `outputAdapter`: `TryWrite`, `BeginFlush`, `WaitWritable`
and `run`, whose writer and flusher may fail at each call. `P2GuestOutput` - the
guest's side of an output stream: permits, flush, the blocking forms and splice,
what is told of a failure (or that a full table of errors lets it trap), and
`pollSafeOutput`. A call is a list of steps still to do, so that the handlers
built from others are built from their steps. The stream may wake a wait and
then grant nothing, which is what the retries of the blocking calls are for.

`P2Poll` - `poll` with its workers, their channel and their retry delays, and
`block`, over timers whose targets saturate and streams that others drain.

`P2Descriptors` - the resources of an instance: mounts, descriptors, file and
directory streams, standard streams that share their limit, cached output
adapters; `Run` from `prepareFilesystem` to `closeMounts`. The checks of a
handler give a *plan*: the parents it opens, the effect it asks the host for and
the entry it adds. `Begin`, `OpenParent`, `Act` and `Add` carry any plan out,
each with the failures of its host call, so the seventeen descriptor methods
share the actions. `get-directories` and `dropStream` have steps of their own.
`open` counts the host files; it is changed only where the code opens or closes
one.

`P2Directory` - directory streams on Linux and Darwin: the mutex of each, the
buffers they share through a `sync.Pool`, the entries that are passed over,
refused or removed by the host meanwhile.

## Runs

| run | question | bounds |
| --- | --- | --- |
| `p1_lifecycle` | handlers, `closeInstance` and `closeAll` in any order: no handler on a closed state, none left open, and closing ends | 2 identities, 2 threads, 2 states, 2 preopens |
| `p1_fd_table` | every open host file has one owner; rights match the access mode; the host changes only as configured, and never by a full table | two mounts with opposite grants, 5 numbers (so `nextFD` wraps), 3 files, limit 4 |
| `p1_fileio` | what moved is what is reported; appends do not overwrite; an allocation keeps what it saw | 2 instances, files of up to 2 bytes, 3 platforms, every shape of a vector list |
| `path_walk` | walks open what the path means, stay below the base, close their handles, end | 4 walks, 4 ways to open, all trees of 1 directory, 2 files, 1 link and paths of 2 components, some longer; a changing tree with 2 directories |
| `p1_poll` | the time measured is the time that passed, as far as a `uint64` goes; the call ends; a stream that stays ready is told | 2 subscriptions, 64-bit numbers up to 5, timeouts 0, 1 and 5 |
| `p2_async_input` | the adapter implements the contract; readiness is kept; the end is reached | 2 callers, 3 bytes, 3 reads, buffers up to 2 |
| `p2_stdin` | standard input implements the contract; blocked calls return | 2 callers, 2 bytes, buffers up to 2 |
| `p2_output_adapter` | order of writes; a wait returns after the flush asked for, and it returns | 2 callers, 4 requests |
| `p2_guest_output` | one grant pays for one write; a failure is told once; a flush that succeeded flushed; ready means a permit; calls end | 1 guest, 1 poll worker, all calls, permits up to 2 |
| `p2_descriptors` | every host file has one owner; effects within the grants; no orphan; one adapter per stream | 2 threads, 2 mounts, 2 descriptors, 1 stream, 1 directory stream, 3 reps |
| `p2_poll` | one waiter or result per pollable and room for it in the channel; no lost wakeup; no goroutine left | 2 pollables, each a timer or a stream, clock up to 2 |
| `p2_directory` | no buffer shared, no closed descriptor used, entries once and in order | 2 threads, 2 streams, 2 buffers of 2 records, 4 entries |

The bounds are the smallest that reach the cases in question. Two identities and
two states let one instance close and be called again on a new state; two
threads let a call be blocked, or be between choosing its state and locking it,
while another runs. Two preopens let one be open when the other fails. Five numbers with a limit of four make `alloc` wrap and skip
numbers in use. Three reads let a waiter hold on to a read that was drained
while a third is started. Four requests let a flush be left to a write, and
another follow it. Two descriptors for two mounts let another thread take the
place a `get-directories` needs for its second mount, so that it rolls back.
Two subscriptions let a stream wake a call for nothing while a clock runs; with
numbers up to 5 a `Duration` ends at 2, so a wait for 5 is cut and repeated, and
the measured time saturates.
Two buffers of two records for four entries make streams refill and swap buffers.

Deadlock is not checked where the model may stop: the descriptor table after
`closeFS`, an adapter whose requests are used up, a poll that returned, a walk
that ended, `Run` that is over.

## Fairness

- `P1Lifecycle`: goroutines are scheduled and mutexes handed over; a canceled
  poll wakes. Nothing is assumed of guests, of awaited events or of host
  streams. Because a handler blocked in a host stream's `Read` holds its state's
  lock, the liveness property has the premise that such calls return
  (`StreamsReturn`); the code has no way to interrupt them.
- `P1Poll`: time passes, the goroutine runs, and of the ready cases of a
  `select` none is passed over for ever.
- `PathWalk`: the walk goes on. Renames need not stop.
- `P2AsyncInput`: the source's `Read` returns, woken callers go on, and some
  caller goes on reading. The last read within the bound ends the source.
- `P2Stdin`: a goroutine inside a call goes on, also through `stdinMu`, which is
  starvation free. Nothing is assumed of the source or of the guest.
- `P2OutputAdapter`: the writer returns, goroutines are scheduled.
- `P2GuestOutput`: a call goes on when it can, and the stream drains.
- `P2Poll`: goroutines run, delays end, time passes.

`P1FdTable`, `P1FileIO`, `P2Descriptors` and `P2Directory` are checked for
safety only.

## Proofs

Each `*Proofs` module proves its theorems for every value of the constants, from
the assumption named in the component's module (that bounds are natural numbers,
that sets of threads are finite, that grants are sets of rights, that a tree
begins with nothing from outside below the base). No property is inductive by
itself; each component has a stronger invariant (`IInv`, `PollInv`, `GuestInv`),
one lemma per action that keeps it, and the theorems that follow from it. TLC has
checked each on the instance of its run, and `GuestInv` with two guests as well.

Three proof modules deal with a second component, as a named instance: the
adapter and the guest's side of an output stream (`Guest`), standard input and
the poll that waits on it (`Polling`), the provider of Preview 1 and its
`poll_oneoff` (`Polling`). Their theorems take the instance's assumption as a
hypothesis; the table has a line for each.

| module | theorems that a run checks too | others |
| --- | --- | --- |
| `P1LifecycleProofs` | `NoUseAfterClose`, `NoOrphanState` | types, isolation of instances, a complete stop, cancellation before waiting, publication of the arguments |
| - of `P1Poll` | `TimeMeasured` | |
| `P1FdTableProofs` | `HostFilesOwned`, `ModeMatchesRights`, `EffectsGranted`, `FullOpensNothing` | the limit, rights within the mount, rights only shrink |
| `P2AsyncInputProofs` | `ContractKept` (refinement), `ReadinessKept` (of steps) | one read in flight |
| `P2StdinProofs` | `StdinContract` (refinement) | no byte lost, readiness kept |
| - of `P2Poll` | `OneWaiter` | |
| `P2OutputProofs` | `WritesInOrder`, `FlushBeforeReturn` | types, one writer, flushes covered, failure is final |
| - of `P2GuestOutput` | `GrantUsedOnce`, `FailureToldOnce` | |
| `P2DescriptorsProofs` | `HandlesAccounted`, `EffectsGranted`, `NoOrphan`, `OneAdapter` | the limits (`QuotasHold`) |
| `P2DirectoryProofs` | `BuffersOwned`, `NativeCallsOpen`, `ListingInOrder` | |
| `PathWalkProofs` | `NoEscape`, `HandlesClosed` | parent steps are pinned, every step lowers a measure |

What the invariants add, and why:

- `P1Lifecycle`. `LockInv`: a state's lock and the call that holds it name each
  other; without it nothing prevents a closer from closing under a handler.
  `CallInv`, `GuardInv`: what a call, or the guard, refers to is allocated and
  bound to that identity; isolation follows from the binding, not from the map,
  which forgets. `PhaseInv`: nothing before `start`, an empty guard after
  `closeAll`. `CloserInv`: what the closers hold, canceled before it is waited
  for. `MakeInv`: at most one `makeFS` is under way, for `start` or for the call
  that has the guard, and what it has opened is with its state. `FileInv`: only
  states that are live or being made hold files, and somebody can reach each.
- `P1FdTable`. `Parts`: the open host files are split among the numbers, which
  is stronger than having one owner each and survives `fd_renumber`; `EntriesOK`:
  each entry's rights against its mount and its file's mode. That `alloc` finds
  a free number uses that some distance from `nextFD` is the smallest.
- `P2AsyncInput`. `InFlight`: an unfinished read is the one waited for, and is
  not collected too; `Accounted`: what was produced is delivered or lies in the
  result to collect. Each step is then a step of the contract or stutters.
  `RInv`, for `ReadinessKept`: a client that waits, with no `TryRead` since it
  began, waits for the read in flight or for one whose result nobody took; a
  promise stands only while there is a result or the stream is closed.
- `P2Stdin`. `Placed`: the probe's byte is the next one; `ErrKept`: an error is
  kept only at the end, and after it was told only the end is; `Waits`: what a
  goroutine that sleeps with or without `stdinMu` may rely on when it wakes.
- `P2OutputAdapter`. `SlotInv`: a goroutine at work holds the slot and is the
  last; `WriteInv`: how far the writer lags, by what the goroutine is doing;
  `FailInv`, `FlushInv`: a failure is recorded or about to be, a flush is done,
  pending or under way; `WaitInv`: what a waiter was promised from the closing
  of its channel on.
- `P2Descriptors`. `Holds`: how many files each call has open at each point,
  which is what `Done` closes; `Accounted`: all open files are counted once, over
  finite sets whose size changes by one in each step; `Quiet`: nothing but mounts
  before and after the instance; `WithinGrant`: the grant bounds the flags of
  every descriptor, stream and planned entry, so it bounds what any chain of
  opens can reach (`PlansGranted` shows it of the plan of every handler);
  `DescsOwned`: guest and `get-directories` calls split the table, so a rollback
  removes what nobody else can have (`OwnersChange`: a step that leaves the
  others' descriptors alone keeps the split); `AdaptersCached`: an adapter in use is the
  one in the cache, and a writer's stream is not dropped under it.
- `P2Directory`. `Locked`: a thread in a call holds its stream's mutex alone;
  `Owned`: a buffer is in the pool or with one stream; `Buffered`: what is left
  in a buffer are the entries before the cursor; `Listed`: everything up to the
  place of a stream was told or may be left out.

- `PathWalk`. `TreeKept`: renames bring nothing from outside below the base, so
  a walk that only goes down, or back to what it pinned, stays there; `Pinned`:
  as many pinned directories as components done, or none at all; `Foreseen`: a
  walk of Preview 1 that pins nothing has no `..` left, also after a link was
  put in its place; `Balanced`: the files that are open are those the walk owns.
  `StepsLower` is what termination rests on: a step follows one more of the
  links allowed, or drops a component, or goes on to the next, or to the next
  place for this one; what others rename changes none of it. That the walk ends
  (`WalkEnds`) adds fairness to it and is checked by TLC.
- `P1Poll`. `PollInv`: what was measured, with what has gone by since, is not
  more than the time that passed; while the call waits or pauses no clock was due
  when time was last measured (the first look is at time zero), and its own
  timeout is not beyond the earliest.
- `P2GuestOutput`. `Covered`: the answers of `CheckWrite` that no write has used
  are at least the goroutines that hold one (before it is recorded, or after its
  permit was consumed) with one for `hostState.permits` and one for
  `pollSafeOutput`; so a write has an answer of its own. The goroutines are
  counted, which is why `Guests` is finite. `CallShape`: in which order the
  steps of a call may be left over, for every handler; `NotLost`: where a
  failure is until it is told; `Told`: the flag of `outputFailure` and what the
  guest heard agree.
- `P2Poll`. `InChannel`: a result in the channel is the only one of its worker,
  which is parked and was not resumed; `InHand`: the same of the result received
  last; `PollShape`: before the workers start there are no results. That the
  channel has room follows by counting: the results have different senders, and
  the one about to send is not among them.

Only model-checked, and why:

- all liveness: it needs fairness, which these provers do not handle;
- `OpensWhatItNames`: what the recursive `Resolve` returns would need induction
  over data;
- `P1FileIO`: what a call reports is a sum over its vectors, and what a fold
  over a sequence returns would need induction over data as well;
- `FlushedOnSuccess` and `ReadyMeansPermit` of `P2GuestOutput`: they are checked
  for a guest that makes one call at a time.

## Not modelled

`PROJECT.json` says of each part whether it is modelled. Left out: wrappers of
system calls, JSON decoding, the copying of arguments and metadata, the tables
of pollables, errors and networks (one map under one lock) and `wit-surface`:
they have no state that steps of several actors could disturb. In part:

- Preview 1 path operations: rights and effect are in `P1FdTable`, the walk in
  `PathWalk`; each call's own checks are not;
- Preview 1 directory reading: the iterator is in `P1FdTable`; cookies and the
  packing of records are not;
- Preview 2 file streams: opening, adapters and drops are in `P2Descriptors`;
  offsets and the lock of appends are not.

Within the modelled parts: names and errno values are absent from the tables;
`P1FdTable` keeps only the rights its operations look at; representation
counters of Preview 2 stop below the wrap at 2^32.

## Observations

The documentation and the code disagree on how Preview 2 resolves paths.
`src/README.md:103-105` says that "descriptor-relative traversal rejects absolute
paths, `..`, and symlinks". `walkUnder` rejects absolute paths, but goes back for
a `..` that stays below the base (`src/p2/path.go:58-66`) and follows links that
do (`src/p2/path.go:121-150`), and the tests expect it
(`src/p2/path_flags_test.go`, `src/p2/path_mutation_symlink_parent_unix_test.go`).
`OpensWhatItNames` states, and `path_walk` checks, what the code does; it is a
finding in `PROJECT.json`. Likewise `src/README.md:246-247` speaks of "Windows
root-relative NT handles that reject reparse-point traversal": that is so of each
handle that is opened, while `walkWindowsParents` reads a link that it meets and
goes on at its target (`src/internal/core/fs_windows.go:216-246`).

What the source does besides that a reader may not expect; only the last is at
odds with a comment:

- `openAtDarwin` follows a final link also when the file is to be created
  exclusively.
- `fd_pread` reports the error of a later vector even after earlier ones moved
  bytes; `fd_pwrite`, `fd_read` and `fd_write` then report what was moved.
- On Windows an append through `fd_pwrite` uses `file.Write` and moves the
  position. The models assume that closing the old handle in `setHostFileFlags`
  succeeds there, and that `pwrite` on an `O_APPEND` file appends on Darwin.
- `fd_allocate` on Windows and Darwin reads the size and then truncates up to
  it; a file that grew in between may be cut. `AllocateKeepsAndCovers` speaks of
  the bytes that were there when the size was read.
- `InputStream` says that `TryRead` "must return ErrWouldBlock when no input is
  currently available" (`src/p2/io.go:14`). When the wrapped `io.Reader` returns
  `(0, nil)`, `asyncInput.TryRead` returns `(0, nil)` as well; the callers in
  `src/p2` treat both alike.
