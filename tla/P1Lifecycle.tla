----------------------------- MODULE P1Lifecycle -----------------------------
(***************************************************************************)
(* The life of a Preview 1 provider: the plugin's start and stop, the      *)
(* guard that maps instance identities to filesystem states, the lock each *)
(* host call takes on its state, and the closing of one instance           *)
(* concurrently with calls and with the shutdown of the whole provider.    *)
(*                                                                         *)
(* What the code does under guard.mu is one action: nothing else reads the *)
(* guard without that lock.  A state's own lock is a variable, because a   *)
(* handler may block (in poll_oneoff or on a host stream) while it holds   *)
(* it.                                                                     *)
(***************************************************************************)
EXTENDS Integers

CONSTANTS Identities,   \* identities the host hands out, one per instance
          Threads,      \* goroutines on which guests make host calls
          States,       \* addresses of fsState objects; bounds allocations
          Preopens,     \* host files makeFS opens for the configured mounts
          MaxFiles,     \* bound on the host files one state holds
          NoState, NoThread, NoIdentity

ASSUME LifecycleAssumption ==
  /\ NoState \notin States
  /\ NoThread \notin Threads
  /\ NoIdentity \notin Identities
  /\ Preopens \in Nat
  /\ MaxFiles \in Nat
  /\ Preopens <= MaxFiles

VARIABLES
  started,   \* progress of Plugin.start
  args,      \* e.cfg.Args has been published
  fs,        \* e.fs
  states,    \* guard.states; a nil map and a missing key both read NoState
  claimed,   \* guard.claimed
  closed,    \* guard.closed
  life,      \* per state: not allocated, live, or fsState.closed
  canceled,  \* per state: its pollCtx has been canceled
  files,     \* per state: how many host files its fds hold open
  making,    \* the state makeFS is filling
  hand,      \* makeFS has opened a preopen that is not in the table yet
  mu,        \* per state: the thread that holds fsState.mu
  owner,     \* history: the identity a state was bound to
  pc,        \* per thread: where its host call is
  ident,     \* per thread: the identity of the calling instance
  held,      \* per thread: the state stateFor chose
  cpc, cst,  \* per identity: progress of closeInstance, and its state
  spc,       \* progress of closeAll
  initial,   \* closeAll's local: the provider's first state
  toCancel, toClose  \* states closeAll has yet to cancel, and to close

guardVars  == <<fs, states, claimed, closed>>
stateVars  == <<life, canceled, files>>
threadVars == <<pc, ident, held>>
closerVars == <<cpc, cst>>
stopVars   == <<spc, initial, toCancel, toClose>>
startVars  == <<started, args, making, hand>>  \* also of other states' makeFS
vars == <<startVars, guardVars, stateVars, mu, owner, threadVars, closerVars,
          stopVars>>

InHandler == {"run", "poll", "stdio"}

TypeOK ==
  /\ started \in {"new", "args", "making", "up", "failed"}
  /\ args \in BOOLEAN
  /\ fs \in States \cup {NoState}
  /\ states \in [Identities -> States \cup {NoState}]
  /\ claimed \in BOOLEAN
  /\ closed \in BOOLEAN
  /\ life \in [States -> {"free", "making", "live", "closed"}]
  /\ canceled \in [States -> BOOLEAN]
  /\ files \in [States -> 0..MaxFiles]
  /\ making \in States \cup {NoState}
  /\ hand \in BOOLEAN
  /\ mu \in [States -> Threads \cup {NoThread}]
  /\ owner \in [States -> Identities \cup {NoIdentity}]
  /\ pc \in [Threads -> {"idle", "make", "lock"} \cup InHandler]
  /\ ident \in [Threads -> Identities \cup {NoIdentity}]
  /\ held \in [Threads -> States \cup {NoState}]
  /\ cpc \in [Identities -> {"idle", "cancel", "lock", "done"}]
  /\ cst \in [Identities -> States \cup {NoState}]
  /\ spc \in {"idle", "cancel", "close", "done"}
  /\ initial \in States \cup {NoState}
  /\ toCancel \in SUBSET States
  /\ toClose \in SUBSET States

\* A registered plugin: resetFS has made an empty guard, start has not run.
Init ==
  /\ started = "new" /\ args = FALSE
  /\ fs = NoState
  /\ states = [i \in Identities |-> NoState]
  /\ claimed = FALSE /\ closed = FALSE
  /\ life = [s \in States |-> "free"]
  /\ canceled = [s \in States |-> FALSE]
  /\ files = [s \in States |-> 0]
  /\ making = NoState /\ hand = FALSE
  /\ mu = [s \in States |-> NoThread]
  /\ owner = [s \in States |-> NoIdentity]
  /\ pc = [t \in Threads |-> "idle"]
  /\ ident = [t \in Threads |-> NoIdentity]
  /\ held = [t \in Threads |-> NoState]
  /\ cpc = [i \in Identities |-> "idle"]
  /\ cst = [i \in Identities |-> NoState]
  /\ spc = "idle" /\ initial = NoState /\ toCancel = {} /\ toClose = {}

-----------------------------------------------------------------------------
(* States *)

\* makeFS begins: a state that nobody else knows of.
MakeFS(s) ==
  /\ life[s] = "free"
  /\ life' = [life EXCEPT ![s] = "making"]
  /\ making' = s
  /\ UNCHANGED <<canceled, files, hand>>

\* closeFS: cancel, mark closed, close every host file and drop the table.
CloseFS(s) ==
  /\ life' = [life EXCEPT ![s] = "closed"]
  /\ canceled' = [canceled EXCEPT ![s] = TRUE]
  /\ files' = [files EXCEPT ![s] = 0]

CancelPoll(s) ==
  /\ canceled' = [canceled EXCEPT ![s] = TRUE]
  /\ UNCHANGED <<life, files>>

-----------------------------------------------------------------------------
(* Plugin.start: publish the guest arguments, then initFS(strict). *)

StartArgs ==
  /\ started = "new"
  /\ \/ started' = "args" /\ args' = TRUE
     \/ started' = "failed" /\ args' = args  \* ctx.Err() or Args() failed
  /\ UNCHANGED <<guardVars, stateVars, making, hand, mu, owner, threadVars,
                 closerVars, stopVars>>

StartFS ==
  /\ started = "args"
  /\ \E s \in States : MakeFS(s)
  /\ started' = "making"
  /\ UNCHANGED <<args, guardVars, mu, owner, threadVars, closerVars, stopVars>>

-----------------------------------------------------------------------------
(* A host call: binding.callback around stateFor. *)

\* stateFor's choice has been made; the call now waits for the state's lock.
Chosen(t, i, s) ==
  /\ pc' = [pc EXCEPT ![t] = "lock"]
  /\ ident' = [ident EXCEPT ![t] = i]
  /\ held' = [held EXCEPT ![t] = s]

\* guard.mu is free: a call that makes its state holds it meanwhile.
GuardFree == \A t \in Threads : pc[t] # "make"

\* stateFor returns EBADF (not serving) or EPERM (Resolve failed, which it may
\* at any time): nothing changes.
EnterRefused(t, i) ==
  /\ pc[t] = "idle"
  /\ UNCHANGED vars

\* The identity already has a state.
EnterKnown(t, i) ==
  /\ pc[t] = "idle" /\ GuardFree /\ ~closed /\ fs # NoState
  /\ states[i] # NoState
  /\ Chosen(t, i, states[i])
  /\ UNCHANGED <<startVars, guardVars, stateVars, mu, owner, closerVars,
                 stopVars>>

\* The first identity to call takes the state that start made.
EnterClaim(t, i) ==
  /\ pc[t] = "idle" /\ GuardFree /\ ~closed /\ fs # NoState
  /\ states[i] = NoState /\ ~claimed
  /\ claimed' = TRUE
  /\ states' = [states EXCEPT ![i] = fs]
  /\ owner' = [owner EXCEPT ![fs] = i]
  /\ Chosen(t, i, fs)
  /\ UNCHANGED <<startVars, fs, closed, stateVars, mu, closerVars, stopVars>>

\* For any other new identity a state is made, with guard.mu held.
EnterNew(t, i, s) ==
  /\ pc[t] = "idle" /\ GuardFree /\ ~closed /\ fs # NoState
  /\ states[i] = NoState /\ claimed
  /\ MakeFS(s)
  /\ pc' = [pc EXCEPT ![t] = "make"]
  /\ ident' = [ident EXCEPT ![t] = i]
  /\ UNCHANGED <<started, args, guardVars, mu, owner, held, closerVars, stopVars>>

\* Give the call's state lock back (or never keep it) and return to the guest.
Leave(t) ==
  /\ pc' = [pc EXCEPT ![t] = "idle"]
  /\ ident' = [ident EXCEPT ![t] = NoIdentity]
  /\ held' = [held EXCEPT ![t] = NoState]

-----------------------------------------------------------------------------
(* makeFS goes on, for start or for a call: it opens one preopen after another. *)

OpenPreopen ==
  /\ making # NoState /\ ~hand /\ files[making] < Preopens
  /\ hand' = TRUE
  /\ UNCHANGED <<started, args, making, guardVars, stateVars, mu, owner, threadVars,
                 closerVars, stopVars>>

\* It is a directory: it becomes an entry of the table.
StorePreopen ==
  /\ hand /\ hand' = FALSE
  /\ files' = [files EXCEPT ![making] = @ + 1]
  /\ UNCHANGED <<started, args, making, guardVars, life, canceled, mu, owner,
                 threadVars, closerVars, stopVars>>

\* makeFS has failed: start fails, a call returns EIO.
MakerFails ==
  \/ started = "making" /\ started' = "failed" /\ UNCHANGED threadVars
  \/ UNCHANGED started /\ \E t \in Threads : pc[t] = "make" /\ Leave(t)

\* Mutant: the preopens that were opened before stay open.
MakeFSFailsOpen ==
  /\ making # NoState /\ (hand \/ files[making] < Preopens)
  /\ life' = [life EXCEPT ![making] = "closed"]
  /\ making' = NoState /\ hand' = FALSE
  /\ MakerFails
  /\ UNCHANGED <<args, guardVars, canceled, files, mu, owner, closerVars, stopVars>>

\* A preopen cannot be opened, or is no directory: it is closed, if it was
\* opened, and closeFS closes the others.
MakeFSFails ==
  /\ making # NoState /\ (hand \/ files[making] < Preopens)
  /\ CloseFS(making)
  /\ making' = NoState /\ hand' = FALSE
  /\ MakerFails
  /\ UNCHANGED <<args, guardVars, mu, owner, closerVars, stopVars>>

\* All are open: the state is stored for start, or for the call's identity.
MakeFSDone ==
  /\ making # NoState /\ ~hand /\ files[making] = Preopens
  /\ life' = [life EXCEPT ![making] = "live"]
  /\ making' = NoState
  /\ \/ /\ started = "making" /\ started' = "up"
        /\ fs' = making /\ closed' = FALSE /\ claimed' = FALSE
        /\ UNCHANGED <<states, owner, threadVars>>
     \/ \E t \in Threads :
          /\ pc[t] = "make" /\ Chosen(t, ident[t], making)
          /\ states' = [states EXCEPT ![ident[t]] = making]
          /\ owner' = [owner EXCEPT ![making] = ident[t]]
          /\ UNCHANGED <<started, fs, closed, claimed>>
  /\ UNCHANGED <<args, canceled, files, hand, mu, closerVars, stopVars>>

-----------------------------------------------------------------------------
(* The call goes on *)

\* Mutant: no re-check of state.closed once the lock is held.
LockStateUnchecked(t) ==
  /\ pc[t] = "lock"
  /\ mu[held[t]] = NoThread
  /\ mu' = [mu EXCEPT ![held[t]] = t]
  /\ pc' = [pc EXCEPT ![t] = "run"]
  /\ UNCHANGED <<startVars, guardVars, stateVars, owner, ident, held, closerVars,
                 stopVars>>

\* state.mu.Lock() and the re-check of state.closed behind it.
LockState(t) ==
  /\ pc[t] = "lock"
  /\ mu[held[t]] = NoThread
  /\ \/ /\ life[held[t]] = "closed"
        /\ Leave(t)
        /\ UNCHANGED mu
     \/ /\ life[held[t]] # "closed"
        /\ mu' = [mu EXCEPT ![held[t]] = t]
        /\ pc' = [pc EXCEPT ![t] = "run"]
        /\ UNCHANGED <<ident, held>>
  /\ UNCHANGED <<startVars, guardVars, stateVars, owner, closerVars, stopVars>>

Unlock(t) == mu' = [mu EXCEPT ![held[t]] = NoThread]

\* A handler that does not block: it may open or close one host file.
HandlerReturns(t) ==
  /\ pc[t] = "run"
  /\ \E n \in 0..MaxFiles :
       /\ n \in {files[held[t]] - 1, files[held[t]], files[held[t]] + 1}
       /\ files' = [files EXCEPT ![held[t]] = n]
  /\ Unlock(t) /\ Leave(t)
  /\ UNCHANGED <<startVars, guardVars, life, canceled, owner, closerVars,
                 stopVars>>

\* poll_oneoff without a ready subscription; a read or write of a host stream.
HandlerBlocks(t) ==
  /\ pc[t] = "run"
  /\ \E where \in {"poll", "stdio"} : pc' = [pc EXCEPT ![t] = where]
  /\ UNCHANGED <<startVars, guardVars, stateVars, mu, owner, ident, held,
                 closerVars, stopVars>>

\* The awaited event or timeout came, or the host stream call returned.
HandlerWakes(t) ==
  /\ pc[t] \in {"poll", "stdio"}
  /\ Unlock(t) /\ Leave(t)
  /\ UNCHANGED <<startVars, guardVars, stateVars, owner, closerVars, stopVars>>

\* poll_oneoff sees its context canceled and returns EINTR.
PollInterrupted(t) ==
  /\ pc[t] = "poll"
  /\ canceled[held[t]]
  /\ Unlock(t) /\ Leave(t)
  /\ UNCHANGED <<startVars, guardVars, stateVars, owner, closerVars, stopVars>>

-----------------------------------------------------------------------------
(* closeInstance, run by the instance-close observer. *)

\* Under guard.mu: forget the identity.  Without a state there is no more to do.
CloseInstance(i) ==
  /\ cpc[i] = "idle" /\ GuardFree
  /\ cst' = [cst EXCEPT ![i] = states[i]]
  /\ cpc' = [cpc EXCEPT ![i] = IF states[i] = NoState THEN "done" ELSE "cancel"]
  /\ states' = [states EXCEPT ![i] = NoState]
  /\ UNCHANGED <<startVars, fs, claimed, closed, stateVars, mu, owner,
                 threadVars, stopVars>>

CloseInstanceCancel(i) ==
  /\ cpc[i] = "cancel"
  /\ CancelPoll(cst[i])
  /\ cpc' = [cpc EXCEPT ![i] = "lock"]
  /\ UNCHANGED <<startVars, guardVars, mu, owner, threadVars, cst, stopVars>>

CloseInstanceFinish(i) ==
  /\ cpc[i] = "lock"
  /\ mu[cst[i]] = NoThread
  /\ CloseFS(cst[i])
  /\ cpc' = [cpc EXCEPT ![i] = "done"]
  /\ UNCHANGED <<startVars, guardVars, mu, owner, threadVars, cst, stopVars>>

-----------------------------------------------------------------------------
(* closeAll, run by Plugin.stop. *)

\* Under guard.mu: take every state out of the guard and refuse new calls.
CloseAll ==
  /\ spc = "idle" /\ GuardFree /\ started \in {"up", "failed"}
  /\ LET taken == {states[i] : i \in Identities} \ {NoState}
     IN  /\ toCancel' = taken \cup ({fs} \ {NoState})
         /\ toClose' = taken \cup ({fs} \ {NoState})
  /\ initial' = fs
  /\ states' = [i \in Identities |-> NoState]
  /\ fs' = NoState /\ closed' = TRUE
  /\ spc' = "cancel"
  /\ UNCHANGED <<startVars, claimed, stateVars, mu, owner, threadVars,
                 closerVars>>

\* The first state goes first; the map's order is arbitrary.
InOrder(s, pending) == s \in pending /\ (initial \in pending => s = initial)

\* Mutant: the state's polls are left running.
CloseAllNoCancel(s) ==
  /\ spc = "cancel" /\ InOrder(s, toCancel)
  /\ toCancel' = toCancel \ {s}
  /\ UNCHANGED <<startVars, guardVars, stateVars, mu, owner, threadVars,
                 closerVars, spc, initial, toClose>>

CloseAllCancel(s) ==
  /\ spc = "cancel" /\ InOrder(s, toCancel)
  /\ CancelPoll(s)
  /\ toCancel' = toCancel \ {s}
  /\ UNCHANGED <<startVars, guardVars, mu, owner, threadVars, closerVars, spc,
                 initial, toClose>>

CloseAllCanceled ==
  /\ spc = "cancel" /\ toCancel = {}
  /\ spc' = "close"
  /\ UNCHANGED <<startVars, guardVars, stateVars, mu, owner, threadVars,
                 closerVars, initial, toCancel, toClose>>

CloseAllClose(s) ==
  /\ spc = "close" /\ InOrder(s, toClose)
  /\ mu[s] = NoThread
  /\ CloseFS(s)
  /\ toClose' = toClose \ {s}
  /\ UNCHANGED <<startVars, guardVars, mu, owner, threadVars, closerVars, spc,
                 initial, toCancel>>

CloseAllDone ==
  /\ spc = "close" /\ toClose = {}
  /\ spc' = "done"
  /\ UNCHANGED <<startVars, guardVars, stateVars, mu, owner, threadVars,
                 closerVars, initial, toCancel, toClose>>

-----------------------------------------------------------------------------

ThreadStep(t) ==
  \/ \E i \in Identities :
       \/ EnterRefused(t, i)
       \/ EnterKnown(t, i)
       \/ EnterClaim(t, i)
       \/ \E s \in States : EnterNew(t, i, s)
  \/ LockState(t)
  \/ HandlerReturns(t)
  \/ HandlerBlocks(t)
  \/ HandlerWakes(t)
  \/ PollInterrupted(t)

CloserStep(i) ==
  \/ CloseInstance(i)
  \/ CloseInstanceCancel(i)
  \/ CloseInstanceFinish(i)

StopStep ==
  \/ CloseAll
  \/ \E s \in States : CloseAllCancel(s)
  \/ CloseAllCanceled
  \/ \E s \in States : CloseAllClose(s)
  \/ CloseAllDone

MakeStep == OpenPreopen \/ StorePreopen \/ MakeFSFails \/ MakeFSDone

Next ==
  \/ StartArgs
  \/ StartFS
  \/ MakeStep
  \/ \E t \in Threads : ThreadStep(t)
  \/ \E i \in Identities : CloserStep(i)
  \/ StopStep

Spec == Init /\ [][Next]_vars

(***************************************************************************)
(* Fairness.  Goroutines are scheduled and sync.Mutex is handed over, so a *)
(* thread that can take its lock or finish a handler that does not block   *)
(* does so, a canceled poll wakes, and the closers keep going.  Nothing is *)
(* assumed of guests (they need not call), of the events a poll waits for, *)
(* or of a host stream's Read and Write (they need not return).            *)
(***************************************************************************)
Fairness ==
  /\ \A t \in Threads :
       /\ WF_vars(LockState(t))
       /\ WF_vars(HandlerReturns(t) \/ HandlerBlocks(t))
       /\ WF_vars(PollInterrupted(t))
  /\ \A i \in Identities :
       WF_vars(CloseInstanceCancel(i) \/ CloseInstanceFinish(i))
  /\ WF_vars(CloseAllCanceled \/ CloseAllDone)
  /\ WF_vars(\E s \in States : CloseAllCancel(s) \/ CloseAllClose(s))

FairSpec == Spec /\ Fairness

-----------------------------------------------------------------------------
(* Properties *)

\* binding.callback runs a handler only on a live state whose lock the call
\* holds: a call that chose its state before closeInstance or closeAll closed
\* it never reaches the handler (stateFor's second check).
NoUseAfterClose ==
  \A t \in Threads :
    pc[t] \in InHandler => life[held[t]] = "live" /\ mu[held[t]] = t

\* Two calls that work on the same state are of the same instance, whatever
\* was claimed, closed or created in between (stateFor's map and claimed flag).
Isolation ==
  \A t, u \in Threads :
    held[t] # NoState /\ held[t] = held[u] => ident[t] = ident[u]

\* A state passes to an instance once and never to another one, also after
\* the instance that claimed the provider's first state is gone.
BoundForGood ==
  [][\A s \in States : owner[s] # NoIdentity => owner'[s] = owner[s]]_vars

\* Who can still close state s: makeFS while it fills it, the guard, a
\* closeInstance under way, closeAll.
Reachable(s) ==
  \/ s = making
  \/ s = fs
  \/ \E i \in Identities : states[i] = s
  \/ \E i \in Identities : cpc[i] \in {"cancel", "lock"} /\ cst[i] = s
  \/ s \in toClose

\* No live state, and no open host file, is ever out of everybody's reach: not
\* when makeFS fails between two preopens, not between closeInstance's deletion
\* and its close, not when closeAll and closeInstance overlap.
NoOrphanState ==
  /\ \A s \in States : life[s] = "live" \/ files[s] > 0 => Reachable(s)
  /\ hand => making # NoState

\* When stop has returned and no closeInstance is under way, every state is
\* closed, its host files are closed and no handler runs.
StopLeavesNothing ==
  spc = "done" /\ (\A i \in Identities : cpc[i] \in {"idle", "done"}) =>
    /\ \A s \in States : life[s] \notin {"making", "live"} /\ files[s] = 0
    /\ \A t \in Threads : pc[t] \notin InHandler

\* "Cancel every state before waiting for any active host call to return"
\* (closeAll), and closeInstance likewise for its state.
CancelBeforeWait ==
  /\ spc = "close" => \A s \in toClose : canceled[s]
  /\ \A i \in Identities : cpc[i] = "lock" => canceled[cst[i]]

\* A handler runs only after start has published the guest's arguments, which
\* args_get reads without the guard's lock.
ArgsBeforeCalls == \A t \in Threads : pc[t] \in InHandler => args

\* Every host stream call that handlers make returns in the end.
StreamsReturn == \A t \in Threads : []<>(pc[t] # "stdio")

\* Shutdown finishes, and so does the closing of one instance, however many
\* guests are blocked in poll_oneoff, unless a host stream never returns to the
\* handler that called it.
ShutdownCompletes ==
  StreamsReturn =>
    /\ spc = "cancel" ~> spc = "done"
    /\ \A i \in Identities : cpc[i] = "cancel" ~> cpc[i] = "done"
==============================================================================
