-------------------------------- MODULE P2Poll --------------------------------
(***************************************************************************)
(* wasi:io/poll: poll over a list of pollables (waitPollables with one     *)
(* worker goroutine for each) and pollable.block (blockPollable), over     *)
(* timers and streams.  A stream becomes ready by itself and unready when  *)
(* somebody else uses what made it ready; its wait may fail.               *)
(***************************************************************************)
EXTENDS Integers, Sequences

CONSTANTS N,         \* pollables in the list
          MaxTime    \* the largest clock value, 2^64 - 1 in the code

Inputs == 1..N

ASSUME PollAssumption == N \in Nat \ {0} /\ MaxTime \in Nat

VARIABLES timers,     \* the pollables that are timers; the others are streams
          now,        \* the monotonic clock
          target,     \* per timer: when it is due
          up, broken, \* per stream: ready; its wait fails
          at,         \* where the call is
          k, found,   \* the scan: the next input, the ready ones
          got,        \* the result received, [i, err]
          ch,         \* the channel of results
          worker,     \* per input: what its goroutine does
          werr,       \* per input: whether its wait failed
          resumed,    \* per input: the resume channel of its result is closed
          canceled,   \* the caller's context is done
          answer      \* what the call returned

Streams == Inputs \ timers

world == <<timers, now, target, up, broken>>
workers == <<worker, werr>>
vars == <<world, at, k, found, got, ch, workers, resumed, canceled, answer>>

NoResult == [i |-> 0, err |-> FALSE]
Ready(i) == IF i \in timers THEN now >= target[i] ELSE up[i]

\* subscribe-duration saturates; subscribe-instant is the duration from now.
Target(n, d) == IF MaxTime - n < d THEN MaxTime ELSE n + d

Init ==
  /\ timers \in SUBSET Inputs /\ now \in 0..MaxTime
  /\ target \in [timers -> {Target(n, d) : n \in 0..now, d \in 0..MaxTime}]
  /\ up \in [Streams -> BOOLEAN] /\ broken = [s \in Streams |-> FALSE]
  /\ at = "idle" /\ k = 1 /\ found = {} /\ got = NoResult /\ ch = <<>>
  /\ worker = [i \in Inputs |-> "none"] /\ werr = [i \in Inputs |-> FALSE]
  /\ resumed = [i \in Inputs |-> FALSE]
  /\ canceled = FALSE /\ answer = "none"

-----------------------------------------------------------------------------
(* The world *)

Tick ==
  /\ now < MaxTime /\ now' = now + 1
  /\ UNCHANGED <<timers, target, up, broken, at, k, found, got, ch, workers,
                 resumed, canceled, answer>>

StreamChanges(s) ==
  /\ \/ up' = [up EXCEPT ![s] = ~@] /\ UNCHANGED broken
     \/ ~broken[s] /\ broken' = [broken EXCEPT ![s] = TRUE] /\ UNCHANGED up
  /\ UNCHANGED <<timers, now, target, at, k, found, got, ch, workers,
                 resumed, canceled, answer>>

Cancel ==
  /\ at \notin {"idle", "done"} /\ ~canceled /\ canceled' = TRUE
  /\ UNCHANGED <<world, at, k, found, got, ch, workers, resumed, answer>>

-----------------------------------------------------------------------------
(* poll *)

Return(what) == at' = "done" /\ answer' = what

Poll ==
  /\ at = "idle" /\ at' = "scan" /\ k' = 1 /\ found' = {}
  /\ UNCHANGED <<world, got, ch, workers, resumed, canceled, answer>>

\* readyIndexes, one pollable at a time.
Scan ==
  /\ at = "scan" /\ k <= N
  /\ found' = IF Ready(k) THEN found \cup {k} ELSE found
  /\ k' = k + 1
  /\ UNCHANGED <<world, at, got, ch, workers, resumed, canceled, answer>>

\* Mutant: nobody is resumed when what it announced was taken.
ResumedNobody == resumed

Resumed == [resumed EXCEPT ![got.i] = TRUE]

\* The scan is over: answer; or start the workers, the first time; or give up
\* with the worker's error; or resume the worker that was heard.
Scanned ==
  /\ at = "scan" /\ k = N + 1
  /\ \/ /\ found # {} /\ Return("ready")
        /\ UNCHANGED <<got, worker, resumed>>
     \/ /\ found = {} /\ got = NoResult
        /\ worker' = [i \in Inputs |-> "waiting"] /\ at' = "select"
        /\ UNCHANGED <<got, resumed, answer>>
     \/ /\ found = {} /\ got.err
        /\ Return("error") /\ UNCHANGED <<got, worker, resumed>>
     \/ /\ found = {} /\ got # NoResult /\ ~got.err
        /\ resumed' = Resumed /\ at' = "select"
        /\ UNCHANGED <<got, worker, answer>>
  /\ UNCHANGED <<world, k, found, ch, werr, canceled>>

Receive ==
  /\ at = "select" /\ ch # <<>>
  /\ got' = Head(ch) /\ ch' = Tail(ch)
  /\ IF canceled THEN Return("canceled") /\ UNCHANGED <<k, found>>
     ELSE at' = "scan" /\ k' = 1 /\ found' = {} /\ UNCHANGED answer
  /\ UNCHANGED <<world, workers, resumed, canceled>>

SeesCancel == canceled

SelectCanceled ==
  /\ at = "select" /\ SeesCancel /\ Return("canceled")
  /\ UNCHANGED <<world, k, found, got, ch, workers, resumed, canceled>>

-----------------------------------------------------------------------------
(* The workers; waitCtx ends with the caller's context and with the call *)

WaitDone == canceled \/ at = "done"

\* pollableValue.wait: waitMonotonic for a timer.
WaitReturns(i) ==
  /\ worker[i] = "waiting"
  /\ \E e \in BOOLEAN :
       /\ \/ e = FALSE /\ Ready(i)
          \/ e = TRUE /\ (WaitDone \/ (i \in Streams /\ broken[i]))
       /\ werr' = [werr EXCEPT ![i] = e]
  /\ worker' = [worker EXCEPT ![i] = "sending"]
  /\ UNCHANGED <<world, at, k, found, got, ch, resumed, canceled, answer>>

Send(i) ==
  /\ worker[i] = "sending" /\ Len(ch) < N
  /\ ch' = Append(ch, [i |-> i, err |-> werr[i]])
  /\ worker' = [worker EXCEPT ![i] = "parked"]
  /\ UNCHANGED <<world, at, k, found, got, werr, resumed, canceled, answer>>

\* Mutant: a worker that was heard waits again without being told to.
MayGoOnAlways(i) == TRUE

MayGoOn(i) == resumed[i]

GoesOn(i) ==
  /\ worker[i] = "parked" /\ MayGoOn(i)
  /\ worker' = [worker EXCEPT ![i] = "retry"]
  /\ resumed' = [resumed EXCEPT ![i] = FALSE]
  /\ UNCHANGED <<world, at, k, found, got, ch, werr, canceled, answer>>

\* waitPollRetry: the delay is over.
RetryOver(i) ==
  /\ worker[i] = "retry"
  /\ worker' = [worker EXCEPT ![i] = "waiting"]
  /\ UNCHANGED <<world, at, k, found, got, ch, werr, resumed, canceled, answer>>

\* Mutant: the worker waits for its resume channel alone.
LeavesFromUnparked == {"sending", "retry"}

LeavesFrom == {"sending", "parked", "retry"}

Leaves(i) ==
  /\ worker[i] \in LeavesFrom /\ WaitDone
  /\ worker' = [worker EXCEPT ![i] = "gone"]
  /\ UNCHANGED <<world, at, k, found, got, ch, werr, resumed, canceled, answer>>

WorkerStep(i) ==
  WaitReturns(i) \/ Send(i) \/ GoesOn(i) \/ RetryOver(i) \/ Leaves(i)

-----------------------------------------------------------------------------
(* pollable.block on input 1: the loop of blockPollable *)

Blocked == {"loop", "wait", "woken", "failed", "again", "delay"}

Block ==
  /\ at = "idle" /\ at' = "loop"
  /\ UNCHANGED <<world, k, found, got, ch, workers, resumed, canceled, answer>>

AfterWake == IF Ready(1) THEN "loop" ELSE "delay"

BlockStep ==
  /\ \/ at = "loop" /\ (IF Ready(1) THEN Return("ready") ELSE at' = "wait" /\ UNCHANGED answer)
     \/ at = "wait" /\ Ready(1) /\ at' = "woken" /\ UNCHANGED answer
     \/ /\ at = "wait" /\ (canceled \/ (1 \in Streams /\ broken[1]))
        /\ at' = "failed" /\ UNCHANGED answer
     \/ at \in {"woken", "failed"} /\ canceled /\ Return("canceled")
     \/ /\ at = "failed" /\ ~canceled
        /\ IF Ready(1) THEN at' = "again" /\ UNCHANGED answer ELSE Return("error")
     \/ at = "woken" /\ ~canceled /\ at' = "again" /\ UNCHANGED answer
     \/ at = "again" /\ at' = AfterWake /\ UNCHANGED answer
     \/ at = "delay" /\ ~canceled /\ at' = "loop" /\ UNCHANGED answer
     \/ at = "delay" /\ canceled /\ Return("canceled")
  /\ UNCHANGED <<world, k, found, got, ch, workers, resumed, canceled>>

Next ==
  \/ Tick \/ Cancel \/ \E s \in Streams : StreamChanges(s)
  \/ Poll \/ Scan \/ Scanned \/ Receive \/ SelectCanceled
  \/ \E i \in Inputs : WorkerStep(i)
  \/ Block \/ BlockStep

Spec == Init /\ [][Next]_vars

(***************************************************************************)
(* Fairness: goroutines run, delays end, time passes.  The two sides of    *)
(* the caller's select are separate, so a done context is seen at the      *)
(* latest with the next result.                                            *)
(***************************************************************************)
FairSpec ==
  /\ Spec /\ WF_vars(Tick)
  /\ WF_vars(Scan \/ Scanned) /\ WF_vars(Receive) /\ WF_vars(SelectCanceled)
  /\ WF_vars(BlockStep)
  /\ \A i \in Inputs : WF_vars(WorkerStep(i))

-----------------------------------------------------------------------------
(* Properties *)

\* A worker's send never blocks: each pollable has at most one result or wait
\* outstanding "even after repeated wakeups" (waitPollables), so the channel
\* of len(ps) has room for the result of every worker that is about to send.
OneWaiter ==
  /\ \A p, q \in 1..Len(ch) : ch[p].i = ch[q].i => p = q
  /\ \A i \in Inputs :
       worker[i] = "sending" => Len(ch) < N /\ \A p \in 1..Len(ch) : ch[p].i # i

\* No wakeup is lost: neither poll nor pollable.block goes on for ever while
\* a pollable of it stays ready, whatever the others do and however often
\* readiness was taken by somebody else before.
NoLostWakeup ==
  /\ \A i \in Inputs : ~<>[](at \in {"scan", "select"} /\ Ready(i))
  /\ ~<>[](at \in Blocked /\ Ready(1))

\* A done context ends the call, and no goroutine is left behind: once the
\* call is over every worker ends.
WorkersEnd ==
  /\ (canceled /\ at # "idle") ~> at = "done"
  /\ \A i \in Inputs : (at = "done") ~> worker[i] \in {"none", "gone"}
==============================================================================
