---------------------------- MODULE P2GuestOutput ----------------------------
(***************************************************************************)
(* The guest's side of an output stream with an embedder's OutputStream    *)
(* below it (stdout, stderr): the one-shot permits of check-write, the     *)
(* calls that use them, what is told of a failure, and pollSafeOutput,     *)
(* which keeps what a readiness probe took out of the stream.              *)
(*                                                                         *)
(* A call is a record whose field todo lists the steps still to do; a step *)
(* ends where a mutex is released or the stream is called.  The handlers   *)
(* that call others (blocking-write-and-flush, splice) are put together    *)
(* from the steps of those.                                                *)
(***************************************************************************)
EXTENDS Integers, Sequences, FiniteSets

CONSTANTS Guests,     \* goroutines in host calls; a guest by itself has one
          Workers,    \* goroutines that wait for a poll
          MaxPermit,  \* largest permit of the stream
          MaxLen,     \* largest write
          Calls       \* the calls guests make, of Ops

Ops == {"check", "write", "flush", "bwrite", "bflush", "splice", "bsplice"}

ASSUME OutputAssumption ==
  IsFiniteSet(Guests) /\ MaxPermit \in Nat /\ MaxLen \in Nat /\ Calls \subseteq Ops

VARIABLES room,      \* the stream: what CheckWrite grants now
          fault,     \* whether it has failed: "none", "ready" to be told, "out"
          flushing,  \* a flush has begun and not completed
          dirty,     \* bytes were accepted since the last flush began
          permit, pending,   \* pollSafeOutput; 0 and FALSE for none
          granted,   \* hostState.permits, None when absent
          failed,    \* hostState.outputFailed
          call,      \* per guest goroutine: its call
          wait,      \* per poll worker: idle, waiting or to record an error
          ret,       \* what the last call returned
          credit,    \* positive answers of CheckWrite not yet written on
          handed,    \* the stream has handed out an error
          dropped,   \* one came when its caller's context was done, or when
                     \* the guest had no room for another error
          told,      \* failures told to the guest
          promised   \* a probe found the stream ready; the guest has not used it

stream == <<room, fault, flushing, dirty, credit, handed>>
wrapper == <<permit, pending>>
host == <<granted, failed, told>>
vars == <<stream, wrapper, host, call, wait, ret, dropped, promised>>

None == 0 - 1
Idle == [op |-> "none", todo |-> <<>>, left |-> 0, size |-> 0, hand |-> 0]
Lengths(op) == IF op \in {"check", "flush", "bflush"} THEN {0} ELSE 0..MaxLen
MaxCredit == Cardinality(Guests) + 2   \* more are never in use at once

Init ==
  /\ room \in 0..MaxPermit /\ fault = "none" /\ flushing = FALSE /\ dirty = FALSE
  /\ permit = 0 /\ pending = FALSE /\ granted = None /\ failed = FALSE
  /\ call = [g \in Guests |-> Idle] /\ wait = [w \in Workers |-> "idle"]
  /\ ret = "none" /\ credit = 0 /\ told = 0
  /\ handed = FALSE /\ dropped = FALSE /\ promised = FALSE

-----------------------------------------------------------------------------
(* The stream below: its own steps, and what it answers *)

Drain ==
  /\ room' \in 1..MaxPermit /\ flushing' = FALSE
  /\ UNCHANGED <<fault, dirty, credit, handed, wrapper, host, call, wait, ret,
                 dropped, promised>>

Break ==
  /\ fault = "none" /\ fault' = "ready"
  /\ UNCHANGED <<room, flushing, dirty, credit, handed, wrapper, host, call, wait,
                 ret, dropped, promised>>

\* An error is handed out, for good or only this once.
Fails ==
  /\ fault = "ready" /\ fault' \in {"ready", "out"} /\ handed' = TRUE
  /\ UNCHANGED <<room, flushing, dirty, credit>>

\* A permit may be given once only, until the stream drains again.
Grants(n) ==
  /\ fault # "ready" /\ n = room /\ room' \in {0, room}
  /\ credit' = IF n > 0 /\ credit < MaxCredit THEN credit + 1 ELSE credit
  /\ UNCHANGED <<fault, flushing, dirty, handed>>

Accepts(k) ==
  /\ fault # "ready"
  /\ room' \in {0, room} /\ dirty' = (dirty \/ k > 0)
  /\ credit' = IF k > 0 THEN credit - 1 ELSE credit
  /\ UNCHANGED <<fault, flushing, handed>>

StartsFlush ==
  /\ fault # "ready"
  /\ room' = 0 /\ flushing' = TRUE /\ dirty' = FALSE
  /\ UNCHANGED <<fault, credit, handed>>

-----------------------------------------------------------------------------
(* The handlers, as the steps they take *)

\* hostState.waitWritable, check-write, write (and write-zeroes), flush
WaitWritable == <<"closed", "wait">>
CheckWrite == <<"closed", "probe", "record">>
Write == <<"consume", "closed", "try">>
FlushCall == <<"closed", "flush">>

\* Mutant: a blocking flush does not wait for the flush it began.
BlockingFlushAtOnce == WaitWritable \o <<"flush", "probe", "record">>

BlockingFlush == WaitWritable \o <<"flush">> \o WaitWritable \o <<"probe", "record">>

\* While bytes are left: wait, ask, write what is allowed.  Then the flush.
BlockingWriteAndFlush(n) ==
  IF n = 0 THEN BlockingFlush
           ELSE WaitWritable \o CheckWrite \o <<"chunk">> \o Write \o <<"rest">>

\* splice and blocking-splice
Splice(blocking) ==
  (IF blocking THEN WaitWritable ELSE <<>>) \o CheckWrite \o <<"chunk", "read">> \o Write

Steps(op, n) ==
  CASE op = "check" -> CheckWrite
    [] op = "write" -> Write
    [] op = "flush" -> FlushCall
    [] op = "bflush" -> BlockingFlush
    [] op = "bwrite" -> BlockingWriteAndFlush(n)
    [] op = "splice" -> Splice(FALSE)
    [] op = "bsplice" -> Splice(TRUE)

-----------------------------------------------------------------------------
(* The steps of a call *)

At(g, step) == call[g].todo # <<>> /\ Head(call[g].todo) = step
Return(g, r) == call' = [call EXCEPT ![g] = Idle] /\ ret' = r
Do(g, steps) == call' = [call EXCEPT ![g].todo = steps] /\ UNCHANGED ret

Success(g, c) ==
  CASE c.op = "check" /\ c.hand = 0 -> "zero"
    [] c.op = "flush" -> "begun"
    [] OTHER -> "ok"

\* The step is done; c is the call as the step leaves it.
Goes(g, c) ==
  IF Len(c.todo) = 1 THEN Return(g, Success(g, c))
  ELSE call' = [call EXCEPT ![g] = [c EXCEPT !.todo = Tail(@)]] /\ UNCHANGED ret

Begin(g, op, n) ==
  /\ call[g] = Idle
  /\ call' = [call EXCEPT ![g] = [Idle EXCEPT !.op = op, !.left = n, !.size = n,
                                             !.todo = Steps(op, n)]]
  /\ ret' = "none"
  /\ UNCHANGED <<stream, wrapper, host, wait, dropped, promised>>

\* outputClosed
Closed(g) ==
  /\ At(g, "closed")
  /\ IF failed THEN Return(g, "closed") ELSE Goes(g, call[g])
  /\ UNCHANGED <<stream, wrapper, host, wait, dropped, promised>>

\* pollSafeOutput.WaitWritable: the error of a probe, the permit of a probe,
\* which stays, or the stream's own wait.  That one ends when no flush is under
\* way; what it was woken for may be gone by the time CheckWrite asks.
Wait(g) ==
  /\ At(g, "wait")
  /\ \/ pending /\ pending' = FALSE /\ UNCHANGED <<permit, stream>> /\ Do(g, <<"error">>)
     \/ ~pending /\ permit # 0 /\ UNCHANGED <<wrapper, stream>> /\ Goes(g, call[g])
     \/ ~pending /\ permit = 0 /\ UNCHANGED wrapper
        /\ \/ ~flushing /\ fault # "ready" /\ UNCHANGED stream /\ Goes(g, call[g])
           \/ Fails /\ Do(g, <<"error">>)
  /\ promised' = (promised /\ ~pending)
  /\ UNCHANGED <<host, wait, dropped>>

\* waitWritable tells a failure of the stream from the end of the caller's
\* context: with the context done the call returns its error.
WaitError(g) ==
  /\ At(g, "error")
  /\ \/ Do(g, <<"fail">>) /\ UNCHANGED dropped
     \/ Return(g, "canceled") /\ dropped' = TRUE
  /\ UNCHANGED <<stream, wrapper, host, wait, promised>>

Canceled(g) ==
  /\ At(g, "wait") \/ At(g, "retry")
  /\ Return(g, "canceled")
  /\ UNCHANGED <<stream, wrapper, host, wait, dropped, promised>>

\* takePending clears what a probe had left.
LeftByTakePending == 0

\* pollSafeOutput.CheckWrite, called by probeWritePermit without the mutex.
Probe(g) ==
  /\ At(g, "probe")
  /\ \E n \in None..MaxPermit :
       /\ \/ pending /\ n = None /\ UNCHANGED stream
          \/ ~pending /\ permit # 0 /\ n = permit /\ UNCHANGED stream
          \/ ~pending /\ permit = 0 /\ (Grants(n) \/ (n = None /\ Fails))
       /\ Goes(g, [call[g] EXCEPT !.hand = n])
  /\ permit' = LeftByTakePending /\ pending' = FALSE
  /\ UNCHANGED <<host, wait, dropped, promised>>

\* The locked part of probeWritePermit: an error deletes the grant, an answer
\* replaces it.
Record(g) ==
  /\ At(g, "record")
  /\ granted' = call[g].hand
  /\ IF call[g].hand = None THEN Do(g, <<"fail">>) ELSE Goes(g, call[g])
  /\ promised' = FALSE
  /\ UNCHANGED <<stream, wrapper, failed, told, wait, dropped>>

Size(g) == IF call[g].left > call[g].hand THEN call[g].hand ELSE call[g].left

Blocking(g) == call[g].op \in {"bwrite", "bsplice"} /\ call[g].left > 0

\* Mutant: the retry looks at the permit it had, instead of asking again.
AgainUnasked(g) == Do(g, <<"retry">> \o call[g].todo)

Again(g) == Do(g, <<"retry">> \o Steps(call[g].op, call[g].left))

\* The permit of the check decides how much is tried; a blocking call with
\* none tries again after a delay.
ChunkStep(g) ==
  /\ At(g, "chunk")
  /\ IF Blocking(g) /\ call[g].hand = 0 THEN Again(g)
     ELSE Goes(g, [call[g] EXCEPT !.size = Size(g)])
  /\ UNCHANGED <<stream, wrapper, host, wait, dropped, promised>>

\* waitTransientStreamRetry, waitSpliceRetry: the delay is over.
Retry(g) ==
  /\ At(g, "retry") /\ Goes(g, call[g])
  /\ UNCHANGED <<stream, wrapper, host, wait, dropped, promised>>

\* A splice reads up to its permit from the input, which may have nothing yet
\* or may have ended.
SpliceRead(g) ==
  /\ At(g, "read")
  /\ \/ Return(g, "input")
     \/ Blocking(g) /\ Again(g)
     \/ \E k \in 0..call[g].size :
          (Blocking(g) => k > 0) /\ Goes(g, [call[g] EXCEPT !.size = k])
  /\ UNCHANGED <<stream, wrapper, host, wait, dropped, promised>>

\* Mutant: the grant stays for another write.
GrantAfterWriteKept == granted

GrantAfterWrite == None

\* consumeWritePermit: one write per answer of check-write; without a grant,
\* or beyond it, the call traps and the grant is gone too.
Consume(g) ==
  /\ At(g, "consume")
  /\ granted' = GrantAfterWrite
  /\ IF granted = None \/ call[g].size > granted
     THEN Return(g, "trap") ELSE Goes(g, call[g])
  /\ UNCHANGED <<stream, wrapper, failed, told, wait, dropped, promised>>

\* pollSafeOutput.TryWrite
Try(g) ==
  /\ At(g, "try")
  /\ permit' = LeftByTakePending /\ pending' = FALSE
  /\ \/ pending /\ UNCHANGED stream /\ Do(g, <<"fail">>)
     \/ ~pending /\ Fails /\ Do(g, <<"fail">>)
     \/ ~pending /\ Accepts(call[g].size) /\ Goes(g, call[g])
  /\ promised' = FALSE
  /\ UNCHANGED <<host, wait, dropped>>

Left(g) == call[g].left - call[g].size

\* blocking-write-and-flush goes on with the rest of its buffer.
Rest(g) ==
  /\ At(g, "rest")
  /\ call' = [call EXCEPT ![g].left = Left(g),
                          ![g].todo = BlockingWriteAndFlush(Left(g))]
  /\ UNCHANGED <<stream, wrapper, host, wait, ret, dropped, promised>>

\* pollSafeOutput.BeginFlush
Flush(g) ==
  /\ At(g, "flush")
  /\ permit' = LeftByTakePending /\ pending' = FALSE
  /\ \/ pending /\ UNCHANGED stream /\ Do(g, <<"fail">>)
     \/ ~pending /\ Fails /\ Do(g, <<"fail">>)
     \/ ~pending /\ StartsFlush /\ Goes(g, call[g])
  /\ promised' = FALSE
  /\ UNCHANGED <<host, wait, dropped>>

FirstFailure == ~failed

\* outputFailure: the first error is told, from then on the stream is closed.
\* The grant is kept for the next write.  addError has no room when the guest
\* holds as many errors as it may: then the call traps.
Fail(g) ==
  /\ At(g, "fail")
  /\ failed' = TRUE
  /\ \/ FirstFailure /\ told' = told + 1 /\ Return(g, "failure") /\ UNCHANGED dropped
     \/ FirstFailure /\ dropped' = TRUE /\ Return(g, "trap") /\ UNCHANGED told
     \/ ~FirstFailure /\ Return(g, "closed") /\ UNCHANGED <<told, dropped>>
  /\ UNCHANGED <<stream, wrapper, granted, wait, promised>>

-----------------------------------------------------------------------------
(* Polling: ready and wait of the stream's pollable *)

\* Mutant: the probe's permit is not kept.
KeptPermitNone(n) == 0

KeptPermit(n) == n

\* pollReady, with the wrapper's mutex held.
PollReady(g) ==
  /\ call[g] = Idle /\ ~failed
  /\ \/ (pending \/ permit # 0) /\ promised' = TRUE /\ UNCHANGED <<stream, wrapper>>
     \/ /\ ~pending /\ permit = 0
        /\ \/ Fails /\ pending' = TRUE /\ promised' = TRUE /\ UNCHANGED permit
           \/ \E n \in 0..MaxPermit :
                /\ Grants(n) /\ permit' = KeptPermit(n) /\ promised' = (n > 0)
                /\ UNCHANGED pending
  /\ UNCHANGED <<host, call, wait, ret, dropped>>

PollWait(w) ==
  /\ wait[w] = "idle" /\ ~failed /\ ~pending /\ permit = 0
  /\ wait' = [wait EXCEPT ![w] = "waiting"]
  /\ UNCHANGED <<stream, wrapper, host, call, ret, dropped, promised>>

\* The wait ends: writable, or with an error that is kept while the poll goes
\* on, or with the poll.
PollWakes(w) ==
  /\ wait[w] = "waiting"
  /\ \/ UNCHANGED <<stream, dropped>> /\ wait' = [wait EXCEPT ![w] = "idle"]
     \/ Fails /\ wait' = [wait EXCEPT ![w] = "record"] /\ UNCHANGED dropped
     \/ Fails /\ wait' = [wait EXCEPT ![w] = "idle"] /\ dropped' = TRUE
  /\ UNCHANGED <<wrapper, host, call, ret, promised>>

\* Mutant: the worker returns the error instead of keeping it.
PendingAfterWaitLost == pending

PendingAfterWait == TRUE

PollRecords(w) ==
  /\ wait[w] = "record"
  /\ pending' = PendingAfterWait /\ wait' = [wait EXCEPT ![w] = "idle"]
  /\ UNCHANGED <<stream, permit, host, call, ret, dropped, promised>>

Step(g) ==
  \/ Closed(g) \/ Wait(g) \/ WaitError(g) \/ Probe(g) \/ Record(g) \/ ChunkStep(g)
  \/ Retry(g) \/ SpliceRead(g) \/ Consume(g) \/ Try(g) \/ Rest(g) \/ Flush(g) \/ Fail(g)

Next ==
  \/ Drain \/ Break
  \/ \E g \in Guests :
       \/ \E op \in Calls : \E n \in Lengths(op) : Begin(g, op, n)
       \/ Step(g) \/ Canceled(g) \/ PollReady(g)
  \/ \E w \in Workers : PollWait(w) \/ PollWakes(w) \/ PollRecords(w)

Spec == Init /\ [][Next]_vars

(***************************************************************************)
(* Fairness: a call goes on when it can, and the stream drains: without    *)
(* that no write ever completes.  A splice is not asked for more, since    *)
(* its input may never have anything.                                      *)
(***************************************************************************)
FairSpec == Spec /\ WF_vars(Drain) /\ \A g \in Guests : WF_vars(Step(g))

-----------------------------------------------------------------------------
(* Properties *)

\* Every write reaches the stream on an answer of CheckWrite of its own: no
\* permit is used twice, through hostState.permits or through the one a probe
\* left in pollSafeOutput while a poll's worker waits on the same stream.
GrantUsedOnce == credit >= 0

\* An error the stream handed out is told to the guest once (outputFailure):
\* later ones are answered "closed", whoever meets them; and it is not lost: it
\* was told, or waits in pollSafeOutput, in a call or in a poll worker; the
\* exceptions are a caller whose context was done and a guest that holds as many
\* errors as it may.
FailureToldOnce ==
  /\ told <= 1
  /\ handed => \/ told = 1 \/ pending \/ dropped
               \/ \E g \in Guests : \/ At(g, "fail") \/ At(g, "error")
                                    \/ At(g, "record") /\ call[g].hand = None
               \/ \E w \in Workers : wait[w] = "record"

\* For a guest that makes one call at a time: blocking-flush and
\* blocking-write-and-flush return success only when everything accepted has
\* been flushed, though a probe may have left a permit that ends waits early.
FlushedOnSuccess ==
  [][\A g \in Guests :
       call[g].op \in {"bwrite", "bflush"} /\ call'[g] = Idle /\ ret' = "ok"
         => ~dirty /\ ~flushing]_vars

\* For such a guest: when ready has answered true, the next check-write does
\* not answer zero (pollSafeOutput keeps the permit its probe was given).
ReadyMeansPermit == [][promised /\ ret' # ret => ret' # "zero"]_vars

\* Calls come to an end on a stream that drains: a blocking write that was woken
\* and then granted nothing asks again after a delay, and again, until it is
\* granted something, and so for every part of what it was given
\* (waitTransientStreamRetry).  A splice also waits for its input.
CallEnds ==
  \A g \in Guests :
    call[g].op \in {"bwrite", "bflush", "check", "write", "flush"} ~> call[g] = Idle
==============================================================================
