--------------------------- MODULE P2OutputAdapter ---------------------------
(***************************************************************************)
(* outputAdapter: a blocking io.Writer behind the nonblocking OutputStream *)
(* interface.  A write or a flush takes the only slot and runs on a        *)
(* goroutine of its own; a flush that is asked for meanwhile is remembered *)
(* and made by the same goroutine.  Several callers use TryWrite,          *)
(* BeginFlush and WaitWritable at the same time.                           *)
(*                                                                         *)
(* Requests are numbered in the order they were made, and so are the       *)
(* writes; a failed write or flush leaves the stream failed for good.      *)
(* What the code does under the mutex is one action.  A call that is       *)
(* refused, or writes nothing, changes nothing.                            *)
(***************************************************************************)
EXTENDS Integers, Sequences

CONSTANTS Clients,
          MaxRequests   \* bound on the goroutines started

ASSUME OutputAssumption == MaxRequests \in Nat

Requests == 1..MaxRequests
Nil == 0

VARIABLES requests,      \* how many requests were made
          phase,         \* per request: what its goroutine does
          data,          \* per request: the write it carries, 0 for a flush
          base,          \* per request: writes completed when its flush began
          slots,         \* len(outputAdapter.slots)
          last,          \* the request whose done channel is s.last
          err,           \* outputAdapter.err is set
          flushPending,  \* outputAdapter.flushPending
          accepted,      \* writes accepted so far
          written,       \* the writes that reached the writer, in order
          failed,        \* the writer has returned an error
          flushed,       \* writes covered by a flush that returned
          pc, on,        \* per client: where it is, and what it waits for
          due            \* per client: writes its last flush has to cover

adapter == <<slots, last, err, flushPending>>
host == <<written, failed, flushed>>
clients == <<pc, on, due>>
vars == <<requests, phase, data, base, adapter, accepted, host, clients>>

TypeOK ==
  /\ requests \in 0..MaxRequests
  /\ phase \in [Requests -> {"none", "write", "wrote", "flush", "flushed", "failed",
                             "done"}]
  /\ data \in [Requests -> 0..MaxRequests]
  /\ base \in [Requests -> 0..MaxRequests]
  /\ slots \in 0..1
  /\ last \in 0..requests
  /\ err \in BOOLEAN /\ flushPending \in BOOLEAN
  /\ accepted \in 0..MaxRequests
  /\ written \in Seq(1..MaxRequests)
  /\ failed \in BOOLEAN
  /\ flushed \in 0..MaxRequests
  /\ pc \in [Clients -> {"idle", "asked", "wait"}]
  /\ on \in [Clients -> 0..requests]
  /\ due \in [Clients -> 0..MaxRequests]

Init ==
  /\ requests = 0
  /\ phase = [q \in Requests |-> "none"]
  /\ data = [q \in Requests |-> 0] /\ base = [q \in Requests |-> 0]
  /\ slots = 0 /\ last = Nil /\ err = FALSE /\ flushPending = FALSE
  /\ accepted = 0
  /\ written = <<>> /\ failed = FALSE /\ flushed = 0
  /\ pc = [c \in Clients |-> "idle"] /\ on = [c \in Clients |-> Nil]
  /\ due = [c \in Clients |-> 0]

-----------------------------------------------------------------------------
(* TryWrite, BeginFlush, WaitWritable *)

\* A new goroutine takes the slot.
Launch(where, d) ==
  /\ requests < MaxRequests
  /\ requests' = requests + 1
  /\ slots' = slots + 1
  /\ last' = requests + 1
  /\ phase' = [phase EXCEPT ![requests + 1] = where]
  /\ data' = [data EXCEPT ![requests + 1] = d]
  /\ base' = [base EXCEPT ![requests + 1] = Len(written)]
  /\ UNCHANGED <<err, flushPending>>

\* Mutant: the slot is not looked at.
TryWriteUnslotted(c) ==
  /\ pc[c] = "idle" /\ ~err
  /\ Launch("write", accepted + 1)
  /\ accepted' = accepted + 1
  /\ UNCHANGED <<host, clients>>

TryWrite(c) ==
  /\ pc[c] = "idle" /\ ~err /\ slots = 0
  /\ Launch("write", accepted + 1)
  /\ accepted' = accepted + 1
  /\ UNCHANGED <<host, clients>>

\* A flush of its own, or one left to the goroutine that has the slot.
BeginFlush(c) ==
  /\ pc[c] = "idle" /\ ~err
  /\ IF slots # 0
     THEN /\ flushPending' = TRUE
          /\ UNCHANGED <<requests, phase, data, base, slots, last, err>>
     ELSE Launch("flush", 0)
  /\ due' = [due EXCEPT ![c] = accepted]
  /\ pc' = [pc EXCEPT ![c] = "asked"]
  /\ UNCHANGED <<accepted, host, on>>

\* Reads s.last and s.err; returns at once on an error or without a request.
WaitBegins(c) ==
  /\ pc[c] \in {"idle", "asked"}
  /\ IF err \/ last = Nil
     THEN pc' = [pc EXCEPT ![c] = "idle"] /\ UNCHANGED <<on, due>>
     ELSE /\ pc' = [pc EXCEPT ![c] = "wait"]
          /\ on' = [on EXCEPT ![c] = last]
          /\ UNCHANGED due
  /\ UNCHANGED <<requests, phase, data, base, adapter, accepted, host>>

\* The channel is closed; s.err is returned.
WaitReturns(c) ==
  /\ pc[c] = "wait" /\ phase[on[c]] = "done"
  /\ pc' = [pc EXCEPT ![c] = "idle"] /\ on' = [on EXCEPT ![c] = Nil]
  /\ UNCHANGED <<requests, phase, data, base, adapter, accepted, host, due>>

WaitCanceled(c) ==
  /\ pc[c] = "wait"
  /\ pc' = [pc EXCEPT ![c] = "idle"] /\ on' = [on EXCEPT ![c] = Nil]
  /\ UNCHANGED <<requests, phase, data, base, adapter, accepted, host, due>>

-----------------------------------------------------------------------------
(* run, the goroutine of a request *)

Goes(q, where) == phase' = [phase EXCEPT ![q] = where]

\* w.Write returns: everything was written, or an error (io.ErrShortWrite too).
WriteReturns(q) ==
  /\ phase[q] = "write"
  /\ \/ /\ written' = Append(written, data[q])
        /\ Goes(q, "wrote")
        /\ UNCHANGED failed
     \/ /\ failed' = TRUE
        /\ Goes(q, "failed")
        /\ UNCHANGED written
  /\ UNCHANGED <<requests, data, base, adapter, accepted, flushed, clients>>

\* w.Flush returns; it covers the writes made before it began.
FlushReturns(q) ==
  /\ phase[q] = "flush"
  /\ \/ /\ flushed' = IF base[q] > flushed THEN base[q] ELSE flushed
        /\ Goes(q, "flushed")
        /\ UNCHANGED failed
     \/ /\ failed' = TRUE
        /\ Goes(q, "failed")
        /\ UNCHANGED flushed
  /\ UNCHANGED <<requests, data, base, adapter, accepted, written, clients>>

\* A flush was asked for during the write: make it before giving up the slot.
FlushNow(q) ==
  /\ phase[q] = "wrote" /\ flushPending /\ ~err
  /\ flushPending' = FALSE
  /\ Goes(q, "flush")
  /\ base' = [base EXCEPT ![q] = Len(written)]
  /\ UNCHANGED <<requests, data, slots, last, err, accepted, host, clients>>

\* Mutant: a pending flush is dropped with the slot.
FinishPending(q) ==
  /\ phase[q] \in {"wrote", "flushed", "failed"}
  /\ err' = (err \/ phase[q] = "failed")
  /\ flushPending' = FALSE
  /\ slots' = slots - 1
  /\ Goes(q, "done")
  /\ UNCHANGED <<requests, data, base, last, accepted, host, clients>>

\* Mutant: on an error nobody is woken.
FinishSilently(q) ==
  /\ phase[q] \in {"wrote", "flushed", "failed"}
  /\ ~(phase[q] = "wrote" /\ flushPending /\ ~err)
  /\ err' = (err \/ phase[q] = "failed")
  /\ flushPending' = FALSE
  /\ slots' = slots - 1
  /\ Goes(q, IF phase[q] = "failed" THEN "none" ELSE "done")
  /\ UNCHANGED <<requests, data, base, last, accepted, host, clients>>

\* Record the error, release the slot and wake the waiters.
Finish(q) ==
  /\ phase[q] \in {"wrote", "flushed", "failed"}
  /\ ~(phase[q] = "wrote" /\ flushPending /\ ~err)
  /\ err' = (err \/ phase[q] = "failed")
  /\ flushPending' = FALSE
  /\ slots' = slots - 1
  /\ Goes(q, "done")
  /\ UNCHANGED <<requests, data, base, last, accepted, host, clients>>

ClientStep(c) ==
  TryWrite(c) \/ BeginFlush(c) \/ WaitBegins(c) \/ WaitReturns(c) \/ WaitCanceled(c)

Run(q) == WriteReturns(q) \/ FlushReturns(q) \/ FlushNow(q) \/ Finish(q)

Next ==
  \/ \E c \in Clients : ClientStep(c)
  \/ \E q \in Requests : Run(q)

Spec == Init /\ [][Next]_vars

\* The writer returns, goroutines are scheduled, closed channels wake waiters.
FairSpec ==
  /\ Spec
  /\ \A q \in Requests : WF_vars(Run(q))
  /\ \A c \in Clients : WF_vars(WaitReturns(c))

-----------------------------------------------------------------------------
(* Properties *)

Active == {q \in Requests : phase[q] \notin {"none", "done"}}

\* The writer is used by one goroutine at a time, the one that holds the slot
\* and whose channel s.last is: so BeginFlush, which fills the slot under the
\* mutex after it saw it empty, cannot block.
SlotIsLast == slots = 1 <=> Active = {last} /\ last # Nil

\* Accepted writes reach the writer in order, each once, and none after one
\* that failed.
WritesInOrder ==
  /\ \A j \in 1..Len(written) : written[j] = j
  /\ Len(written) <= accepted
  /\ accepted - Len(written) <= 1

\* After a failure nothing more is accepted, so nothing is written behind the
\* gap it left.
FailureSticks ==
  [][failed /\ slots = 0 => accepted' = accepted /\ written' = written]_vars

\* "A concurrent flush request is covered by the flush already in flight"
\* (run): when the adapter is idle and has not failed, a flush has covered
\* every write that was accepted before any successful BeginFlush.
FlushCovers ==
  slots = 0 /\ ~err => \A c \in Clients : due[c] <= flushed

\* blocking-flush is BeginFlush and WaitWritable: when WaitWritable returns
\* without an error, the caller's writes were flushed, also while other
\* callers write and flush.
FlushBeforeReturn ==
  [][\A c \in Clients :
       pc[c] = "wait" /\ pc'[c] = "idle" /\ phase[on[c]] = "done" /\ ~err
         => due[c] <= flushed]_vars

\* A caller of WaitWritable returns once the writer does.
WaitEnds == \A c \in Clients : pc[c] = "wait" ~> pc[c] # "wait"
==============================================================================
