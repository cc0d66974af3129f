----------------------------- MODULE P2AsyncInput -----------------------------
(***************************************************************************)
(* asyncInput: a blocking io.Reader behind the nonblocking InputStream     *)
(* interface.  A read runs on a goroutine of its own; its result waits in  *)
(* a pendingInputRead until a caller collects it.  Several callers use     *)
(* TryRead, WaitReadable and pendingReadError at the same time.            *)
(*                                                                         *)
(* A pendingInputRead is a number, in the order of their creation, because *)
(* a waiter may hold on to one that others have long collected and         *)
(* drained: asyncInput.result points into it.  Its bytes are the interval  *)
(* lo+1..hi of the source.                                                 *)
(***************************************************************************)
EXTENDS Integers, Sequences

CONSTANTS Clients,
          MaxBytes,   \* bound on the bytes the source yields
          MaxReads,   \* bound on the reads started
          MaxLen,     \* longest buffer passed to TryRead
          NoClient

ASSUME InputAssumption ==
  /\ MaxBytes \in Nat /\ MaxReads \in Nat /\ MaxLen \in Nat
  /\ NoClient \notin Clients

Reads == 1..MaxReads
Nil == 0

VARIABLES reads,      \* how many pendingInputReads there are
          ready,      \* per read: its channel is closed
          res,        \* per read: its result, [lo, hi, err]
          result,     \* asyncInput.result, Nil or the read it points into
          waiting,    \* asyncInput.waiting
          closed,     \* asyncInput.closed
          mu,         \* the client inside TryRead
          len,        \* the length of its buffer
          pc,         \* per client: idle, or in WaitReadable's select, alone
                      \* or with a TryRead of somebody since it began
          read,       \* per client: the read it waits for
          produced, ended,      \* the source, as in P2InputContract
          delivered, reported,  \* what the clients received
          ret,        \* what the last TryRead returned
          promised    \* a wait found the stream readable, nobody has read since

source == <<produced, ended>>
received == <<delivered, reported, ret>>
vars == <<reads, ready, res, result, waiting, closed, mu, len, pc, read, source,
          received, promised>>

Errors == {"nil", "eof", "fail"}

TypeOK ==
  /\ reads \in 0..MaxReads
  /\ ready \in [Reads -> BOOLEAN]
  /\ res \in [Reads -> [lo : 0..MaxBytes, hi : 0..MaxBytes, err : Errors]]
  /\ result \in 0..reads /\ waiting \in 0..reads
  /\ closed \in BOOLEAN
  /\ mu \in Clients \cup {NoClient} /\ len \in 0..MaxLen
  /\ pc \in [Clients -> {"idle", "wait", "crowded"}]
  /\ read \in [Clients -> 0..reads]
  /\ produced \in 0..MaxBytes /\ ended \in {"no", "eof", "fail"}
  /\ delivered \in Seq(1..MaxBytes)
  /\ reported \in {"nothing", "failure", "end"}
  /\ ret \in {"none", "zero", "bytes", "empty", "wouldblock", "failure", "end"}
  /\ promised \in BOOLEAN

\* A nil reader is a stream that is closed from the start (newInput).
Init ==
  /\ reads = 0 /\ result = Nil /\ waiting = Nil /\ closed \in BOOLEAN
  /\ ready = [k \in Reads |-> FALSE]
  /\ res = [k \in Reads |-> [lo |-> 0, hi |-> 0, err |-> "nil"]]
  /\ mu = NoClient /\ len = 0
  /\ pc = [c \in Clients |-> "idle"] /\ read = [c \in Clients |-> Nil]
  /\ produced = 0 /\ ended = IF closed THEN "eof" ELSE "no"
  /\ delivered = <<>> /\ reported = "nothing" /\ ret = "none"
  /\ promised = FALSE

-----------------------------------------------------------------------------
(* The reader's goroutine *)

\* Source.Read returns n bytes and an error, and the result is published.  A
\* reader may return bytes together with an error, or neither.  The last read
\* within the bound ends the source.
ReadReturns(k) ==
  /\ k <= reads /\ ~ready[k]
  /\ \E n \in 0..(MaxBytes - produced), err \in Errors :
       /\ k = MaxReads => err # "nil"
       /\ res' = [res EXCEPT ![k] = [lo |-> produced, hi |-> produced + n,
                                     err |-> err]]
       /\ produced' = produced + n
       /\ ended' = IF err = "nil" THEN ended ELSE err
  /\ ready' = [ready EXCEPT ![k] = TRUE]
  /\ UNCHANGED <<reads, result, waiting, closed, mu, len, pc, read, received,
                 promised>>

-----------------------------------------------------------------------------
(* collect and start, called with the mutex held *)

\* What result and waiting are after collect.
Collected == waiting # Nil /\ ready[waiting]
ResultNow == IF Collected THEN waiting ELSE result
WaitingNow == IF Collected THEN Nil ELSE waiting

Starts == WaitingNow = Nil /\ ResultNow = Nil /\ ~closed

\* collect, and then start when there is nothing to deliver.
CollectAndStart ==
  /\ result' = ResultNow
  /\ waiting' = IF Starts THEN reads + 1 ELSE WaitingNow
  /\ reads' = IF Starts THEN reads + 1 ELSE reads
  /\ Starts => reads < MaxReads

Empty(k) == res[k].lo = res[k].hi
Crowd == [c \in Clients |-> IF pc[c] = "wait" THEN "crowded" ELSE pc[c]]

-----------------------------------------------------------------------------
(* TryRead *)

\* An empty buffer: an end that is already known is reported, nothing else is
\* consumed.
TryReadZero(c) ==
  /\ mu = NoClient /\ pc[c] = "idle"
  /\ LET atEnd == ResultNow # Nil /\ Empty(ResultNow) /\ res[ResultNow].err = "eof"
     IN  /\ result' = IF atEnd THEN Nil ELSE ResultNow
         /\ closed' = (closed \/ atEnd)
  /\ waiting' = WaitingNow
  /\ ret' = IF closed' THEN "end" ELSE "zero"
  /\ reported' = IF closed' THEN "end" ELSE reported
  /\ UNCHANGED <<reads, ready, res, mu, len, pc, read, source, delivered,
                 promised>>

TryReadClosed(c) ==
  /\ mu = NoClient /\ pc[c] = "idle"
  /\ ResultNow = Nil /\ closed
  /\ ret' = "end" /\ reported' = "end"
  /\ promised' = FALSE
  /\ UNCHANGED <<reads, ready, res, result, waiting, closed, mu, len, pc, read,
                 source, delivered>>

\* Up to start; the mutex stays locked, but the read that was started may
\* return before the second collect.
TryReadBegin(c, n) ==
  /\ mu = NoClient /\ pc[c] = "idle"
  /\ ~(ResultNow = Nil /\ closed)
  /\ CollectAndStart
  /\ mu' = c /\ len' = n
  /\ pc' = Crowd
  /\ UNCHANGED <<ready, res, closed, read, source, received, promised>>

TryReadBlocks(c) ==
  /\ mu = c /\ ResultNow = Nil
  /\ ret' = "wouldblock"
  /\ mu' = NoClient /\ len' = 0 /\ promised' = FALSE
  /\ UNCHANGED <<reads, ready, res, result, waiting, closed, pc, read, source,
                 delivered, reported>>

Smaller(a, b) == IF a < b THEN a ELSE b

\* copy(dst, result.b)
Copied(k) == Smaller(len, res[k].hi - res[k].lo)

\* Mutant: an empty result is never dropped.
KeepsEmpty(k, n) ==
  \/ res[k].lo + n < res[k].hi
  \/ n > 0 /\ res[k].err = "fail"
  \/ n = 0 /\ res[k].err = "nil"

\* The result stays: bytes are left, or an error that comes after the bytes.
Keeps(k, n) ==
  \/ res[k].lo + n < res[k].hi
  \/ n > 0 /\ res[k].err = "fail"

Closes(k, n) ==
  ~Keeps(k, n) /\ (res[k].err = "eof" \/ (res[k].err = "fail" /\ n = 0))

TryReadTakes(c) ==
  /\ mu = c /\ ResultNow # Nil
  /\ LET k == ResultNow
         n == Copied(k)
     IN  /\ res' = [res EXCEPT ![k].lo = @ + n]
         /\ delivered' = delivered \o [j \in 1..n |-> res[k].lo + j]
         /\ result' = IF Keeps(k, n) THEN k ELSE Nil
         /\ closed' = (closed \/ Closes(k, n))
         /\ ret' = IF n > 0 THEN "bytes"
                   ELSE [nil |-> "empty", eof |-> "end", fail |-> "failure"][res[k].err]
         /\ reported' = IF ret' \in {"end", "failure"} THEN ret' ELSE reported
  /\ waiting' = WaitingNow
  /\ mu' = NoClient /\ len' = 0 /\ promised' = FALSE
  /\ UNCHANGED <<reads, ready, pc, read, source>>

-----------------------------------------------------------------------------
(* WaitReadable and pendingReadError *)

WaitNotNeeded(c) ==
  /\ mu = NoClient /\ pc[c] = "idle"
  /\ ResultNow # Nil \/ closed
  /\ result' = ResultNow /\ waiting' = WaitingNow
  /\ promised' = TRUE
  /\ UNCHANGED <<reads, ready, res, closed, mu, len, pc, read, source, received>>

WaitBegins(c) ==
  /\ mu = NoClient /\ pc[c] = "idle"
  /\ ~(ResultNow # Nil \/ closed)
  /\ CollectAndStart
  /\ read' = [read EXCEPT ![c] = waiting']
  /\ pc' = [pc EXCEPT ![c] = "wait"]
  /\ UNCHANGED <<ready, res, closed, mu, len, source, received, promised>>

\* Mutant: the read is taken although somebody else has collected it.
WaitWakesUnguarded(c) ==
  /\ pc[c] # "idle" /\ mu = NoClient /\ ready[read[c]]
  /\ waiting' = Nil /\ result' = read[c]
  /\ promised' = (promised \/ pc[c] = "wait")
  /\ pc' = [pc EXCEPT ![c] = "idle"] /\ read' = [read EXCEPT ![c] = Nil]
  /\ UNCHANGED <<reads, ready, res, closed, mu, len, source, received>>

\* Mutant: the waiter forgets the result it was woken for.
WaitWakesForgetting(c) ==
  /\ pc[c] # "idle" /\ mu = NoClient /\ ready[read[c]]
  /\ waiting' = IF waiting = read[c] THEN Nil ELSE waiting
  /\ promised' = (promised \/ pc[c] = "wait")
  /\ pc' = [pc EXCEPT ![c] = "idle"] /\ read' = [read EXCEPT ![c] = Nil]
  /\ UNCHANGED <<reads, ready, res, result, closed, mu, len, source, received>>

WaitWakes(c) ==
  /\ pc[c] # "idle" /\ mu = NoClient /\ ready[read[c]]
  /\ IF waiting = read[c] THEN waiting' = Nil /\ result' = read[c]
                          ELSE UNCHANGED <<waiting, result>>
  /\ promised' = (promised \/ pc[c] = "wait")
  /\ pc' = [pc EXCEPT ![c] = "idle"] /\ read' = [read EXCEPT ![c] = Nil]
  /\ UNCHANGED <<reads, ready, res, closed, mu, len, source, received>>

WaitCanceled(c) ==
  /\ pc[c] # "idle"
  /\ pc' = [pc EXCEPT ![c] = "idle"] /\ read' = [read EXCEPT ![c] = Nil]
  /\ UNCHANGED <<reads, ready, res, result, waiting, closed, mu, len, source,
                 received, promised>>

\* The probe a poll makes: collect, and look for an error without taking it.
PendingReadError(c) ==
  /\ mu = NoClient /\ pc[c] = "idle"
  /\ result' = ResultNow /\ waiting' = WaitingNow
  /\ promised' = (promised \/ (ResultNow # Nil /\ Empty(ResultNow)
                               /\ res[ResultNow].err # "nil"))
  /\ UNCHANGED <<reads, ready, res, closed, mu, len, pc, read, source, received>>

ClientStep(c) ==
  \/ TryReadZero(c)
  \/ TryReadClosed(c)
  \/ \E n \in 1..MaxLen : TryReadBegin(c, n)
  \/ TryReadBlocks(c)
  \/ TryReadTakes(c)
  \/ WaitNotNeeded(c)
  \/ WaitBegins(c)
  \/ WaitWakes(c)
  \/ WaitCanceled(c)
  \/ PendingReadError(c)

Next ==
  \/ \E k \in Reads : ReadReturns(k)
  \/ \E c \in Clients : ClientStep(c)

Spec == Init /\ [][Next]_vars

(***************************************************************************)
(* Fairness: the source's Read returns, a client inside TryRead goes on,   *)
(* a closed channel wakes its waiters, and some client keeps calling       *)
(* TryRead.                                                                *)
(***************************************************************************)
Fairness ==
  /\ \A k \in Reads : WF_vars(ReadReturns(k))
  /\ \A c \in Clients : /\ WF_vars(TryReadBlocks(c) \/ TryReadTakes(c))
                         /\ WF_vars(WaitWakes(c))
  /\ SF_vars(\E c \in Clients : \/ TryReadClosed(c)
                                \/ \E n \in 1..MaxLen : TryReadBegin(c, n))

FairSpec == Spec /\ Fairness

-----------------------------------------------------------------------------
(* Properties *)

\* asyncInput keeps the contract of an input stream: concurrent waiters,
\* probes and reads lose no byte, duplicate none, and tell a failure once.
Contract == INSTANCE P2InputContract WITH
  MaxBytes <- MaxBytes, produced <- produced, ended <- ended,
  delivered <- delivered, reported <- reported
ContractKept == Contract!Spec

\* "At most one bounded read is in flight" (asyncInput): also while waiters
\* hold on to earlier reads, and a result is never left behind uncollected.
OneReadInFlight ==
  /\ \A j, k \in 1..reads : ~ready[j] /\ ~ready[k] => j = k
  /\ \A k \in 1..reads : ~ready[k] => waiting = k
  /\ waiting # Nil => result = Nil

\* When WaitReadable has returned, or a probe has seen an error, the next
\* TryRead does not answer ErrWouldBlock, unless another caller read meanwhile.
ReadinessKept ==
  [][promised /\ mu # NoClient /\ mu' = NoClient => ret' # "wouldblock"]_vars

\* A caller that keeps reading comes to the end of a source that ends: no
\* result is lost between the goroutine, the waiters and the readers.
EndReached == <>(reported # "nothing")

==============================================================================
