------------------------------- MODULE P2Stdin -------------------------------
(***************************************************************************)
(* The guest's standard input (hostState.stdin): read and skip,            *)
(* blocking-read and blocking-skip, the wait of a splice, and the two      *)
(* halves of its pollable, inputReady and waitStdin.  A probe for          *)
(* readiness has to read: its byte and its error stay in the instance      *)
(* (stdinProbe, stdinReadError) until a guest read takes them.             *)
(*                                                                         *)
(* The InputStream below is the adapter of P2AsyncInput or an embedder's   *)
(* own; P2InputContract is both what is assumed of its source and what is  *)
(* promised to the guest.                                                  *)
(***************************************************************************)
EXTENDS Integers, Sequences, FiniteSetsExt

CONSTANTS Callers,    \* goroutines inside host calls or poll waits
          MaxBytes,   \* bound on the bytes of the source
          MaxLen,     \* longest read
          NoCaller

ASSUME StdinAssumption ==
  MaxBytes \in Nat /\ MaxLen \in Nat /\ NoCaller \notin Callers

NoRead == 0 - 1       \* waitStdinReadable: no read follows the wait

VARIABLES kind,       \* the stream: "adapter", or one that tells a failure
                      \* from TryRead ("read") or from WaitReadable ("wait")
          taken,      \* bytes TryRead has handed out
          buffered,   \* stdinProbe, when stdinBuffered
          readErr,    \* stdinReadError
          mu,         \* holder of stdinMu across a wait
          pc, len,    \* per caller: where it is, the length it reads
          canceled,   \* per caller: its context is done
          ret,        \* what the last read returned
          produced, ended, delivered, reported   \* as in P2InputContract

guest == <<delivered, reported, ret>>
vars == <<kind, taken, buffered, readErr, mu, pc, len, canceled, produced,
          ended, guest>>

\* The promise to the guest: no probe, wait or failure loses, repeats or
\* reorders a byte, and a failure is told once, then only the end.
Guest == INSTANCE P2InputContract WITH
  MaxBytes <- MaxBytes, produced <- produced, ended <- ended,
  delivered <- delivered, reported <- reported

TypeOK ==
  /\ kind \in {"adapter", "read", "wait"}
  /\ taken \in 0..MaxBytes
  /\ buffered \in Seq(1..MaxBytes) /\ Len(buffered) <= 1
  /\ readErr \in {"nil", "eof", "fail"}
  /\ mu \in Callers \cup {NoCaller}
  /\ pc \in [Callers -> {"idle", "begin", "held", "read", "retry", "poll", "record"}]
  /\ len \in [Callers -> NoRead..MaxLen]
  /\ canceled \in [Callers -> BOOLEAN]
  /\ ret \in {"none", "bytes", "empty", "failure", "end"}

Init ==
  /\ Guest!Init
  /\ kind \in {"adapter", "read", "wait"}
  /\ taken = 0 /\ buffered = <<>> /\ readErr = "nil"
  /\ mu = NoCaller /\ ret = "none"
  /\ pc = [c \in Callers |-> "idle"] /\ len = [c \in Callers |-> 0]
  /\ canceled = [c \in Callers |-> FALSE]

\* A call that returns leaves its length and its context behind.
Goto(c, where) ==
  /\ pc' = [pc EXCEPT ![c] = where]
  /\ len' = IF where = "idle" THEN [len EXCEPT ![c] = 0] ELSE len
  /\ canceled' = IF where = "idle" THEN [canceled EXCEPT ![c] = FALSE] ELSE canceled

-----------------------------------------------------------------------------
(* The stream below *)

Source ==
  /\ Guest!Produce
  /\ UNCHANGED <<kind, taken, buffered, readErr, mu, pc, len, canceled, ret>>

Available == produced - taken
AtEnd == ended # "no" /\ Available = 0
WaitFails == AtEnd /\ ended = "fail" /\ kind = "wait"
Readable == (Available > 0 \/ AtEnd) /\ ~WaitFails

\* The answers of TryRead to a buffer of length k.  Only an embedder's stream
\* returns bytes together with an error.
TryRead(k) ==
  LET nothing == [n |-> 0, err |-> IF Readable THEN ended ELSE "block"]
      some == {[n |-> n, err |-> "nil"] : n \in 1..Min({k, Available})}
      all == [n |-> Available, err |-> ended]
  IN  IF k = 0
      THEN {[n |-> 0, err |-> "nil"]} \cup (IF AtEnd /\ ended = "eof" THEN {nothing} ELSE {})
      ELSE IF Available = 0 THEN {nothing}
      ELSE some \cup (IF kind = "read" /\ ended # "no" /\ Available <= k THEN {all} ELSE {})

-----------------------------------------------------------------------------
(* readStdinLocked, for read, skip and the reads of the blocking calls *)

Bytes(n) == [j \in 1..n |-> taken + j]

Answer(n, err) ==
  /\ ret' = IF n > 0 THEN "bytes"
            ELSE IF err = "fail" THEN "failure" ELSE IF err = "eof" THEN "end" ELSE "empty"
  /\ reported' = IF ret' \in {"failure", "end"} THEN ret' ELSE reported

\* stdinReadError once it was returned to a read of length k; an open read of
\* length zero preserves a failure.
ErrAfterReport(k) == IF readErr = "fail" /\ k = 0 THEN "fail" ELSE "eof"

\* stdinReadError after a read got r: bytes, then the failure, then closed.
ErrAfterRead(r) ==
  IF r.err \in {"nil", "block"} THEN "nil"
  ELSE IF r.err = "fail" /\ r.n > 0 THEN "fail" ELSE "eof"

ReadStdinLocked(k) ==
  \/ /\ buffered # <<>>
     /\ delivered' = IF k = 0 THEN delivered ELSE delivered \o buffered
     /\ buffered' = IF k = 0 THEN buffered ELSE <<>>
     /\ Answer(IF k = 0 THEN 0 ELSE 1, "nil")
     /\ UNCHANGED <<taken, readErr>>
  \/ /\ buffered = <<>> /\ readErr # "nil"
     /\ Answer(0, IF readErr = "fail" /\ k = 0 THEN "nil" ELSE readErr)
     /\ readErr' = ErrAfterReport(k)
     /\ UNCHANGED <<taken, buffered, delivered>>
  \/ /\ buffered = <<>> /\ readErr = "nil"
     /\ \E r \in TryRead(k) :
          /\ taken' = taken + r.n /\ delivered' = delivered \o Bytes(r.n)
          /\ readErr' = ErrAfterRead(r)
          /\ Answer(r.n, r.err)
     /\ UNCHANGED buffered

\* input-stream.read and skip
Read(c, k) ==
  /\ pc[c] = "idle" /\ mu = NoCaller
  /\ ReadStdinLocked(k)
  /\ UNCHANGED <<kind, mu, pc, len, canceled, produced, ended>>

-----------------------------------------------------------------------------
(* blocking-read, blocking-skip, and waitStdinReadable *)

BlockingRead(c, k) ==
  /\ pc[c] = "idle"
  /\ pc' = [pc EXCEPT ![c] = "begin"] /\ len' = [len EXCEPT ![c] = k]
  /\ UNCHANGED <<kind, taken, buffered, readErr, mu, canceled, produced, ended,
                 guest>>

WaitStdinReadable(c) == BlockingRead(c, NoRead)

AfterWait(c) == IF len[c] = NoRead THEN "idle" ELSE "read"

\* stdinMu is taken and, when there is something to read, released at once.
BlockBegins(c) ==
  /\ pc[c] = "begin" /\ mu = NoCaller
  /\ IF buffered # <<>> \/ readErr # "nil"
     THEN Goto(c, AfterWait(c)) /\ UNCHANGED mu
     ELSE Goto(c, "held") /\ mu' = c
  /\ UNCHANGED <<kind, taken, buffered, readErr, produced, ended,
                 guest>>

BlockWakes(c) ==
  /\ pc[c] = "held" /\ Readable
  /\ mu' = NoCaller /\ Goto(c, AfterWait(c))
  /\ UNCHANGED <<kind, taken, buffered, readErr, produced, ended,
                 guest>>

\* WaitReadable fails: the answer is fixed under the mutex, the stream closed.
BlockFails(c) ==
  /\ pc[c] = "held" /\ WaitFails /\ ~canceled[c]
  /\ readErr' = "eof" /\ Answer(0, "fail")
  /\ mu' = NoCaller /\ Goto(c, "idle")
  /\ UNCHANGED <<kind, taken, buffered, produced, ended, delivered>>

\* Mutant: the end of the stream is taken for nothing to read yet.
AgainAtEnd(k) == ret' # "bytes"

Again(k) == ret' = "empty" /\ k > 0

BlockReads(c) ==
  /\ pc[c] = "read" /\ mu = NoCaller
  /\ ReadStdinLocked(len[c])
  /\ Goto(c, IF Again(len[c]) THEN "retry" ELSE "idle")
  /\ UNCHANGED <<kind, mu, produced, ended>>

\* Another reader took what the wait had announced: again, after a delay.
BlockRetries(c) ==
  /\ pc[c] = "retry" /\ Goto(c, "begin")
  /\ UNCHANGED <<kind, taken, buffered, readErr, mu, produced,
                 ended, guest>>

-----------------------------------------------------------------------------
(* The pollable: inputReady and waitStdin *)

ProbeErr(r) == IF r.err = "block" THEN "nil" ELSE r.err

HoldsNothing == buffered = <<>> /\ readErr = "nil"

ProbeLen == 1

\* With the adapter, a pending error is seen and left where it is.
InputReady(c) ==
  /\ pc[c] = "idle" /\ mu = NoCaller
  /\ HoldsNothing /\ ~(kind = "adapter" /\ AtEnd)
  /\ \E r \in TryRead(ProbeLen) :
       /\ taken' = taken + r.n
       /\ buffered' = Bytes(r.n) /\ readErr' = ProbeErr(r)
  /\ UNCHANGED <<kind, mu, pc, len, canceled, produced, ended, guest>>

WaitStdin(c) ==
  /\ pc[c] = "idle" /\ mu = NoCaller
  /\ HoldsNothing /\ Goto(c, "poll")
  /\ UNCHANGED <<kind, taken, buffered, readErr, mu, produced,
                 ended, guest>>

\* WaitReadable returns, without the mutex; a failure is still to be recorded.
WaitStdinWakes(c) ==
  /\ pc[c] = "poll" /\ (Readable \/ WaitFails)
  /\ Goto(c, IF WaitFails /\ ~canceled[c] THEN "record" ELSE "idle")
  /\ UNCHANGED <<kind, taken, buffered, readErr, mu, produced,
                 ended, guest>>

\* Mutant: the failure is recorded over what happened since.
RecordedOver == "fail"

Recorded == IF readErr = "nil" THEN "fail" ELSE readErr

WaitStdinRecords(c) ==
  /\ pc[c] = "record" /\ mu = NoCaller
  /\ readErr' = Recorded
  /\ Goto(c, "idle")
  /\ UNCHANGED <<kind, taken, buffered, mu, produced, ended, guest>>

-----------------------------------------------------------------------------
(* Contexts: a call's, or the one a finished poll cancels *)

Cancel(c) ==
  /\ pc[c] # "idle" /\ ~canceled[c]
  /\ canceled' = [canceled EXCEPT ![c] = TRUE]
  /\ UNCHANGED <<kind, taken, buffered, readErr, mu, pc, len, produced, ended,
                 guest>>

Interruptible == {"held", "retry", "poll"}

\* A wait or a retry delay ends with the context's error.
CancelReturns(c) ==
  /\ canceled[c] /\ pc[c] \in Interruptible
  /\ Goto(c, "idle") /\ mu' = IF mu = c THEN NoCaller ELSE mu
  /\ UNCHANGED <<kind, taken, buffered, readErr, produced, ended,
                 guest>>

InCall(c) ==
  \/ BlockBegins(c) \/ BlockWakes(c) \/ BlockFails(c) \/ BlockReads(c)
  \/ BlockRetries(c) \/ WaitStdinWakes(c) \/ WaitStdinRecords(c)
  \/ CancelReturns(c)

Next ==
  \/ Source
  \/ \E c \in Callers :
       \/ \E k \in 0..MaxLen : Read(c, k) \/ BlockingRead(c, k)
       \/ WaitStdinReadable(c) \/ InputReady(c) \/ WaitStdin(c)
       \/ InCall(c)
       \/ Cancel(c)

Spec == Init /\ [][Next]_vars

(***************************************************************************)
(* Fairness: a goroutine inside a call goes on when it can; sync.Mutex is  *)
(* starvation free, so one that asks again and again for stdinMu gets it.  *)
(* Nothing is assumed of the source or of the guest.                       *)
(***************************************************************************)
FairSpec == Spec /\ \A c \in Callers : SF_vars(InCall(c))

-----------------------------------------------------------------------------
(* Properties *)

\* The guest's stdin implements the abstract input stream, whatever is read,
\* waited for and polled at once (readStdinLocked, waitStdin, inputReady).
StdinContract == Guest!Spec

\* A byte that TryRead has handed out was delivered or is in stdinProbe:
\* no probe overwrites it, no cancelled call drops it.
NothingLost == taken = Len(delivered) + Len(buffered)

\* Once the pollable is ready by what the instance holds, it stays ready
\* until a read takes a byte: no wait, probe or failure makes it unready.
ReadyStays ==
  [][(buffered # <<>> \/ readErr # "nil") =>
       \/ buffered' # <<>> \/ readErr' # "nil"
       \/ Len(delivered') > Len(delivered)]_vars

\* When the source has ended every blocking call returns, also one that waits
\* for stdinMu behind another (blockingRead waits with the mutex held), and one
\* whose readiness others keep taking.  A cancelled call that waits for input
\* or for its retry delay returns though the source never yields anything
\* again, unless another caller waits for input with stdinMu held: Lock does
\* not look at the context.
BlockedReturns ==
  \A c \in Callers :
    /\ (ended # "no" /\ pc[c] # "idle") ~> pc[c] = "idle"
    /\ (canceled[c] /\ pc[c] \in {"held", "retry", "poll"})
         ~> (pc[c] = "idle" \/ mu \notin {c, NoCaller})
==============================================================================
