---------------------------- MODULE P2StdinProofs ----------------------------
(***************************************************************************)
(* Proofs about P2Stdin: for any number of callers and any length of the   *)
(* source, the guest's standard input implements P2InputContract; and      *)
(* about P2Poll, which waits for it and others, for any number of them.    *)
(***************************************************************************)
EXTENDS P2Stdin, SequenceTheorems, FiniteSetTheorems, TLAPS

\* The shapes of the variables.
Shape ==
  /\ kind \in {"adapter", "read", "wait"}
  /\ taken \in Nat /\ produced \in 0..MaxBytes
  /\ buffered \in Seq(Nat) /\ delivered \in Seq(Nat)
  /\ readErr \in {"nil", "eof", "fail"}
  /\ ended \in {"no", "eof", "fail"} /\ reported \in {"nothing", "failure", "end"}
  /\ mu \in Callers \cup {NoCaller}
  /\ pc \in [Callers -> {"idle", "begin", "held", "read", "retry", "poll", "record"}]
  /\ len \in [Callers -> NoRead..MaxLen]

\* The bytes TryRead has handed out are the delivered ones and the probe's,
\* which is the next one.
Placed ==
  /\ taken <= produced
  /\ \/ buffered = <<>> /\ taken = Len(delivered)
     \/ buffered = <<taken>> /\ taken = Len(delivered) + 1

\* An error is kept only at the end of the source; what the guest was told
\* last is the end or a failure, and then nothing is kept but the end.
ErrKept ==
  /\ readErr # "nil" => ended # "no" /\ taken = produced
  /\ readErr = "fail" => ended = "fail" /\ reported = "nothing"
  /\ readErr = "eof" => ended = "eof" \/ reported # "nothing"
  /\ reported # "nothing" => readErr = "eof" /\ buffered = <<>>

\* stdinMu is held across a wait, with nothing kept (blockingRead); a wait
\* without it that is to record a failure saw the source fail (waitStdin).
Waits ==
  \A c \in Callers :
    /\ pc[c] = "held" => mu = c /\ readErr = "nil" /\ buffered = <<>>
    /\ pc[c] = "read" => len[c] # NoRead
    /\ pc[c] = "record" => ended = "fail" /\ taken = produced

IInv == Shape /\ Placed /\ ErrKept /\ Waits

\* What a step of the guest's standard input is to the contract.
GuestStep == [Guest!Next]_(Guest!vars)

-----------------------------------------------------------------------------
\* The answers of TryRead: not more than asked for and there, and an error of
\* the source only with its last byte.
LEMMA TryReadAnswers ==
  ASSUME Shape, taken <= produced, NEW k \in Nat, NEW r \in TryRead(k)
  PROVE  /\ r.n \in Nat /\ r.n <= k /\ taken + r.n <= produced
         /\ r.err \in {"nil", "block", "eof", "fail"}
         /\ r.err \in {"eof", "fail"} => r.err = ended /\ taken + r.n = produced
<1>1. Available \in Nat  BY StdinAssumption DEF Available, Shape
<1>2. Min({k, Available}) = IF k <= Available THEN k ELSE Available
  BY <1>1 DEF Min
<1>3. ended \in {"no", "eof", "fail"}  BY Zenon DEF Shape
<1>4. CASE k = 0
  BY <1>1, <1>3, <1>4 DEF TryRead, Readable, AtEnd, Available, Shape
<1>5. CASE k > 0 /\ Available = 0
  BY <1>1, <1>3, <1>5 DEF TryRead, Readable, AtEnd, Available, Shape
<1>6. CASE k > 0 /\ Available # 0
  <2>1. \/ r.n \in 1..Min({k, Available}) /\ r.err = "nil"
        \/ r.n = Available /\ r.err = ended /\ ended # "no" /\ Available <= k
    BY <1>6 DEF TryRead
  <2>2. taken \in Nat /\ produced \in Nat /\ Available = produced - taken
    BY StdinAssumption DEF Available, Shape
  <2>3. CASE r.n \in 1..Min({k, Available}) /\ r.err = "nil"
    <3>1. r.n \in Nat /\ r.n <= k /\ r.n <= Available  BY <1>1, <1>2, <2>3
    <3> QED  BY <2>2, <2>3, <3>1
  <2>4. CASE r.n = Available /\ r.err = ended /\ ended # "no" /\ Available <= k
    BY <1>1, <1>3, <2>2, <2>4
  <2> QED  BY <2>1, <2>3, <2>4, Zenon
<1> QED  BY <1>1, <1>4, <1>5, <1>6

\* Delivering the next n bytes.
LEMMA DeliverNext ==
  ASSUME Shape, NEW n \in Nat,
         delivered' = delivered \o [j \in 1..n |-> Len(delivered) + j]
  PROVE  /\ delivered' \in Seq(Nat) /\ Len(delivered') = Len(delivered) + n
         /\ reported = "nothing" /\ Len(delivered) + n <= produced
              /\ UNCHANGED <<produced, ended, reported>> => GuestStep
<1> DEFINE q == [j \in 1..n |-> Len(delivered) + j]
<1>1. Len(delivered) \in Nat  BY LenProperties, Zenon DEF Shape
<1>2. q \in Seq(Nat) /\ Len(q) = n
  <2>1. q \in [1..n -> Nat]  BY <1>1
  <2> QED  BY <2>1, SMT
<1> HIDE DEF q
<1>3. delivered' = delivered \o q  BY Zenon DEF q
<1>4. delivered' \in Seq(Nat) /\ Len(delivered') = Len(delivered) + n
  BY <1>2, <1>3, ConcatProperties DEF Shape
<1>5. ASSUME reported = "nothing", Len(delivered) + n <= produced,
             UNCHANGED <<produced, ended, reported>>
      PROVE  GuestStep
  <2>1. CASE n = 0
    <3>1. q = <<>>  BY <1>2, <2>1, EmptySeq, Zenon
    <3>2. delivered' = delivered  BY <1>3, <3>1, ConcatEmptySeq, Zenon DEF Shape
    <3> QED  BY <1>5, <3>2, Zenon DEF GuestStep, Guest!vars
  <2>2. CASE n # 0
    <3>1. n \in 1..MaxBytes  BY <1>1, <1>5, <2>2, StdinAssumption DEF Shape
    <3>2. Guest!Deliver(n)  BY <1>5, Zenon DEF Guest!Deliver
    <3> QED  BY <3>1, <3>2, Zenon DEF GuestStep, Guest!Next
  <2> QED  BY <2>1, <2>2, Zenon
<1> QED  BY <1>4, <1>5, Zenon

\* What the guest and the source are left with by a step that keeps the
\* contract.
Kept ==
  /\ taken' \in Nat /\ taken <= taken' /\ buffered' \in Seq(Nat) /\ delivered' \in Seq(Nat)
  /\ readErr' \in {"nil", "eof", "fail"} /\ reported' \in {"nothing", "failure", "end"}
  /\ Placed' /\ ErrKept' /\ GuestStep

\* A read of the probe's byte.
LEMMA ReadProbe ==
  ASSUME IInv, UNCHANGED <<kind, produced, ended>>, buffered # <<>>,
         delivered' = delivered \o buffered, buffered' = <<>>,
         UNCHANGED <<taken, readErr, reported>>
  PROVE  Kept
<1>1. /\ buffered = <<taken>> /\ taken = Len(delivered) + 1 /\ taken <= produced
      /\ reported = "nothing" /\ Len(delivered) \in Nat
  BY LenProperties, Zenon DEF IInv, Shape, Placed, ErrKept
<1>2. buffered = [j \in 1..1 |-> Len(delivered) + j]
  BY <1>1
<1>3. delivered' = delivered \o [j \in 1..1 |-> Len(delivered) + j]
  BY <1>2, Zenon
<1>4. delivered' \in Seq(Nat) /\ Len(delivered') = Len(delivered) + 1 /\ GuestStep
  BY <1>1, <1>3, DeliverNext, Zenon DEF IInv
<1>5. Placed'  BY <1>1, <1>4, Zenon DEF Placed
<1>6. ErrKept'  BY <1>1, Zenon DEF ErrKept, IInv
<1>7. buffered' \in Seq(Nat) /\ taken' \in Nat /\ taken <= taken'  BY DEF IInv, Shape
<1> QED  BY <1>4, <1>5, <1>6, <1>7, Zenon DEF Kept, IInv, Shape

\* A read when an error is kept: a failure once, then the end.
LEMMA ReadKept ==
  ASSUME IInv, UNCHANGED <<kind, produced, ended>>, NEW k \in Nat,
         buffered = <<>>, readErr # "nil",
         Answer(0, IF readErr = "fail" /\ k = 0 THEN "nil" ELSE readErr),
         readErr' = ErrAfterReport(k),
         UNCHANGED <<taken, buffered, delivered>>
  PROVE  Kept
<1>1. taken = produced /\ taken = Len(delivered) /\ ended # "no"
  BY Zenon DEF IInv, Placed, ErrKept
<1>2. CASE readErr = "fail" /\ k = 0
  <2>1. reported' = reported /\ readErr' = readErr
    BY <1>2, Zenon DEF Answer, ErrAfterReport
  <2>2. GuestStep  BY <2>1, Zenon DEF GuestStep, Guest!vars
  <2> QED  BY <2>1, <2>2, Zenon DEF Kept, IInv, Shape, Placed, ErrKept
<1>3. CASE readErr = "fail" /\ k # 0
  <2>1. reported' = "failure" /\ readErr' = "eof" /\ reported = "nothing" /\ ended = "fail"
    BY <1>3 DEF Answer, ErrAfterReport, IInv, ErrKept
  <2>2. GuestStep
    BY <1>1, <2>1, Zenon DEF GuestStep, Guest!Next, Guest!ReportFailure, Guest!Drained
  <2> QED  BY <2>1, <2>2, <1>1, Zenon DEF Kept, IInv, Shape, Placed, ErrKept
<1>4. CASE readErr = "eof"
  <2>1. reported' = "end" /\ readErr' = "eof"
    BY <1>4 DEF Answer, ErrAfterReport
  <2>2. ended = "eof" \/ reported \in {"failure", "end"}
    BY <1>4, Zenon DEF IInv, Shape, ErrKept
  <2>3. GuestStep
    BY <1>1, <2>1, <2>2, Zenon DEF GuestStep, Guest!Next, Guest!ReportEnd, Guest!Drained, Guest!vars
  <2> QED  BY <2>1, <2>3, <1>1, Zenon DEF Kept, IInv, Shape, Placed, ErrKept
<1> QED  BY <1>2, <1>3, <1>4, Zenon DEF IInv, Shape

\* A read that asks the stream below.
LEMMA ReadThrough ==
  ASSUME IInv, UNCHANGED <<kind, produced, ended>>, NEW k \in Nat,
         buffered = <<>>, readErr = "nil", NEW r \in TryRead(k),
         taken' = taken + r.n, delivered' = delivered \o Bytes(r.n),
         readErr' = ErrAfterRead(r), Answer(r.n, r.err), UNCHANGED buffered
  PROVE  Kept
<1>1. /\ taken = Len(delivered) /\ taken <= produced /\ reported = "nothing"
      /\ taken \in Nat /\ produced \in Nat
  BY StdinAssumption DEF IInv, Shape, Placed, ErrKept
<1>2. /\ r.n \in Nat /\ r.n <= k /\ taken + r.n <= produced
      /\ r.err \in {"nil", "block", "eof", "fail"}
      /\ r.err \in {"eof", "fail"} => r.err = ended /\ taken + r.n = produced
  BY <1>1, TryReadAnswers, Zenon DEF IInv
<1>3. delivered' = delivered \o [j \in 1..r.n |-> Len(delivered) + j]
  BY <1>1, Zenon DEF Bytes
<1>4. delivered' \in Seq(Nat) /\ Len(delivered') = Len(delivered) + r.n
  BY <1>2, <1>3, DeliverNext, Zenon DEF IInv
<1>5. Placed' /\ taken' \in Nat /\ taken <= taken'  BY <1>1, <1>2, <1>4 DEF Placed
<1>6. CASE reported' = reported
  <2>1. GuestStep  BY <1>1, <1>2, <1>3, <1>6, DeliverNext, Zenon DEF IInv
  <2>2. ErrKept'
    BY <1>1, <1>2, <1>6, Zenon DEF ErrKept, ErrAfterRead, Answer
  <2> QED  BY <1>4, <1>5, <1>6, <2>1, <2>2, Zenon DEF Kept, IInv, Shape, ErrAfterRead
<1>7. CASE reported' # reported
  <2>1. r.n = 0 /\ r.err \in {"eof", "fail"}
        /\ reported' = IF r.err = "fail" THEN "failure" ELSE "end"
    BY <1>2, <1>7 DEF Answer
  <2>2. delivered' = delivered /\ readErr' = "eof" /\ taken = produced /\ ended = r.err
    <3>1. [j \in 1..r.n |-> Len(delivered) + j] = <<>>  BY <2>1
    <3>2. delivered' = delivered  BY <1>3, <3>1, ConcatEmptySeq, Zenon DEF IInv, Shape
    <3> QED  BY <1>1, <1>2, <2>1, <3>2 DEF ErrAfterRead
  <2>3. GuestStep
    BY <1>1, <2>1, <2>2, Zenon
    DEF GuestStep, Guest!Next, Guest!ReportEnd, Guest!ReportFailure, Guest!Drained
  <2>4. ErrKept'  BY <1>1, <2>1, <2>2 DEF ErrKept
  <2> QED  BY <1>4, <1>5, <2>1, <2>2, <2>3, <2>4, Zenon DEF Kept, IInv, Shape
<1> QED  BY <1>6, <1>7, Zenon

\* readStdinLocked.
LEMMA ReadLocked ==
  ASSUME IInv, UNCHANGED <<kind, produced, ended>>, NEW k \in Nat, ReadStdinLocked(k)
  PROVE  Kept
<1>1. CASE buffered # <<>>
  <2>1. CASE k = 0
    <3>1. UNCHANGED <<taken, buffered, readErr, delivered, reported>>
      BY <1>1, <2>1, Zenon DEF ReadStdinLocked, Answer
    <3>2. GuestStep  BY <3>1, Zenon DEF GuestStep, Guest!vars
    <3> QED  BY <3>1, <3>2 DEF Kept, IInv, Shape, Placed, ErrKept
  <2>2. CASE k # 0
    <3>1. /\ delivered' = delivered \o buffered /\ buffered' = <<>>
          /\ UNCHANGED <<taken, readErr, reported>>
      BY <1>1, <2>2, Zenon DEF ReadStdinLocked, Answer
    <3> QED  BY <1>1, <3>1, ReadProbe, Zenon
  <2> QED  BY <2>1, <2>2, Zenon
<1>2. CASE buffered = <<>> /\ readErr # "nil"
  <2>1. /\ Answer(0, IF readErr = "fail" /\ k = 0 THEN "nil" ELSE readErr)
        /\ readErr' = ErrAfterReport(k) /\ UNCHANGED <<taken, buffered, delivered>>
    BY <1>2, Zenon DEF ReadStdinLocked
  <2> QED  BY <1>2, <2>1, ReadKept, Zenon
<1>3. CASE buffered = <<>> /\ readErr = "nil"
  <2>1. PICK r \in TryRead(k) :
          /\ taken' = taken + r.n /\ delivered' = delivered \o Bytes(r.n)
          /\ readErr' = ErrAfterRead(r) /\ Answer(r.n, r.err) /\ UNCHANGED buffered
    BY <1>3, Zenon DEF ReadStdinLocked
  <2> QED  BY <1>3, <2>1, ReadThrough, Zenon
<1> QED  BY <1>1, <1>2, <1>3, Zenon

-----------------------------------------------------------------------------
Places == {"idle", "begin", "held", "read", "retry", "poll", "record"}

LEMMA Went ==
  ASSUME IInv, NEW c \in Callers, NEW where \in Places, Goto(c, where)
  PROVE  /\ pc' \in [Callers -> Places] /\ len' \in [Callers -> NoRead..MaxLen]
         /\ pc'[c] = where /\ (where # "idle" => len'[c] = len[c])
         /\ \A d \in Callers : d # c => pc'[d] = pc[d] /\ len'[d] = len[d]
<1>1. 0 \in NoRead..MaxLen  BY StdinAssumption DEF NoRead
<1>2. pc \in [Callers -> Places] /\ len \in [Callers -> NoRead..MaxLen]
  BY Zenon DEF IInv, Shape, Places
<1>3. pc' = [pc EXCEPT ![c] = where]  BY Zenon DEF Goto
<1>4. len' = len \/ (where = "idle" /\ len' = [len EXCEPT ![c] = 0])  BY Zenon DEF Goto
<1> HIDE DEF Places
<1> QED  BY <1>1, <1>2, <1>3, <1>4, Zenon

\* A step of the callers alone.
LEMMA Control ==
  ASSUME IInv, UNCHANGED <<kind, taken, buffered, readErr, produced, ended, delivered, reported>>,
         mu' \in Callers \cup {NoCaller}, pc' \in [Callers -> Places],
         len' \in [Callers -> NoRead..MaxLen], Waits'
  PROVE  IInv' /\ GuestStep
<1>1. Shape'  BY Zenon DEF IInv, Shape, Places
<1>2. Placed' /\ ErrKept'  BY Zenon DEF IInv, Placed, ErrKept
<1>3. GuestStep  BY Zenon DEF GuestStep, Guest!vars
<1> QED  BY <1>1, <1>2, <1>3, Zenon DEF IInv

\* A step that takes stdinMu for itself and keeps the contract.
LEMMA Locked ==
  ASSUME IInv, mu = NoCaller, Kept, UNCHANGED <<kind, produced, ended, mu>>,
         pc' \in [Callers -> Places], len' \in [Callers -> NoRead..MaxLen],
         \A d \in Callers : \/ pc'[d] = pc[d] /\ len'[d] = len[d]
                            \/ pc'[d] \notin {"held", "read", "record"}
  PROVE  IInv' /\ GuestStep
<1>1. Shape'  BY Zenon DEF IInv, Shape, Places, Kept
<1>2. Waits'
  <2>1. \A d \in Callers : pc[d] # "held"  BY StdinAssumption, Zenon DEF IInv, Waits
  <2>2. taken' = produced \/ taken # produced
    BY StdinAssumption DEF IInv, Shape, Kept, Placed
  <2> QED  BY <2>1, <2>2, Zenon DEF IInv, Waits
<1> QED  BY <1>1, <1>2, Zenon DEF IInv, Kept

-----------------------------------------------------------------------------
LEMMA SourceInv == ASSUME IInv, Source PROVE IInv' /\ GuestStep
<1>1. /\ ended = "no" /\ produced' \in produced..MaxBytes /\ ended' \in {"no", "eof", "fail"}
      /\ UNCHANGED <<kind, taken, buffered, readErr, mu, pc, len, delivered, reported>>
  BY Zenon DEF Source, Guest!Produce
<1>2. produced \in Nat /\ produced' \in 0..MaxBytes /\ produced <= produced'
  BY <1>1, StdinAssumption DEF IInv, Shape
<1>3. Shape'  BY <1>1, <1>2, Zenon DEF IInv, Shape
<1>4. readErr = "nil" /\ reported = "nothing" /\ \A c \in Callers : pc[c] # "record"
  BY <1>1, Zenon DEF IInv, ErrKept, Waits
<1>5. Placed'  BY <1>1, <1>2 DEF IInv, Shape, Placed
<1>6. ErrKept' /\ Waits'  BY <1>1, <1>4, Zenon DEF IInv, ErrKept, Waits
<1>7. GuestStep  BY Zenon DEF Source, GuestStep, Guest!Next
<1> QED  BY <1>3, <1>5, <1>6, <1>7, Zenon DEF IInv

LEMMA ReadInv ==
  ASSUME IInv, NEW c \in Callers, NEW k \in 0..MaxLen, Read(c, k)
  PROVE  IInv' /\ GuestStep
<1>1. Kept  BY StdinAssumption, ReadLocked DEF Read
<1> QED  BY <1>1, Locked, Zenon DEF Read, IInv, Shape, Places

LEMMA BlockingReadInv ==
  ASSUME IInv, NEW c \in Callers, NEW k \in NoRead..MaxLen, BlockingRead(c, k)
  PROVE  IInv' /\ GuestStep
<1>1. /\ pc' = [pc EXCEPT ![c] = "begin"] /\ len' = [len EXCEPT ![c] = k]
      /\ UNCHANGED <<kind, taken, buffered, readErr, mu, produced, ended, delivered, reported>>
  BY Zenon DEF BlockingRead, guest
<1>2. pc' \in [Callers -> Places] /\ len' \in [Callers -> NoRead..MaxLen]
  <2> HIDE DEF NoRead
  <2> QED  BY <1>1, Zenon DEF IInv, Shape, Places
<1>3. Waits'  BY <1>1, <1>2, Zenon DEF IInv, Shape, Waits
<1> QED  BY <1>1, <1>2, <1>3, Control, Zenon DEF IInv, Shape

LEMMA BlockBeginsInv ==
  ASSUME IInv, NEW c \in Callers, BlockBegins(c)
  PROVE  IInv' /\ GuestStep
<1>1. /\ mu = NoCaller
      /\ UNCHANGED <<kind, taken, buffered, readErr, produced, ended, delivered, reported>>
  BY Zenon DEF BlockBegins, guest
<1>2. \A d \in Callers : pc[d] # "held"  BY <1>1, StdinAssumption, Zenon DEF IInv, Waits
<1>3. CASE buffered # <<>> \/ readErr # "nil"
  <2>1. Goto(c, AfterWait(c)) /\ UNCHANGED mu /\ AfterWait(c) \in Places
    BY <1>3, Zenon DEF BlockBegins, AfterWait, Places
  <2>2. Waits'  BY <1>1, <1>2, <2>1, Went DEF IInv, Waits, AfterWait
  <2> QED  BY <1>1, <2>1, <2>2, Went, Control, Zenon DEF IInv, Shape
<1>4. CASE ~(buffered # <<>> \/ readErr # "nil")
  <2>1. Goto(c, "held") /\ mu' = c /\ "held" \in Places  BY <1>4, Zenon DEF BlockBegins, Places
  <2>2. Waits'  BY <1>1, <1>2, <1>4, <2>1, Went, ZenonT(30) DEF IInv, Waits
  <2> QED  BY <1>1, <2>1, <2>2, Went, Control, Zenon
<1> QED  BY <1>3, <1>4, Zenon

LEMMA BlockWakesInv ==
  ASSUME IInv, NEW c \in Callers, BlockWakes(c)
  PROVE  IInv' /\ GuestStep
<1>1. /\ Goto(c, AfterWait(c)) /\ mu' = NoCaller /\ AfterWait(c) \in Places /\ pc[c] = "held"
      /\ UNCHANGED <<kind, taken, buffered, readErr, produced, ended, delivered, reported>>
  BY Zenon DEF BlockWakes, guest, AfterWait, Places
<1>2. \A d \in Callers : d # c => pc[d] # "held"  BY <1>1, Zenon DEF IInv, Waits
<1>3. Waits'  BY <1>1, <1>2, Went DEF IInv, Waits, AfterWait
<1> QED  BY <1>1, <1>3, Went, Control, Zenon

\* The wait failed, with stdinMu held: the source has failed and is drained.
LEMMA BlockFailsInv ==
  ASSUME IInv, NEW c \in Callers, BlockFails(c)
  PROVE  IInv' /\ GuestStep
<1>1. /\ Goto(c, "idle") /\ mu' = NoCaller /\ "idle" \in Places /\ pc[c] = "held"
      /\ readErr' = "eof" /\ reported' = "failure" /\ ended = "fail" /\ Available = 0
      /\ UNCHANGED <<kind, taken, buffered, produced, ended, delivered>>
  BY DEF BlockFails, Answer, WaitFails, AtEnd, Places
<1>2. /\ mu = c /\ readErr = "nil" /\ buffered = <<>> /\ reported = "nothing"
      /\ taken = produced /\ taken = Len(delivered)
  <2>1. mu = c /\ readErr = "nil" /\ buffered = <<>>  BY <1>1, Zenon DEF IInv, Waits
  <2>2. taken \in Nat /\ produced \in Nat  BY StdinAssumption DEF IInv, Shape
  <2>3. reported = "nothing" /\ taken = Len(delivered)  BY <2>1, Zenon DEF IInv, Placed, ErrKept
  <2> QED  BY <1>1, <2>1, <2>2, <2>3 DEF Available
<1>3. \A d \in Callers : d # c => pc[d] # "held"  BY <1>1, Zenon DEF IInv, Waits
<1>4. Waits'  BY <1>1, <1>3, Went, ZenonT(30) DEF IInv, Waits
<1>5. Shape'  BY <1>1, Went, Zenon DEF IInv, Shape, Places
<1>6. Placed' /\ ErrKept'  BY <1>1, <1>2, Zenon DEF IInv, Placed, ErrKept
<1>7. GuestStep
  BY <1>1, <1>2, Zenon DEF GuestStep, Guest!Next, Guest!ReportFailure, Guest!Drained
<1> QED  BY <1>4, <1>5, <1>6, <1>7, Zenon DEF IInv

LEMMA BlockReadsInv ==
  ASSUME IInv, NEW c \in Callers, BlockReads(c)
  PROVE  IInv' /\ GuestStep
<1>1. PICK where \in {"idle", "retry"} : Goto(c, where)
  BY Zenon DEF BlockReads
<1>2. len[c] \in Nat
  <2>1. len[c] \in NoRead..MaxLen /\ len[c] # NoRead
    BY Zenon DEF IInv, Shape, Waits, BlockReads
  <2> QED  BY <2>1, StdinAssumption DEF NoRead
<1>3. Kept  BY <1>2, ReadLocked, Zenon DEF BlockReads
<1>4. where \in Places  BY <1>1, Zenon DEF Places
<1>5. /\ pc' \in [Callers -> Places] /\ len' \in [Callers -> NoRead..MaxLen]
      /\ \A d \in Callers : \/ pc'[d] = pc[d] /\ len'[d] = len[d]
                            \/ pc'[d] \notin {"held", "read", "record"}
  BY <1>1, <1>4, Went, Zenon
<1> QED  BY <1>3, <1>5, Locked, Zenon DEF BlockReads

LEMMA BlockRetriesInv ==
  ASSUME IInv, NEW c \in Callers, BlockRetries(c)
  PROVE  IInv' /\ GuestStep
<1>1. /\ Goto(c, "begin") /\ "begin" \in Places
      /\ UNCHANGED <<kind, taken, buffered, readErr, mu, produced, ended, delivered, reported>>
  BY Zenon DEF BlockRetries, guest, Places
<1>2. Waits'  BY <1>1, Went, ZenonT(30) DEF IInv, Waits
<1> QED  BY <1>1, <1>2, Went, Control, Zenon DEF IInv, Shape

\* The probe: its byte and its error are kept.
LEMMA InputReadyInv ==
  ASSUME IInv, NEW c \in Callers, InputReady(c)
  PROVE  IInv' /\ GuestStep
<1>1. /\ mu = NoCaller /\ buffered = <<>> /\ readErr = "nil"
      /\ UNCHANGED <<kind, mu, pc, len, produced, ended, delivered, reported>>
  BY Zenon DEF InputReady, HoldsNothing, guest
<1>2. PICK r \in TryRead(1) :
        taken' = taken + r.n /\ buffered' = Bytes(r.n) /\ readErr' = ProbeErr(r)
  BY Zenon DEF InputReady, ProbeLen
<1>3. /\ taken = Len(delivered) /\ taken <= produced /\ reported = "nothing"
      /\ taken \in Nat /\ produced \in Nat
  BY <1>1, StdinAssumption DEF IInv, Shape, Placed, ErrKept
<1>4. /\ r.n \in Nat /\ r.n <= 1 /\ taken + r.n <= produced
      /\ r.err \in {"nil", "block", "eof", "fail"}
      /\ r.err \in {"eof", "fail"} => r.err = ended /\ taken + r.n = produced
  BY <1>3, TryReadAnswers, Zenon DEF IInv
<1>5. \/ r.n = 0 /\ buffered' = <<>>
      \/ r.n = 1 /\ buffered' = <<taken'>>
  <2>1. CASE r.n = 0  BY <1>2, <2>1 DEF Bytes
  <2>2. CASE r.n = 1  BY <1>2, <1>3, <2>2 DEF Bytes
  <2> QED  BY <1>4, <2>1, <2>2
<1>6. Placed' /\ taken' \in Nat /\ taken <= taken'  BY <1>1, <1>2, <1>3, <1>4, <1>5 DEF Placed
<1>7. ErrKept'  BY <1>1, <1>2, <1>3, <1>4, Zenon DEF ErrKept, ProbeErr
<1>8. buffered' \in Seq(Nat)
  <2>1. <<taken'>> \in Seq(Nat)  BY <1>6
  <2>2. << >> \in Seq(Nat)  OBVIOUS
  <2> QED  BY <1>5, <2>1, <2>2, Zenon
<1>9. GuestStep  BY <1>1, Zenon DEF GuestStep, Guest!vars
<1>10. readErr' \in {"nil", "eof", "fail"}  BY <1>2, <1>4, Zenon DEF ProbeErr
<1>11. Kept  BY <1>1, <1>6, <1>7, <1>8, <1>9, <1>10, Zenon DEF Kept, IInv, Shape
<1> QED  BY <1>1, <1>11, Locked, Zenon DEF IInv, Shape, Places

LEMMA WaitStdinInv ==
  ASSUME IInv, NEW c \in Callers, WaitStdin(c)
  PROVE  IInv' /\ GuestStep
<1>1. /\ Goto(c, "poll") /\ "poll" \in Places
      /\ UNCHANGED <<kind, taken, buffered, readErr, mu, produced, ended, delivered, reported>>
  BY Zenon DEF WaitStdin, guest, Places
<1>2. Waits'  BY <1>1, Went, ZenonT(30) DEF IInv, Waits
<1> QED  BY <1>1, <1>2, Went, Control, Zenon DEF IInv, Shape

LEMMA WaitStdinWakesInv ==
  ASSUME IInv, NEW c \in Callers, WaitStdinWakes(c)
  PROVE  IInv' /\ GuestStep
<1>1. UNCHANGED <<kind, taken, buffered, readErr, mu, produced, ended, delivered, reported>>
  BY Zenon DEF WaitStdinWakes, guest
<1>2. PICK where \in {"idle", "record"} :
        Goto(c, where) /\ (where = "record" => WaitFails)
  BY Zenon DEF WaitStdinWakes
<1>3. where \in Places  BY <1>2, Zenon DEF Places
<1>4. where = "record" => ended = "fail" /\ taken = produced
  BY <1>2, StdinAssumption DEF WaitFails, AtEnd, Available, IInv, Shape
<1>5. Waits'  BY <1>1, <1>2, <1>3, <1>4, Went, ZenonT(30) DEF IInv, Waits
<1> QED  BY <1>1, <1>2, <1>3, <1>5, Went, Control, Zenon DEF IInv, Shape

\* The failure of a wait is recorded unless something was recorded before it.
LEMMA WaitStdinRecordsInv ==
  ASSUME IInv, NEW c \in Callers, WaitStdinRecords(c)
  PROVE  IInv' /\ GuestStep
<1>1. /\ mu = NoCaller /\ Goto(c, "idle") /\ "idle" \in Places
      /\ UNCHANGED <<kind, taken, buffered, mu, produced, ended, delivered, reported>>
      /\ readErr' = IF readErr = "nil" THEN "fail" ELSE readErr
      /\ ended = "fail" /\ taken = produced
  BY Zenon DEF WaitStdinRecords, Recorded, guest, Places, IInv, Waits
<1>2. Placed' /\ ErrKept'  BY <1>1, Zenon DEF IInv, Shape, Placed, ErrKept
<1>3. GuestStep  BY <1>1, Zenon DEF GuestStep, Guest!vars
<1>4. Kept  BY <1>1, <1>2, <1>3 DEF Kept, IInv, Shape
<1>5. \A d \in Callers : \/ pc'[d] = pc[d] /\ len'[d] = len[d]
                         \/ pc'[d] \notin {"held", "read", "record"}
  BY <1>1, Went, Zenon
<1> QED  BY <1>1, <1>4, <1>5, Went, Locked, Zenon

LEMMA CancelInv ==
  ASSUME IInv, NEW c \in Callers, Cancel(c)
  PROVE  IInv' /\ GuestStep
<1>1. UNCHANGED <<kind, taken, buffered, readErr, mu, pc, len, produced, ended, delivered, reported>>
  BY Zenon DEF Cancel, guest
<1>2. Waits'  BY <1>1, Zenon DEF IInv, Waits
<1> QED  BY <1>1, <1>2, Control, Zenon DEF IInv, Shape, Places

LEMMA CancelReturnsInv ==
  ASSUME IInv, NEW c \in Callers, CancelReturns(c)
  PROVE  IInv' /\ GuestStep
<1>1. /\ Goto(c, "idle") /\ "idle" \in Places /\ mu' = IF mu = c THEN NoCaller ELSE mu
      /\ UNCHANGED <<kind, taken, buffered, readErr, produced, ended, delivered, reported>>
  BY Zenon DEF CancelReturns, guest, Places
<1>2. Waits'  BY <1>1, Went, ZenonT(30) DEF IInv, Waits
<1> QED  BY <1>1, <1>2, Went, Control, Zenon DEF IInv, Shape

-----------------------------------------------------------------------------
LEMMA InitInv == Init => IInv /\ Guest!Init
<1> SUFFICES ASSUME Init PROVE IInv /\ Guest!Init
  BY Zenon
<1>1. /\ produced = 0 /\ ended \in {"no", "eof"} /\ delivered = <<>> /\ reported = "nothing"
      /\ Guest!Init
  BY Zenon DEF Init, Guest!Init
<1>2. 0 \in 0..MaxBytes /\ 0 \in NoRead..MaxLen  BY StdinAssumption DEF NoRead
<1>3. Shape
  <2> HIDE DEF NoRead
  <2>1. << >> \in Seq(Nat)  OBVIOUS
  <2> QED  BY <1>1, <1>2, <2>1, Zenon DEF Init, Shape
<1>4. Placed  BY <1>1 DEF Init, Placed
<1>5. ErrKept /\ Waits  BY <1>1, Zenon DEF Init, ErrKept, Waits
<1> QED  BY <1>1, <1>3, <1>4, <1>5, Zenon DEF IInv

\* Every step keeps the invariant and is a step of the contract, or none.
LEMMA NextInv == IInv /\ [Next]_vars => IInv' /\ GuestStep
<1> SUFFICES ASSUME IInv, [Next]_vars PROVE IInv' /\ GuestStep
  BY Zenon
<1>1. CASE UNCHANGED vars
  <2>1. UNCHANGED <<kind, taken, buffered, readErr, mu, pc, len, produced, ended, delivered, reported>>
    BY <1>1, Zenon DEF vars, guest
  <2>2. Waits'  BY <2>1, Zenon DEF IInv, Waits
  <2> QED  BY <2>1, <2>2, Control, Zenon DEF IInv, Shape, Places
<1>2. CASE Source  BY <1>2, SourceInv, Zenon
<1>3. ASSUME NEW c \in Callers, NEW k \in 0..MaxLen, Read(c, k) PROVE IInv' /\ GuestStep
  BY <1>3, ReadInv, Zenon
<1>4. ASSUME NEW c \in Callers, NEW k \in 0..MaxLen, BlockingRead(c, k) PROVE IInv' /\ GuestStep
  <2>1. k \in NoRead..MaxLen  BY StdinAssumption DEF NoRead
  <2> QED  BY <1>4, <2>1, BlockingReadInv, Zenon
<1>5. ASSUME NEW c \in Callers, WaitStdinReadable(c) PROVE IInv' /\ GuestStep
  <2>1. NoRead \in NoRead..MaxLen  BY StdinAssumption DEF NoRead
  <2> QED  BY <1>5, <2>1, BlockingReadInv, Zenon DEF WaitStdinReadable
<1>6. ASSUME NEW c \in Callers, InputReady(c) \/ WaitStdin(c) \/ Cancel(c) PROVE IInv' /\ GuestStep
  BY <1>6, InputReadyInv, WaitStdinInv, CancelInv, Zenon
<1>7. ASSUME NEW c \in Callers, InCall(c) PROVE IInv' /\ GuestStep
  BY <1>7, BlockBeginsInv, BlockWakesInv, BlockFailsInv, BlockReadsInv, BlockRetriesInv,
     WaitStdinWakesInv, WaitStdinRecordsInv, CancelReturnsInv, Zenon DEF InCall
<1> QED  BY <1>1, <1>2, <1>3, <1>4, <1>5, <1>6, <1>7, Zenon DEF Next

\* The invariant of the instance's buffered byte, kept error and waits.
THEOREM StdinInvariant == Spec => []IInv
  BY InitInv, NextInv, PTL DEF Spec

\* A byte that TryRead has handed out was delivered or is in stdinProbe.
THEOREM StdinNothingLost == Spec => []NothingLost
<1>1. IInv => NothingLost
  <2> SUFFICES ASSUME IInv PROVE NothingLost
    BY Zenon
  <2>1. Len(delivered) \in Nat  BY LenProperties, Zenon DEF IInv, Shape
  <2>2. CASE buffered = <<>> /\ taken = Len(delivered)
    BY <2>1, <2>2 DEF NothingLost
  <2>3. CASE buffered = <<taken>> /\ taken = Len(delivered) + 1
    <3>1. Len(buffered) = 1  BY <2>3, Zenon
    <3> QED  BY <2>3, <3>1, Zenon DEF NothingLost
  <2> QED  BY <2>2, <2>3, Zenon DEF IInv, Placed
<1> QED  BY <1>1, StdinInvariant, PTL

\* The guest's standard input implements the abstract input stream for any
\* number of callers: bytes once and in order, a failure once, then the end.
THEOREM StdinImplements == Spec => StdinContract
<1>1. IInv /\ [Next]_vars => [Guest!Next]_(Guest!vars)
  BY NextInv, Zenon DEF GuestStep
<1> QED  BY <1>1, InitInv, StdinInvariant, PTL DEF Spec, StdinContract, Guest!Spec

\* What is kept for the guest is only taken away by a read that delivers.
StaysReady ==
  (buffered # <<>> \/ readErr # "nil") =>
    \/ buffered' # <<>> \/ readErr' # "nil"
    \/ Len(delivered') > Len(delivered)

LEMMA ReadStaysReady ==
  ASSUME IInv, UNCHANGED <<kind, produced, ended>>, NEW k \in Nat, ReadStdinLocked(k)
  PROVE  StaysReady
<1>1. Kept  BY ReadLocked, Zenon
<1>2. CASE buffered # <<>>
  <2>1. taken' = taken /\ taken = Len(delivered) + 1 /\ Len(delivered) \in Nat
    BY <1>2, LenProperties, Zenon DEF IInv, Shape, Placed, ReadStdinLocked
  <2>2. buffered' = <<>> => taken' = Len(delivered')
    BY <1>1 DEF Kept, Placed
  <2> QED  BY <2>1, <2>2 DEF StaysReady
<1>3. CASE buffered = <<>> /\ readErr # "nil"
  BY <1>3, Zenon DEF ReadStdinLocked, ErrAfterReport, StaysReady
<1>4. CASE buffered = <<>> /\ readErr = "nil"  BY <1>4, Zenon DEF StaysReady
<1> QED  BY <1>2, <1>3, <1>4

\* Once the pollable is ready by what the instance holds, it stays ready until
\* a read takes a byte.
THEOREM StdinReadyStays == Spec => ReadyStays
<1>1. IInv /\ [Next]_vars => [StaysReady]_vars
  <2> SUFFICES ASSUME IInv, Next PROVE StaysReady
    BY Zenon
  <2>1. CASE Source  BY <2>1, Zenon DEF Source, StaysReady
  <2>2. ASSUME NEW c \in Callers, NEW k \in 0..MaxLen, Read(c, k) PROVE StaysReady
    BY <2>2, StdinAssumption, ReadStaysReady DEF Read
  <2>3. ASSUME NEW c \in Callers, NEW k, BlockingRead(c, k) PROVE StaysReady
    BY <2>3, Zenon DEF BlockingRead, StaysReady
  <2>4. ASSUME NEW c \in Callers, InputReady(c) \/ WaitStdin(c) \/ Cancel(c) PROVE StaysReady
    BY <2>4, Zenon DEF InputReady, HoldsNothing, WaitStdin, Cancel, StaysReady
  <2>5. ASSUME NEW c \in Callers, BlockReads(c) PROVE StaysReady
    <3>1. len[c] \in NoRead..MaxLen /\ len[c] # NoRead
      BY <2>5, Zenon DEF IInv, Shape, Waits, BlockReads
    <3>2. len[c] \in Nat  BY <3>1, StdinAssumption DEF NoRead
    <3> QED  BY <2>5, <3>2, ReadStaysReady, Zenon DEF BlockReads
  <2>6. ASSUME NEW c \in Callers, InCall(c), ~BlockReads(c) PROVE StaysReady
    BY <2>6, Zenon DEF InCall, BlockBegins, BlockWakes, BlockFails, BlockRetries, WaitStdinWakes,
                WaitStdinRecords, Recorded, CancelReturns, StaysReady
  <2> QED  BY <2>1, <2>2, <2>3, <2>4, <2>5, <2>6, Zenon DEF Next, WaitStdinReadable
<1> QED  BY <1>1, StdinInvariant, PTL DEF Spec, ReadyStays, StaysReady

-----------------------------------------------------------------------------
(***************************************************************************)
(* wasi:io/poll over such streams and timers, P2Poll: its constants and    *)
(* variables (canceled is there the caller's context, here stopped), and   *)
(* what is proved of it for any number of pollables.                       *)
(***************************************************************************)

CONSTANTS N, MaxTime

VARIABLES timers, now, target, up, broken, at, k, found, got, ch, worker, werr, resumed,
          stopped, answer

Polling == INSTANCE P2Poll WITH canceled <- stopped

PollResult == [i : Polling!Inputs, err : BOOLEAN]
WorkerStates == {"none", "waiting", "sending", "parked", "retry", "gone"}
Heard == {"parked", "gone"}

\* Before the workers are started there are neither workers nor results.
Fresh == ch = <<>> /\ \A i \in Polling!Inputs : worker[i] = "none"

PollShape ==
  /\ ch \in Seq(PollResult) /\ got \in PollResult \cup {Polling!NoResult}
  /\ worker \in [Polling!Inputs -> WorkerStates]
  /\ werr \in [Polling!Inputs -> BOOLEAN] /\ resumed \in [Polling!Inputs -> BOOLEAN]
  /\ at \notin {"scan", "select", "done"} => got = Polling!NoResult
  /\ at \notin {"scan", "select", "done"} \/ (at = "scan" /\ got = Polling!NoResult) => Fresh

\* A result in the channel is the only one of its worker, which waits to be
\* resumed.
InChannel ==
  /\ \A p, q \in 1..Len(ch) : ch[p].i = ch[q].i => p = q
  /\ \A p \in 1..Len(ch) : worker[ch[p].i] \in Heard /\ ~resumed[ch[p].i]
  /\ \A i \in Polling!Inputs : resumed[i] => worker[i] \in Heard

\* So does the worker whose result was received last, while poll scans.
InHand ==
  at = "scan" /\ got # Polling!NoResult =>
    /\ worker[got.i] \in Heard /\ ~resumed[got.i]
    /\ \A p \in 1..Len(ch) : ch[p].i # got.i

PollInv == PollShape /\ InChannel /\ InHand

LEMMA PollResults ==
  ASSUME PollShape
  PROVE  /\ Len(ch) \in Nat
         /\ \A p \in 1..Len(ch) : ch[p] \in PollResult /\ ch[p].i \in Polling!Inputs
         /\ got # Polling!NoResult => got \in PollResult /\ got.i \in Polling!Inputs
<1>1. Len(ch) \in Nat /\ \A p \in 1..Len(ch) : ch[p] \in PollResult
  BY DEF PollShape
<1>2. \A r \in PollResult : r.i \in Polling!Inputs
  BY DEF PollResult
<1> QED BY <1>1, <1>2, Zenon DEF PollShape

\* Steps of the world, of the scan and of pollable.block: the channel and the
\* workers stay, and so does the received result while there is a scan.
LEMMA CallerKeepsPoll ==
  ASSUME PollInv,
         \/ Polling!Tick \/ Polling!Cancel
         \/ \E s \in Polling!Streams : Polling!StreamChanges(s)
         \/ Polling!Poll \/ Polling!Scan \/ Polling!SelectCanceled
         \/ Polling!Block \/ Polling!BlockStep \/ UNCHANGED Polling!vars
  PROVE  PollInv'
<1>1. UNCHANGED <<got, ch, worker, werr, resumed>>
  BY Zenon DEF Polling!Tick, Polling!Cancel, Polling!StreamChanges, Polling!Poll, Polling!Scan,
               Polling!SelectCanceled, Polling!Block, Polling!BlockStep, Polling!vars,
               Polling!workers
<1>2. \/ at' = at \/ at' = "done"
      \/ at = "idle" /\ at' \in {"scan", "loop"}
      \/ at \in Polling!Blocked /\ at' \in Polling!Blocked
  <2>1. CASE Polling!BlockStep
    BY <2>1 DEF Polling!BlockStep, Polling!Return, Polling!AfterWake, Polling!Blocked
  <2>2. CASE ~Polling!BlockStep
    BY <2>2, Zenon DEF Polling!Tick, Polling!Cancel, Polling!StreamChanges, Polling!Poll,
                       Polling!Scan, Polling!SelectCanceled, Polling!Block, Polling!vars,
                       Polling!Return
  <2> QED BY <2>1, <2>2, Zenon
<1>3. \/ at' = at \/ at' = "done"
      \/ at \notin {"scan", "select", "done"} /\ (at' \notin {"select", "done"})
  BY <1>2 DEF Polling!Blocked
<1>4. PollShape'
  BY <1>1, <1>3, Zenon DEF PollInv, PollShape, Fresh
<1>5. InChannel'
  BY <1>1, Zenon DEF PollInv, InChannel
<1>6. InHand'
  <2>1. CASE at' = at
    BY <1>1, <2>1, Zenon DEF PollInv, InHand
  <2>2. CASE at' = "done"
    BY <2>2 DEF InHand
  <2>3. CASE at \notin {"scan", "select", "done"}
    BY <1>1, <2>3, Zenon DEF PollInv, PollShape, InHand
  <2> QED BY <1>3, <2>1, <2>2, <2>3, Zenon
<1> QED BY <1>4, <1>5, <1>6, Zenon DEF PollInv

LEMMA ScannedKeepsPoll == ASSUME PollInv, Polling!Scanned PROVE PollInv'
<1>1. at = "scan" /\ UNCHANGED <<ch, werr>> /\ got' = got
  BY Zenon DEF Polling!Scanned
<1>2. CASE at' = "done" /\ UNCHANGED <<worker, resumed>>
  <2>1. at' \in {"scan", "select", "done"} /\ at' # "scan"
    BY <1>2
  <2> QED BY <1>1, <1>2, <2>1, Zenon DEF PollInv, PollShape, InChannel, InHand
<1>3. CASE /\ got = Polling!NoResult /\ worker' = [i \in Polling!Inputs |-> "waiting"]
           /\ at' = "select" /\ UNCHANGED resumed
  <2>1. at' \in {"scan", "select", "done"} /\ at' # "scan"
    BY <1>3
  <2>2. Fresh
    BY <1>1, <1>3, Zenon DEF PollInv, PollShape
  <2>3. 1..Len(ch) = {}
    BY <2>2 DEF Fresh
  <2>4. \A i \in Polling!Inputs : ~resumed[i]
    <3>1. "none" \notin Heard
      BY DEF Heard
    <3> QED BY <2>2, <3>1, ZenonT(30) DEF Fresh, PollInv, InChannel
  <2>5. worker' \in [Polling!Inputs -> WorkerStates]
    BY <1>3 DEF WorkerStates
  <2> QED BY <1>1, <1>3, <2>1, <2>3, <2>4, <2>5, ZenonT(30) DEF PollInv, PollShape, InChannel, InHand
<1>4. CASE /\ got # Polling!NoResult /\ resumed' = Polling!Resumed
           /\ at' = "select" /\ UNCHANGED worker
  <2>1. at' \in {"scan", "select", "done"} /\ at' # "scan"
    BY <1>4
  <2>2. /\ got.i \in Polling!Inputs /\ worker[got.i] \in Heard
        /\ \A p \in 1..Len(ch) : ch[p].i # got.i /\ ch[p].i \in Polling!Inputs
    BY <1>1, <1>4, PollResults, Zenon DEF PollInv, InHand
  <2>3. /\ resumed' \in [Polling!Inputs -> BOOLEAN]
        /\ \A i \in Polling!Inputs : i # got.i => resumed'[i] = resumed[i]
    BY <1>4, <2>2, Zenon DEF PollInv, PollShape, Polling!Resumed
  <2>4. PollShape' /\ InHand'
    BY <1>1, <1>4, <2>1, <2>3, Zenon DEF PollInv, PollShape, InHand
  <2>5. InChannel'
    BY <1>1, <1>4, <2>2, <2>3, Zenon DEF PollInv, InChannel
  <2> QED BY <2>4, <2>5, Zenon DEF PollInv
<1> QED BY <1>2, <1>3, <1>4, Zenon DEF Polling!Scanned, Polling!Return

LEMMA ReceiveKeepsPoll == ASSUME PollInv, Polling!Receive PROVE PollInv'
<1>1. /\ ch # <<>> /\ got' = Head(ch) /\ ch' = Tail(ch) /\ UNCHANGED <<worker, werr, resumed>>
      /\ at' \in {"scan", "done"}
  BY DEF Polling!Receive, Polling!Return, Polling!workers
<1>2. ch \in Seq(PollResult)
  BY Zenon DEF PollInv, PollShape
<1>3. /\ ch' \in Seq(PollResult) /\ Len(ch') = Len(ch) - 1 /\ Len(ch) \in Nat /\ Len(ch) >= 1
      /\ got' = ch[1] /\ got' \in PollResult
      /\ \A p \in 1..Len(ch') : ch'[p] = ch[p + 1] /\ p + 1 \in 1..Len(ch) /\ p + 1 # 1
      /\ \A p, q \in 1..Len(ch') : p + 1 = q + 1 => p = q
      /\ 1 \in 1..Len(ch)
  BY <1>1, <1>2
<1>4. got' # Polling!NoResult
  <2>1. got'.i \in Polling!Inputs /\ Polling!NoResult.i = 0
    BY <1>3 DEF PollResult, Polling!NoResult
  <2>2. 0 \notin Polling!Inputs
    BY DEF Polling!Inputs
  <2> QED BY <2>1, <2>2, Zenon
<1>5. PollShape'
  <2>1. at' \in {"scan", "select", "done"}
    BY <1>1
  <2> QED BY <1>1, <1>3, <1>4, <2>1, Zenon DEF PollInv, PollShape
<1>6. InChannel'
  <2>1. ASSUME NEW p \in 1..Len(ch'), NEW q \in 1..Len(ch'), ch'[p].i = ch'[q].i PROVE p = q
    <3>1. /\ ch'[p] = ch[p + 1] /\ p + 1 \in 1..Len(ch)
          /\ ch'[q] = ch[q + 1] /\ q + 1 \in 1..Len(ch)
      BY <1>3, Zenon
    <3>2. ch[p + 1].i = ch[q + 1].i
      BY <2>1, <3>1, Zenon
    <3>3. p + 1 = q + 1
      BY <3>1, <3>2, Zenon DEF PollInv, InChannel
    <3> QED BY <1>3, <3>3, Zenon
  <2>2. ASSUME NEW p \in 1..Len(ch') PROVE worker'[ch'[p].i] \in Heard /\ ~resumed'[ch'[p].i]
    <3>1. ch'[p] = ch[p + 1] /\ p + 1 \in 1..Len(ch)
      BY <1>3, Zenon
    <3>2. worker[ch[p + 1].i] \in Heard /\ ~resumed[ch[p + 1].i]
      BY <3>1, Zenon DEF PollInv, InChannel
    <3> QED BY <1>1, <3>1, <3>2, Zenon
  <2>3. \A i \in Polling!Inputs : resumed'[i] => worker'[i] \in Heard
    BY <1>1, Zenon DEF PollInv, InChannel
  <2> QED BY <2>1, <2>2, <2>3, Zenon DEF InChannel
<1>7. InHand'
  BY <1>1, <1>3, Zenon DEF PollInv, InChannel, InHand
<1> QED BY <1>5, <1>6, <1>7, Zenon DEF PollInv

\* A worker's own step, other than its send.
LEMMA WorkerMoves ==
  ASSUME PollInv, NEW i \in Polling!Inputs, NEW s \in WorkerStates \ {"none"},
         worker' = [worker EXCEPT ![i] = s], worker[i] # "none",
         werr' \in [Polling!Inputs -> BOOLEAN], resumed' \in [Polling!Inputs -> BOOLEAN],
         UNCHANGED <<at, got, ch>>,
         \A j \in Polling!Inputs : resumed'[j] => resumed[j] /\ (j = i => s \in Heard),
         worker[i] \in Heard /\ ~resumed[i] => s \in Heard
  PROVE  PollInv'
<1>1. /\ worker' \in [Polling!Inputs -> WorkerStates] /\ worker'[i] = s
      /\ \A j \in Polling!Inputs : j # i => worker'[j] = worker[j]
  BY Zenon DEF PollInv, PollShape
<1>2. PollShape'
  BY <1>1, Zenon DEF PollInv, PollShape, Fresh
<1>3. InChannel'
  <2>1. ASSUME NEW p \in 1..Len(ch) PROVE worker'[ch[p].i] \in Heard /\ ~resumed'[ch[p].i]
    <3>1. ch[p].i \in Polling!Inputs /\ worker[ch[p].i] \in Heard /\ ~resumed[ch[p].i]
      BY PollResults, Zenon DEF PollInv, InChannel
    <3> QED BY <1>1, <3>1, Zenon
  <2>2. ASSUME NEW j \in Polling!Inputs, resumed'[j] PROVE worker'[j] \in Heard
    BY <1>1, <2>2, Zenon DEF PollInv, InChannel
  <2> QED BY <2>1, <2>2, Zenon DEF PollInv, InChannel
<1>4. InHand'
  <2> SUFFICES ASSUME at = "scan", got # Polling!NoResult
               PROVE  worker'[got.i] \in Heard /\ ~resumed'[got.i]
    BY Zenon DEF PollInv, InHand
  <2>1. got.i \in Polling!Inputs /\ worker[got.i] \in Heard /\ ~resumed[got.i]
    BY PollResults, Zenon DEF PollInv, InHand
  <2> QED BY <1>1, <2>1, Zenon
<1> QED BY <1>2, <1>3, <1>4, Zenon DEF PollInv

LEMMA SendKeepsPoll == ASSUME PollInv, NEW i \in Polling!Inputs, Polling!Send(i) PROVE PollInv'
<1> DEFINE r == [i |-> i, err |-> werr[i]]
<1>1. /\ worker[i] = "sending" /\ ch' = Append(ch, r) /\ worker' = [worker EXCEPT ![i] = "parked"]
      /\ UNCHANGED <<at, got, werr, resumed>>
  BY Zenon DEF Polling!Send
<1>2. r \in PollResult /\ r.i = i
  BY DEF PollInv, PollShape, PollResult
<1> HIDE DEF r
<1>3. /\ "sending" \notin Heard /\ "parked" \in Heard /\ "parked" \in WorkerStates
      /\ "sending" # "none"
  BY DEF Heard, WorkerStates
<1>4. /\ worker' \in [Polling!Inputs -> WorkerStates] /\ worker'[i] = "parked"
      /\ \A j \in Polling!Inputs : j # i => worker'[j] = worker[j]
  BY <1>1, <1>3, Zenon DEF PollInv, PollShape
<1>5. /\ ~resumed[i] /\ \A p \in 1..Len(ch) : ch[p].i # i
  BY <1>1, <1>3, Zenon DEF PollInv, InChannel
<1>6. /\ ch \in Seq(PollResult) /\ Len(ch) \in Nat
      /\ \A p \in 1..Len(ch) : ch[p].i \in Polling!Inputs
  BY PollResults, Zenon DEF PollInv, PollShape
<1>7. ch' \in Seq(PollResult) /\ Len(ch') = Len(ch) + 1 /\ ch'[Len(ch) + 1] = r
      /\ \A p \in 1..Len(ch) : ch'[p] = ch[p]
  BY <1>1, <1>2, <1>6
<1>8. \A p \in 1..Len(ch') : p \in 1..Len(ch) \/ p = Len(ch) + 1
  BY <1>6, <1>7
<1>9. PollShape'
  BY <1>1, <1>3, <1>4, <1>7, Zenon DEF PollInv, PollShape, Fresh
<1>10. InChannel'
  <2>1. ASSUME NEW p \in 1..Len(ch'), NEW q \in 1..Len(ch'), ch'[p].i = ch'[q].i PROVE p = q
    BY <1>2, <1>5, <1>7, <1>8, <2>1, ZenonT(30) DEF PollInv, InChannel
  <2>2. ASSUME NEW p \in 1..Len(ch') PROVE worker'[ch'[p].i] \in Heard /\ ~resumed'[ch'[p].i]
    <3>1. CASE p \in 1..Len(ch)
      <4>1. ch'[p] = ch[p] /\ ch[p].i \in Polling!Inputs /\ ch[p].i # i
        BY <1>5, <1>6, <1>7, <3>1, Zenon
      <4>2. worker[ch[p].i] \in Heard /\ ~resumed[ch[p].i]
        BY <3>1, Zenon DEF PollInv, InChannel
      <4>3. worker'[ch[p].i] = worker[ch[p].i] /\ resumed' = resumed
        BY <1>1, <1>4, <4>1, Zenon
      <4> QED BY <4>1, <4>2, <4>3, Zenon
    <3>2. CASE p = Len(ch) + 1
      BY <1>1, <1>2, <1>3, <1>4, <1>5, <1>7, <3>2, ZenonT(30)
    <3> QED BY <1>8, <3>1, <3>2, Zenon
  <2>3. ASSUME NEW j \in Polling!Inputs, resumed'[j] PROVE worker'[j] \in Heard
    BY <1>1, <1>3, <1>4, <2>3, Zenon DEF PollInv, InChannel
  <2> QED BY <2>1, <2>2, <2>3, Zenon DEF InChannel
<1>11. InHand'
  <2> SUFFICES ASSUME at = "scan", got # Polling!NoResult
               PROVE  /\ worker'[got.i] \in Heard /\ ~resumed[got.i]
                      /\ \A p \in 1..Len(ch') : ch'[p].i # got.i
    BY <1>1, Zenon DEF InHand
  <2>1. /\ got.i \in Polling!Inputs /\ worker[got.i] \in Heard /\ ~resumed[got.i]
        /\ \A p \in 1..Len(ch) : ch[p].i # got.i
    BY PollResults, Zenon DEF PollInv, InHand
  <2>2. got.i # i
    BY <1>1, <1>3, <2>1, Zenon
  <2> QED BY <1>2, <1>4, <1>7, <1>8, <2>1, <2>2, ZenonT(30)
<1> QED BY <1>9, <1>10, <1>11, Zenon DEF PollInv

LEMMA WorkerKeepsPoll ==
  ASSUME PollInv, NEW i \in Polling!Inputs, Polling!WorkerStep(i) PROVE PollInv'
<1>0. /\ {"sending", "retry", "waiting", "gone"} \subseteq WorkerStates \ {"none"}
      /\ "gone" \in Heard /\ {"waiting", "retry", "sending"} \cap Heard = {}
      /\ "none" \notin {"sending", "retry", "waiting", "parked"}
  BY DEF WorkerStates, Heard
<1>1. /\ werr \in [Polling!Inputs -> BOOLEAN] /\ resumed \in [Polling!Inputs -> BOOLEAN]
      /\ \A j \in Polling!Inputs : resumed[j] => worker[j] \in Heard
  BY Zenon DEF PollInv, PollShape, InChannel
<1>2. CASE Polling!WaitReturns(i)
  <2>1. /\ worker[i] = "waiting" /\ worker' = [worker EXCEPT ![i] = "sending"]
        /\ UNCHANGED <<at, got, ch, resumed>>
        /\ \E e \in BOOLEAN : werr' = [werr EXCEPT ![i] = e]
    BY <1>2, Zenon DEF Polling!WaitReturns
  <2>2. werr' \in [Polling!Inputs -> BOOLEAN]
    BY <1>1, <2>1, Zenon
  <2>3. ~resumed[i] /\ worker[i] \notin Heard /\ "sending" \in WorkerStates \ {"none"}
        /\ worker[i] # "none"
    BY <1>0, <1>1, <2>1
  <2> QED BY <1>1, <2>1, <2>2, <2>3, WorkerMoves, Zenon
<1>3. CASE Polling!GoesOn(i)
  <2>1. /\ worker[i] = "parked" /\ resumed[i] /\ worker' = [worker EXCEPT ![i] = "retry"]
        /\ resumed' = [resumed EXCEPT ![i] = FALSE] /\ UNCHANGED <<at, got, ch, werr>>
    BY <1>3, Zenon DEF Polling!GoesOn, Polling!MayGoOn
  <2>2. /\ resumed' \in [Polling!Inputs -> BOOLEAN] /\ ~resumed'[i]
        /\ \A j \in Polling!Inputs : j # i => resumed'[j] = resumed[j]
    BY <1>1, <2>1, Zenon
  <2>3. "retry" \in WorkerStates \ {"none"} /\ worker[i] # "none"
    BY <1>0, <2>1
  <2> QED BY <1>1, <2>1, <2>2, <2>3, WorkerMoves, Zenon
<1>4. CASE Polling!RetryOver(i)
  <2>1. /\ worker[i] = "retry" /\ worker' = [worker EXCEPT ![i] = "waiting"]
        /\ UNCHANGED <<at, got, ch, werr, resumed>>
    BY <1>4, Zenon DEF Polling!RetryOver
  <2>2. ~resumed[i] /\ worker[i] \notin Heard /\ "waiting" \in WorkerStates \ {"none"}
        /\ worker[i] # "none"
    BY <1>0, <1>1, <2>1
  <2> QED BY <1>1, <2>1, <2>2, WorkerMoves, Zenon
<1>5. CASE Polling!Leaves(i)
  <2>1. /\ worker[i] \in {"sending", "parked", "retry"} /\ worker' = [worker EXCEPT ![i] = "gone"]
        /\ UNCHANGED <<at, got, ch, werr, resumed>>
    BY <1>5, Zenon DEF Polling!Leaves, Polling!LeavesFrom
  <2>2. "gone" \in Heard /\ "gone" \in WorkerStates \ {"none"} /\ worker[i] # "none"
    BY <1>0, <2>1
  <2> QED BY <1>1, <2>1, <2>2, WorkerMoves, Zenon
<1> QED BY <1>2, <1>3, <1>4, <1>5, SendKeepsPoll, Zenon DEF Polling!WorkerStep

LEMMA PollStarts == ASSUME Polling!Init PROVE PollInv
<1>1. /\ at = "idle" /\ got = Polling!NoResult /\ ch = <<>>
      /\ worker = [i \in Polling!Inputs |-> "none"] /\ werr = [i \in Polling!Inputs |-> FALSE]
      /\ resumed = [i \in Polling!Inputs |-> FALSE]
  BY Zenon DEF Polling!Init
<1>2. ch \in Seq(PollResult) /\ 1..Len(ch) = {}
  BY <1>1
<1>3. "none" \in WorkerStates /\ FALSE \in BOOLEAN /\ at # "scan"
  BY <1>1 DEF WorkerStates
<1>4. PollShape
  BY <1>1, <1>2, <1>3, Zenon DEF PollShape, Fresh
<1>5. InChannel
  BY <1>1, <1>2, Zenon DEF InChannel
<1> QED BY <1>3, <1>4, <1>5, Zenon DEF PollInv, InHand

\* Different pollables are behind the results in the channel, and the worker
\* that is about to send has none there: so there is room for its result.
LEMMA ChannelHasRoom ==
  ASSUME N \in Nat, PollInv, NEW i \in Polling!Inputs, worker[i] = "sending"
  PROVE  Len(ch) < N /\ \A p \in 1..Len(ch) : ch[p].i # i
<1> DEFINE f == [p \in 1..Len(ch) |-> ch[p].i]
           T == Polling!Inputs \ {i}
<1>1. Len(ch) \in Nat /\ \A p \in 1..Len(ch) : ch[p].i \in Polling!Inputs
  BY PollResults, Zenon DEF PollInv
<1>2. \A p \in 1..Len(ch) : ch[p].i # i
  <2>1. "sending" \notin Heard
    BY DEF Heard
  <2> QED BY <2>1, Zenon DEF PollInv, InChannel
<1>3. f \in Injection(1..Len(ch), T)
  <2>1. f \in [1..Len(ch) -> T]
    BY <1>1, <1>2, Zenon
  <2>2. \A a, b \in 1..Len(ch) : f[a] = f[b] => a = b
    BY Zenon DEF PollInv, InChannel
  <2> QED BY <2>1, <2>2, Zenon DEF Injection, IsInjective
<1>4. IsFiniteSet(1..N) /\ Cardinality(1..N) = N
  BY FS_Interval
<1>5. IsFiniteSet(T) /\ Cardinality(T) = N - 1
  BY <1>4, FS_RemoveElement, ZenonT(30) DEF Polling!Inputs
<1>6. Cardinality(1..Len(ch)) <= Cardinality(T)
  BY <1>3, <1>5, FS_Injection, ZenonT(30)
<1>7. Cardinality(1..Len(ch)) = Len(ch)
  <2> DEFINE n == Len(ch)
  <2>1. n \in Nat
    BY <1>1, Zenon
  <2> HIDE DEF n
  <2>2. Cardinality(1..n) = IF 1 > n THEN 0 ELSE n - 1 + 1
    BY <2>1, FS_Interval
  <2>3. Cardinality(1..n) = n
    BY <2>1, <2>2
  <2> QED BY <2>3, Zenon DEF n
<1> QED BY <1>1, <1>2, <1>5, <1>6, <1>7, SMTT(30)

\* Each pollable has at most one result or wait outstanding, however often its
\* worker was woken for nothing, and no worker of waitPollables blocks on the
\* channel of results.
THEOREM PollHasOneWaiter ==
  ASSUME Polling!PollAssumption PROVE Polling!Spec => []Polling!OneWaiter
<1>1. Polling!Init => PollInv
  BY PollStarts
<1>2. PollInv /\ [Polling!Next]_(Polling!vars) => PollInv'
  BY CallerKeepsPoll, ScannedKeepsPoll, ReceiveKeepsPoll, WorkerKeepsPoll, Zenon DEF Polling!Next
<1>3. PollInv => Polling!OneWaiter
  <2>1. N \in Nat
    BY DEF Polling!PollAssumption
  <2> QED BY <2>1, ChannelHasRoom, Zenon DEF PollInv, InChannel, Polling!OneWaiter
<1> QED BY <1>1, <1>2, <1>3, PTL DEF Polling!Spec
==============================================================================
