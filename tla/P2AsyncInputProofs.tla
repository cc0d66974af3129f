-------------------------- MODULE P2AsyncInputProofs --------------------------
(***************************************************************************)
(* Proofs about P2AsyncInput: for any number of clients, reads and bytes   *)
(* the adapter implements P2InputContract, with one read in flight.        *)
(***************************************************************************)
EXTENDS P2AsyncInput, SequenceTheorems, TLAPS

Result == [lo : Nat, hi : Nat, err : Errors]

\* The shapes of the variables.
Shape ==
  /\ reads \in 0..MaxReads /\ result \in 0..reads /\ waiting \in 0..reads
  /\ ready \in [Reads -> BOOLEAN] /\ res \in [Reads -> Result] /\ closed \in BOOLEAN
  /\ mu \in Clients \cup {NoClient} /\ len \in 0..MaxLen
  /\ pc \in [Clients -> {"idle", "wait", "crowded"}] /\ read \in [Clients -> 0..reads]
  /\ produced \in 0..MaxBytes /\ delivered \in Seq(Nat)

\* A read that has not returned is the one waited for; no read is both waited
\* for and collected, and a closed stream waits for none.
InFlight ==
  /\ \A k \in Reads : IF k <= reads THEN ready[k] \/ waiting = k ELSE ~ready[k]
  /\ waiting # Nil => result = Nil
  /\ closed => waiting = Nil

\* Callers that hold the mutex have room, and those that wait know for what.
Held ==
  /\ mu # NoClient => len > 0
  /\ \A c \in Clients : pc[c] # "idle" => read[c] # Nil

\* The bytes that were produced are delivered, but for those in the result
\* that is there to collect, and how the source ended is told with its result.
Accounted ==
  IF ResultNow = Nil
  THEN /\ Len(delivered) = produced
       /\ \/ ~closed /\ ended = "no" /\ reported = "nothing"
          \/ closed /\ ended = "eof" /\ reported \in {"nothing", "end"}
          \/ closed /\ ended = "fail" /\ reported \in {"failure", "end"}
  ELSE /\ res[ResultNow].lo = Len(delivered) /\ res[ResultNow].hi = produced
       /\ Len(delivered) <= produced
       /\ ended = (IF res[ResultNow].err = "nil" THEN "no" ELSE res[ResultNow].err)
       /\ ~closed /\ reported = "nothing"

IInv == Shape /\ InFlight /\ Held /\ Accounted

\* What a step of the adapter is to the contract.
ContractStep == [Contract!Next]_(Contract!vars)

-------------------------------------------------------------------------------
\* What is there to collect: nothing, or a read that has returned.
LEMMA ResultNowThere ==
  ASSUME Shape, InFlight
  PROVE  /\ ResultNow \in 0..reads /\ WaitingNow \in 0..reads
         /\ ResultNow # Nil => WaitingNow = Nil /\ ResultNow \in Reads
  BY InputAssumption DEF Shape, InFlight, ResultNow, WaitingNow, Collected, Nil, Reads

\* When there is a result, no read is in flight.
LEMMA AllReturned ==
  ASSUME Shape, InFlight, ResultNow # Nil
  PROVE  \A k \in Reads : k <= reads => ready[k]
<1>1. CASE Collected  BY <1>1, Zenon DEF InFlight, Collected
<1>2. CASE ~Collected
  <2>1. waiting = Nil  BY <1>2, Zenon DEF InFlight, ResultNow
  <2> QED  BY <2>1 DEF InFlight, Reads, Nil
<1> QED  BY <1>1, <1>2, Zenon

\* collect leaves what there is to collect as it is.
LEMMA CollectKeeps ==
  ASSUME Shape, InFlight, result' = ResultNow, waiting' = WaitingNow,
         UNCHANGED <<reads, ready, closed>>
  PROVE  ResultNow' = ResultNow /\ InFlight'
<1>1. CASE Collected
  <2>1. result' = waiting /\ waiting' = Nil /\ ResultNow = waiting
    BY <1>1, Zenon DEF ResultNow, WaitingNow
  <2>2. ResultNow' = waiting  BY <2>1, Zenon DEF ResultNow, Collected
  <2>3. ready[waiting] /\ waiting \in 1..reads
    BY <1>1 DEF Collected, Shape, Nil
  <2>4. InFlight'  BY <2>1, <2>3, Zenon DEF InFlight
  <2> QED  BY <2>1, <2>2, <2>4, Zenon
<1>2. CASE ~Collected
  <2>1. UNCHANGED <<result, waiting>>  BY <1>2, Zenon DEF ResultNow, WaitingNow
  <2> QED  BY <2>1, Zenon DEF ResultNow, Collected, InFlight
<1> QED  BY <1>1, <1>2, Zenon

\* start begins a read only when nothing is there and none is in flight.
LEMMA StartKeeps ==
  ASSUME Shape, InFlight, CollectAndStart, UNCHANGED <<ready, closed>>
  PROVE  /\ ResultNow' = ResultNow /\ InFlight'
         /\ reads' \in reads..MaxReads /\ result' \in 0..reads' /\ waiting' \in 0..reads'
<1>1. CASE Starts
  <2>1. /\ result' = ResultNow /\ ResultNow = Nil /\ WaitingNow = Nil /\ ~closed
        /\ waiting' = reads + 1 /\ reads' = reads + 1 /\ reads < MaxReads
    BY <1>1, Zenon DEF CollectAndStart, Starts
  <2>2. waiting = Nil  BY <2>1, Zenon DEF ResultNow, WaitingNow, Collected
  <2>3. reads \in Nat /\ reads + 1 \in Reads /\ reads + 1 # Nil /\ MaxReads \in Nat
    BY <2>1, InputAssumption DEF Shape, Reads, Nil
  <2>4. ~ready[reads + 1]  BY <2>3 DEF InFlight
  <2>5. ResultNow' = Nil  BY <2>1, <2>4, Zenon DEF ResultNow, Collected
  <2>6. InFlight'
    <3>1. \A k \in Reads : IF k <= reads' THEN ready'[k] \/ waiting' = k ELSE ~ready'[k]
      <4> SUFFICES ASSUME NEW k \in Reads
                   PROVE  IF k <= reads' THEN ready'[k] \/ waiting' = k ELSE ~ready'[k]
        BY Zenon
      <4>1. CASE k <= reads
        BY <2>1, <2>2, <2>3, <4>1 DEF InFlight, Reads, Nil
      <4>2. CASE k = reads + 1  BY <2>1, <2>3, <4>2
      <4>3. CASE k > reads + 1
        BY <2>1, <2>3, <4>3 DEF InFlight, Reads
      <4> QED  BY <2>3, <4>1, <4>2, <4>3 DEF Reads
    <3> QED  BY <2>1, <3>1, Zenon DEF InFlight
  <2> QED  BY <2>1, <2>3, <2>5, <2>6 DEF Nil
<1>2. CASE ~Starts
  <2>1. result' = ResultNow /\ waiting' = WaitingNow /\ reads' = reads
    BY <1>2, Zenon DEF CollectAndStart
  <2>2. reads \in 0..MaxReads  BY Zenon DEF Shape
  <2> QED  BY <2>1, <2>2, ResultNowThere, CollectKeeps, InputAssumption
<1> QED  BY <1>1, <1>2, Zenon

\* A step that leaves the source, the results and the received bytes alone.
LEMMA Quiet ==
  ASSUME Accounted, ResultNow' = ResultNow,
         UNCHANGED <<res, closed, produced, ended, delivered, reported>>
  PROVE  Accounted' /\ ContractStep
<1>1. Accounted'  BY Zenon DEF Accounted
<1>2. ContractStep  BY Zenon DEF ContractStep, Contract!vars
<1> QED  BY <1>1, <1>2, Zenon

-------------------------------------------------------------------------------
\* WaitNotNeeded and PendingReadError only collect.
LEMMA CollectInv ==
  ASSUME IInv, NEW c \in Clients, WaitNotNeeded(c) \/ PendingReadError(c)
  PROVE  IInv' /\ ContractStep
<1>1. /\ result' = ResultNow /\ waiting' = WaitingNow
      /\ UNCHANGED <<reads, ready, res, closed, mu, len, pc, read, produced, ended, delivered, reported>>
  BY Zenon DEF WaitNotNeeded, PendingReadError, source, received
<1>2. ResultNow' = ResultNow /\ InFlight'  BY <1>1, CollectKeeps, Zenon DEF IInv
<1>3. Shape'  BY <1>1, ResultNowThere, Zenon DEF IInv, Shape
<1>4. Held'  BY <1>1, Zenon DEF IInv, Held
<1> QED  BY <1>1, <1>2, <1>3, <1>4, Quiet, Zenon DEF IInv

LEMMA TryReadBeginInv ==
  ASSUME IInv, NEW c \in Clients, NEW n \in 1..MaxLen, TryReadBegin(c, n)
  PROVE  IInv' /\ ContractStep
<1>1. /\ CollectAndStart /\ mu' = c /\ len' = n /\ pc' = Crowd
      /\ UNCHANGED <<ready, res, closed, read, produced, ended, delivered, reported>>
  BY Zenon DEF TryReadBegin, source, received
<1>2. /\ ResultNow' = ResultNow /\ InFlight'
      /\ reads' \in reads..MaxReads /\ result' \in 0..reads' /\ waiting' \in 0..reads'
  BY <1>1, StartKeeps, Zenon DEF IInv
<1>3. reads' \in 0..MaxReads /\ 0..reads \subseteq 0..reads' /\ n \in 0..MaxLen
  BY <1>2, InputAssumption DEF IInv, Shape
<1>4. pc' \in [Clients -> {"idle", "wait", "crowded"}]
      /\ \A d \in Clients : pc'[d] # "idle" => pc[d] # "idle"
  BY <1>1, Zenon DEF Crowd, IInv, Shape
<1>5. read' \in [Clients -> 0..reads']  BY <1>1, <1>3, Zenon DEF IInv, Shape
<1>6. Shape'  BY <1>1, <1>2, <1>3, <1>4, <1>5, Zenon DEF IInv, Shape
<1>7. Held'  BY <1>1, <1>4, InputAssumption DEF IInv, Held
<1> QED  BY <1>1, <1>2, <1>6, <1>7, Quiet, Zenon DEF IInv

LEMMA WaitBeginsInv ==
  ASSUME IInv, NEW c \in Clients, WaitBegins(c)
  PROVE  IInv' /\ ContractStep
<1>1. /\ CollectAndStart /\ ~(ResultNow # Nil \/ closed)
      /\ read' = [read EXCEPT ![c] = waiting'] /\ pc' = [pc EXCEPT ![c] = "wait"]
      /\ UNCHANGED <<ready, res, closed, mu, len, produced, ended, delivered, reported>>
  BY Zenon DEF WaitBegins, source, received
<1>2. /\ ResultNow' = ResultNow /\ InFlight'
      /\ reads' \in reads..MaxReads /\ result' \in 0..reads' /\ waiting' \in 0..reads'
  BY <1>1, StartKeeps, Zenon DEF IInv
<1>3. reads' \in 0..MaxReads /\ 0..reads \subseteq 0..reads'
  BY <1>2, InputAssumption DEF IInv, Shape
<1>4. waiting' # Nil
  <2>1. reads \in Nat  BY InputAssumption DEF IInv, Shape
  <2> QED  BY <1>1, <2>1 DEF CollectAndStart, Starts, Nil
<1>5. read' \in [Clients -> 0..reads']
  <2>1. read \in [Clients -> 0..reads']  BY <1>3, Zenon DEF IInv, Shape
  <2> QED  BY <1>1, <1>2, <2>1, Zenon
<1>6. pc' \in [Clients -> {"idle", "wait", "crowded"}]  BY <1>1, Zenon DEF IInv, Shape
<1>7. Shape'  BY <1>1, <1>2, <1>3, <1>5, <1>6, Zenon DEF IInv, Shape
<1>8. Held'  BY <1>1, <1>4, Zenon DEF IInv, Shape, Held
<1> QED  BY <1>1, <1>2, <1>7, <1>8, Quiet, Zenon DEF IInv

LEMMA TryReadBlocksInv ==
  ASSUME IInv, NEW c \in Clients, TryReadBlocks(c)
  PROVE  IInv' /\ ContractStep
<1>1. /\ mu' = NoClient /\ len' = 0
      /\ UNCHANGED <<reads, ready, res, result, waiting, closed, pc, read, produced, ended,
                     delivered, reported>>
  BY Zenon DEF TryReadBlocks, source
<1>2. Shape' /\ InFlight' /\ Held'
  BY <1>1, InputAssumption DEF IInv, Shape, InFlight, Held
<1>3. ResultNow' = ResultNow  BY <1>1, Zenon DEF ResultNow, Collected
<1> QED  BY <1>1, <1>2, <1>3, Quiet, Zenon DEF IInv

LEMMA WaitCanceledInv ==
  ASSUME IInv, NEW c \in Clients, WaitCanceled(c)
  PROVE  IInv' /\ ContractStep
<1>1. /\ pc' = [pc EXCEPT ![c] = "idle"] /\ read' = [read EXCEPT ![c] = Nil]
      /\ UNCHANGED <<reads, ready, res, result, waiting, closed, mu, len, produced, ended,
                     delivered, reported>>
  BY Zenon DEF WaitCanceled, source, received
<1>2. 0 \in 0..reads  BY InputAssumption DEF IInv, Shape
<1>3. Shape'  BY <1>1, <1>2, Zenon DEF IInv, Shape, Nil
<1>4. InFlight' /\ Held'  BY <1>1, Zenon DEF IInv, Shape, InFlight, Held
<1>5. ResultNow' = ResultNow  BY <1>1, Zenon DEF ResultNow, Collected
<1> QED  BY <1>1, <1>3, <1>4, <1>5, Quiet, Zenon DEF IInv

\* A waiter collects the read it waited for, unless somebody else has.
LEMMA WaitWakesInv ==
  ASSUME IInv, NEW c \in Clients, WaitWakes(c)
  PROVE  IInv' /\ ContractStep
<1>1. /\ pc[c] # "idle" /\ ready[read[c]]
      /\ pc' = [pc EXCEPT ![c] = "idle"] /\ read' = [read EXCEPT ![c] = Nil]
      /\ UNCHANGED <<reads, ready, res, closed, mu, len, produced, ended, delivered, reported>>
  BY Zenon DEF WaitWakes, source, received
<1>2. 0 \in 0..reads  BY InputAssumption DEF IInv, Shape
<1>3. Held'  BY <1>1, Zenon DEF IInv, Shape, Held
<1>4. CASE waiting = read[c]
  <2>1. Collected  BY <1>1, <1>4, Zenon DEF Collected, IInv, Held
  <2>2. result' = ResultNow /\ waiting' = WaitingNow
    BY <1>4, <2>1, Zenon DEF WaitWakes, ResultNow, WaitingNow
  <2>3. ResultNow' = ResultNow /\ InFlight'  BY <1>1, <2>2, CollectKeeps, Zenon DEF IInv
  <2>4. Shape'  BY <1>1, <1>2, <2>2, ResultNowThere, Zenon DEF IInv, Shape, Nil
  <2> QED  BY <1>1, <1>3, <2>3, <2>4, Quiet, Zenon DEF IInv
<1>5. CASE waiting # read[c]
  <2>1. UNCHANGED <<waiting, result>>  BY <1>5, Zenon DEF WaitWakes
  <2>2. Shape'  BY <1>1, <1>2, <2>1, Zenon DEF IInv, Shape, Nil
  <2>3. InFlight'  BY <1>1, <2>1, Zenon DEF IInv, InFlight
  <2>4. ResultNow' = ResultNow  BY <1>1, <2>1, Zenon DEF ResultNow, Collected
  <2> QED  BY <1>1, <1>3, <2>2, <2>3, <2>4, Quiet, Zenon DEF IInv
<1> QED  BY <1>4, <1>5, Zenon

\* A read returns: it is the one in flight, and nothing else is to be delivered.
LEMMA ReadReturnsInv ==
  ASSUME IInv, NEW k \in Reads, ReadReturns(k)
  PROVE  IInv' /\ ContractStep
<1>1. /\ k <= reads /\ ~ready[k] /\ ready' = [ready EXCEPT ![k] = TRUE]
      /\ UNCHANGED <<reads, result, waiting, closed, mu, len, pc, read, delivered, reported>>
  BY Zenon DEF ReadReturns, received
<1>2. PICK n \in 0..(MaxBytes - produced), err \in Errors :
        /\ res' = [res EXCEPT ![k] = [lo |-> produced, hi |-> produced + n, err |-> err]]
        /\ produced' = produced + n
        /\ ended' = IF err = "nil" THEN ended ELSE err
  BY Zenon DEF ReadReturns
<1>3. waiting = k /\ k # Nil /\ result = Nil /\ ~closed
  <2>1. waiting = k  BY <1>1, Zenon DEF IInv, InFlight
  <2>2. k # Nil  BY DEF Reads, Nil
  <2> QED  BY <2>1, <2>2, Zenon DEF IInv, InFlight
<1>4. ResultNow = Nil  BY <1>1, <1>3, Zenon DEF ResultNow, Collected
<1>5. Len(delivered) = produced /\ ended = "no" /\ reported = "nothing"
  BY <1>3, <1>4, Zenon DEF IInv, Accounted
<1>6. ready'[k] /\ waiting' = k  BY <1>1, <1>3, Zenon DEF IInv, Shape
<1>7. ResultNow' = k  BY <1>3, <1>6, Zenon DEF ResultNow, Collected
<1>8. produced \in Nat /\ n \in Nat /\ produced + n \in 0..MaxBytes
  BY <1>2, InputAssumption DEF IInv, Shape
<1>9. res' \in [Reads -> Result]
      /\ res'[k] = [lo |-> produced, hi |-> produced + n, err |-> err]
  <2>1. [lo |-> produced, hi |-> produced + n, err |-> err] \in Result
    BY <1>8 DEF Result
  <2>2. res \in [Reads -> Result]  BY Zenon DEF IInv, Shape
  <2> HIDE DEF Result
  <2> QED  BY <1>2, <2>1, <2>2, Zenon
<1>10. ready' \in [Reads -> BOOLEAN]  BY <1>1, Zenon DEF IInv, Shape
<1>11. Shape'  BY <1>1, <1>2, <1>8, <1>9, <1>10, Zenon DEF IInv, Shape
<1>12. InFlight'  BY <1>1, <1>3, Zenon DEF IInv, Shape, InFlight
<1>13. Held'  BY <1>1, Zenon DEF IInv, Held
<1>14. Accounted'
  <2>1. k \in Reads /\ ResultNow' # Nil  BY <1>3, <1>7, Zenon
  <2>2. res'[k].lo = produced /\ res'[k].hi = produced + n /\ res'[k].err = err  BY <1>9
  <2> QED  BY <1>1, <1>2, <1>3, <1>5, <1>7, <1>8, <2>1, <2>2 DEF Accounted
<1>15. ContractStep
  <2>1. produced + n \in produced..MaxBytes /\ ended' \in {"no", "eof", "fail"}
    BY <1>2, <1>5, <1>8, InputAssumption DEF Errors
  <2> QED  BY <1>1, <1>2, <1>5, <2>1, Zenon DEF ContractStep, Contract!Next, Contract!Produce
<1> QED  BY <1>11, <1>12, <1>13, <1>14, <1>15, Zenon DEF IInv

\* A read of length zero tells an end that is there, and takes nothing else.
LEMMA TryReadZeroInv ==
  ASSUME IInv, NEW c \in Clients, TryReadZero(c)
  PROVE  IInv' /\ ContractStep
<1> DEFINE atEnd == ResultNow # Nil /\ Empty(ResultNow) /\ res[ResultNow].err = "eof"
<1>1. /\ result' = (IF atEnd THEN Nil ELSE ResultNow) /\ closed' = (closed \/ atEnd)
      /\ waiting' = WaitingNow /\ reported' = IF closed' THEN "end" ELSE reported
      /\ UNCHANGED <<reads, ready, res, mu, len, pc, read, produced, ended, delivered>>
  BY Zenon DEF TryReadZero, source
<1>2. Held'  BY <1>1, Zenon DEF IInv, Held
<1>3. CASE atEnd
  <2>1. result' = Nil /\ closed' /\ reported' = "end" /\ closed' = TRUE  BY <1>1, <1>3, Zenon
  <2>2. waiting' = Nil  BY <1>1, <1>3, ResultNowThere, Zenon DEF IInv
  <2>3. Len(delivered) = produced /\ ended = "eof"
    BY <1>3, Zenon DEF IInv, Accounted, Empty
  <2>4. ResultNow' = Nil  BY <2>1, <2>2, Zenon DEF ResultNow, Collected
  <2>5. Shape'
    <3>1. Nil \in 0..reads  BY InputAssumption DEF IInv, Shape, Nil
    <3> QED  BY <1>1, <2>1, <2>2, <3>1, Zenon DEF IInv, Shape
  <2>6. InFlight'
    <3>1. \A k \in Reads : k <= reads => ready[k]
      BY <1>3, AllReturned, Zenon DEF IInv
    <3>2. \A k \in Reads : IF k <= reads THEN ready[k] \/ waiting' = k ELSE ~ready[k]
      BY <3>1, Zenon DEF IInv, InFlight
    <3> QED  BY <1>1, <2>1, <2>2, <3>2, Zenon DEF InFlight
  <2>7. Accounted'  BY <1>1, <2>1, <2>3, <2>4, Zenon DEF Accounted
  <2>8. ContractStep
    BY <1>1, <2>1, <2>3, Zenon DEF ContractStep, Contract!Next, Contract!ReportEnd, Contract!Drained
  <2> QED  BY <1>2, <2>5, <2>6, <2>7, <2>8, Zenon DEF IInv
<1>4. CASE ~atEnd
  <2>1. result' = ResultNow /\ closed' = closed  BY <1>1, <1>4, Zenon DEF IInv, Shape
  <2>2. ResultNow' = ResultNow /\ InFlight'  BY <1>1, <2>1, CollectKeeps, Zenon DEF IInv
  <2>3. Shape'  BY <1>1, <2>1, ResultNowThere, Zenon DEF IInv, Shape
  <2>4. CASE ~closed
    <3>1. reported' = reported  BY <1>1, <2>1, <2>4, Zenon
    <3> QED  BY <1>1, <1>2, <2>1, <2>2, <2>3, <3>1, Quiet, Zenon DEF IInv
  <2>5. CASE closed
    <3>1. reported' = "end"  BY <1>1, <2>1, <2>5, Zenon
    <3>2. /\ ResultNow = Nil /\ Len(delivered) = produced
          /\ \/ ended = "eof" /\ reported \in {"nothing", "end"}
             \/ ended = "fail" /\ reported \in {"failure", "end"}
      BY <2>5, Zenon DEF IInv, Accounted
    <3>3. Accounted'  BY <1>1, <2>1, <2>2, <2>5, <3>1, <3>2, Zenon DEF Accounted
    <3>4. ContractStep
      BY <1>1, <3>1, <3>2, Zenon
      DEF ContractStep, Contract!Next, Contract!ReportEnd, Contract!Drained, Contract!vars
    <3> QED  BY <1>2, <2>2, <2>3, <3>3, <3>4, Zenon DEF IInv
  <2> QED  BY <2>4, <2>5, Zenon
<1> QED  BY <1>3, <1>4, Zenon

LEMMA TryReadClosedInv ==
  ASSUME IInv, NEW c \in Clients, TryReadClosed(c)
  PROVE  IInv' /\ ContractStep
<1>1. /\ ResultNow = Nil /\ closed /\ reported' = "end"
      /\ UNCHANGED <<reads, ready, res, result, waiting, closed, mu, len, pc, read, produced,
                     ended, delivered>>
  BY Zenon DEF TryReadClosed, source
<1>2. ResultNow' = ResultNow  BY <1>1, Zenon DEF ResultNow, Collected
<1>3. Shape' /\ InFlight' /\ Held'  BY <1>1, Zenon DEF IInv, Shape, InFlight, Held
<1>4. /\ Len(delivered) = produced
      /\ \/ ended = "eof" /\ reported \in {"nothing", "end"}
         \/ ended = "fail" /\ reported \in {"failure", "end"}
  BY <1>1, Zenon DEF IInv, Accounted
<1>5. Accounted'  BY <1>1, <1>2, <1>4, Zenon DEF Accounted
<1>6. ContractStep
  BY <1>1, <1>4, Zenon
  DEF ContractStep, Contract!Next, Contract!ReportEnd, Contract!Drained, Contract!vars
<1> QED  BY <1>3, <1>5, <1>6, Zenon DEF IInv

\* Delivering the next n bytes.
LEMMA DeliverNext ==
  ASSUME Shape, NEW n \in Nat,
         delivered' = delivered \o [j \in 1..n |-> Len(delivered) + j]
  PROVE  /\ delivered' \in Seq(Nat) /\ Len(delivered') = Len(delivered) + n
         /\ n = 0 => delivered' = delivered
         /\ n # 0 /\ reported = "nothing" /\ Len(delivered) + n <= produced
              /\ UNCHANGED <<produced, ended, reported>> => ContractStep
<1> DEFINE q == [j \in 1..n |-> Len(delivered) + j]
<1>1. Len(delivered) \in Nat  BY LenProperties, Zenon DEF Shape
<1>2. q \in Seq(Nat) /\ Len(q) = n
  <2>1. q \in [1..n -> Nat]  BY <1>1
  <2> QED  BY <2>1, SMT
<1> HIDE DEF q
<1>3. delivered' = delivered \o q  BY Zenon DEF q
<1>4. delivered' \in Seq(Nat) /\ Len(delivered') = Len(delivered) + n
  BY <1>2, <1>3, ConcatProperties DEF Shape
<1>5. ASSUME n = 0 PROVE delivered' = delivered
  <2>1. q = <<>>  BY <1>2, <1>5, EmptySeq, Zenon
  <2> QED  BY <1>3, <2>1, ConcatEmptySeq, Zenon DEF Shape
<1>6. ASSUME n # 0, reported = "nothing", Len(delivered) + n <= produced,
             UNCHANGED <<produced, ended, reported>>
      PROVE  ContractStep
  <2>1. n \in 1..MaxBytes  BY <1>1, <1>6, InputAssumption DEF Shape
  <2>2. Contract!Deliver(n)  BY <1>6, Zenon DEF Contract!Deliver
  <2> QED  BY <2>1, <2>2, Zenon DEF ContractStep, Contract!Next
<1> QED  BY <1>4, <1>5, <1>6, Zenon

\* TryRead takes bytes, or an error when there are none, from the result.
LEMMA TryReadTakesInv ==
  ASSUME IInv, NEW c \in Clients, TryReadTakes(c)
  PROVE  IInv' /\ ContractStep
<1> DEFINE k == ResultNow
           n == Copied(k)
<1>1. k # Nil /\ mu = c /\ len > 0  BY InputAssumption, Zenon DEF TryReadTakes, IInv, Held
<1>2. /\ k \in Reads /\ WaitingNow = Nil /\ k \in 0..reads
      /\ res[k].lo = Len(delivered) /\ res[k].hi = produced /\ Len(delivered) <= produced
      /\ ended = (IF res[k].err = "nil" THEN "no" ELSE res[k].err)
      /\ ~closed /\ reported = "nothing"
  BY <1>1, ResultNowThere, Zenon DEF IInv, Accounted
<1>3. /\ Len(delivered) \in Nat /\ produced \in Nat /\ len \in Nat /\ res[k] \in Result
      /\ res[k].err \in {"nil", "eof", "fail"}
  BY <1>2, LenProperties, InputAssumption DEF IInv, Shape, Result, Errors
<1>4. /\ n \in Nat /\ Len(delivered) + n <= produced
      /\ n = 0 => Len(delivered) = produced
  BY <1>1, <1>2, <1>3 DEF Copied, Smaller
<1> HIDE DEF n, k
<1>5. /\ waiting' = Nil /\ mu' = NoClient /\ len' = 0
      /\ res' = [res EXCEPT ![k].lo = @ + n]
      /\ delivered' = delivered \o [j \in 1..n |-> res[k].lo + j]
      /\ result' = (IF Keeps(k, n) THEN k ELSE Nil)
      /\ closed' = (closed \/ Closes(k, n))
      /\ UNCHANGED <<reads, ready, pc, read, produced, ended>>
  BY <1>2, Zenon DEF TryReadTakes, source, n, k
<1>6. reported' = IF n = 0 /\ res[k].err = "eof" THEN "end"
                  ELSE IF n = 0 /\ res[k].err = "fail" THEN "failure" ELSE reported
  <2>1. /\ ret' = (IF n > 0 THEN "bytes"
                   ELSE [nil |-> "empty", eof |-> "end", fail |-> "failure"][res[k].err])
        /\ reported' = IF ret' \in {"end", "failure"} THEN ret' ELSE reported
    BY Zenon DEF TryReadTakes, n, k
  <2> QED  BY <1>3, <1>4, <2>1
<1>7. delivered' = delivered \o [j \in 1..n |-> Len(delivered) + j]
  BY <1>2, <1>5, Zenon
<1>8. /\ delivered' \in Seq(Nat) /\ Len(delivered') = Len(delivered) + n
      /\ n = 0 => delivered' = delivered
  BY <1>4, <1>7, DeliverNext, Zenon DEF IInv
<1>9. res' \in [Reads -> Result] /\ res'[k].lo = Len(delivered')
      /\ res'[k].hi = produced /\ res'[k].err = res[k].err
  <2>1. res' = [res EXCEPT ![k] = [res[k] EXCEPT !.lo = res[k].lo + n]]
    BY <1>2, <1>5, Zenon DEF IInv, Shape
  <2>2. [res[k] EXCEPT !.lo = res[k].lo + n] \in Result
    BY <1>2, <1>3, <1>4 DEF Result
  <2>3. res'[k] = [res[k] EXCEPT !.lo = res[k].lo + n]  BY <1>2, <2>1, Zenon DEF IInv, Shape
  <2>4. res \in [Reads -> Result]  BY Zenon DEF IInv, Shape
  <2>5. res' \in [Reads -> Result]
    <3> HIDE DEF Result
    <3> QED  BY <2>1, <2>2, <2>4, Zenon
  <2> QED  BY <1>2, <1>3, <1>8, <2>3, <2>5, Zenon DEF Result
<1>10. closed' \in BOOLEAN /\ result' \in 0..reads
  BY <1>2, <1>5, InputAssumption DEF IInv, Shape, Nil
<1>11. Shape'
  <2>1. Nil \in 0..reads /\ 0 \in 0..MaxLen  BY InputAssumption DEF IInv, Shape, Nil
  <2> QED  BY <1>5, <1>8, <1>9, <1>10, <2>1, Zenon DEF IInv, Shape
<1>12. InFlight'
  <2>1. \A m \in Reads : IF m <= reads THEN ready[m] ELSE ~ready[m]
    BY <1>1, AllReturned, Zenon DEF IInv, InFlight, k
  <2> QED  BY <1>5, <2>1, Zenon DEF InFlight
<1>13. Held'  BY <1>5, Zenon DEF IInv, Held
<1>14. ResultNow' = result'  BY <1>5, Zenon DEF ResultNow, Collected
<1>15. Accounted'
  <2>1. CASE Keeps(k, n)
    <3>1. ResultNow' = k /\ closed' = FALSE /\ reported' = "nothing"
      <4>1. n # 0 \/ Len(delivered) # produced
        BY <1>2, <1>3, <1>4, <2>1 DEF Keeps
      <4> QED  BY <1>2, <1>4, <1>5, <1>6, <1>14, <2>1, <4>1, Zenon DEF Closes
    <3> QED  BY <1>1, <1>2, <1>4, <1>5, <1>8, <1>9, <3>1, Zenon DEF Accounted
  <2>2. CASE ~Keeps(k, n)
    <3>1. ResultNow' = Nil /\ Len(delivered') = produced /\ (res[k].err = "fail" => n = 0)
      <4>1. ~(Len(delivered) + n < produced) /\ ~(n > 0 /\ res[k].err = "fail")
        BY <1>2, <2>2, Zenon DEF Keeps
      <4>2. Len(delivered') = produced  BY <1>3, <1>4, <1>8, <4>1
      <4>3. result' = Nil  BY <1>5, <2>2, Zenon
      <4> QED  BY <1>4, <1>14, <4>1, <4>2, <4>3
    <3>2. CASE res[k].err = "nil"
      BY <1>2, <1>5, <1>6, <3>1, <3>2, Zenon DEF Closes, Accounted
    <3>3. CASE res[k].err = "eof"
      <4>1. closed' = TRUE /\ reported' \in {"nothing", "end"}
        BY <1>2, <1>5, <1>6, <2>2, <3>3, Zenon DEF Closes
      <4> QED  BY <1>2, <1>5, <3>1, <3>3, <4>1, Zenon DEF Accounted
    <3>4. CASE res[k].err = "fail"
      <4>1. closed' = TRUE /\ reported' = "failure"
        BY <1>2, <1>5, <1>6, <2>2, <3>1, <3>4, Zenon DEF Closes
      <4> QED  BY <1>2, <1>5, <3>1, <3>4, <4>1, Zenon DEF Accounted
    <3> QED  BY <1>3, <3>2, <3>3, <3>4, Zenon
  <2> QED  BY <2>1, <2>2, Zenon
<1>16. ContractStep
  <2>1. CASE n # 0
    <3>1. UNCHANGED <<produced, ended, reported>>  BY <1>5, <1>6, <2>1, Zenon
    <3> QED  BY <1>2, <1>4, <1>7, <2>1, <3>1, DeliverNext, Zenon DEF IInv
  <2>2. CASE n = 0
    <3>1. delivered' = delivered /\ Len(delivered) = produced  BY <1>4, <1>8, <2>2, Zenon
    <3> QED  BY <1>2, <1>3, <1>5, <1>6, <2>2, <3>1, Zenon
             DEF ContractStep, Contract!Next, Contract!ReportEnd, Contract!ReportFailure,
                 Contract!Drained, Contract!vars
  <2> QED  BY <2>1, <2>2, Zenon
<1> QED  BY <1>11, <1>12, <1>13, <1>15, <1>16, Zenon DEF IInv

-------------------------------------------------------------------------------
LEMMA InitInv == Init => IInv /\ Contract!Init
<1> SUFFICES ASSUME Init PROVE IInv /\ Contract!Init
  BY Zenon
<1>1. 0 \in 0..MaxReads /\ 0 \in 0..MaxLen /\ 0 \in 0..MaxBytes /\ 0 \in 0..0
  BY InputAssumption
<1>2. Shape
  <2>1. << >> \in Seq(Nat)  OBVIOUS
  <2>2. [lo |-> 0, hi |-> 0, err |-> "nil"] \in Result  BY Zenon DEF Result, Errors
  <2>3. res \in [Reads -> Result]
    <3> HIDE DEF Result
    <3> QED  BY <2>2, Zenon DEF Init
  <2> QED  BY <1>1, <2>1, <2>3, Zenon DEF Init, Shape, Nil
<1>3. InFlight  BY DEF Init, InFlight, Reads, Nil
<1>4. Held  BY Zenon DEF Init, Held
<1>5. ResultNow = Nil  BY Zenon DEF Init, ResultNow, Collected
<1>6. Accounted  BY <1>5, Zenon DEF Init, Accounted
<1>7. Contract!Init  BY Zenon DEF Init, Contract!Init
<1> QED  BY <1>2, <1>3, <1>4, <1>6, <1>7, Zenon DEF IInv

\* Every step keeps the invariant and is a step of the contract, or none.
LEMMA NextInv == IInv /\ [Next]_vars => IInv' /\ ContractStep
<1> SUFFICES ASSUME IInv, [Next]_vars PROVE IInv' /\ ContractStep
  BY Zenon
<1>1. CASE UNCHANGED vars
  <2>1. UNCHANGED <<reads, ready, res, result, waiting, closed, mu, len, pc, read, produced,
                    ended, delivered, reported>>
    BY <1>1, Zenon DEF vars, source, received
  <2>2. Shape' /\ InFlight' /\ Held'  BY <2>1, Zenon DEF IInv, Shape, InFlight, Held
  <2>3. ResultNow' = ResultNow  BY <2>1, Zenon DEF ResultNow, Collected
  <2> QED  BY <2>1, <2>2, <2>3, Quiet, Zenon DEF IInv
<1>2. ASSUME NEW k \in Reads, ReadReturns(k) PROVE IInv' /\ ContractStep
  BY <1>2, ReadReturnsInv, Zenon
<1>3. ASSUME NEW c \in Clients, ClientStep(c) PROVE IInv' /\ ContractStep
  BY <1>3, TryReadZeroInv, TryReadClosedInv, TryReadBeginInv, TryReadBlocksInv,
     TryReadTakesInv, CollectInv, WaitBeginsInv, WaitWakesInv, WaitCanceledInv, Zenon DEF ClientStep
<1> QED  BY <1>1, <1>2, <1>3, Zenon DEF Next

\* The invariant of the adapter's reads, results and bytes.
THEOREM AdapterInvariant == Spec => []IInv
  BY InitInv, NextInv, PTL DEF Spec

\* "At most one bounded read is in flight": a read that has not returned is
\* the one waited for, and no other has a result that is not collected.
THEOREM AdapterOneRead == Spec => []OneReadInFlight
<1>1. IInv => OneReadInFlight
  <2> SUFFICES ASSUME IInv PROVE OneReadInFlight
    BY Zenon
  <2>1. \A k \in 1..reads : k \in Reads /\ k <= reads
    BY InputAssumption DEF IInv, Shape, Reads
  <2>2. \A k \in 1..reads : ~ready[k] => waiting = k  BY <2>1, Zenon DEF IInv, InFlight
  <2> QED  BY <2>2, Zenon DEF IInv, InFlight, OneReadInFlight
<1> QED  BY <1>1, AdapterInvariant, PTL

\* The adapter implements the abstract input stream: concurrent waiters, probes
\* and reads lose no byte, duplicate none, and tell a failure once.
THEOREM AdapterImplements == Spec => ContractKept
<1>1. IInv /\ [Next]_vars => [Contract!Next]_(Contract!vars)
  BY NextInv, Zenon DEF ContractStep
<1> QED  BY <1>1, InitInv, AdapterInvariant, PTL DEF Spec, ContractKept, Contract!Spec

-------------------------------------------------------------------------------
(* Readiness.  A promise is kept by a result that is there, or by the end.  A *)
(* client that waits, with no TryRead since it began, waits for the read in   *)
(* flight or for one whose result nobody has taken.                           *)

PromiseKept ==
  /\ promised => ResultNow # Nil \/ closed
  /\ promised /\ mu # NoClient => ResultNow # Nil

WaitedFor ==
  \A c \in Clients : pc[c] = "wait" =>
    mu = NoClient /\ (waiting = read[c] \/ result = read[c] \/ closed)

RInv == PromiseKept /\ WaitedFor

\* collect turns the read that is waited for into the result.
LEMMA CollectWaited ==
  ASSUME IInv, WaitedFor, result' = ResultNow, waiting' = WaitingNow,
         UNCHANGED <<closed, pc, read, mu>>
  PROVE  WaitedFor'
<1> SUFFICES ASSUME NEW c \in Clients, pc[c] = "wait"
             PROVE  mu = NoClient /\ (waiting' = read[c] \/ result' = read[c] \/ closed)
  BY Zenon DEF WaitedFor
<1>1. mu = NoClient /\ (waiting = read[c] \/ result = read[c] \/ closed) /\ read[c] # Nil
  BY Zenon DEF WaitedFor, IInv, Held
<1>2. CASE Collected
  BY <1>1, <1>2, Zenon DEF IInv, InFlight, ResultNow, Collected
<1>3. CASE ~Collected
  BY <1>1, <1>3, Zenon DEF ResultNow, WaitingNow
<1> QED  BY <1>2, <1>3, Zenon

LEMMA CollectReady ==
  ASSUME IInv, RInv, NEW c \in Clients, WaitNotNeeded(c) \/ PendingReadError(c)
  PROVE  RInv'
<1>1. /\ result' = ResultNow /\ waiting' = WaitingNow /\ mu = NoClient
      /\ UNCHANGED <<reads, ready, closed, mu, pc, read>>
      /\ promised' => promised \/ ResultNow # Nil \/ closed
  BY Zenon DEF WaitNotNeeded, PendingReadError
<1>2. ResultNow' = ResultNow  BY <1>1, CollectKeeps, Zenon DEF IInv
<1>3. WaitedFor'  BY <1>1, CollectWaited, Zenon DEF RInv
<1>4. PromiseKept'  BY <1>1, <1>2, Zenon DEF RInv, PromiseKept
<1> QED  BY <1>3, <1>4, Zenon DEF RInv

LEMMA TryReadZeroReady ==
  ASSUME IInv, RInv, NEW c \in Clients, TryReadZero(c)
  PROVE  RInv'
<1> DEFINE atEnd == ResultNow # Nil /\ Empty(ResultNow) /\ res[ResultNow].err = "eof"
<1>1. /\ result' = (IF atEnd THEN Nil ELSE ResultNow) /\ closed' = (closed \/ atEnd)
      /\ waiting' = WaitingNow /\ mu = NoClient
      /\ UNCHANGED <<reads, ready, mu, pc, read, promised>>
  BY Zenon DEF TryReadZero
<1>2. CASE atEnd
  BY <1>1, <1>2, Zenon DEF RInv, PromiseKept, WaitedFor
<1>3. CASE ~atEnd
  <2>1. result' = ResultNow /\ closed' = closed  BY <1>1, <1>3, Zenon DEF IInv, Shape
  <2>2. ResultNow' = ResultNow  BY <1>1, <2>1, CollectKeeps, Zenon DEF IInv
  <2>3. WaitedFor'  BY <1>1, <2>1, CollectWaited, Zenon DEF RInv
  <2>4. PromiseKept'  BY <1>1, <2>1, <2>2, Zenon DEF RInv, PromiseKept
  <2> QED  BY <2>3, <2>4, Zenon DEF RInv
<1> QED  BY <1>2, <1>3, Zenon

\* A TryRead that has not returned at once finds what was promised.
LEMMA TryReadBeginReady ==
  ASSUME IInv, RInv, NEW c \in Clients, NEW n \in 1..MaxLen, TryReadBegin(c, n)
  PROVE  RInv'
<1>1. /\ CollectAndStart /\ pc' = Crowd /\ ~(ResultNow = Nil /\ closed)
      /\ UNCHANGED <<ready, closed, promised>>
  BY Zenon DEF TryReadBegin
<1>2. ResultNow' = ResultNow  BY <1>1, StartKeeps, Zenon DEF IInv
<1>3. promised' => ResultNow' # Nil  BY <1>1, <1>2, Zenon DEF RInv, PromiseKept
<1>4. \A d \in Clients : pc'[d] # "wait"  BY <1>1, Zenon DEF Crowd
<1> QED  BY <1>3, <1>4, Zenon DEF RInv, PromiseKept, WaitedFor

\* A TryRead that returns takes the promise with it.
LEMMA TryReadEndsReady ==
  ASSUME IInv, RInv, NEW c \in Clients, TryReadClosed(c) \/ TryReadBlocks(c) \/ TryReadTakes(c)
  PROVE  RInv'
<1>1. promised' = FALSE /\ UNCHANGED <<pc, read>>
  BY Zenon DEF TryReadClosed, TryReadBlocks, TryReadTakes
<1>2. CASE TryReadClosed(c)
  BY <1>1, <1>2, Zenon DEF TryReadClosed, RInv, PromiseKept, WaitedFor
<1>3. CASE mu = c
  <2>1. \A d \in Clients : pc[d] # "wait"  BY <1>3, InputAssumption, Zenon DEF RInv, WaitedFor
  <2> QED  BY <1>1, <2>1, Zenon DEF RInv, PromiseKept, WaitedFor
<1> QED  BY <1>2, <1>3, Zenon DEF TryReadBlocks, TryReadTakes

LEMMA WaitBeginsReady ==
  ASSUME IInv, RInv, NEW c \in Clients, WaitBegins(c)
  PROVE  RInv'
<1>1. /\ CollectAndStart /\ ResultNow = Nil /\ ~closed /\ mu = NoClient
      /\ read' = [read EXCEPT ![c] = waiting'] /\ pc' = [pc EXCEPT ![c] = "wait"]
      /\ UNCHANGED <<ready, closed, mu, promised>>
  BY Zenon DEF WaitBegins
<1>2. ~promised  BY <1>1, Zenon DEF RInv, PromiseKept
<1>3. ASSUME NEW d \in Clients, d # c, pc[d] = "wait"
      PROVE  waiting' = read[d]
  <2>1. (waiting = read[d] \/ result = read[d]) /\ read[d] # Nil
    BY <1>1, <1>3, Zenon DEF RInv, WaitedFor, IInv, Held
  <2>2. ~Collected /\ result = Nil  BY <1>1, Zenon DEF ResultNow, Collected
  <2>3. waiting = read[d] /\ WaitingNow = waiting  BY <2>1, <2>2, Zenon DEF WaitingNow
  <2> QED  BY <1>1, <2>1, <2>3, Zenon DEF CollectAndStart, Starts
<1>4. WaitedFor'
  <2> SUFFICES ASSUME NEW d \in Clients, pc'[d] = "wait"
               PROVE  mu' = NoClient /\ waiting' = read'[d]
    BY Zenon DEF WaitedFor
  <2>1. CASE d = c  BY <1>1, <2>1, Zenon DEF IInv, Shape
  <2>2. CASE d # c  BY <1>1, <1>3, <2>2, Zenon DEF IInv, Shape
  <2> QED  BY <2>1, <2>2, Zenon
<1> QED  BY <1>1, <1>2, <1>4, Zenon DEF RInv, PromiseKept

\* A waiter that is woken without a TryRead since finds what it waited for.
LEMMA WaitWakesReady ==
  ASSUME IInv, RInv, NEW c \in Clients, WaitWakes(c)
  PROVE  RInv'
<1>1. /\ pc[c] # "idle" /\ mu = NoClient /\ ready[read[c]]
      /\ promised' = (promised \/ pc[c] = "wait")
      /\ pc' = [pc EXCEPT ![c] = "idle"] /\ read' = [read EXCEPT ![c] = Nil]
      /\ UNCHANGED <<ready, closed, mu>>
  BY Zenon DEF WaitWakes
<1>2. read[c] # Nil  BY <1>1, Zenon DEF IInv, Held
<1>3. \/ waiting' = WaitingNow /\ result' = ResultNow
      \/ UNCHANGED <<waiting, result>> /\ waiting # read[c]
  <2>1. CASE waiting = read[c]
    BY <1>1, <1>2, <2>1, Zenon DEF WaitWakes, Collected, ResultNow, WaitingNow
  <2>2. CASE waiting # read[c]  BY <2>2, Zenon DEF WaitWakes
  <2> QED  BY <2>1, <2>2, Zenon
<1>4. ResultNow' = ResultNow
  <2>1. CASE waiting' = WaitingNow /\ result' = ResultNow
    BY <1>1, <2>1, Zenon DEF ResultNow, WaitingNow, Collected
  <2>2. CASE UNCHANGED <<waiting, result>>  BY <1>1, <2>2, Zenon DEF ResultNow, Collected
  <2> QED  BY <1>3, <2>1, <2>2, Zenon
<1>5. pc[c] = "wait" => ResultNow # Nil \/ closed
  BY <1>1, <1>2, Zenon DEF RInv, WaitedFor, ResultNow, Collected
<1>6. PromiseKept'  BY <1>1, <1>4, <1>5, Zenon DEF RInv, PromiseKept
<1>7. ASSUME NEW d \in Clients, d # c, pc[d] = "wait"
      PROVE  waiting' = read[d] \/ result' = read[d] \/ closed
  <2>1. (waiting = read[d] \/ result = read[d] \/ closed) /\ read[d] # Nil
    BY <1>7, Zenon DEF RInv, WaitedFor, IInv, Held
  <2> QED  BY <1>3, <2>1, Zenon DEF ResultNow, WaitingNow, Collected, IInv, InFlight
<1>8. WaitedFor'
  <2> SUFFICES ASSUME NEW d \in Clients, pc'[d] = "wait"
               PROVE  mu' = NoClient /\ (waiting' = read'[d] \/ result' = read'[d] \/ closed')
    BY Zenon DEF WaitedFor
  <2>1. d # c /\ pc[d] = "wait" /\ read'[d] = read[d]  BY <1>1, Zenon DEF IInv, Shape
  <2> QED  BY <1>1, <1>7, <2>1, Zenon
<1> QED  BY <1>6, <1>8, Zenon DEF RInv

LEMMA WaitCanceledReady ==
  ASSUME IInv, RInv, NEW c \in Clients, WaitCanceled(c)
  PROVE  RInv'
<1>1. /\ pc' = [pc EXCEPT ![c] = "idle"] /\ read' = [read EXCEPT ![c] = Nil]
      /\ UNCHANGED <<ready, result, waiting, closed, mu, promised>>
  BY Zenon DEF WaitCanceled
<1>2. ResultNow' = ResultNow  BY <1>1, Zenon DEF ResultNow, Collected
<1>3. WaitedFor'  BY <1>1, Zenon DEF RInv, WaitedFor, IInv, Shape
<1> QED  BY <1>1, <1>2, <1>3, Zenon DEF RInv, PromiseKept

LEMMA ReadReturnsReady ==
  ASSUME IInv, RInv, NEW k \in Reads, ReadReturns(k)
  PROVE  RInv'
<1>1. /\ k <= reads /\ ~ready[k]
      /\ UNCHANGED <<result, waiting, closed, mu, pc, read, promised>>
  BY Zenon DEF ReadReturns
<1>2. waiting = k /\ result = Nil /\ ~closed
  <2>1. waiting = k  BY <1>1, Zenon DEF IInv, InFlight
  <2> QED  BY <2>1 DEF IInv, InFlight, Reads, Nil
<1>3. ~promised  BY <1>1, <1>2, Zenon DEF RInv, PromiseKept, ResultNow, Collected
<1> QED  BY <1>1, <1>3, Zenon DEF RInv, PromiseKept, WaitedFor

LEMMA NextReady == IInv /\ RInv /\ [Next]_vars => RInv'
<1> SUFFICES ASSUME IInv, RInv, [Next]_vars PROVE RInv'
  BY Zenon
<1>1. CASE UNCHANGED vars
  BY <1>1, Zenon DEF vars, RInv, PromiseKept, WaitedFor, ResultNow, Collected
<1>2. ASSUME NEW k \in Reads, ReadReturns(k) PROVE RInv'
  BY <1>2, ReadReturnsReady, Zenon
<1>3. ASSUME NEW c \in Clients, ClientStep(c) PROVE RInv'
  BY <1>3, TryReadZeroReady, TryReadBeginReady, TryReadEndsReady, CollectReady, WaitBeginsReady,
     WaitWakesReady, WaitCanceledReady, Zenon DEF ClientStep
<1> QED  BY <1>1, <1>2, <1>3, Zenon DEF Next

\* Whoever was told by WaitReadable or by a probe that the stream is readable is
\* not answered ErrWouldBlock by the next TryRead.
THEOREM AdapterReadinessKept == Spec => ReadinessKept
<1>1. Init => RInv
  BY Zenon DEF Init, RInv, PromiseKept, WaitedFor
<1>2. IInv /\ RInv /\ [Next]_vars => [promised /\ mu # NoClient /\ mu' = NoClient => ret' # "wouldblock"]_vars
  <2> SUFFICES ASSUME IInv, RInv, Next, promised, mu # NoClient, mu' = NoClient
               PROVE  ret' # "wouldblock"
    BY Zenon
  <2>1. ResultNow # Nil  BY Zenon DEF RInv, PromiseKept
  <2>2. ASSUME NEW c \in Clients, TryReadTakes(c) PROVE ret' # "wouldblock"
    <3>1. ResultNow \in Reads  BY <2>1, ResultNowThere, Zenon DEF IInv
    <3>2. res[ResultNow].err \in {"nil", "eof", "fail"}
      BY <3>1, Zenon DEF IInv, Shape, Result, Errors
    <3> QED  BY <2>2, <3>2 DEF TryReadTakes
  <2>3. PICK c \in Clients : TryReadBlocks(c) \/ TryReadTakes(c)
    BY Zenon DEF Next, ReadReturns, ClientStep, TryReadZero, TryReadClosed, TryReadBegin, WaitNotNeeded,
           WaitBegins, WaitWakes, WaitCanceled, PendingReadError
  <2> QED  BY <2>1, <2>2, <2>3, Zenon DEF TryReadBlocks
<1> QED  BY <1>1, <1>2, NextReady, AdapterInvariant, PTL DEF Spec, ReadinessKept
===============================================================================
