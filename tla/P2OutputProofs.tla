--------------------------- MODULE P2OutputProofs ---------------------------
(***************************************************************************)
(* Machine-checked proofs about the two sides of an output stream:         *)
(* P2OutputAdapter, for any number of callers and requests, and            *)
(* P2GuestOutput, for any number of goroutines and poll workers.           *)
(***************************************************************************)
EXTENDS P2OutputAdapter, FiniteSetTheorems, TLAPS

-----------------------------------------------------------------------------
(* The inductive invariant *)

Quiet == {"none", "done"}

\* The goroutine that is at work has the slot and is the last one started, and
\* no error was recorded before it.
SlotInv ==
  /\ \A q \in Requests : q <= requests <=> phase[q] # "none"
  /\ \A q \in Requests : phase[q] \notin Quiet => slots = 1 /\ q = last
  /\ slots = 1 => last \in Requests /\ phase[last] \notin Quiet /\ ~err

\* How far the writer is behind what was accepted, by what the goroutine does.
WriteInv ==
  /\ accepted <= requests
  /\ \A j \in 1..Len(written) : written[j] = j
  /\ Len(written) <= accepted /\ accepted - Len(written) <= 1
  /\ slots = 0 /\ ~err => Len(written) = accepted
  /\ \A q \in Requests :
       /\ phase[q] = "write" => data[q] = accepted /\ Len(written) = accepted - 1
       /\ phase[q] \in {"wrote", "flush", "flushed"} => Len(written) = accepted

\* A failure is recorded, or about to be.
FailInv == failed => err \/ (slots = 1 /\ phase[last] = "failed")

\* Who will flush what a caller asked for: it is done, it is pending while the
\* goroutine writes, or a flush of everything accepted is under way.
FlushInv ==
  /\ \A c \in Clients : due[c] <= accepted
  /\ slots = 0 /\ ~err => \A c \in Clients : due[c] <= flushed
  /\ \A q \in Requests :
       /\ phase[q] \in {"write", "wrote"} =>
            flushPending \/ \A c \in Clients : due[c] <= flushed
       /\ phase[q] = "flush" => base[q] = accepted
       /\ phase[q] = "flushed" => accepted <= flushed

\* What a waiter was promised holds from the moment its channel is closed.
WaitInv ==
  \A c \in Clients :
    pc[c] = "wait" =>
      /\ on[c] \in Requests /\ phase[on[c]] # "none"
      /\ phase[on[c]] = "done" /\ ~err => due[c] <= flushed

IInv ==
  /\ TypeOK
  /\ SlotInv
  /\ WriteInv
  /\ FailInv
  /\ FlushInv
  /\ WaitInv

-----------------------------------------------------------------------------
(* Initially, and step by step *)

\* The numbers the proofs compute with.
LEMMA Numbers ==
  ASSUME IInv
  PROVE  /\ MaxRequests \in Nat /\ requests \in 0..MaxRequests
         /\ Len(written) \in Nat /\ Len(written) <= accepted
         /\ accepted \in Nat /\ accepted <= requests
         /\ flushed \in 0..MaxRequests
BY OutputAssumption DEF IInv, TypeOK, WriteInv

\* A new adapter satisfies the invariant.
LEMMA InitIInv == Init => IInv
<1> SUFFICES ASSUME Init PROVE IInv
  BY Zenon
<1> USE OutputAssumption DEF Init, Requests, Nil
<1>1. TypeOK
  <2>1. 0 \in 0..MaxRequests /\ 0 \in 0..requests /\ <<>> \in Seq(1..MaxRequests)
    OBVIOUS
  <2>2. requests \in 0..MaxRequests /\ slots \in 0..1 /\ last \in 0..requests
    OBVIOUS
  <2>3. /\ phase \in [Requests -> {"none", "write", "wrote", "flush", "flushed",
                                 "failed", "done"}]
        /\ data \in [Requests -> 0..MaxRequests]
        /\ base \in [Requests -> 0..MaxRequests]
    BY <2>1, Zenon
  <2>4. /\ pc \in [Clients -> {"idle", "asked", "wait"}]
        /\ on \in [Clients -> 0..requests]
        /\ due \in [Clients -> 0..MaxRequests]
    BY <2>1, Zenon
  <2>5. /\ err \in BOOLEAN /\ flushPending \in BOOLEAN /\ failed \in BOOLEAN
        /\ accepted \in 0..MaxRequests /\ flushed \in 0..MaxRequests
        /\ written \in Seq(1..MaxRequests)
    BY <2>1, Zenon
  <2> QED BY <2>2, <2>3, <2>4, <2>5, Zenon DEF TypeOK
<1>2. SlotInv   BY DEF SlotInv, Quiet
<1>3. WriteInv  BY DEF WriteInv
<1>4. FailInv   BY Zenon DEF FailInv
<1>5. FlushInv  BY DEF FlushInv
<1>6. WaitInv   BY Zenon DEF WaitInv
<1> QED BY <1>1, <1>2, <1>3, <1>4, <1>5, <1>6, Zenon DEF IInv

\* A write takes the slot.
LEMMA TryWritePreserves ==
  ASSUME IInv, NEW c \in Clients, TryWrite(c)
  PROVE  IInv'
<1> USE Numbers DEF IInv, TryWrite, Launch, Requests, Nil, adapter, host, clients
<1>1. TypeOK'
  BY SMTT(30) DEF TypeOK, SlotInv, Quiet
<1>2. SlotInv'
  BY SMTT(30) DEF TypeOK, SlotInv, Quiet
<1>3. WriteInv'
  BY SMTT(30) DEF TypeOK, SlotInv, WriteInv, Quiet
<1>4. FailInv'
  BY DEF TypeOK, SlotInv, FailInv, Quiet
<1>5. FlushInv'
  BY SMTT(30) DEF TypeOK, SlotInv, WriteInv, FlushInv, Quiet
<1>6. WaitInv'
  BY Zenon DEF TypeOK, SlotInv, FlushInv, WaitInv, Quiet
<1> QED BY <1>1, <1>2, <1>3, <1>4, <1>5, <1>6, Zenon

\* A flush takes the slot, or is left to the goroutine that has it.
LEMMA BeginFlushPreserves ==
  ASSUME IInv, NEW c \in Clients, BeginFlush(c)
  PROVE  IInv'
<1> USE Numbers DEF IInv, BeginFlush, Launch, Requests, Nil, adapter, host, clients
<1>1. CASE slots # 0
  <2>1. TypeOK'
    BY <1>1, Zenon DEF TypeOK, SlotInv, Quiet
  <2>2. SlotInv'
    BY <1>1, Zenon DEF TypeOK, SlotInv, Quiet
  <2>3. WriteInv'
    BY <1>1, Zenon DEF TypeOK, SlotInv, WriteInv, Quiet
  <2>4. FailInv'
    BY <1>1, Zenon DEF TypeOK, SlotInv, FailInv, Quiet
  <2>5. FlushInv'
    BY <1>1 DEF TypeOK, SlotInv, WriteInv, FlushInv, Quiet
  <2>6. WaitInv'
    BY <1>1, Zenon DEF TypeOK, SlotInv, FlushInv, WaitInv, Quiet
  <2> QED BY <2>1, <2>2, <2>3, <2>4, <2>5, <2>6, Zenon
<1>2. CASE slots = 0
  <2>1. TypeOK'
    <3>1. requests' \in 0..MaxRequests /\ slots' \in 0..1 /\ last' \in 0..requests'
      BY <1>2, SMTT(30) DEF TypeOK
    <3>2. phase' \in [Requests -> {"none", "write", "wrote", "flush", "flushed",
                                 "failed", "done"}]
      BY <1>2, Zenon DEF TypeOK
    <3>3. /\ data' \in [Requests -> 0..MaxRequests]
          /\ base' \in [Requests -> 0..MaxRequests]
      <4>1. 0 \in 0..MaxRequests /\ Len(written) \in 0..MaxRequests
        OBVIOUS
      <4>2. /\ data' = [data EXCEPT ![requests + 1] = 0]
            /\ base' = [base EXCEPT ![requests + 1] = Len(written)]
        BY <1>2, Zenon
      <4> QED BY <4>1, <4>2, Zenon DEF TypeOK
    <3>4. /\ pc' \in [Clients -> {"idle", "asked", "wait"}]
          /\ due' \in [Clients -> 0..MaxRequests]
      BY <1>2, Zenon DEF TypeOK
    <3>5. on' \in [Clients -> 0..requests']
      BY <1>2 DEF TypeOK
    <3> QED BY <1>2, <3>1, <3>2, <3>3, <3>4, <3>5, Zenon DEF TypeOK
  <2>2. SlotInv'
    BY <1>2, SMTT(30) DEF TypeOK, SlotInv, Quiet
  <2>3. WriteInv'
    BY <1>2, SMTT(30) DEF TypeOK, SlotInv, WriteInv, Quiet
  <2>4. FailInv'
    BY <1>2 DEF TypeOK, SlotInv, FailInv, Quiet
  <2>5. FlushInv'
    BY <1>2, SMTT(30) DEF TypeOK, SlotInv, WriteInv, FlushInv, Quiet
  <2>6. WaitInv'
    BY <1>2, Zenon DEF TypeOK, SlotInv, FlushInv, WaitInv, Quiet
  <2> QED BY <2>1, <2>2, <2>3, <2>4, <2>5, <2>6
<1> QED BY <1>1, <1>2, Zenon

\* A caller starts to wait.
LEMMA WaitBeginsPreserves ==
  ASSUME IInv, NEW c \in Clients, WaitBegins(c)
  PROVE  IInv'
<1> USE Numbers DEF IInv, WaitBegins, Requests, Nil, adapter, host, clients
<1>1. TypeOK'
  BY Zenon DEF TypeOK, SlotInv, Quiet
<1>2. SlotInv'
  BY Zenon DEF TypeOK, SlotInv, Quiet
<1>3. WriteInv'
  BY Zenon DEF TypeOK, SlotInv, WriteInv, Quiet
<1>4. FailInv'
  BY Zenon DEF TypeOK, SlotInv, FailInv, Quiet
<1>5. FlushInv'
  BY Zenon DEF TypeOK, SlotInv, WriteInv, FlushInv, Quiet
<1>6. WaitInv'
  BY SMTT(30) DEF TypeOK, SlotInv, FlushInv, WaitInv, Quiet
<1> QED BY <1>1, <1>2, <1>3, <1>4, <1>5, <1>6, Zenon

\* A waiter is woken.
LEMMA WaitReturnsPreserves ==
  ASSUME IInv, NEW c \in Clients, WaitReturns(c)
  PROVE  IInv'
<1> USE Numbers DEF IInv, WaitReturns, Requests, Nil, adapter, host, clients
<1>1. TypeOK'
  <2>1. pc' \in [Clients -> {"idle", "asked", "wait"}]
    BY Zenon DEF TypeOK
  <2>2. on' \in [Clients -> 0..requests]
    BY DEF TypeOK
  <2> QED BY <2>1, <2>2, Zenon DEF TypeOK
<1>2. SlotInv'
  BY Zenon DEF TypeOK, SlotInv, Quiet
<1>3. WriteInv'
  BY Zenon DEF TypeOK, SlotInv, WriteInv, Quiet
<1>4. FailInv'
  BY Zenon DEF TypeOK, SlotInv, FailInv, Quiet
<1>5. FlushInv'
  BY Zenon DEF TypeOK, SlotInv, WriteInv, FlushInv, Quiet
<1>6. WaitInv'
  BY Zenon DEF TypeOK, SlotInv, FlushInv, WaitInv, Quiet
<1> QED BY <1>1, <1>2, <1>3, <1>4, <1>5, <1>6, Zenon

\* A waiter gives up.
LEMMA WaitCanceledPreserves ==
  ASSUME IInv, NEW c \in Clients, WaitCanceled(c)
  PROVE  IInv'
<1> USE Numbers DEF IInv, WaitCanceled, Requests, Nil, adapter, host, clients
<1>1. TypeOK'
  <2>1. pc' \in [Clients -> {"idle", "asked", "wait"}]
    BY Zenon DEF TypeOK
  <2>2. on' \in [Clients -> 0..requests]
    BY DEF TypeOK
  <2> QED BY <2>1, <2>2, Zenon DEF TypeOK
<1>2. SlotInv'
  BY Zenon DEF TypeOK, SlotInv, Quiet
<1>3. WriteInv'
  BY Zenon DEF TypeOK, SlotInv, WriteInv, Quiet
<1>4. FailInv'
  BY Zenon DEF TypeOK, SlotInv, FailInv, Quiet
<1>5. FlushInv'
  BY Zenon DEF TypeOK, SlotInv, WriteInv, FlushInv, Quiet
<1>6. WaitInv'
  BY Zenon DEF TypeOK, SlotInv, FlushInv, WaitInv, Quiet
<1> QED BY <1>1, <1>2, <1>3, <1>4, <1>5, <1>6, Zenon

\* The writer returns.
LEMMA WriteReturnsPreserves ==
  ASSUME IInv, NEW q \in Requests, WriteReturns(q)
  PROVE  IInv'
<1> USE Numbers DEF IInv, WriteReturns, Goes, Requests, Nil, adapter, host, clients
<1>1. TypeOK'
  <2>1. phase' \in [Requests -> {"none", "write", "wrote", "flush", "flushed",
                               "failed", "done"}]
    BY Zenon DEF TypeOK
  <2>2. written' \in Seq(1..MaxRequests)
    <3>1. data[q] \in 1..MaxRequests /\ written \in Seq(1..MaxRequests)
      BY DEF TypeOK, WriteInv
    <3>2. Append(written, data[q]) \in Seq(1..MaxRequests)
      BY <3>1
    <3>3. written' = Append(written, data[q]) \/ written' = written
      BY Zenon
    <3> QED BY <3>1, <3>2, <3>3, Zenon
  <2>3. failed' \in BOOLEAN
    BY Zenon DEF TypeOK
  <2> QED BY <2>1, <2>2, <2>3, Zenon DEF TypeOK
<1>2. SlotInv'
  BY Zenon DEF TypeOK, SlotInv, Quiet
<1>3. WriteInv'
  <2>1. /\ data[q] = accepted /\ Len(written) = accepted - 1
        /\ slots = 1 /\ q = last /\ written \in Seq(1..MaxRequests)
        /\ \A p \in Requests : p # q => phase'[p] \in Quiet
    BY Zenon DEF TypeOK, SlotInv, WriteInv, Quiet
  <2>2. CASE written' = Append(written, data[q]) /\ Goes(q, "wrote")
    <3>1. Len(written') = accepted
      BY <2>1, <2>2
    <3>2. \A j \in 1..Len(written') : written'[j] = j
      BY <2>1, <2>2, <3>1, SMTT(30) DEF WriteInv
    <3>3. phase'[q] = "wrote" /\ accepted' = accepted /\ requests' = requests
      BY <2>2, Zenon DEF TypeOK
    <3>4. \A p \in Requests : phase'[p] # "write"
      BY <2>1, <3>3, Zenon DEF Quiet
    <3> QED BY <3>1, <3>2, <3>3, <3>4, SMTT(30) DEF WriteInv
  <2>3. CASE written' = written /\ Goes(q, "failed")
    BY <2>1, <2>3, Zenon DEF TypeOK, WriteInv, Quiet
  <2> QED BY <2>2, <2>3, Zenon
<1>4. FailInv'
  BY Zenon DEF TypeOK, SlotInv, FailInv, Quiet
<1>5. FlushInv'
  BY Zenon DEF TypeOK, SlotInv, WriteInv, FlushInv, Quiet
<1>6. WaitInv'
  BY ZenonT(30) DEF TypeOK, SlotInv, FlushInv, WaitInv, Quiet
<1> QED BY <1>1, <1>2, <1>3, <1>4, <1>5, <1>6, Zenon

\* The flush returns.
LEMMA FlushReturnsPreserves ==
  ASSUME IInv, NEW q \in Requests, FlushReturns(q)
  PROVE  IInv'
<1> USE Numbers DEF IInv, FlushReturns, Goes, Requests, Nil, adapter, host, clients
<1>1. TypeOK'
  <2>1. phase' \in [Requests -> {"none", "write", "wrote", "flush", "flushed",
                               "failed", "done"}]
    BY Zenon DEF TypeOK
  <2>2. flushed' \in 0..MaxRequests
    <3>1. base[q] \in 0..MaxRequests /\ flushed \in 0..MaxRequests
      BY Zenon DEF TypeOK
    <3> QED BY <3>1, Zenon
  <2>3. failed' \in BOOLEAN
    BY Zenon DEF TypeOK
  <2> QED BY <2>1, <2>2, <2>3, Zenon DEF TypeOK
<1>2. SlotInv'
  BY Zenon DEF TypeOK, SlotInv, Quiet
<1>3. WriteInv'
  BY Zenon DEF TypeOK, SlotInv, WriteInv, Quiet
<1>4. FailInv'
  BY Zenon DEF TypeOK, SlotInv, FailInv, Quiet
<1>5. /\ flushed <= flushed' /\ flushed' \in Int /\ flushed \in Int
      /\ phase'[q] = "flushed" => base[q] <= flushed'
  <2>1. base[q] \in 0..MaxRequests /\ flushed \in 0..MaxRequests
    BY Zenon DEF TypeOK
  <2>2. \/ flushed' = IF base[q] > flushed THEN base[q] ELSE flushed
        \/ flushed' = flushed /\ phase' = [phase EXCEPT ![q] = "failed"]
    BY Zenon
  <2>3. phase \in [Requests -> {"none", "write", "wrote", "flush", "flushed",
                               "failed", "done"}]
    BY Zenon DEF TypeOK
  <2> HIDE DEF IInv, FlushReturns
  <2>4. phase' = [phase EXCEPT ![q] = "failed"] => phase'[q] = "failed"
    BY <2>3, Zenon
  <2> QED BY <2>1, <2>2, <2>4
<1>6. FlushInv'
  <2>1. \A p \in Requests : p # q => phase'[p] \in Quiet
    BY Zenon DEF TypeOK, SlotInv, Quiet
  <2>2. /\ base[q] = accepted /\ slots = 1
        /\ phase'[q] \in {"flushed", "failed"}
    BY Zenon DEF TypeOK, SlotInv, FlushInv, Quiet
  <2>3. /\ due' = due /\ accepted' = accepted /\ base' = base /\ slots' = slots
        /\ FlushInv
    BY Zenon
  <2> HIDE DEF IInv, FlushReturns
  <2> QED BY <1>5, <2>1, <2>2, <2>3 DEF FlushInv, Quiet
<1>7. WaitInv'
  <2>1. \A p \in Requests : /\ phase'[p] = "done" => phase[p] = "done"
                            /\ phase[p] # "none" => phase'[p] # "none"
    BY Zenon DEF TypeOK
  <2>2. \A c \in Clients : due[c] \in Int
    BY DEF TypeOK
  <2>3. err' = err /\ pc' = pc /\ on' = on /\ due' = due
    BY Zenon
  <2>4. WaitInv
    BY Zenon
  <2> HIDE DEF IInv, FlushReturns
  <2> QED BY <1>5, <2>1, <2>2, <2>3, <2>4, SMTT(30) DEF WaitInv
<1> QED BY <1>1, <1>2, <1>3, <1>4, <1>6, <1>7, Zenon

\* The goroutine makes the flush that was asked for.
LEMMA FlushNowPreserves ==
  ASSUME IInv, NEW q \in Requests, FlushNow(q)
  PROVE  IInv'
<1> USE Numbers DEF IInv, FlushNow, Goes, Requests, Nil, adapter, host, clients
<1>1. TypeOK'
  <2>1. phase' \in [Requests -> {"none", "write", "wrote", "flush", "flushed",
                               "failed", "done"}]
    BY Zenon DEF TypeOK
  <2>2. base' \in [Requests -> 0..MaxRequests]
    BY DEF TypeOK
  <2>3. flushPending' \in BOOLEAN
    BY Zenon DEF TypeOK
  <2> QED BY <2>1, <2>2, <2>3, Zenon DEF TypeOK
<1>2. SlotInv'
  BY Zenon DEF TypeOK, SlotInv, Quiet
<1>3. WriteInv'
  BY Zenon DEF TypeOK, SlotInv, WriteInv, Quiet
<1>4. FailInv'
  BY Zenon DEF TypeOK, SlotInv, FailInv, Quiet
<1>5. FlushInv'
  BY Zenon DEF TypeOK, SlotInv, WriteInv, FlushInv, Quiet
<1>6. WaitInv'
  BY Zenon DEF TypeOK, SlotInv, FlushInv, WaitInv, Quiet
<1> QED BY <1>1, <1>2, <1>3, <1>4, <1>5, <1>6, Zenon

\* The goroutine gives up the slot.
LEMMA FinishPreserves ==
  ASSUME IInv, NEW q \in Requests, Finish(q)
  PROVE  IInv'
<1> USE Numbers DEF IInv, Finish, Goes, Requests, Nil, adapter, host, clients
<1>1. TypeOK'
  <2>1. phase' \in [Requests -> {"none", "write", "wrote", "flush", "flushed",
                               "failed", "done"}]
    BY Zenon DEF TypeOK
  <2>2. slots' \in 0..1
    BY DEF TypeOK, SlotInv, Quiet
  <2>3. err' \in BOOLEAN /\ flushPending' \in BOOLEAN
    BY Zenon DEF TypeOK
  <2> QED BY <2>1, <2>2, <2>3, Zenon DEF TypeOK
<1>2. SlotInv'
  BY SMTT(30) DEF TypeOK, SlotInv, Quiet
<1>3. WriteInv'
  BY Zenon DEF TypeOK, SlotInv, WriteInv, Quiet
<1>4. FailInv'
  BY Zenon DEF TypeOK, SlotInv, FailInv, Quiet
<1>5. ~err' => \A c \in Clients : due[c] <= flushed
  <2>1. CASE phase[q] = "wrote"
    BY <2>1, Zenon DEF TypeOK, SlotInv, FlushInv, Quiet
  <2>2. CASE phase[q] = "flushed"
    BY <2>2 DEF TypeOK, FlushInv
  <2> QED BY <2>1, <2>2, Zenon
<1>6. \A p \in Requests : phase'[p] \in Quiet
  BY Zenon DEF TypeOK, SlotInv, Quiet
<1>7. FlushInv'
  BY <1>5, <1>6, Zenon DEF FlushInv, Quiet
<1>8. WaitInv'
  BY <1>5, Zenon DEF TypeOK, WaitInv
<1> QED BY <1>1, <1>2, <1>3, <1>4, <1>7, <1>8, Zenon

\* Every step of the callers and the goroutines preserves IInv.
LEMMA NextIInv == IInv /\ [Next]_vars => IInv'
<1> SUFFICES ASSUME IInv, [Next]_vars PROVE IInv'
  BY Zenon
<1>1. ASSUME NEW c \in Clients, ClientStep(c) PROVE IInv'
  BY <1>1, TryWritePreserves, BeginFlushPreserves, WaitBeginsPreserves,
     WaitReturnsPreserves, WaitCanceledPreserves, Zenon DEF ClientStep
<1>2. ASSUME NEW q \in Requests, Run(q) PROVE IInv'
  BY <1>2, WriteReturnsPreserves, FlushReturnsPreserves, FlushNowPreserves,
     FinishPreserves, Zenon DEF Run
<1>3. CASE UNCHANGED vars
  BY <1>3, Zenon DEF vars, adapter, host, clients, IInv, TypeOK, SlotInv, WriteInv,
              FailInv, FlushInv, WaitInv
<1> QED BY <1>1, <1>2, <1>3, Zenon DEF Next

-----------------------------------------------------------------------------
(* What follows *)

\* The invariant holds in every reachable state of the adapter, whatever its
\* callers do and however its writer fails.
THEOREM Inductive == Spec => []IInv
BY InitIInv, NextIInv, PTL DEF Spec

\* Every variable keeps its type: in particular the slot channel, of capacity
\* one, is never filled twice.
THEOREM TypeCorrect == Spec => []TypeOK
BY Inductive, PTL DEF IInv

\* The writer is used only by the goroutine that holds the slot, which is the
\* one whose channel s.last is (TryWrite, BeginFlush, run).
THEOREM OneWriter == Spec => []SlotIsLast
<1>1. IInv => SlotIsLast
  BY DEF IInv, TypeOK, SlotInv, SlotIsLast, Active, Quiet, Requests, Nil
<1> QED BY <1>1, Inductive, PTL

\* Accepted writes reach the writer in order, each once, with at most the last
\* one missing (TryWrite, run).
THEOREM OrderKept == Spec => []WritesInOrder
<1>1. IInv => WritesInOrder
  BY Zenon DEF IInv, WriteInv, WritesInOrder
<1> QED BY <1>1, Inductive, PTL

\* An idle adapter that has not failed has flushed all that any BeginFlush
\* asked for: the flush in flight covers a concurrent request (run).
THEOREM FlushesCovered == Spec => []FlushCovers
<1>1. IInv => FlushCovers
  BY Zenon DEF IInv, FlushInv, FlushCovers
<1> QED BY <1>1, Inductive, PTL

\* After a failure nothing is accepted or written any more (s.err).
THEOREM FailureIsFinal == Spec => FailureSticks
<1>1. IInv /\ [Next]_vars =>
        [failed /\ slots = 0 => accepted' = accepted /\ written' = written]_vars
  <2> SUFFICES ASSUME IInv, Next, failed, slots = 0
               PROVE  accepted' = accepted /\ written' = written
    BY Zenon
  <2>1. err /\ \A q \in Requests : phase[q] \in Quiet
    BY DEF IInv, FailInv, SlotInv
  <2>2. ASSUME NEW c \in Clients, ClientStep(c)
        PROVE  accepted' = accepted /\ written' = written
    BY <2>1, <2>2, Zenon DEF ClientStep, TryWrite, BeginFlush, WaitBegins, WaitReturns,
                      WaitCanceled, host
  <2>3. ASSUME NEW q \in Requests, Run(q)
        PROVE  accepted' = accepted /\ written' = written
    BY <2>1, <2>3, Zenon DEF Quiet, Run, WriteReturns, FlushReturns, FlushNow, Finish
  <2> QED BY <2>2, <2>3, Zenon DEF Next
<1> QED BY <1>1, Inductive, PTL DEF Spec, FailureSticks

\* A WaitWritable that returns without an error returns after a flush of all
\* the writes that were accepted before its caller's BeginFlush.
THEOREM FlushedOnReturn == Spec => FlushBeforeReturn
<1>1. IInv /\ [Next]_vars =>
        [\A c \in Clients :
           pc[c] = "wait" /\ pc'[c] = "idle" /\ phase[on[c]] = "done" /\ ~err
             => due[c] <= flushed]_vars
  BY Zenon DEF IInv, WaitInv
<1> QED BY <1>1, Inductive, PTL DEF Spec, FlushBeforeReturn

-----------------------------------------------------------------------------
(***************************************************************************)
(* The guest's side of the stream, P2GuestOutput: its constants and its    *)
(* variables (failed is there hostState.outputFailed, here closed), and    *)
(* what is proved of it for any number of goroutines and poll workers.     *)
(***************************************************************************)

CONSTANTS Guests, Workers, MaxPermit, MaxLen, Calls

VARIABLES room, fault, flushing, dirty, permit, pending, granted, closed, call, wait,
          ret, credit, handed, dropped, told, promised

Guest == INSTANCE P2GuestOutput WITH failed <- closed

StepNames == {"closed", "wait", "probe", "record", "consume", "try", "flush", "chunk", "read",
              "rest", "retry", "error", "fail"}

\* What a check-write was given is recorded next, and bytes are offered to the
\* stream right after the grant for them was consumed.
InOrder(q) ==
  \A i \in 1..Len(q) :
    /\ q[i] = "probe" => i < Len(q) /\ q[i + 1] = "record"
    /\ q[i] = "record" /\ i >= 2 => q[i - 1] = "probe"
    /\ q[i] = "try" => (i >= 2 => q[i - 1] = "closed") /\ (i >= 3 => q[i - 2] = "consume")

\* The steps of a call that begins.
FromStart(q) ==
  /\ q \in Seq(StepNames) /\ InOrder(q)
  /\ \A i \in 1..Len(q) : (q[i] = "record" => i >= 2) /\ (q[i] = "try" => i >= 3)

Tries(q) == (Len(q) >= 1 /\ q[1] = "try") \/ (Len(q) >= 2 /\ q[2] = "try")

GuestCall ==
  [op : Guest!Ops \cup {"none"}, todo : Seq(StepNames), left : Int, size : Int, hand : Int]

CallShape ==
  /\ call \in [Guests -> GuestCall] /\ \A g \in Guests : InOrder(call[g].todo)
  /\ wait \in [Workers -> {"idle", "waiting", "record"}]
  /\ granted \in Int /\ permit \in 0..MaxPermit /\ room \in 0..MaxPermit /\ credit \in Int
  /\ pending \in BOOLEAN /\ closed \in BOOLEAN

\* The flag of outputFailure is set with the first failure told, or with one
\* that the guest had no room for.
Told == (told = 0 /\ (closed => dropped)) \/ (told = 1 /\ closed)

\* The goroutine of c has an answer of CheckWrite not yet recorded, or has
\* consumed the grant for the bytes it is about to offer.
Holds(c) ==
  \/ c.todo # <<>> /\ Head(c.todo) = "record" /\ c.hand > 0
  \/ Tries(c.todo) /\ c.size > 0

\* Every answer of CheckWrite is with one goroutine, in hostState.permits or in
\* pollSafeOutput.
One(b) == IF b THEN 1 ELSE 0

Holders(f) == {g \in Guests : Holds(f[g])}

Covered == credit >= Cardinality(Holders(call)) + One(permit > 0) + One(granted > 0)

\* The goroutine of c is on its way to tell a failure.
Bears(c) ==
  c.todo # <<>> /\ \/ Head(c.todo) \in {"fail", "error"}
                   \/ Head(c.todo) = "record" /\ c.hand = Guest!None

NotLost ==
  handed => \/ told = 1 \/ pending \/ dropped
            \/ \E g \in Guests : Bears(call[g])
            \/ \E w \in Workers : wait[w] = "record"

GuestInv == CallShape /\ Told /\ Covered /\ NotLost

\* A step of g leaves the other calls alone.
Moved(g) ==
  /\ call' \in [Guests -> GuestCall] /\ \A u \in Guests : InOrder(call'[u].todo)
  /\ \A u \in Guests : u # g => call'[u] = call[u]

-----------------------------------------------------------------------------
(* The lists of steps *)

Ruled(q, j) ==
  /\ q[j] = "probe" => j < Len(q) /\ j + 1 \in 1..Len(q) /\ q[j + 1] = "record"
  /\ q[j] = "record" => j >= 2 /\ j - 1 \in 1..Len(q) /\ q[j - 1] = "probe"
  /\ q[j] = "try" => /\ j >= 3 /\ j - 1 \in 1..Len(q) /\ j - 2 \in 1..Len(q)
                     /\ q[j - 1] = "closed" /\ q[j - 2] = "consume"

LEMMA StartRule ==
  ASSUME NEW q, FromStart(q), NEW j \in 1..Len(q)
  PROVE  Ruled(q, j)
<1>1. Len(q) \in Nat
  BY DEF FromStart
<1>2. /\ q[j] = "probe" => j < Len(q) /\ q[j + 1] = "record"
      /\ q[j] = "record" => j >= 2 /\ (j >= 2 => q[j - 1] = "probe")
      /\ q[j] = "try" => j >= 3 /\ (j >= 2 => q[j - 1] = "closed")
                         /\ (j >= 3 => q[j - 2] = "consume")
  BY Zenon DEF FromStart, InOrder
<1>3. q[j] = "try" => j >= 3 /\ q[j - 1] = "closed" /\ q[j - 2] = "consume"
  <2>1. j >= 3 => j >= 2
    BY <1>1
  <2> QED BY <1>2, <2>1, Zenon
<1>4. /\ j \in Nat /\ (j < Len(q) => j + 1 \in 1..Len(q))
      /\ (j >= 2 => j - 1 \in 1..Len(q)) /\ (j >= 3 => j - 1 \in 1..Len(q) /\ j - 2 \in 1..Len(q))
  BY <1>1
<1> QED BY <1>1, <1>2, <1>3, <1>4, Zenon DEF Ruled

LEMMA ConcatFromStart ==
  ASSUME NEW p, NEW q, FromStart(p), FromStart(q)
  PROVE  FromStart(p \o q)
<1> DEFINE r == p \o q
<1>1. /\ r \in Seq(StepNames) /\ Len(r) = Len(p) + Len(q)
      /\ \A i \in 1..Len(p) : r[i] = p[i]
      /\ \A i \in 1..Len(q) : r[Len(p) + i] = q[i]
  BY DEF FromStart
<1>2. Len(p) \in Nat /\ Len(q) \in Nat
  BY DEF FromStart
<1> HIDE DEF r
<1>3. ASSUME NEW i \in 1..Len(r)
      PROVE  /\ r[i] = "probe" => i < Len(r) /\ r[i + 1] = "record"
             /\ r[i] = "record" => i >= 2 /\ r[i - 1] = "probe"
             /\ r[i] = "try" => i >= 3 /\ r[i - 1] = "closed" /\ r[i - 2] = "consume"
  <2>1. CASE i \in 1..Len(p)
    <3>1. Ruled(p, i)
      BY <2>1, StartRule, Zenon
    <3>2. i < Len(p) => i < Len(r)
      BY <1>1, <1>2, <2>1
    <3> QED BY <1>1, <2>1, <3>1, <3>2, Zenon DEF Ruled
  <2>2. CASE i \notin 1..Len(p)
    <3>1. PICK j \in 1..Len(q) : i = Len(p) + j
      <4>1. i - Len(p) \in 1..Len(q) /\ i = Len(p) + (i - Len(p))
        BY <1>1, <1>2, <2>2
      <4> QED BY <4>1
    <3>2. r[i] = q[j] /\ Ruled(q, j)
      BY <1>1, <3>1, StartRule, Zenon
    <3>3. ASSUME q[j] = "probe" PROVE i < Len(r) /\ r[i + 1] = "record"
      <4>1. j + 1 \in 1..Len(q) /\ q[j + 1] = "record"
        BY <3>2, <3>3, Zenon DEF Ruled
      <4>2. r[Len(p) + (j + 1)] = "record"
        BY <1>1, <4>1, Zenon
      <4>3. Len(p) + (j + 1) = i + 1 /\ i < Len(r)
        BY <1>1, <1>2, <3>1, <4>1
      <4> QED BY <4>2, <4>3, Zenon
    <3>4. ASSUME q[j] = "record" PROVE i >= 2 /\ r[i - 1] = "probe"
      <4>1. j - 1 \in 1..Len(q) /\ q[j - 1] = "probe"
        BY <3>2, <3>4, Zenon DEF Ruled
      <4>2. r[Len(p) + (j - 1)] = "probe"
        BY <1>1, <4>1, Zenon
      <4>3. Len(p) + (j - 1) = i - 1 /\ i >= 2
        BY <1>2, <3>1, <4>1
      <4> QED BY <4>2, <4>3, Zenon
    <3>5. ASSUME q[j] = "try" PROVE i >= 3 /\ r[i - 1] = "closed" /\ r[i - 2] = "consume"
      <4>1. j - 1 \in 1..Len(q) /\ q[j - 1] = "closed"
            /\ j - 2 \in 1..Len(q) /\ q[j - 2] = "consume"
        BY <3>2, <3>5, Zenon DEF Ruled
      <4>2. r[Len(p) + (j - 1)] = "closed" /\ r[Len(p) + (j - 2)] = "consume"
        BY <1>1, <4>1, Zenon
      <4>3. Len(p) + (j - 1) = i - 1 /\ Len(p) + (j - 2) = i - 2 /\ i >= 3
        BY <1>2, <3>1, <4>1, SMTT(30)
      <4> QED BY <4>2, <4>3, Zenon
    <3> QED BY <3>2, <3>3, <3>4, <3>5, SMTT(30)
  <2> QED BY <2>1, <2>2
<1>4. FromStart(r)
  BY <1>1, <1>3 DEF FromStart, InOrder
<1> QED BY <1>4 DEF r

LEMMA Pieces ==
  /\ FromStart(Guest!WaitWritable) /\ FromStart(Guest!CheckWrite)
  /\ FromStart(Guest!Write) /\ FromStart(Guest!FlushCall)
  /\ FromStart(<<"flush">>) /\ FromStart(<<"chunk">>) /\ FromStart(<<"rest">>)
  /\ FromStart(<<"retry">>) /\ FromStart(<<"error">>) /\ FromStart(<<"fail">>)
  /\ FromStart(<<>>) /\ FromStart(<<"chunk", "read">>) /\ FromStart(<<"probe", "record">>)
<1>1. FromStart(Guest!WaitWritable)
  BY DEF FromStart, InOrder, StepNames, Guest!WaitWritable
<1>2. FromStart(Guest!CheckWrite)
  BY DEF FromStart, InOrder, StepNames, Guest!CheckWrite
<1>3. FromStart(Guest!Write)
  BY DEF FromStart, InOrder, StepNames, Guest!Write
<1>4. FromStart(Guest!FlushCall)
  BY DEF FromStart, InOrder, StepNames, Guest!FlushCall
<1>5. FromStart(<<"flush">>) /\ FromStart(<<"chunk">>) /\ FromStart(<<"rest">>)
  BY DEF FromStart, InOrder, StepNames
<1>6. FromStart(<<"retry">>) /\ FromStart(<<"error">>) /\ FromStart(<<"fail">>)
  BY DEF FromStart, InOrder, StepNames
<1>7. FromStart(<<>>) /\ FromStart(<<"chunk", "read">>)
  BY DEF FromStart, InOrder, StepNames
<1>8. FromStart(<<"probe", "record">>)
  BY DEF FromStart, InOrder, StepNames
<1> QED BY <1>1, <1>2, <1>3, <1>4, <1>5, <1>6, <1>7, <1>8, ZenonT(30)

LEMMA FlushFromStart == FromStart(Guest!BlockingFlush)
<1>1. FromStart(Guest!WaitWritable \o <<"flush">>)
  BY Pieces, ConcatFromStart, Zenon
<1>2. FromStart((Guest!WaitWritable \o <<"flush">>) \o Guest!WaitWritable)
  BY <1>1, Pieces, ConcatFromStart, Zenon
<1> QED BY <1>2, Pieces, ConcatFromStart, Zenon DEF Guest!BlockingFlush

LEMMA WriteFromStart == ASSUME NEW n PROVE FromStart(Guest!BlockingWriteAndFlush(n))
<1>1. FromStart(Guest!WaitWritable \o Guest!CheckWrite)
  BY Pieces, ConcatFromStart, Zenon
<1>2. FromStart((Guest!WaitWritable \o Guest!CheckWrite) \o <<"chunk">>)
  BY <1>1, Pieces, ConcatFromStart, Zenon
<1>3. FromStart(((Guest!WaitWritable \o Guest!CheckWrite) \o <<"chunk">>) \o Guest!Write)
  BY <1>2, Pieces, ConcatFromStart, Zenon
<1>4. FromStart((((Guest!WaitWritable \o Guest!CheckWrite) \o <<"chunk">>) \o Guest!Write)
                 \o <<"rest">>)
  BY <1>3, Pieces, ConcatFromStart, Zenon
<1> QED BY <1>4, FlushFromStart, Zenon DEF Guest!BlockingWriteAndFlush

LEMMA SpliceFromStart == ASSUME NEW b \in BOOLEAN PROVE FromStart(Guest!Splice(b))
<1> DEFINE w == IF b THEN Guest!WaitWritable ELSE <<>>
<1>1. FromStart(w)
  BY Pieces, Zenon
<1> HIDE DEF w
<1>2. FromStart(w \o Guest!CheckWrite)
  BY <1>1, Pieces, ConcatFromStart, Zenon
<1>3. FromStart((w \o Guest!CheckWrite) \o <<"chunk", "read">>)
  BY <1>2, Pieces, ConcatFromStart, Zenon
<1>4. FromStart(((w \o Guest!CheckWrite) \o <<"chunk", "read">>) \o Guest!Write)
  BY <1>3, Pieces, ConcatFromStart, Zenon
<1> QED BY <1>4, Zenon DEF Guest!Splice, w

LEMMA StepsFromStart ==
  ASSUME NEW op \in Guest!Ops, NEW n PROVE FromStart(Guest!Steps(op, n))
<1>1. CASE op = "check"
  BY <1>1, Pieces DEF Guest!Steps
<1>2. CASE op = "write"
  BY <1>2, Pieces DEF Guest!Steps
<1>3. CASE op = "flush"
  BY <1>3, Pieces DEF Guest!Steps
<1>4. CASE op = "bflush"
  BY <1>4, FlushFromStart DEF Guest!Steps
<1>5. CASE op = "bwrite"
  BY <1>5, WriteFromStart DEF Guest!Steps
<1>6. CASE op = "splice"
  BY <1>6, SpliceFromStart, Zenon DEF Guest!Steps
<1>7. CASE op = "bsplice"
  BY <1>7, SpliceFromStart, Zenon DEF Guest!Steps
<1> QED BY <1>1, <1>2, <1>3, <1>4, <1>5, <1>6, <1>7, ZenonT(30) DEF Guest!Ops

\* A call that begins anew is neither at the recording of an answer nor at the
\* stream with bytes.
LEMMA StartHoldsNothing ==
  ASSUME NEW q, FromStart(q)
  PROVE  q \in Seq(StepNames) /\ InOrder(q) /\ ~Tries(q)
         /\ ~(q # <<>> /\ Head(q) = "record")
<1>1. q \in Seq(StepNames) /\ InOrder(q)
  BY Zenon DEF FromStart
<1>2. Len(q) \in Nat /\ (q # <<>> => 1 \in 1..Len(q) /\ Head(q) = q[1])
  BY <1>1
<1>3. ~Tries(q)
  <2>1. ASSUME Len(q) >= 1 PROVE q[1] # "try"
    BY <1>2, <2>1, StartRule DEF Ruled
  <2>2. ASSUME Len(q) >= 2 PROVE q[2] # "try"
    BY <1>2, <2>2, StartRule DEF Ruled
  <2> QED BY <2>1, <2>2, Zenon DEF Tries
<1>4. ~(q # <<>> /\ Head(q) = "record")
  BY <1>2, StartRule DEF Ruled
<1> QED BY <1>1, <1>3, <1>4, Zenon

\* What the next step is, when one is done.
LEMMA TailInOrder ==
  ASSUME NEW q \in Seq(StepNames), InOrder(q), q # <<>>
  PROVE  /\ Tail(q) \in Seq(StepNames) /\ InOrder(Tail(q))
         /\ Tail(q) # <<>> /\ Head(Tail(q)) = "record" => Head(q) = "probe"
         /\ Head(q) = "probe" => Len(q) # 1 /\ Tail(q) # <<>> /\ Head(Tail(q)) = "record"
         /\ Tries(Tail(q)) => Head(q) = "consume" \/ (Head(q) = "closed" /\ Tries(q))
         /\ Head(q) = "try" => Tries(q)
<1> DEFINE r == Tail(q)
<1>1. /\ Len(q) \in Nat /\ Len(q) >= 1 /\ Len(r) = Len(q) - 1 /\ r \in Seq(StepNames)
      /\ Head(q) = q[1] /\ \A i \in 1..Len(r) : r[i] = q[i + 1]
      /\ (r # <<>> => Len(r) >= 1 /\ Head(r) = r[1]) /\ (Len(r) >= 1 => r # <<>>)
  OBVIOUS
<1> HIDE DEF r
<1>2. InOrder(r)
  <2> SUFFICES ASSUME NEW i \in 1..Len(r)
               PROVE  /\ r[i] = "probe" => i < Len(r) /\ r[i + 1] = "record"
                      /\ r[i] = "record" /\ i >= 2 => r[i - 1] = "probe"
                      /\ r[i] = "try" => (i >= 2 => r[i - 1] = "closed")
                                         /\ (i >= 3 => r[i - 2] = "consume")
    BY Zenon DEF InOrder
  <2>1. i \in Nat /\ i + 1 \in 1..Len(q) /\ r[i] = q[i + 1]
    BY <1>1
  <2>2. /\ q[i + 1] = "probe" => i + 1 < Len(q) /\ q[(i + 1) + 1] = "record"
        /\ q[i + 1] = "record" /\ i + 1 >= 2 => q[(i + 1) - 1] = "probe"
        /\ q[i + 1] = "try" => (i + 1 >= 2 => q[(i + 1) - 1] = "closed")
                               /\ (i + 1 >= 3 => q[(i + 1) - 2] = "consume")
    BY <2>1, Zenon DEF InOrder
  <2>3. ASSUME i + 1 < Len(q) PROVE i < Len(r) /\ r[i + 1] = q[(i + 1) + 1]
    BY <1>1, <2>1, <2>3, SMTT(30)
  <2>4. ASSUME i >= 2 PROVE i + 1 >= 2 /\ r[i - 1] = q[(i + 1) - 1] /\ i + 1 >= 3
    <3>1. i - 1 \in 1..Len(r) /\ (i - 1) + 1 = (i + 1) - 1
      BY <1>1, <2>1, <2>4, SMTT(30)
    <3>2. r[i - 1] = q[(i - 1) + 1]
      BY <1>1, <3>1, Zenon
    <3> QED BY <2>1, <2>4, <3>1, <3>2, SMTT(30)
  <2>5. ASSUME i >= 3 PROVE i + 1 >= 3 /\ r[i - 2] = q[(i + 1) - 2]
    <3>1. i - 2 \in 1..Len(r) /\ (i - 2) + 1 = (i + 1) - 2
      BY <1>1, <2>1, <2>5
    <3>2. r[i - 2] = q[(i - 2) + 1]
      BY <1>1, <3>1, Zenon
    <3> QED BY <2>1, <2>5, <3>1, <3>2, SMTT(30)
  <2> QED BY <2>1, <2>2, <2>3, <2>4, <2>5, ZenonT(30)
<1>3. r # <<>> /\ Head(r) = "record" => Head(q) = "probe"
  BY <1>1 DEF InOrder
<1>4. Head(q) = "probe" => Len(q) # 1 /\ r # <<>> /\ Head(r) = "record"
  BY <1>1 DEF InOrder
<1>5. Tries(r) => Head(q) = "consume" \/ (Head(q) = "closed" /\ Tries(q))
  BY <1>1 DEF InOrder, Tries
<1>6. Head(q) = "try" => Tries(q)
  BY <1>1 DEF Tries
<1> QED BY <1>1, <1>2, <1>3, <1>4, <1>5, <1>6, SMTT(30) DEF r

-----------------------------------------------------------------------------
(* What a step does to a call *)

LEMMA IdleCall == Guest!Idle \in GuestCall /\ FromStart(Guest!Idle.todo)
<1>1. Guest!Idle.todo = <<>>
  BY DEF Guest!Idle
<1>2. FromStart(Guest!Idle.todo)
  BY <1>1, Pieces, Zenon
<1>3. <<>> \in Seq(StepNames)
  OBVIOUS
<1> QED BY <1>2, <1>3 DEF Guest!Idle, GuestCall

LEMMA Restarted ==
  ASSUME CallShape, NEW g \in Guests, NEW d \in GuestCall, FromStart(d.todo),
         call' = [call EXCEPT ![g] = d]
  PROVE  Moved(g) /\ call'[g] = d /\ ~Holds(call'[g])
<1>1. call' \in [Guests -> GuestCall] /\ call'[g] = d
      /\ \A u \in Guests : u # g => call'[u] = call[u]
  BY Zenon DEF CallShape
<1>2. \A u \in Guests : InOrder(call'[u].todo)
  BY <1>1, StartHoldsNothing, Zenon DEF CallShape
<1>3. ~Holds(d)
  BY StartHoldsNothing, Zenon DEF Holds
<1> QED BY <1>1, <1>2, <1>3, Zenon DEF Moved

LEMMA Returned ==
  ASSUME CallShape, NEW g \in Guests, NEW r, Guest!Return(g, r)
  PROVE  Moved(g) /\ ~Holds(call'[g]) /\ ret' = r
BY IdleCall, Restarted, Zenon DEF Guest!Return

LEMMA Redone ==
  ASSUME CallShape, NEW g \in Guests, NEW q, FromStart(q), Guest!Do(g, q)
  PROVE  Moved(g) /\ ~Holds(call'[g]) /\ call'[g].todo = q
<1> DEFINE d == [call[g] EXCEPT !.todo = q]
<1>1. call[g] \in GuestCall /\ q \in Seq(StepNames)
  BY StartHoldsNothing, Zenon DEF CallShape
<1>2. d \in GuestCall /\ d.todo = q
  BY <1>1, SMTT(30) DEF GuestCall
<1>3. call' = [call EXCEPT ![g] = d]
  BY DEF Guest!Do
<1> HIDE DEF d
<1> QED BY <1>2, <1>3, Restarted, Zenon

LEMMA Failing ==
  ASSUME CallShape, NEW g \in Guests, NEW s \in {"fail", "error"}, Guest!Do(g, <<s>>)
  PROVE  Moved(g) /\ ~Holds(call'[g]) /\ Bears(call'[g])
<1>1. FromStart(<<s>>)
  BY Pieces, Zenon
<1>2. Moved(g) /\ ~Holds(call'[g]) /\ call'[g].todo = <<s>>
  BY <1>1, Redone, Zenon
<1>3. <<s>> # <<>> /\ Head(<<s>>) = s
  OBVIOUS
<1> QED BY <1>2, <1>3, Zenon DEF Bears

\* A step done: the goroutine holds an answer only when the step was the probe
\* that got it, the consumption of a grant, or the look at the flag after that.
LEMMA Gone ==
  ASSUME CallShape, NEW g \in Guests, NEW c \in GuestCall, c.todo = call[g].todo,
         c.todo # <<>>, Guest!Goes(g, c)
  PROVE  /\ Moved(g)
         /\ Holds(call'[g]) =>
              \/ Head(c.todo) = "probe" /\ c.hand > 0
              \/ Head(c.todo) = "consume" /\ c.size > 0
              \/ Head(c.todo) = "closed" /\ Tries(c.todo) /\ c.size > 0
         /\ Head(c.todo) = "probe" /\ c.hand = Guest!None => Bears(call'[g])
<1>0. c.todo \in Seq(StepNames) /\ InOrder(c.todo)
  BY Zenon DEF CallShape, GuestCall
<1>1. CASE Len(c.todo) = 1
  <2>1. Guest!Return(g, Guest!Success(g, c))
    BY <1>1, Zenon DEF Guest!Goes
  <2>2. Head(c.todo) # "probe"
    BY <1>0, <1>1, TailInOrder, Zenon
  <2> QED BY <2>1, <2>2, Returned, Zenon
<1>2. CASE Len(c.todo) # 1
  <2> DEFINE d == [c EXCEPT !.todo = Tail(c.todo)]
  <2>1. call' = [call EXCEPT ![g] = d]
    BY <1>2 DEF Guest!Goes
  <2>2. Tail(c.todo) \in Seq(StepNames) /\ InOrder(Tail(c.todo))
    BY <1>0, TailInOrder, Zenon
  <2>3. d \in GuestCall /\ d.todo = Tail(c.todo) /\ d.size = c.size /\ d.hand = c.hand
    BY <2>2, Zenon DEF GuestCall
  <2> HIDE DEF d
  <2>4. call' \in [Guests -> GuestCall] /\ call'[g] = d
        /\ \A u \in Guests : u # g => call'[u] = call[u]
    BY <2>1, <2>3, Zenon DEF CallShape
  <2>5. Moved(g)
    BY <2>2, <2>3, <2>4, Zenon DEF Moved, CallShape
  <2>6. Holds(d) =>
          \/ Head(c.todo) = "probe" /\ c.hand > 0
          \/ Head(c.todo) = "consume" /\ c.size > 0
          \/ Head(c.todo) = "closed" /\ Tries(c.todo) /\ c.size > 0
    BY <1>0, <2>3, TailInOrder, Zenon DEF Holds
  <2>7. Head(c.todo) = "probe" /\ c.hand = Guest!None => Bears(d)
    BY <1>0, <2>3, TailInOrder, Zenon DEF Bears
  <2> QED BY <2>4, <2>5, <2>6, <2>7, ZenonT(30)
<1> QED BY <1>1, <1>2, Zenon

-----------------------------------------------------------------------------
(* Counting the answers *)

LEMMA HoldersSplit ==
  ASSUME IsFiniteSet(Guests), NEW g \in Guests, NEW f
  PROVE  /\ Cardinality(Holders(f)) = Cardinality(Holders(f) \ {g}) + One(Holds(f[g]))
         /\ Cardinality(Holders(f) \ {g}) \in Nat
         /\ Cardinality(Holders(f)) \in Nat /\ Cardinality(Guests) \in Nat
         /\ Cardinality(Holders(f)) <= Cardinality(Guests)
<1>1. IsFiniteSet(Holders(f)) /\ Cardinality(Holders(f)) <= Cardinality(Guests)
  <2>1. Holders(f) \in SUBSET Guests
    BY Zenon DEF Holders
  <2> QED BY <2>1, FS_Subset, Zenon
<1>2. Cardinality(Holders(f)) \in Nat /\ Cardinality(Guests) \in Nat
  BY <1>1, FS_CardinalityType, Zenon
<1>3. /\ IsFiniteSet(Holders(f) \ {g})
      /\ Cardinality(Holders(f) \ {g}) =
           IF g \in Holders(f) THEN Cardinality(Holders(f)) - 1 ELSE Cardinality(Holders(f))
  BY <1>1, FS_RemoveElement
<1>4. Cardinality(Holders(f) \ {g}) \in Nat
  BY <1>3, FS_CardinalityType, Zenon
<1>5. g \in Holders(f) <=> Holds(f[g])
  BY Zenon DEF Holders
<1> QED BY <1>1, <1>2, <1>3, <1>4, <1>5 DEF One

\* FiniteSets is the same module to both.
LEMMA SameFiniteSets ==
  /\ Guest!Cardinality(Guests) = Cardinality(Guests)
  /\ Guest!IsFiniteSet(Guests) = IsFiniteSet(Guests)
<1>1. Guest!Cardinality(Guests) = Cardinality(Guests)
  BY Zenon DEF Guest!Cardinality, Cardinality
<1>2. Guest!IsFiniteSet(Guests) = IsFiniteSet(Guests)
  BY Zenon DEF Guest!IsFiniteSet, IsFiniteSet
<1> QED BY <1>1, <1>2, Zenon

LEMMA OthersHold ==
  ASSUME NEW g \in Guests, Moved(g) PROVE Holders(call') \ {g} = Holders(call) \ {g}
BY Zenon DEF Holders, Moved

\* The count after a step of g, from what the step gave and took.
LEMMA CoveredAfter ==
  ASSUME IsFiniteSet(Guests), Covered, NEW g \in Guests, Moved(g), credit \in Int,
         credit' \in Int,
         credit' + One(Holds(call[g])) + One(permit > 0) + One(granted > 0)
           >= credit + One(Holds(call'[g])) + One(permit' > 0) + One(granted' > 0)
  PROVE  Covered'
<1> DEFINE k == Cardinality(Holders(call) \ {g})
<1>1. Cardinality(Holders(call)) = k + One(Holds(call[g])) /\ k \in Nat
  BY HoldersSplit, Zenon
<1>2. Cardinality(Holders(call')) = k + One(Holds(call'[g]))
  BY HoldersSplit, OthersHold, Zenon
<1>3. /\ One(Holds(call[g])) \in Nat /\ One(Holds(call'[g])) \in Nat
      /\ One(permit > 0) \in Nat /\ One(granted > 0) \in Nat
      /\ One(permit' > 0) \in Nat /\ One(granted' > 0) \in Nat
  BY DEF One
<1>4. credit >= Cardinality(Holders(call)) + One(permit > 0) + One(granted > 0)
  BY Zenon DEF Covered
<1> HIDE DEF k
<1>5. credit' >= Cardinality(Holders(call')) + One(permit' > 0) + One(granted' > 0)
  BY <1>1, <1>2, <1>3, <1>4
<1> QED BY <1>5, Zenon DEF Covered

LEMMA CoveredAtMost ==
  ASSUME IsFiniteSet(Guests), NEW g \in Guests, credit' \in Int, credit' >= Guest!MaxCredit
  PROVE  Covered'
<1>1. /\ Cardinality(Holders(call')) \in Nat /\ Cardinality(Guests) \in Nat
      /\ Cardinality(Holders(call')) <= Cardinality(Guests)
  BY HoldersSplit, Zenon
<1>2. One(permit' > 0) \in 0..1 /\ One(granted' > 0) \in 0..1
  BY DEF One
<1>3. credit' >= Cardinality(Holders(call')) + One(permit' > 0) + One(granted' > 0)
  BY <1>1, <1>2, SameFiniteSets DEF Guest!MaxCredit
<1> QED BY <1>3, Zenon DEF Covered

LEMMA NotLostAfter ==
  ASSUME NotLost, NEW g \in Guests, Moved(g), UNCHANGED wait,
         told = 1 => told' = 1, dropped => dropped',
         handed' => handed \/ Bears(call'[g]),
         pending => pending' \/ Bears(call'[g]),
         Bears(call[g]) => Bears(call'[g]) \/ told' = 1 \/ dropped'
  PROVE  NotLost'
<1> SUFFICES ASSUME handed', ~Bears(call'[g]), told' # 1, ~pending', ~dropped'
             PROVE  \/ \E u \in Guests : Bears(call'[u])
                    \/ \E w \in Workers : wait'[w] = "record"
  BY Zenon DEF NotLost
<1>1. \/ \E u \in Guests : Bears(call[u])
      \/ \E w \in Workers : wait[w] = "record"
  BY Zenon DEF NotLost
<1> QED BY <1>1, Zenon DEF Moved

-----------------------------------------------------------------------------
(* Each action keeps the invariant *)

LEMMA AtStep ==
  ASSUME CallShape, NEW g \in Guests, NEW s, Guest!At(g, s)
  PROVE  /\ call[g] \in GuestCall /\ call[g].todo # <<>> /\ Head(call[g].todo) = s
         /\ s \notin {"fail", "error", "record"} => ~Bears(call[g])
BY Zenon DEF CallShape, Guest!At, Bears

LEMMA CallTypes ==
  ASSUME CallShape, NEW g \in Guests
  PROVE  /\ call[g] \in GuestCall /\ call[g].left \in Int /\ call[g].size \in Int
         /\ call[g].hand \in Int /\ call[g].op \in Guest!Ops \cup {"none"}
BY DEF CallShape, GuestCall

\* A step that touches neither the stream nor the flags.
LEMMA PlainStep ==
  ASSUME IsFiniteSet(Guests), GuestInv, NEW g \in Guests, Moved(g),
         UNCHANGED <<room, credit, handed, permit, pending, granted, closed, told, wait>>,
         dropped => dropped', Holds(call'[g]) => Holds(call[g]),
         Bears(call[g]) => Bears(call'[g]) \/ dropped'
  PROVE  GuestInv'
<1>1. CallShape'
  BY Zenon DEF GuestInv, CallShape, Moved
<1>2. Told'
  BY Zenon DEF GuestInv, Told
<1>3. Covered'
  <2>1. credit \in Int /\ credit' \in Int
    BY DEF GuestInv, CallShape
  <2>2. credit' + One(Holds(call[g])) + One(permit > 0) + One(granted > 0)
          >= credit + One(Holds(call'[g])) + One(permit' > 0) + One(granted' > 0)
    BY <2>1 DEF One
  <2> QED BY <2>1, <2>2, CoveredAfter, Zenon DEF GuestInv
<1>4. NotLost'
  BY NotLostAfter, Zenon DEF GuestInv
<1> QED BY <1>1, <1>2, <1>3, <1>4, Zenon DEF GuestInv

LEMMA BeginKeeps ==
  ASSUME IsFiniteSet(Guests), MaxLen \in Nat, Calls \subseteq Guest!Ops, GuestInv,
         NEW g \in Guests, NEW op \in Calls, NEW n \in Guest!Lengths(op), Guest!Begin(g, op, n)
  PROVE  GuestInv'
<1> DEFINE q == Guest!Steps(op, n)
           d == [Guest!Idle EXCEPT !.op = op, !.left = n, !.size = n, !.todo = q]
<1>1. n \in Int /\ op \in Guest!Ops
  BY DEF Guest!Lengths
<1>2. FromStart(q) /\ q \in Seq(StepNames)
  BY <1>1, StepsFromStart, StartHoldsNothing, Zenon
<1>3. call' = [call EXCEPT ![g] = d]
  BY DEF Guest!Begin
<1> HIDE DEF q
<1>4. d \in GuestCall /\ d.todo = q
  BY <1>1, <1>2, IdleCall, Zenon DEF GuestCall
<1> HIDE DEF d
<1>5. Moved(g) /\ ~Holds(call'[g])
  BY <1>2, <1>3, <1>4, Restarted, Zenon DEF GuestInv
<1>6. ~Bears(call[g])
  BY DEF Guest!Begin, Guest!Idle, Bears
<1>7. UNCHANGED <<room, credit, handed, permit, pending, granted, closed, told, wait, dropped>>
  BY Zenon DEF Guest!Begin, Guest!stream, Guest!wrapper, Guest!host
<1> QED BY <1>5, <1>6, <1>7, PlainStep, ZenonT(30)

LEMMA ClosedKeeps ==
  ASSUME IsFiniteSet(Guests), GuestInv, NEW g \in Guests, Guest!Closed(g) PROVE GuestInv'
<1>1. CallShape /\ Guest!At(g, "closed")
  BY Zenon DEF GuestInv, Guest!Closed
<1>2. call[g] \in GuestCall /\ call[g].todo # <<>> /\ Head(call[g].todo) = "closed"
      /\ ~Bears(call[g])
  BY <1>1, AtStep
<1>3. UNCHANGED <<room, credit, handed, permit, pending, granted, closed, told, wait, dropped>>
  BY Zenon DEF Guest!Closed, Guest!stream, Guest!wrapper, Guest!host
<1>4. Moved(g) /\ (Holds(call'[g]) => Holds(call[g]))
  <2>1. CASE Guest!Return(g, "closed")
    BY <1>1, <2>1, Returned, Zenon
  <2>2. CASE Guest!Goes(g, call[g])
    <3>1. Moved(g) /\ (Holds(call'[g]) => Tries(call[g].todo) /\ call[g].size > 0)
      BY <1>1, <1>2, <2>2, Gone
    <3> QED BY <3>1, Zenon DEF Holds
  <2> QED BY <2>1, <2>2, Zenon DEF Guest!Closed
<1> QED BY <1>2, <1>3, <1>4, PlainStep, Zenon

LEMMA WaitErrorKeeps ==
  ASSUME IsFiniteSet(Guests), GuestInv, NEW g \in Guests, Guest!WaitError(g) PROVE GuestInv'
<1>1. CallShape
  BY Zenon DEF GuestInv
<1>2. UNCHANGED <<room, credit, handed, permit, pending, granted, closed, told, wait>>
  BY Zenon DEF Guest!WaitError, Guest!stream, Guest!wrapper, Guest!host
<1>3. CASE Guest!Do(g, <<"fail">>) /\ UNCHANGED dropped
  <2>1. Moved(g) /\ ~Holds(call'[g]) /\ Bears(call'[g])
    BY <1>1, <1>3, Failing, Zenon
  <2> QED BY <1>2, <1>3, <2>1, PlainStep, Zenon
<1>4. CASE Guest!Return(g, "canceled") /\ dropped' = TRUE
  <2>1. Moved(g) /\ ~Holds(call'[g])
    BY <1>1, <1>4, Returned, Zenon
  <2> QED BY <1>2, <1>4, <2>1, PlainStep, Zenon
<1> QED BY <1>3, <1>4, Zenon DEF Guest!WaitError

LEMMA CanceledKeeps ==
  ASSUME IsFiniteSet(Guests), GuestInv, NEW g \in Guests, Guest!Canceled(g) PROVE GuestInv'
<1>1. CallShape
  BY Zenon DEF GuestInv
<1>2. UNCHANGED <<room, credit, handed, permit, pending, granted, closed, told, wait, dropped>>
  BY Zenon DEF Guest!Canceled, Guest!stream, Guest!wrapper, Guest!host
<1>3. Moved(g) /\ ~Holds(call'[g])
  BY <1>1, Returned, Zenon DEF Guest!Canceled
<1>4. ~Bears(call[g])
  <2>1. CASE Guest!At(g, "wait")
    BY <1>1, <2>1, AtStep
  <2>2. CASE Guest!At(g, "retry")
    BY <1>1, <2>2, AtStep
  <2> QED BY <2>1, <2>2, Zenon DEF Guest!Canceled
<1> QED BY <1>2, <1>3, <1>4, PlainStep, Zenon

LEMMA AgainMoves ==
  ASSUME CallShape, NEW g \in Guests, Guest!Blocking(g), Guest!Again(g)
  PROVE  Moved(g) /\ ~Holds(call'[g])
<1> DEFINE q == Guest!Steps(call[g].op, call[g].left)
<1>1. call[g].op \in Guest!Ops
  BY DEF Guest!Blocking, Guest!Ops
<1>2. FromStart(q)
  BY <1>1, StepsFromStart, Zenon
<1>3. Guest!Do(g, <<"retry">> \o q)
  BY Zenon DEF Guest!Again
<1> HIDE DEF q
<1>4. FromStart(<<"retry">> \o q)
  BY <1>2, Pieces, ConcatFromStart, Zenon
<1> QED BY <1>3, <1>4, Redone, Zenon

LEMMA ChunkKeeps ==
  ASSUME IsFiniteSet(Guests), GuestInv, NEW g \in Guests, Guest!ChunkStep(g) PROVE GuestInv'
<1>1. CallShape /\ Guest!At(g, "chunk")
  BY Zenon DEF GuestInv, Guest!ChunkStep
<1>2. call[g] \in GuestCall /\ call[g].todo # <<>> /\ Head(call[g].todo) = "chunk"
      /\ ~Bears(call[g])
  BY <1>1, AtStep
<1>3. UNCHANGED <<room, credit, handed, permit, pending, granted, closed, told, wait, dropped>>
  BY Zenon DEF Guest!ChunkStep, Guest!stream, Guest!wrapper, Guest!host
<1>4. Moved(g) /\ ~Holds(call'[g])
  <2>1. CASE Guest!Blocking(g) /\ Guest!Again(g)
    BY <1>1, <2>1, AgainMoves, ZenonT(30)
  <2>2. CASE Guest!Goes(g, [call[g] EXCEPT !.size = Guest!Size(g)])
    <3> DEFINE c == [call[g] EXCEPT !.size = Guest!Size(g)]
    <3>1. Guest!Size(g) \in Int
      <4>1. call[g].left \in Int /\ call[g].hand \in Int
        BY <1>1, CallTypes, Zenon
      <4> QED BY <4>1 DEF Guest!Size
    <3>2. c \in GuestCall /\ c.todo = call[g].todo
      BY <1>2, <3>1 DEF GuestCall
    <3> HIDE DEF c
    <3>3. Guest!Goes(g, c)
      BY <2>2 DEF c
    <3> QED BY <1>1, <1>2, <3>2, <3>3, Gone, SMTT(30)
  <2> QED BY <2>1, <2>2, Zenon DEF Guest!ChunkStep
<1> QED BY <1>2, <1>3, <1>4, PlainStep, Zenon

LEMMA RetryKeeps ==
  ASSUME IsFiniteSet(Guests), GuestInv, NEW g \in Guests, Guest!Retry(g) PROVE GuestInv'
<1>1. CallShape /\ Guest!At(g, "retry") /\ Guest!Goes(g, call[g])
  BY Zenon DEF GuestInv, Guest!Retry
<1>2. call[g] \in GuestCall /\ call[g].todo # <<>> /\ Head(call[g].todo) = "retry"
      /\ ~Bears(call[g])
  BY <1>1, AtStep
<1>3. UNCHANGED <<room, credit, handed, permit, pending, granted, closed, told, wait, dropped>>
  BY Zenon DEF Guest!Retry, Guest!stream, Guest!wrapper, Guest!host
<1>4. Moved(g) /\ ~Holds(call'[g])
  BY <1>1, <1>2, Gone
<1> QED BY <1>2, <1>3, <1>4, PlainStep, Zenon

LEMMA SpliceReadKeeps ==
  ASSUME IsFiniteSet(Guests), GuestInv, NEW g \in Guests, Guest!SpliceRead(g) PROVE GuestInv'
<1>1. CallShape /\ Guest!At(g, "read")
  BY Zenon DEF GuestInv, Guest!SpliceRead
<1>2. call[g] \in GuestCall /\ call[g].todo # <<>> /\ Head(call[g].todo) = "read"
      /\ ~Bears(call[g])
  BY <1>1, AtStep
<1>3. UNCHANGED <<room, credit, handed, permit, pending, granted, closed, told, wait, dropped>>
  BY Zenon DEF Guest!SpliceRead, Guest!stream, Guest!wrapper, Guest!host
<1>4. Moved(g) /\ ~Holds(call'[g])
  <2>1. CASE Guest!Return(g, "input")
    BY <1>1, <2>1, Returned, Zenon
  <2>2. CASE Guest!Blocking(g) /\ Guest!Again(g)
    BY <1>1, <2>2, AgainMoves, Zenon
  <2>3. ASSUME NEW k \in 0..call[g].size, Guest!Goes(g, [call[g] EXCEPT !.size = k])
        PROVE  Moved(g) /\ ~Holds(call'[g])
    <3> DEFINE c == [call[g] EXCEPT !.size = k]
    <3>1. k \in Int
      BY <1>1, CallTypes
    <3>2. c \in GuestCall /\ c.todo = call[g].todo
      BY <1>2, <3>1 DEF GuestCall
    <3> HIDE DEF c
    <3>3. Guest!Goes(g, c)
      BY <2>3 DEF c
    <3> QED BY <1>1, <1>2, <3>2, <3>3, Gone, SMTT(30)
  <2> QED BY <2>1, <2>2, <2>3, Zenon DEF Guest!SpliceRead
<1> QED BY <1>2, <1>3, <1>4, PlainStep, Zenon

LEMMA RestKeeps ==
  ASSUME IsFiniteSet(Guests), GuestInv, NEW g \in Guests, Guest!Rest(g) PROVE GuestInv'
<1> DEFINE n == Guest!Left(g)
           q == Guest!BlockingWriteAndFlush(n)
           d == [call[g] EXCEPT !.left = n, !.todo = q]
<1>1. CallShape /\ Guest!At(g, "rest")
  BY Zenon DEF GuestInv, Guest!Rest
<1>2. call[g] \in GuestCall /\ ~Bears(call[g])
  BY <1>1, AtStep, SMTT(30)
<1>3. n \in Int
  BY <1>1, CallTypes DEF Guest!Left
<1>4. FromStart(q) /\ q \in Seq(StepNames)
  BY WriteFromStart, StartHoldsNothing, Zenon
<1>5. call' = [call EXCEPT ![g] = d]
  BY Zenon DEF Guest!Rest
<1> HIDE DEF n, q
<1>6. d \in GuestCall /\ d.todo = q
  BY <1>2, <1>3, <1>4, Zenon DEF GuestCall
<1> HIDE DEF d
<1>7. Moved(g) /\ ~Holds(call'[g])
  BY <1>1, <1>4, <1>5, <1>6, Restarted, ZenonT(30)
<1>8. UNCHANGED <<room, credit, handed, permit, pending, granted, closed, told, wait, dropped>>
  BY Zenon DEF Guest!Rest, Guest!stream, Guest!wrapper, Guest!host
<1> QED BY <1>2, <1>7, <1>8, PlainStep, Zenon

\* A step that calls the stream or the wrapper, or uses a grant.
LEMMA StreamStep ==
  ASSUME IsFiniteSet(Guests), GuestInv, NEW g \in Guests, Moved(g),
         UNCHANGED <<closed, told, wait>>,
         room' \in 0..MaxPermit, permit' \in 0..MaxPermit, pending' \in BOOLEAN,
         granted' \in Int, credit' \in Int,
         dropped => dropped', handed' => handed \/ Bears(call'[g]),
         pending => pending' \/ Bears(call'[g]), Bears(call[g]) => Bears(call'[g]) \/ dropped',
         \/ credit' >= Guest!MaxCredit
         \/ credit' + One(Holds(call[g])) + One(permit > 0) + One(granted > 0)
              >= credit + One(Holds(call'[g])) + One(permit' > 0) + One(granted' > 0)
  PROVE  GuestInv'
<1>1. CallShape'
  BY Zenon DEF GuestInv, CallShape, Moved
<1>2. Told'
  BY Zenon DEF GuestInv, Told
<1>3. Covered'
  BY CoveredAfter, CoveredAtMost, Zenon DEF GuestInv, CallShape
<1>4. NotLost'
  BY NotLostAfter, Zenon DEF GuestInv
<1> QED BY <1>1, <1>2, <1>3, <1>4, ZenonT(30) DEF GuestInv

LEMMA Scalars ==
  ASSUME CallShape, MaxPermit \in Nat
  PROVE  /\ room \in 0..MaxPermit /\ permit \in 0..MaxPermit /\ pending \in BOOLEAN
         /\ granted \in Int /\ credit \in Int /\ room \in Int /\ permit \in Int /\ permit >= 0
         /\ 0 \in 0..MaxPermit /\ FALSE \in BOOLEAN
BY DEF CallShape

LEMMA WaitKeeps ==
  ASSUME IsFiniteSet(Guests), MaxPermit \in Nat, GuestInv, NEW g \in Guests, Guest!Wait(g)
  PROVE  GuestInv'
<1>1. CallShape /\ Guest!At(g, "wait")
  BY Zenon DEF GuestInv, Guest!Wait
<1>2. call[g] \in GuestCall /\ call[g].todo # <<>> /\ Head(call[g].todo) = "wait"
      /\ ~Bears(call[g])
  BY <1>1, AtStep
<1>3. UNCHANGED <<granted, closed, told, wait, dropped>>
  BY Zenon DEF Guest!Wait, Guest!host
<1>4. /\ UNCHANGED <<room, credit, permit>> /\ pending' \in BOOLEAN
      /\ Moved(g) /\ ~Holds(call'[g])
      /\ (handed' => handed \/ Bears(call'[g])) /\ (pending => pending' \/ Bears(call'[g]))
  <2>1. CASE /\ pending /\ pending' = FALSE /\ UNCHANGED <<permit, Guest!stream>>
             /\ Guest!Do(g, <<"error">>)
    BY <1>1, <2>1, Failing, Zenon DEF Guest!stream
  <2>2. CASE UNCHANGED <<Guest!wrapper, Guest!stream>> /\ Guest!Goes(g, call[g])
    <3>1. Moved(g) /\ ~Holds(call'[g])
      BY <1>1, <1>2, <2>2, Gone, SMTT(30)
    <3> QED BY <1>1, <2>2, <3>1, Scalars, ZenonT(30) DEF Guest!stream, Guest!wrapper
  <2>3. CASE ~pending /\ UNCHANGED Guest!wrapper /\ Guest!Fails /\ Guest!Do(g, <<"error">>)
    BY <1>1, <2>3, Failing, Scalars, Zenon DEF Guest!wrapper, Guest!Fails
  <2> QED BY <2>1, <2>2, <2>3, Zenon DEF Guest!Wait
<1>5. /\ room' \in 0..MaxPermit /\ permit' \in 0..MaxPermit /\ granted' \in Int /\ credit' \in Int
  BY <1>1, <1>3, <1>4, Scalars, ZenonT(30)
<1>6. credit' + One(Holds(call[g])) + One(permit > 0) + One(granted > 0)
        >= credit + One(Holds(call'[g])) + One(permit' > 0) + One(granted' > 0)
  BY <1>3, <1>4, <1>5 DEF One
<1> QED BY <1>2, <1>3, <1>4, <1>5, <1>6, StreamStep, ZenonT(30)

LEMMA GrantsTypes ==
  ASSUME IsFiniteSet(Guests), MaxPermit \in Nat, CallShape, NEW n, Guest!Grants(n)
  PROVE  /\ room' \in 0..MaxPermit /\ credit' \in Int /\ n \in 0..MaxPermit
         /\ UNCHANGED handed
         /\ \/ credit' >= Guest!MaxCredit
            \/ credit' = credit + One(n > 0)
<1>1. Guest!MaxCredit \in Int
  BY FS_CardinalityType, SameFiniteSets DEF Guest!MaxCredit
<1>2. credit \in Int /\ room \in 0..MaxPermit
  BY Zenon DEF CallShape
<1>3. n = room /\ room' \in {0, room} /\ UNCHANGED handed
      /\ credit' = IF n > 0 /\ credit < Guest!MaxCredit THEN credit + 1 ELSE credit
  BY DEF Guest!Grants
<1> QED BY <1>1, <1>2, <1>3, SMTT(30) DEF One

LEMMA ProbeKeeps ==
  ASSUME IsFiniteSet(Guests), MaxPermit \in Nat, GuestInv, NEW g \in Guests, Guest!Probe(g)
  PROVE  GuestInv'
<1>1. CallShape /\ Guest!At(g, "probe")
  BY Zenon DEF GuestInv, Guest!Probe
<1>2. call[g] \in GuestCall /\ call[g].todo # <<>> /\ Head(call[g].todo) = "probe"
      /\ ~Bears(call[g])
  BY <1>1, AtStep
<1>3. UNCHANGED <<granted, closed, told, wait, dropped>> /\ permit' = 0 /\ pending' = FALSE
  BY Zenon DEF Guest!Probe, Guest!host, Guest!LeftByTakePending
<1>4. PICK n \in Guest!None..MaxPermit :
        /\ \/ pending /\ n = Guest!None /\ UNCHANGED Guest!stream
           \/ ~pending /\ permit # 0 /\ n = permit /\ UNCHANGED Guest!stream
           \/ ~pending /\ permit = 0 /\ (Guest!Grants(n) \/ (n = Guest!None /\ Guest!Fails))
        /\ Guest!Goes(g, [call[g] EXCEPT !.hand = n])
  BY Zenon DEF Guest!Probe
<1> DEFINE c == [call[g] EXCEPT !.hand = n]
<1>5. n \in Int
  BY DEF Guest!None
<1>6. c \in GuestCall /\ c.todo = call[g].todo /\ c.hand = n
  BY <1>2, <1>5, SMTT(30) DEF GuestCall
<1> HIDE DEF c
<1>7. Guest!Goes(g, c)
  BY <1>4 DEF c
<1>8. Moved(g) /\ (Holds(call'[g]) => n > 0) /\ (n = Guest!None => Bears(call'[g]))
  BY <1>1, <1>2, <1>6, <1>7, Gone, SMTT(30)
<1>9. /\ room' \in 0..MaxPermit /\ credit' \in Int
      /\ (handed' => handed \/ Bears(call'[g])) /\ (pending => Bears(call'[g]))
      /\ \/ credit' >= Guest!MaxCredit
         \/ credit' + One(Holds(call[g])) + One(permit > 0) + One(granted > 0)
              >= credit + One(Holds(call'[g])) + One(permit' > 0) + One(granted' > 0)
  <2>0. /\ One(Holds(call[g])) \in 0..1 /\ One(permit > 0) \in 0..1 /\ One(permit' > 0) = 0
        /\ One(granted' > 0) = One(granted > 0) /\ One(granted > 0) \in 0..1
        /\ One(Holds(call'[g])) \in 0..1 /\ One(Holds(call'[g])) <= One(n > 0)
        /\ One(n > 0) \in 0..1
    BY <1>3, <1>8 DEF One
  <2>1. CASE pending /\ n = Guest!None /\ UNCHANGED Guest!stream
    <3>1. UNCHANGED <<room, credit, handed>> /\ One(n > 0) = 0
      BY <2>1 DEF Guest!stream, Guest!None, One
    <3>2. room' \in 0..MaxPermit /\ credit' \in Int /\ credit \in Int
      BY <1>1, <3>1, Scalars, ZenonT(30)
    <3>3. credit' + One(Holds(call[g])) + One(permit > 0) + One(granted > 0)
            >= credit + One(Holds(call'[g])) + One(permit' > 0) + One(granted' > 0)
      BY <2>0, <3>1, <3>2, SMTT(30)
    <3> QED BY <1>8, <2>1, <3>1, <3>2, <3>3, ZenonT(30)
  <2>2. CASE ~pending /\ n = permit /\ UNCHANGED Guest!stream
    <3>1. UNCHANGED <<room, credit, handed>>
      BY <2>2 DEF Guest!stream
    <3>2. room' \in 0..MaxPermit /\ credit' \in Int /\ credit \in Int
      BY <1>1, <3>1, Scalars, ZenonT(30)
    <3>3. credit' + One(Holds(call[g])) + One(permit > 0) + One(granted > 0)
            >= credit + One(Holds(call'[g])) + One(permit' > 0) + One(granted' > 0)
      BY <2>0, <2>2, <3>1, <3>2, SMTT(30)
    <3> QED BY <2>2, <3>1, <3>2, <3>3, ZenonT(30)
  <2>3. CASE ~pending /\ Guest!Grants(n)
    <3>1. /\ room' \in 0..MaxPermit /\ credit' \in Int /\ UNCHANGED handed /\ credit \in Int
          /\ \/ credit' >= Guest!MaxCredit
             \/ credit' = credit + One(n > 0)
      BY <1>1, <2>3, GrantsTypes, Scalars, ZenonT(30)
    <3>2. ASSUME credit' = credit + One(n > 0)
          PROVE  credit' + One(Holds(call[g])) + One(permit > 0) + One(granted > 0)
                   >= credit + One(Holds(call'[g])) + One(permit' > 0) + One(granted' > 0)
      BY <2>0, <3>1, <3>2, SMTT(30)
    <3> QED BY <2>3, <3>1, <3>2, Zenon
  <2>4. CASE ~pending /\ n = Guest!None /\ Guest!Fails
    <3>1. UNCHANGED <<room, credit>> /\ One(n > 0) = 0
      BY <2>4 DEF Guest!Fails, Guest!None, One
    <3>2. room' \in 0..MaxPermit /\ credit' \in Int /\ credit \in Int
      BY <1>1, <3>1, Scalars, ZenonT(30)
    <3>3. credit' + One(Holds(call[g])) + One(permit > 0) + One(granted > 0)
            >= credit + One(Holds(call'[g])) + One(permit' > 0) + One(granted' > 0)
      BY <2>0, <3>1, <3>2
    <3> QED BY <1>8, <2>4, <3>1, <3>2, <3>3, ZenonT(30)
  <2> QED BY <1>4, <2>1, <2>2, <2>3, <2>4, ZenonT(30)
<1>10. permit' \in 0..MaxPermit /\ pending' \in BOOLEAN /\ granted' \in Int
  BY <1>1, <1>3, Scalars, Zenon
<1> QED BY <1>2, <1>3, <1>8, <1>9, <1>10, StreamStep, ZenonT(30)

LEMMA RecordKeeps ==
  ASSUME IsFiniteSet(Guests), MaxPermit \in Nat, GuestInv, NEW g \in Guests, Guest!Record(g)
  PROVE  GuestInv'
<1>1. CallShape /\ Guest!At(g, "record")
  BY Zenon DEF GuestInv, Guest!Record
<1>2. call[g] \in GuestCall /\ call[g].todo # <<>> /\ Head(call[g].todo) = "record"
      /\ call[g].hand \in Int
  BY <1>1, AtStep, CallTypes, Zenon
<1>3. /\ UNCHANGED <<closed, told, wait, dropped, room, credit, handed, permit, pending>>
      /\ granted' = call[g].hand
  BY Zenon DEF Guest!Record, Guest!stream, Guest!wrapper
<1>4. Moved(g) /\ ~Holds(call'[g]) /\ (Bears(call[g]) => Bears(call'[g]))
  <2>1. CASE call[g].hand = Guest!None /\ Guest!Do(g, <<"fail">>)
    BY <1>1, <2>1, Failing, Zenon
  <2>2. CASE call[g].hand # Guest!None /\ Guest!Goes(g, call[g])
    <3>1. Moved(g) /\ ~Holds(call'[g])
      BY <1>1, <1>2, <2>2, Gone, SMTT(30)
    <3>2. ~Bears(call[g])
      BY <1>2, <2>2 DEF Bears
    <3> QED BY <3>1, <3>2, ZenonT(30)
  <2> QED BY <2>1, <2>2, Zenon DEF Guest!Record
<1>5. /\ room' \in 0..MaxPermit /\ permit' \in 0..MaxPermit /\ granted' \in Int /\ credit' \in Int
      /\ pending' \in BOOLEAN
  BY <1>1, <1>2, <1>3, Scalars, ZenonT(30)
<1>6. call[g].hand > 0 => Holds(call[g])
  BY <1>2, ZenonT(30) DEF Holds
<1>7. credit' + One(Holds(call[g])) + One(permit > 0) + One(granted > 0)
        >= credit + One(Holds(call'[g])) + One(permit' > 0) + One(granted' > 0)
  BY <1>3, <1>4, <1>5, <1>6, SMTT(30) DEF One
<1> QED BY <1>3, <1>4, <1>5, <1>7, StreamStep, Zenon

LEMMA ConsumeKeeps ==
  ASSUME IsFiniteSet(Guests), MaxPermit \in Nat, GuestInv, NEW g \in Guests, Guest!Consume(g)
  PROVE  GuestInv'
<1>1. CallShape /\ Guest!At(g, "consume")
  BY ZenonT(30) DEF GuestInv, Guest!Consume
<1>2. call[g] \in GuestCall /\ call[g].todo # <<>> /\ Head(call[g].todo) = "consume"
      /\ ~Bears(call[g]) /\ call[g].size \in Int
  BY <1>1, AtStep, CallTypes
<1>3. /\ UNCHANGED <<closed, told, wait, dropped, room, credit, handed, permit, pending>>
      /\ granted' = Guest!None
  BY Zenon DEF Guest!Consume, Guest!stream, Guest!wrapper, Guest!GrantAfterWrite
<1>4. /\ room' \in 0..MaxPermit /\ permit' \in 0..MaxPermit /\ granted \in Int
      /\ credit' \in Int /\ pending' \in BOOLEAN
  BY <1>1, <1>3, Scalars, Zenon
<1>5. Moved(g) /\ (Holds(call'[g]) => granted > 0)
  <2>1. CASE Guest!Return(g, "trap")
    BY <1>1, <2>1, Returned, ZenonT(30)
  <2>2. CASE ~(call[g].size > granted) /\ Guest!Goes(g, call[g])
    <3>1. Moved(g) /\ (Holds(call'[g]) => call[g].size > 0)
      BY <1>1, <1>2, <2>2, Gone, SMTT(30)
    <3> QED BY <1>2, <1>4, <2>2, <3>1, SMTT(30)
  <2> QED BY <2>1, <2>2, Zenon DEF Guest!Consume
<1>6. /\ granted' \in Int
      /\ credit' + One(Holds(call[g])) + One(permit > 0) + One(granted > 0)
           >= credit + One(Holds(call'[g])) + One(permit' > 0) + One(granted' > 0)
  BY <1>3, <1>4, <1>5, SMTT(30) DEF One, Guest!None
<1> QED BY <1>2, <1>3, <1>4, <1>5, <1>6, StreamStep, Zenon

LEMMA TryKeeps ==
  ASSUME IsFiniteSet(Guests), MaxPermit \in Nat, GuestInv, NEW g \in Guests, Guest!Try(g)
  PROVE  GuestInv'
<1>1. CallShape /\ Guest!At(g, "try")
  BY Zenon DEF GuestInv, Guest!Try
<1>2. call[g] \in GuestCall /\ call[g].todo # <<>> /\ Head(call[g].todo) = "try"
      /\ ~Bears(call[g]) /\ call[g].size \in Int
  BY <1>1, AtStep, CallTypes
<1>3. /\ UNCHANGED <<closed, told, wait, dropped, granted>>
      /\ permit' = 0 /\ pending' = FALSE
  BY Zenon DEF Guest!Try, Guest!host, Guest!LeftByTakePending
<1>4. /\ permit' \in 0..MaxPermit /\ granted' \in Int /\ pending' \in BOOLEAN
      /\ credit \in Int /\ room \in 0..MaxPermit
  BY <1>1, <1>3, Scalars, Zenon
<1>5. call[g].size > 0 => Holds(call[g])
  <2>1. call[g].todo \in Seq(StepNames) /\ InOrder(call[g].todo)
    BY <1>1, Zenon DEF CallShape, GuestCall
  <2>2. Tries(call[g].todo)
    BY <1>2, <2>1, TailInOrder, Zenon
  <2> QED BY <2>2, Zenon DEF Holds
<1>6. /\ Moved(g) /\ ~Holds(call'[g]) /\ room' \in 0..MaxPermit
      /\ credit' = IF UNCHANGED credit THEN credit ELSE credit - 1
      /\ (~UNCHANGED credit => Holds(call[g]))
      /\ (handed' => handed \/ Bears(call'[g])) /\ (pending => Bears(call'[g]))
  <2>1. CASE pending /\ UNCHANGED Guest!stream /\ Guest!Do(g, <<"fail">>)
    BY <1>1, <1>4, <2>1, Failing, Zenon DEF Guest!stream
  <2>2. CASE ~pending /\ Guest!Fails /\ Guest!Do(g, <<"fail">>)
    BY <1>1, <1>4, <2>2, Failing, ZenonT(30) DEF Guest!Fails
  <2>3. CASE ~pending /\ Guest!Accepts(call[g].size) /\ Guest!Goes(g, call[g])
    <3>1. Moved(g) /\ ~Holds(call'[g])
      BY <1>1, <1>2, <2>3, Gone, SMTT(30)
    <3>2. /\ room' \in {0, room} /\ UNCHANGED handed
          /\ credit' = IF call[g].size > 0 THEN credit - 1 ELSE credit
      BY <2>3 DEF Guest!Accepts
    <3>3. room' \in 0..MaxPermit
      BY <1>4, <3>2, SMTT(30)
    <3>4. /\ credit' = IF UNCHANGED credit THEN credit ELSE credit - 1
          /\ (~UNCHANGED credit => Holds(call[g]))
      BY <1>5, <3>2, ZenonT(30)
    <3> QED BY <2>3, <3>1, <3>2, <3>3, <3>4, ZenonT(30)
  <2> QED BY <2>1, <2>2, <2>3, Zenon DEF Guest!Try
<1>7. credit' \in Int
  BY <1>4, <1>6, SMTT(30)
<1>8. credit' + One(Holds(call[g])) + One(permit > 0) + One(granted > 0)
        >= credit + One(Holds(call'[g])) + One(permit' > 0) + One(granted' > 0)
  BY <1>3, <1>4, <1>6, <1>7, SMTT(30) DEF One
<1> QED BY <1>2, <1>3, <1>4, <1>6, <1>7, <1>8, StreamStep, ZenonT(30)

LEMMA FlushKeeps ==
  ASSUME IsFiniteSet(Guests), MaxPermit \in Nat, GuestInv, NEW g \in Guests, Guest!Flush(g)
  PROVE  GuestInv'
<1>1. CallShape /\ Guest!At(g, "flush")
  BY Zenon DEF GuestInv, Guest!Flush
<1>2. call[g] \in GuestCall /\ call[g].todo # <<>> /\ Head(call[g].todo) = "flush"
      /\ ~Bears(call[g])
  BY <1>1, AtStep
<1>3. /\ UNCHANGED <<closed, told, wait, dropped, granted>>
      /\ permit' = 0 /\ pending' = FALSE
  BY Zenon DEF Guest!Flush, Guest!host, Guest!LeftByTakePending
<1>4. /\ permit' \in 0..MaxPermit /\ granted' \in Int /\ pending' \in BOOLEAN
      /\ credit \in Int /\ room \in 0..MaxPermit /\ 0 \in 0..MaxPermit
  BY <1>1, <1>3, Scalars, Zenon
<1>5. /\ Moved(g) /\ ~Holds(call'[g]) /\ room' \in 0..MaxPermit /\ UNCHANGED credit
      /\ (handed' => handed \/ Bears(call'[g])) /\ (pending => Bears(call'[g]))
  <2>1. CASE pending /\ UNCHANGED Guest!stream /\ Guest!Do(g, <<"fail">>)
    BY <1>1, <1>4, <2>1, Failing, ZenonT(30) DEF Guest!stream
  <2>2. CASE ~pending /\ Guest!Fails /\ Guest!Do(g, <<"fail">>)
    BY <1>1, <1>4, <2>2, Failing, ZenonT(30) DEF Guest!Fails
  <2>3. CASE ~pending /\ Guest!StartsFlush /\ Guest!Goes(g, call[g])
    <3>1. Moved(g) /\ ~Holds(call'[g])
      BY <1>1, <1>2, <2>3, Gone, SMTT(30)
    <3>2. room' = 0 /\ UNCHANGED <<handed, credit>>
      BY <2>3, ZenonT(30) DEF Guest!StartsFlush
    <3> QED BY <1>4, <2>3, <3>1, <3>2, ZenonT(30)
  <2> QED BY <2>1, <2>2, <2>3, Zenon DEF Guest!Flush
<1>6. /\ credit' \in Int
      /\ credit' + One(Holds(call[g])) + One(permit > 0) + One(granted > 0)
           >= credit + One(Holds(call'[g])) + One(permit' > 0) + One(granted' > 0)
  BY <1>3, <1>4, <1>5, SMTT(30) DEF One
<1> QED BY <1>2, <1>3, <1>4, <1>5, <1>6, StreamStep, ZenonT(30)

LEMMA FailKeeps ==
  ASSUME IsFiniteSet(Guests), GuestInv, NEW g \in Guests, Guest!Fail(g) PROVE GuestInv'
<1>1. CallShape /\ Guest!At(g, "fail")
  BY Zenon DEF GuestInv, Guest!Fail
<1>2. /\ UNCHANGED <<wait, room, credit, handed, permit, pending, granted>>
      /\ closed' = TRUE
      /\ \/ ~closed /\ told' = told + 1 /\ UNCHANGED dropped
         \/ dropped' = TRUE /\ UNCHANGED told
         \/ closed /\ UNCHANGED <<told, dropped>>
  BY Zenon DEF Guest!Fail, Guest!stream, Guest!wrapper, Guest!FirstFailure
<1>3. Moved(g) /\ ~Holds(call'[g])
  BY <1>1, Returned, Zenon DEF Guest!Fail
<1>4. told' = 1 \/ (told' = 0 /\ dropped')
  BY <1>2 DEF GuestInv, Told
<1>5. CallShape'
  BY <1>1, <1>2, <1>3, Zenon DEF CallShape, Moved
<1>6. Told'
  BY <1>2, <1>4, Zenon DEF Told
<1>7. Covered'
  <2>1. credit \in Int /\ credit' \in Int
    BY <1>1, <1>2, SMTT(30) DEF CallShape
  <2>2. credit' + One(Holds(call[g])) + One(permit > 0) + One(granted > 0)
          >= credit + One(Holds(call'[g])) + One(permit' > 0) + One(granted' > 0)
    BY <1>2, <1>3, <2>1, SMTT(30) DEF One
  <2> QED BY <1>3, <2>1, <2>2, CoveredAfter, ZenonT(30) DEF GuestInv
<1>8. NotLost'
  BY <1>4, Zenon DEF NotLost
<1> QED BY <1>5, <1>6, <1>7, <1>8, ZenonT(30) DEF GuestInv

LEMMA PollReadyKeeps ==
  ASSUME IsFiniteSet(Guests), MaxPermit \in Nat, GuestInv, NEW g \in Guests, Guest!PollReady(g)
  PROVE  GuestInv'
<1>1. CallShape /\ UNCHANGED <<granted, closed, told, call, wait, dropped>>
  BY Zenon DEF GuestInv, Guest!PollReady, Guest!host
<1>2. Moved(g) /\ call'[g] = call[g]
  BY <1>1, Zenon DEF CallShape, Moved
<1>3. /\ room \in 0..MaxPermit /\ permit \in 0..MaxPermit /\ pending \in BOOLEAN
      /\ credit \in Int /\ granted' \in Int
  BY <1>1, Scalars, Zenon
<1>4. One(Holds(call[g])) \in 0..1 /\ One(granted > 0) \in 0..1
  BY DEF One
<1>5. CASE UNCHANGED <<Guest!stream, Guest!wrapper>>
  <2>1. UNCHANGED <<room, credit, handed, permit, pending>>
    BY <1>5, Zenon DEF Guest!stream, Guest!wrapper
  <2> QED BY <1>1, <1>2, <2>1, PlainStep, ZenonT(30)
<1>6. CASE Guest!Fails /\ pending' = TRUE /\ UNCHANGED permit
  <2>1. UNCHANGED <<room, credit, permit>> /\ pending' \in BOOLEAN
    BY <1>6, Zenon DEF Guest!Fails
  <2>2. CallShape'
    BY <1>1, <1>2, <2>1, ZenonT(30) DEF CallShape, Moved
  <2>3. Told' /\ Covered'
    BY <1>1, <2>1, Zenon DEF GuestInv, Told, Covered
  <2>4. NotLost'
    BY <1>6, Zenon DEF NotLost
  <2> QED BY <2>2, <2>3, <2>4, Zenon DEF GuestInv
<1>7. ASSUME NEW n \in 0..MaxPermit, permit = 0, Guest!Grants(n), permit' = Guest!KeptPermit(n),
             UNCHANGED pending
      PROVE  GuestInv'
  <2>1. /\ room' \in 0..MaxPermit /\ credit' \in Int /\ UNCHANGED handed
        /\ \/ credit' >= Guest!MaxCredit
           \/ credit' = credit + One(n > 0)
    BY <1>1, <1>7, GrantsTypes, Zenon
  <2>2. permit' = n
    BY <1>7, Zenon DEF Guest!KeptPermit
  <2>3. One(permit > 0) = 0 /\ One(permit' > 0) = One(n > 0) /\ One(n > 0) \in 0..1
    BY <1>7, <2>2, SMTT(30) DEF One
  <2>4. ASSUME credit' = credit + One(n > 0)
        PROVE  credit' + One(Holds(call[g])) + One(permit > 0) + One(granted > 0)
                 >= credit + One(Holds(call'[g])) + One(permit' > 0) + One(granted' > 0)
    BY <1>1, <1>2, <1>3, <1>4, <2>3, <2>4, SMTT(30)
  <2> QED BY <1>1, <1>2, <1>3, <1>7, <2>1, <2>2, <2>4, StreamStep, ZenonT(30)
<1> QED BY <1>5, <1>6, <1>7, Zenon DEF Guest!PollReady

LEMMA DrainKeeps == ASSUME MaxPermit \in Nat, GuestInv, Guest!Drain PROVE GuestInv'
<1>1. UNCHANGED <<credit, handed, permit, pending, granted, closed, told, call, wait, dropped>>
  BY Zenon DEF Guest!Drain, Guest!wrapper, Guest!host
<1>2. room' \in 0..MaxPermit
  BY DEF Guest!Drain
<1> QED BY <1>1, <1>2, Zenon DEF GuestInv, CallShape, Told, Covered, NotLost

LEMMA BreakKeeps == ASSUME GuestInv, Guest!Break PROVE GuestInv'
<1>1. UNCHANGED <<room, credit, handed, permit, pending, granted, closed, told, call, wait,
                  dropped>>
  BY Zenon DEF Guest!Break, Guest!wrapper, Guest!host
<1> QED BY <1>1, Zenon DEF GuestInv, CallShape, Told, Covered, NotLost

LEMMA PollWorkerKeeps ==
  ASSUME GuestInv, NEW w \in Workers,
         Guest!PollWait(w) \/ Guest!PollWakes(w) \/ Guest!PollRecords(w)
  PROVE  GuestInv'
<1>1. UNCHANGED <<room, credit, permit, granted, closed, told, call>>
  BY Zenon DEF Guest!PollWait, Guest!PollWakes, Guest!PollRecords, Guest!stream,
               Guest!wrapper, Guest!host, Guest!Fails
<1>2. PICK s \in {"idle", "waiting", "record"} : wait' = [wait EXCEPT ![w] = s]
  BY Zenon DEF Guest!PollWait, Guest!PollWakes, Guest!PollRecords
<1>3. pending' \in BOOLEAN
  BY Zenon DEF Guest!PollWait, Guest!PollWakes, Guest!PollRecords, Guest!wrapper,
               Guest!PendingAfterWait, GuestInv, CallShape
<1>4. wait' \in [Workers -> {"idle", "waiting", "record"}]
      /\ wait'[w] = s /\ \A u \in Workers : u # w => wait'[u] = wait[u]
  BY <1>2, Zenon DEF GuestInv, CallShape
<1>5. CallShape' /\ Told' /\ Covered'
  <2>1. dropped => dropped'
    BY Zenon DEF Guest!PollWait, Guest!PollWakes, Guest!PollRecords
  <2> QED BY <1>1, <1>3, <1>4, <2>1, Zenon DEF GuestInv, CallShape, Told, Covered
<1>6. NotLost'
  <2>1. CASE Guest!PollWait(w)
    <3>1. UNCHANGED <<handed, pending, dropped>> /\ wait[w] # "record"
      BY <2>1 DEF Guest!PollWait, Guest!stream, Guest!wrapper
    <3> QED BY <1>1, <1>4, <3>1, ZenonT(30) DEF GuestInv, NotLost
  <2>2. CASE Guest!PollWakes(w)
    <3>1. UNCHANGED pending /\ wait[w] # "record"
      BY <2>2 DEF Guest!PollWakes, Guest!wrapper
    <3>2. CASE UNCHANGED <<Guest!stream, dropped>>
      BY <1>1, <1>4, <3>1, <3>2, ZenonT(30) DEF GuestInv, NotLost, Guest!stream
    <3>3. CASE wait' = [wait EXCEPT ![w] = "record"]
      <4>1. wait'[w] = "record"
        BY <3>3, Zenon DEF GuestInv, CallShape
      <4> QED BY <4>1, Zenon DEF NotLost
    <3>4. CASE dropped' = TRUE
      BY <3>4, Zenon DEF NotLost
    <3> QED BY <2>2, <3>2, <3>3, <3>4, ZenonT(30) DEF Guest!PollWakes
  <2>3. CASE Guest!PollRecords(w)
    <3>1. pending' = TRUE
      BY <2>3, Zenon DEF Guest!PollRecords, Guest!PendingAfterWait
    <3> QED BY <3>1, Zenon DEF NotLost
  <2> QED BY <2>1, <2>2, <2>3, ZenonT(30)
<1> QED BY <1>5, <1>6, Zenon DEF GuestInv

LEMMA StartsCovered == ASSUME IsFiniteSet(Guests), MaxPermit \in Nat, Guest!Init PROVE GuestInv
<1>1. /\ call = [g \in Guests |-> Guest!Idle] /\ wait = [w \in Workers |-> "idle"]
      /\ room \in 0..MaxPermit /\ permit = 0 /\ pending = FALSE /\ granted = Guest!None
      /\ closed = FALSE /\ credit = 0 /\ told = 0 /\ handed = FALSE
  BY Zenon DEF Guest!Init
<1>2. \A g \in Guests : call[g] = Guest!Idle
  BY <1>1, Zenon
<1>3. call \in [Guests -> GuestCall] /\ \A g \in Guests : InOrder(call[g].todo)
  BY <1>1, <1>2, IdleCall, StartHoldsNothing, ZenonT(30)
<1>4. CallShape
  <2>1. granted \in Int /\ permit \in 0..MaxPermit /\ credit \in Int
    BY <1>1 DEF Guest!None
  <2> QED BY <1>1, <1>3, <2>1, Zenon DEF CallShape
<1>5. Covered
  <2>1. Holders(call) = {}
    <3>1. ~Holds(Guest!Idle)
      BY IdleCall, StartHoldsNothing, Zenon DEF Holds
    <3> QED BY <1>2, <3>1, Zenon DEF Holders
  <2>2. Cardinality(Holders(call)) = 0
    BY <2>1, FS_EmptySet, Zenon
  <2> QED BY <1>1, <2>2 DEF Covered, One, Guest!None
<1> QED BY <1>1, <1>4, <1>5, SMTT(30) DEF GuestInv, Told, NotLost

LEMMA GuestKeeps == ASSUME Guest!OutputAssumption, GuestInv, Guest!Next PROVE GuestInv'
<1>1. IsFiniteSet(Guests) /\ MaxPermit \in Nat /\ MaxLen \in Nat /\ Calls \subseteq Guest!Ops
  BY SameFiniteSets, Zenon DEF Guest!OutputAssumption
<1>2. ASSUME NEW g \in Guests, Guest!Step(g) PROVE GuestInv'
  BY <1>1, <1>2, ClosedKeeps, WaitKeeps, WaitErrorKeeps, ProbeKeeps, RecordKeeps, ChunkKeeps,
     RetryKeeps, SpliceReadKeeps, ConsumeKeeps, TryKeeps, RestKeeps, FlushKeeps, FailKeeps,
     ZenonT(30) DEF Guest!Step
<1>3. ASSUME NEW g \in Guests, NEW op \in Calls, NEW n \in Guest!Lengths(op),
             Guest!Begin(g, op, n)
      PROVE  GuestInv'
  BY <1>1, <1>3, BeginKeeps, Zenon
<1>4. ASSUME NEW g \in Guests, Guest!Canceled(g) \/ Guest!PollReady(g) PROVE GuestInv'
  BY <1>1, <1>4, CanceledKeeps, PollReadyKeeps, ZenonT(30)
<1> QED BY <1>1, <1>2, <1>3, <1>4, DrainKeeps, BreakKeeps, PollWorkerKeeps, ZenonT(30) DEF Guest!Next

LEMMA GuestStutters == ASSUME GuestInv, UNCHANGED Guest!vars PROVE GuestInv'
<1>1. UNCHANGED <<room, credit, handed, permit, pending, granted, closed, told, call, wait,
                  dropped>>
  BY Zenon DEF Guest!vars, Guest!stream, Guest!wrapper, Guest!host
<1> QED BY <1>1, Zenon DEF GuestInv, CallShape, Told, Covered, NotLost

-----------------------------------------------------------------------------
(* Results about the guest's side *)

\* The answers of CheckWrite in use are counted, and every error handed out by
\* the stream is on its way to the guest: of every behaviour of P2GuestOutput.
THEOREM GuestOutputInvariant ==
  ASSUME Guest!OutputAssumption PROVE Guest!Spec => []GuestInv
<1>1. Guest!Init => GuestInv
  BY StartsCovered, SameFiniteSets, Zenon DEF Guest!OutputAssumption
<1>2. GuestInv /\ [Guest!Next]_(Guest!vars) => GuestInv'
  BY GuestKeeps, GuestStutters, Zenon
<1> QED BY <1>1, <1>2, PTL DEF Guest!Spec

\* Every write reaches the stream on an answer of CheckWrite of its own, whoever
\* polls, writes or splices meanwhile (hostState.permits, pollSafeOutput).
THEOREM GrantsAreUsedOnce ==
  ASSUME Guest!OutputAssumption PROVE Guest!Spec => []Guest!GrantUsedOnce
<1>1. IsFiniteSet(Guests)
  BY SameFiniteSets, Zenon DEF Guest!OutputAssumption
<1>2. GuestInv => Guest!GrantUsedOnce
  <2> SUFFICES ASSUME GuestInv PROVE credit >= 0
    BY Zenon DEF Guest!GrantUsedOnce
  <2>1. Cardinality(Holders(call)) \in Nat /\ credit \in Int
    <3>1. Holders(call) \in SUBSET Guests
      BY Zenon DEF Holders
    <3> QED BY <1>1, <3>1, FS_Subset, FS_CardinalityType, Zenon DEF GuestInv, CallShape
  <2> QED BY <2>1 DEF GuestInv, Covered, One
<1> QED BY <1>2, GuestOutputInvariant, PTL

\* outputFailure tells the guest of one failure, and no error the stream handed
\* out is lost on the way, unless its caller's context was done.
THEOREM FailuresAreToldOnce ==
  ASSUME Guest!OutputAssumption PROVE Guest!Spec => []Guest!FailureToldOnce
<1>1. GuestInv => Guest!FailureToldOnce
  <2> SUFFICES ASSUME GuestInv PROVE Guest!FailureToldOnce
    OBVIOUS
  <2>1. told <= 1
    BY DEF GuestInv, Told
  <2>2. ASSUME NEW g \in Guests, Bears(call[g])
        PROVE  \/ Guest!At(g, "fail") \/ Guest!At(g, "error")
               \/ Guest!At(g, "record") /\ call[g].hand = Guest!None
    BY <2>2, Zenon DEF Bears, Guest!At
  <2> QED BY <2>1, <2>2, Zenon DEF GuestInv, NotLost, Guest!FailureToldOnce
<1> QED BY <1>1, GuestOutputInvariant, PTL
==============================================================================
