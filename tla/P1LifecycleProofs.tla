-------------------------- MODULE P1LifecycleProofs --------------------------
(***************************************************************************)
(* Machine-checked proofs about P1Lifecycle, for any number of instances,  *)
(* calling threads, states and files, and about P1Poll, for any number of  *)
(* subscriptions of a call.                                                *)
(***************************************************************************)
EXTENDS P1Lifecycle, WellFoundedInduction, TLAPS

-----------------------------------------------------------------------------
(* The inductive invariant *)

\* A state's lock and the call that holds it name each other.
LockInv ==
  /\ \A t \in Threads :
       pc[t] \in InHandler => mu[held[t]] = t /\ life[held[t]] = "live"
  /\ \A s \in States :
       mu[s] # NoThread => held[mu[s]] = s /\ pc[mu[s]] \in InHandler

\* State s has been made.
Made(s) == life[s] \in {"live", "closed"}

\* A call in progress works on a state that is made and bound to its own
\* instance.
CallInv ==
  \A t \in Threads :
    /\ pc[t] \in {"idle", "make"} => held[t] = NoState
    /\ pc[t] \notin {"idle", "make"} =>
         /\ held[t] \in States /\ Made(held[t])
         /\ ident[t] \in Identities /\ owner[held[t]] = ident[t]
         /\ args

\* What the guard refers to is made and bound to nobody else; the first state
\* is unbound until it is claimed.
GuardInv ==
  /\ \A i \in Identities :
       states[i] # NoState => owner[states[i]] = i /\ Made(states[i])
  /\ fs # NoState =>
       /\ Made(fs) /\ args
       /\ ~claimed => owner[fs] = NoIdentity
  /\ \A s \in States : ~Made(s) => owner[s] = NoIdentity
  /\ started \in {"args", "making"} => args

\* The phases of the provider: nothing before start, nothing in the guard once
\* closeAll has emptied it.
PhaseInv ==
  /\ started \in {"new", "args", "making"} => fs = NoState /\ spc = "idle"
  /\ spc # "idle" =>
       closed /\ fs = NoState /\ \A i \in Identities : states[i] = NoState
  /\ spc \in {"idle", "done"} => toClose = {}

\* What the closers hold is made, and canceled before it is waited for.
CloserInv ==
  /\ \A i \in Identities :
       /\ cpc[i] \in {"cancel", "lock"} => cst[i] \in States /\ Made(cst[i])
       /\ cpc[i] = "lock" => canceled[cst[i]]
  /\ \A s \in toClose : Made(s)
  /\ spc = "cancel" => \A s \in toClose : s \in toCancel \/ canceled[s]
  /\ spc = "close" => \A s \in toClose : canceled[s]

\* One makeFS at a time, start's or that of the call which holds guard.mu; its
\* state has no more files than it has preopens.
MakeInv ==
  /\ making # NoState =>
       /\ life[making] = "making" /\ files[making] <= Preopens /\ spc = "idle"
       /\ started = "making" \/ \E t \in Threads : pc[t] = "make"
  /\ \A s \in States : life[s] = "making" => s = making
  /\ hand => making # NoState /\ files[making] < Preopens
  /\ started = "making" => making # NoState
  /\ \A t \in Threads : pc[t] = "make" =>
       /\ making # NoState /\ fs # NoState
       /\ ident[t] \in Identities /\ states[ident[t]] = NoState
       /\ \A u \in Threads : pc[u] = "make" => u = t

\* Only states in use hold files, and somebody will close every live state.
FileInv ==
  \A s \in States :
    /\ life[s] \in {"free", "closed"} => files[s] = 0
    /\ life[s] = "live" => Reachable(s)

IInv ==
  /\ TypeOK
  /\ LockInv
  /\ CallInv
  /\ GuardInv
  /\ PhaseInv
  /\ CloserInv
  /\ MakeInv
  /\ FileInv

-----------------------------------------------------------------------------

\* The file counts that makeFS and closeFS store are within the bound.
LEMMA FileBounds == 0 \in 0..MaxFiles /\ Preopens \in 0..MaxFiles
<1>1. 0 <= MaxFiles /\ MaxFiles \in Int /\ Preopens \in Int /\ 0 <= Preopens
  BY LifecycleAssumption
<1> QED BY <1>1, LifecycleAssumption

\* The provider starts in a state that satisfies the invariant.
LEMMA InitIInv == Init => IInv
<1> SUFFICES ASSUME Init PROVE IInv
  BY Zenon
<1> USE LifecycleAssumption DEF Init
<1>1. TypeOK     BY FileBounds, Zenon DEF TypeOK
<1>2. LockInv    BY Zenon DEF LockInv, InHandler
<1>3. CallInv    BY Zenon DEF CallInv
<1>4. GuardInv   BY Zenon DEF GuardInv, Made
<1>5. PhaseInv   BY Zenon DEF PhaseInv
<1>6. CloserInv  BY Zenon DEF CloserInv
<1>8. MakeInv    BY Zenon DEF MakeInv
<1>7. FileInv    BY Zenon DEF FileInv
<1> QED BY <1>1, <1>2, <1>3, <1>4, <1>5, <1>6, <1>7, <1>8, Zenon DEF IInv

\* Start publishes the arguments or fails.
LEMMA StartArgsPreserves ==
  ASSUME IInv, StartArgs
  PROVE  IInv'
<1> USE LifecycleAssumption DEF IInv, Made, StartArgs,
      startVars, guardVars, stateVars, threadVars, closerVars, stopVars
<1>1. TypeOK'
  BY FileBounds, Zenon DEF TypeOK, InHandler
<1>2. CallInv'
  BY Zenon DEF TypeOK, CallInv, GuardInv
<1>3. GuardInv'
  BY Zenon DEF TypeOK, GuardInv, PhaseInv
<1>4. PhaseInv'
  BY Zenon DEF TypeOK, PhaseInv
<1>5. (LockInv /\ CloserInv /\ FileInv)'
  BY DEF LockInv, CloserInv, FileInv, InHandler, Reachable
<1>6. MakeInv'
  BY DEF TypeOK, MakeInv, CallInv, GuardInv, LockInv, CloserInv, PhaseInv,
         InHandler, GuardFree
<1> QED BY <1>1, <1>2, <1>3, <1>4, <1>5, <1>6, Zenon DEF IInv

\* makeFS begins with a state that nobody refers to.
LEMMA MakeFSBegins ==
  ASSUME IInv, NEW s \in States, MakeFS(s)
  PROVE  /\ life' \in [States -> {"free", "making", "live", "closed"}]
         /\ making' = s /\ life'[s] = "making"
         /\ \A r \in States : r # s => life'[r] = life[r]
         /\ life[s] = "free" /\ files' = files /\ files[s] = 0
         /\ canceled' = canceled /\ hand' = hand
<1>1. life' = [life EXCEPT ![s] = "making"] /\ TypeOK
  BY Zenon DEF MakeFS, IInv
<1> QED BY <1>1, Zenon DEF MakeFS, TypeOK, IInv, FileInv

\* Start begins to make the provider's first state.
LEMMA StartFSPreserves ==
  ASSUME IInv, StartFS
  PROVE  IInv'
<1>1. PICK s \in States : MakeFS(s)
  BY Zenon DEF StartFS
<1>2. /\ life' \in [States -> {"free", "making", "live", "closed"}]
      /\ making' = s /\ life'[s] = "making"
      /\ \A r \in States : r # s => life'[r] = life[r]
      /\ life[s] = "free" /\ files' = files /\ files[s] = 0
      /\ canceled' = canceled /\ hand' = hand
  BY <1>1, MakeFSBegins, Zenon
<1>3. making = NoState
  BY Zenon DEF IInv, MakeInv, PhaseInv, StartFS
<1> USE LifecycleAssumption DEF IInv, Made, StartFS,
      startVars, guardVars, stateVars, threadVars, closerVars, stopVars
<1>4. TypeOK'
  BY <1>2, Zenon DEF TypeOK
<1>5. LockInv'
  BY <1>2 DEF TypeOK, LockInv, CallInv, InHandler
<1>6. CallInv'
  BY <1>2 DEF TypeOK, CallInv
<1>7. GuardInv'
  BY <1>2 DEF TypeOK, GuardInv
<1>8. PhaseInv'
  BY Zenon DEF PhaseInv
<1>9. CloserInv'
  BY <1>2 DEF TypeOK, CloserInv
<1>10. MakeInv'
  <2>1. s # NoState /\ files[s] <= Preopens
    BY <1>2
  <2>2. \A t \in Threads : pc[t] # "make"
    BY <1>3, Zenon DEF MakeInv
  <2> QED BY <1>2, <1>3, <2>1, <2>2, Zenon DEF MakeInv, PhaseInv
<1>11. FileInv'
  BY <1>2, <1>3 DEF TypeOK, FileInv, Reachable
<1> QED BY <1>4, <1>5, <1>6, <1>7, <1>8, <1>9, <1>10, <1>11, Zenon DEF IInv

\* A call finds its instance's state.
LEMMA EnterKnownPreserves ==
  ASSUME IInv, NEW t \in Threads, NEW i \in Identities, EnterKnown(t, i)
  PROVE  IInv'
<1> USE LifecycleAssumption DEF IInv, Made, EnterKnown, Chosen,
      startVars, guardVars, stateVars, threadVars, closerVars, stopVars
<1>1. TypeOK'
  BY FileBounds, Zenon DEF TypeOK, InHandler
<1>2. LockInv'
  BY DEF TypeOK, LockInv, CallInv, InHandler
<1>3. CallInv'
  BY DEF TypeOK, CallInv, GuardInv
<1>4. (GuardInv /\ PhaseInv /\ CloserInv /\ FileInv)'
  BY DEF GuardInv, PhaseInv, CloserInv, FileInv, Reachable
<1>5. MakeInv'
  BY DEF TypeOK, MakeInv, CallInv, GuardInv, LockInv, CloserInv, PhaseInv,
         InHandler, GuardFree
<1> QED BY <1>1, <1>2, <1>3, <1>4, <1>5, Zenon DEF IInv

\* A call claims the provider's first state.
LEMMA EnterClaimPreserves ==
  ASSUME IInv, NEW t \in Threads, NEW i \in Identities, EnterClaim(t, i)
  PROVE  IInv'
<1> USE LifecycleAssumption DEF IInv, Made, EnterClaim, Chosen,
      startVars, guardVars, stateVars, threadVars, closerVars, stopVars
<1>1. TypeOK'
  BY FileBounds, Zenon DEF TypeOK, InHandler
<1>2. LockInv'
  BY DEF TypeOK, LockInv, CallInv, InHandler
<1>3. CallInv'
  BY DEF TypeOK, CallInv, GuardInv
<1>4. GuardInv'
  BY DEF TypeOK, GuardInv, PhaseInv
<1>5. PhaseInv'
  BY Zenon DEF TypeOK, PhaseInv
<1>6. FileInv'
  BY DEF TypeOK, FileInv, Reachable, GuardInv, PhaseInv, CloserInv
<1>7. CloserInv'
  BY Zenon DEF CloserInv
<1>8. MakeInv'
  BY DEF TypeOK, MakeInv, CallInv, GuardInv, LockInv, CloserInv, PhaseInv,
         InHandler, GuardFree
<1> QED BY <1>1, <1>2, <1>3, <1>4, <1>5, <1>6, <1>7, <1>8, Zenon DEF IInv

\* A call begins to make a state for a new instance.
LEMMA EnterNewPreserves ==
  ASSUME IInv, NEW t \in Threads, NEW i \in Identities, NEW s \in States, EnterNew(t, i, s)
  PROVE  IInv'
<1>1. MakeFS(s)
  BY Zenon DEF EnterNew
<1>2. /\ life' \in [States -> {"free", "making", "live", "closed"}]
      /\ making' = s /\ life'[s] = "making"
      /\ \A r \in States : r # s => life'[r] = life[r]
      /\ life[s] = "free" /\ files' = files /\ files[s] = 0
      /\ canceled' = canceled /\ hand' = hand
  BY <1>1, MakeFSBegins, Zenon
<1>3. making = NoState
  BY Zenon DEF IInv, MakeInv, PhaseInv, EnterNew, GuardFree
<1>4. /\ pc' = [pc EXCEPT ![t] = "make"] /\ ident' = [ident EXCEPT ![t] = i]
      /\ pc[t] = "idle"
  BY Zenon DEF EnterNew
<1>5. TypeOK
  BY Zenon DEF IInv
<1>6. /\ pc' \in [Threads -> {"idle", "make", "lock"} \cup InHandler]
      /\ ident' \in [Threads -> Identities \cup {NoIdentity}]
      /\ pc'[t] = "make" /\ ident'[t] = i
      /\ \A u \in Threads : u # t => pc'[u] = pc[u] /\ ident'[u] = ident[u]
  BY <1>4, <1>5, Zenon DEF TypeOK
<1> USE LifecycleAssumption DEF IInv, Made, EnterNew,
      startVars, guardVars, stateVars, threadVars, closerVars, stopVars
<1>7. TypeOK'
  BY <1>2, <1>6, Zenon DEF TypeOK
<1>8. LockInv'
  BY <1>2, <1>4, <1>6 DEF TypeOK, LockInv, CallInv, InHandler
<1>9. CallInv'
  BY <1>2, <1>4, <1>6 DEF TypeOK, CallInv
<1>10. GuardInv'
  BY <1>2 DEF TypeOK, GuardInv
<1>11. PhaseInv'
  BY Zenon DEF PhaseInv
<1>12. CloserInv'
  BY <1>2 DEF TypeOK, CloserInv
<1>13. MakeInv'
  <2>1. s # NoState /\ files[s] <= Preopens
    BY <1>2
  <2>2. \A u \in Threads : pc[u] # "make"
    BY Zenon DEF GuardFree
  <2>3. spc = "idle" /\ started # "making"
    BY Zenon DEF PhaseInv
  <2> QED BY <1>2, <1>3, <1>6, <2>1, <2>2, <2>3, Zenon DEF MakeInv
<1>14. FileInv'
  BY <1>2, <1>3 DEF TypeOK, FileInv, Reachable
<1> QED BY <1>7, <1>8, <1>9, <1>10, <1>11, <1>12, <1>13, <1>14, Zenon DEF IInv

\* makeFS opens a preopen.
LEMMA OpenPreopenPreserves ==
  ASSUME IInv, OpenPreopen
  PROVE  IInv'
<1> USE LifecycleAssumption DEF IInv, Made, OpenPreopen,
      startVars, guardVars, stateVars, threadVars, closerVars, stopVars
<1>1. TypeOK'
  BY Zenon DEF TypeOK
<1>2. MakeInv'
  BY Zenon DEF MakeInv
<1>3. (LockInv /\ CallInv /\ GuardInv /\ PhaseInv /\ CloserInv /\ FileInv)'
  BY DEF LockInv, CallInv, GuardInv, PhaseInv, CloserInv, FileInv, Reachable
<1> QED BY <1>1, <1>2, <1>3, Zenon DEF IInv

\* The preopen becomes an entry of the table.
LEMMA StorePreopenPreserves ==
  ASSUME IInv, StorePreopen
  PROVE  IInv'
<1>1. making \in States /\ life[making] = "making" /\ files[making] < Preopens
  BY Zenon DEF IInv, TypeOK, MakeInv, StorePreopen
<1>2. files' = [files EXCEPT ![making] = files[making] + 1] /\ TypeOK
  BY Zenon DEF StorePreopen, IInv
<1>3. files[making] + 1 \in 0..MaxFiles /\ files[making] + 1 <= Preopens
  BY <1>1, <1>2, LifecycleAssumption DEF TypeOK
<1>4. /\ files' \in [States -> 0..MaxFiles]
      /\ files'[making] <= Preopens
      /\ \A s \in States : s # making => files'[s] = files[s]
  BY <1>1, <1>2, <1>3, Zenon DEF TypeOK
<1>5. TypeOK'
  <2>1. /\ UNCHANGED <<started, args, making, life, canceled, mu, owner>>
        /\ UNCHANGED <<guardVars, threadVars, closerVars, stopVars>>
        /\ hand' = FALSE
    BY Zenon DEF StorePreopen
  <2>2. /\ started' \in {"new", "args", "making", "up", "failed"}
        /\ args' \in BOOLEAN /\ hand' \in BOOLEAN
        /\ life' \in [States -> {"free", "making", "live", "closed"}]
        /\ canceled' \in [States -> BOOLEAN]
        /\ making' \in States \cup {NoState}
        /\ mu' \in [States -> Threads \cup {NoThread}]
        /\ owner' \in [States -> Identities \cup {NoIdentity}]
    BY <1>2, <2>1, Zenon DEF TypeOK
  <2>3. /\ fs' \in States \cup {NoState}
        /\ states' \in [Identities -> States \cup {NoState}]
        /\ claimed' \in BOOLEAN /\ closed' \in BOOLEAN
    BY <1>2, <2>1, Zenon DEF TypeOK, guardVars
  <2> QED BY <1>2, <1>4, <2>1, <2>2, <2>3, Zenon
          DEF TypeOK, threadVars, closerVars, stopVars
<1> USE LifecycleAssumption DEF IInv, Made, StorePreopen,
      startVars, guardVars, stateVars, threadVars, closerVars, stopVars
<1>6. MakeInv'
  BY <1>4, Zenon DEF MakeInv
<1>7. FileInv'
  BY <1>1, <1>4 DEF FileInv, Reachable
<1>8. (LockInv /\ CallInv /\ GuardInv /\ PhaseInv /\ CloserInv)'
  BY Zenon DEF LockInv, CallInv, GuardInv, PhaseInv, CloserInv
<1> QED BY <1>5, <1>6, <1>7, <1>8, Zenon DEF IInv

\* makeFS fails: its state is closed with the files that it had.
LEMMA MakeFSFailsPreserves ==
  ASSUME IInv, MakeFSFails
  PROVE  IInv'
<1>1. making \in States /\ life[making] = "making" /\ TypeOK
  BY Zenon DEF IInv, TypeOK, MakeInv, MakeFSFails
<1>2. /\ life' = [life EXCEPT ![making] = "closed"]
      /\ canceled' = [canceled EXCEPT ![making] = TRUE]
      /\ files' = [files EXCEPT ![making] = 0]
      /\ making' = NoState /\ hand' = FALSE
  BY Zenon DEF MakeFSFails, CloseFS
<1>3. /\ life' \in [States -> {"free", "making", "live", "closed"}]
      /\ canceled' \in [States -> BOOLEAN]
      /\ files' \in [States -> 0..MaxFiles]
      /\ life'[making] = "closed" /\ files'[making] = 0
      /\ \A s \in States : s # making =>
           life'[s] = life[s] /\ files'[s] = files[s]
      /\ \A s \in States : canceled[s] => canceled'[s]
  BY <1>1, <1>2, FileBounds, Zenon DEF TypeOK
<1>4. \A s \in States : life[s] # "making" => life'[s] = life[s]
  BY <1>1, <1>3, Zenon
<1>5. /\ started' \in {"new", "args", "up", "failed"}
      /\ started' \in {"new", "args"} => started' = started
      /\ pc' \in [Threads -> {"idle", "make", "lock"} \cup InHandler]
      /\ ident' \in [Threads -> Identities \cup {NoIdentity}]
      /\ held' \in [Threads -> States \cup {NoState}]
      /\ \A t \in Threads :
           /\ pc'[t] # "make"
           /\ \/ pc[t] = "make" /\ pc'[t] = "idle" /\ held'[t] = NoState
              \/ pc'[t] = pc[t] /\ ident'[t] = ident[t] /\ held'[t] = held[t]
  <2>1. CASE started = "making" /\ started' = "failed" /\ UNCHANGED threadVars
    <3>1. \A t \in Threads : pc[t] # "make"
      BY <2>1, Zenon DEF IInv, MakeInv, PhaseInv
    <3> QED BY <1>1, <2>1, <3>1, Zenon DEF TypeOK, threadVars
  <2>2. CASE UNCHANGED started /\ \E t \in Threads : pc[t] = "make" /\ Leave(t)
    <3>1. PICK t \in Threads : pc[t] = "make" /\ Leave(t)
      BY <2>2, Zenon
    <3>2. /\ pc' = [pc EXCEPT ![t] = "idle"]
          /\ ident' = [ident EXCEPT ![t] = NoIdentity]
          /\ held' = [held EXCEPT ![t] = NoState]
      BY <3>1, Zenon DEF Leave
    <3>3. started # "making" /\ \A u \in Threads : pc[u] = "make" => u = t
      BY <3>1, Zenon DEF IInv, MakeInv, PhaseInv
    <3> QED BY <1>1, <2>2, <3>1, <3>2, <3>3, Zenon DEF TypeOK
  <2> QED BY <2>1, <2>2, Zenon DEF MakeFSFails, MakerFails
<1>6. UNCHANGED <<args, guardVars, mu, owner, closerVars, stopVars>>
  BY Zenon DEF MakeFSFails
<1> USE LifecycleAssumption DEF guardVars, closerVars, stopVars
<1>7. TypeOK'
  BY <1>1, <1>2, <1>3, <1>5, <1>6, Zenon DEF TypeOK
<1>8. LockInv'
  BY <1>1, <1>4, <1>5, <1>6 DEF IInv, TypeOK, LockInv, CallInv, InHandler
<1>9. CallInv'
  BY <1>1, <1>4, <1>5, <1>6 DEF IInv, TypeOK, CallInv, Made
<1>10. GuardInv'
  BY <1>1, <1>3, <1>4, <1>5, <1>6 DEF IInv, TypeOK, GuardInv, Made
<1>11. PhaseInv'
  BY <1>5, <1>6, Zenon DEF IInv, PhaseInv
<1>12. CloserInv'
  BY <1>1, <1>3, <1>4, <1>6 DEF IInv, TypeOK, CloserInv, Made
<1>13. MakeInv'
  BY <1>2, <1>3, <1>5, Zenon DEF IInv, MakeInv
<1>14. FileInv'
  BY <1>1, <1>3, <1>6 DEF IInv, TypeOK, FileInv, Reachable
<1> QED BY <1>7, <1>8, <1>9, <1>10, <1>11, <1>12, <1>13, <1>14, Zenon DEF IInv

\* What makeFS has made is stored, for start or for the call's instance.
LEMMA MakeFSDonePreserves ==
  ASSUME IInv, MakeFSDone
  PROVE  IInv'
<1>1. /\ making \in States /\ life[making] = "making" /\ TypeOK
      /\ owner[making] = NoIdentity
  BY Zenon DEF IInv, TypeOK, MakeInv, MakeFSDone, GuardInv, Made
<1>2. life' = [life EXCEPT ![making] = "live"] /\ making' = NoState
  BY Zenon DEF MakeFSDone
<1>3. /\ life' \in [States -> {"free", "making", "live", "closed"}]
      /\ life'[making] = "live"
      /\ \A s \in States : s # making => life'[s] = life[s]
  BY <1>1, <1>2, Zenon DEF TypeOK
<1>4. \A s \in States : life[s] # "making" => life'[s] = life[s]
  BY <1>1, <1>3, Zenon
<1>5. /\ UNCHANGED <<args, canceled, files, hand, mu, closerVars, stopVars>>
      /\ ~hand /\ spc = "idle"
  BY Zenon DEF MakeFSDone, IInv, MakeInv
<1> USE LifecycleAssumption DEF closerVars, stopVars
<1>6. CASE /\ started = "making" /\ started' = "up"
           /\ fs' = making /\ closed' = FALSE /\ claimed' = FALSE
           /\ UNCHANGED <<states, owner, threadVars>>
  <2> USE <1>6 DEF threadVars
  <2>1. TypeOK'
    BY <1>1, <1>2, <1>3, <1>5, Zenon DEF TypeOK
  <2>2. LockInv' /\ CallInv'
    BY <1>1, <1>4, <1>5 DEF IInv, TypeOK, LockInv, CallInv, InHandler, Made
  <2>3. GuardInv'
    BY <1>1, <1>3, <1>4, <1>5 DEF IInv, TypeOK, GuardInv, Made
  <2>4. PhaseInv'
    BY <1>5, Zenon DEF IInv, PhaseInv
  <2>5. CloserInv'
    BY <1>1, <1>3, <1>4, <1>5 DEF IInv, TypeOK, CloserInv, Made
  <2>6. MakeInv'
    <3>1. \A t \in Threads : pc[t] # "make"
      BY Zenon DEF IInv, MakeInv, PhaseInv
    <3> QED BY <1>2, <1>3, <1>5, <3>1, Zenon DEF IInv, MakeInv
  <2>7. FileInv'
    <3>1. fs = NoState
      BY Zenon DEF IInv, PhaseInv
    <3> QED BY <1>1, <1>2, <1>3, <1>5, <3>1 DEF IInv, TypeOK, FileInv, Reachable
  <2> QED BY <2>1, <2>2, <2>3, <2>4, <2>5, <2>6, <2>7, Zenon DEF IInv
<1>7. ASSUME NEW t \in Threads, pc[t] = "make", Chosen(t, ident[t], making),
             states' = [states EXCEPT ![ident[t]] = making],
             owner' = [owner EXCEPT ![making] = ident[t]],
             UNCHANGED <<started, fs, closed, claimed>>
      PROVE  IInv'
  <2>1. /\ ident[t] \in Identities /\ states[ident[t]] = NoState /\ fs # NoState
        /\ \A u \in Threads : pc[u] = "make" => u = t
    BY <1>7, Zenon DEF IInv, MakeInv
  <2>2. /\ pc' = [pc EXCEPT ![t] = "lock"]
        /\ ident' = [ident EXCEPT ![t] = ident[t]]
        /\ held' = [held EXCEPT ![t] = making]
    BY <1>7, Zenon DEF Chosen
  <2>3. /\ pc' \in [Threads -> {"idle", "make", "lock"} \cup InHandler]
        /\ ident' = ident
        /\ held' \in [Threads -> States \cup {NoState}]
        /\ pc'[t] = "lock" /\ held'[t] = making
        /\ \A u \in Threads : u # t => pc'[u] = pc[u] /\ held'[u] = held[u]
    BY <1>1, <2>2, Zenon DEF TypeOK
  <2>4. /\ states' \in [Identities -> States \cup {NoState}]
        /\ owner' \in [States -> Identities \cup {NoIdentity}]
        /\ states'[ident[t]] = making /\ owner'[making] = ident[t]
        /\ \A i \in Identities : i # ident[t] => states'[i] = states[i]
        /\ \A s \in States : s # making => owner'[s] = owner[s]
    BY <1>1, <1>7, <2>1, Zenon DEF TypeOK
  <2>5. args /\ started # "making"
    BY <2>1, Zenon DEF IInv, GuardInv, PhaseInv
  <2>6. TypeOK'
    BY <1>1, <1>2, <1>3, <1>5, <1>7, <2>3, <2>4, Zenon DEF TypeOK
  <2>7. LockInv'
    BY <1>1, <1>4, <1>5, <1>7, <2>3 DEF IInv, TypeOK, LockInv, CallInv, Made, InHandler
  <2>8. CallInv'
    BY <1>1, <1>3, <1>4, <1>5, <1>7, <2>1, <2>3, <2>4, <2>5 DEF IInv, TypeOK, CallInv, Made
  <2>9. GuardInv'
    BY <1>1, <1>3, <1>4, <1>5, <1>7, <2>1, <2>4, <2>5 DEF IInv, TypeOK, GuardInv, Made
  <2>10. PhaseInv'
    BY <1>5, <1>7, <2>5, Zenon DEF IInv, PhaseInv
  <2>11. CloserInv'
    BY <1>1, <1>3, <1>4, <1>5 DEF IInv, TypeOK, CloserInv, Made
  <2>12. MakeInv'
    <3>1. \A u \in Threads : pc'[u] # "make"
      BY <2>1, <2>3, Zenon
    <3>2. \A s \in States : life'[s] # "making"
      BY <1>3, Zenon DEF IInv, MakeInv
    <3>3. making' = NoState /\ ~hand' /\ started' # "making"
      BY <1>2, <1>5, <1>7, <2>5, Zenon
    <3> QED BY <3>1, <3>2, <3>3, Zenon DEF MakeInv
  <2>13. FileInv'
    BY <1>1, <1>2, <1>3, <1>5, <1>7, <2>1, <2>4 DEF IInv, TypeOK, FileInv, Reachable
  <2> QED BY <2>6, <2>7, <2>8, <2>9, <2>10, <2>11, <2>12, <2>13, Zenon DEF IInv
<1> QED BY <1>6, <1>7, Zenon DEF MakeFSDone

\* A call takes its state's lock, or finds the state closed.
LEMMA LockStatePreserves ==
  ASSUME IInv, NEW t \in Threads, LockState(t)
  PROVE  IInv'
<1> USE LifecycleAssumption DEF IInv, Made, LockState, Leave,
      startVars, guardVars, stateVars, threadVars, closerVars, stopVars
<1>1. TypeOK'
  BY FileBounds DEF TypeOK, InHandler
<1>2. LockInv'
  BY DEF TypeOK, LockInv, CallInv, InHandler
<1>3. CallInv'
  BY DEF TypeOK, CallInv, GuardInv
<1>4. (GuardInv /\ PhaseInv /\ CloserInv /\ FileInv)'
  BY DEF GuardInv, PhaseInv, CloserInv, FileInv, Reachable
<1>5. MakeInv'
  BY DEF TypeOK, MakeInv, CallInv, GuardInv, LockInv, CloserInv, PhaseInv,
         InHandler, GuardFree
<1> QED BY <1>1, <1>2, <1>3, <1>4, <1>5, Zenon DEF IInv

\* A handler returns.
LEMMA HandlerReturnsPreserves ==
  ASSUME IInv, NEW t \in Threads, HandlerReturns(t)
  PROVE  IInv'
<1> USE LifecycleAssumption DEF IInv, Made, HandlerReturns, Unlock, Leave,
      startVars, guardVars, stateVars, threadVars, closerVars, stopVars
<1>1. TypeOK'
  <2>1. files' \in [States -> 0..MaxFiles]
    BY FileBounds, ZenonT(30) DEF TypeOK
  <2> QED BY <2>1, ZenonT(30) DEF TypeOK, InHandler
<1>2. LockInv'
  BY DEF TypeOK, LockInv, CallInv, InHandler
<1>3. CallInv'
  BY DEF TypeOK, CallInv, GuardInv
<1>4. FileInv'
  BY DEF TypeOK, FileInv, Reachable, LockInv, CallInv, InHandler
<1>5. (GuardInv /\ PhaseInv /\ CloserInv)'
  BY Zenon DEF GuardInv, PhaseInv, CloserInv
<1>6. MakeInv'
  BY DEF TypeOK, MakeInv, CallInv, GuardInv, LockInv, CloserInv, PhaseInv,
         InHandler, GuardFree
<1> QED BY <1>1, <1>2, <1>3, <1>4, <1>5, <1>6, Zenon DEF IInv

\* A handler blocks.
LEMMA HandlerBlocksPreserves ==
  ASSUME IInv, NEW t \in Threads, HandlerBlocks(t)
  PROVE  IInv'
<1> USE LifecycleAssumption DEF IInv, Made, HandlerBlocks,
      startVars, guardVars, stateVars, threadVars, closerVars, stopVars
<1>1. TypeOK'
  BY FileBounds DEF TypeOK, InHandler
<1>2. LockInv'
  BY DEF TypeOK, LockInv, CallInv, InHandler
<1>3. CallInv'
  BY DEF TypeOK, CallInv, GuardInv
<1>4. (GuardInv /\ PhaseInv /\ CloserInv /\ FileInv)'
  BY DEF GuardInv, PhaseInv, CloserInv, FileInv, Reachable
<1>5. MakeInv'
  BY DEF TypeOK, MakeInv, CallInv, GuardInv, LockInv, CloserInv, PhaseInv,
         InHandler, GuardFree
<1> QED BY <1>1, <1>2, <1>3, <1>4, <1>5, Zenon DEF IInv

\* A blocked handler returns.
LEMMA HandlerWakesPreserves ==
  ASSUME IInv, NEW t \in Threads, HandlerWakes(t)
  PROVE  IInv'
<1> USE LifecycleAssumption DEF IInv, Made, HandlerWakes, Unlock, Leave,
      startVars, guardVars, stateVars, threadVars, closerVars, stopVars
<1>1. TypeOK'
  <2>1. TypeOK /\ held[t] \in States
    BY Zenon DEF CallInv
  <2>2. /\ mu' = [mu EXCEPT ![held[t]] = NoThread]
        /\ pc' = [pc EXCEPT ![t] = "idle"]
        /\ ident' = [ident EXCEPT ![t] = NoIdentity]
        /\ held' = [held EXCEPT ![t] = NoState]
    BY Zenon
  <2>3. /\ mu' \in [States -> Threads \cup {NoThread}]
        /\ pc' \in [Threads -> {"idle", "make", "lock"} \cup InHandler]
        /\ ident' \in [Threads -> Identities \cup {NoIdentity}]
        /\ held' \in [Threads -> States \cup {NoState}]
    BY <2>1, <2>2, Zenon DEF TypeOK
  <2> QED BY <2>1, <2>3, ZenonT(30) DEF TypeOK
<1>2. LockInv'
  BY DEF TypeOK, LockInv, CallInv, InHandler
<1>3. CallInv'
  BY DEF TypeOK, CallInv, GuardInv
<1>4. (GuardInv /\ PhaseInv /\ CloserInv /\ FileInv)'
  BY DEF GuardInv, PhaseInv, CloserInv, FileInv, Reachable
<1>5. MakeInv'
  BY DEF TypeOK, MakeInv, CallInv, GuardInv, LockInv, CloserInv, PhaseInv,
         InHandler, GuardFree
<1> QED BY <1>1, <1>2, <1>3, <1>4, <1>5, Zenon DEF IInv

\* A canceled poll returns.
LEMMA PollInterruptedPreserves ==
  ASSUME IInv, NEW t \in Threads, PollInterrupted(t)
  PROVE  IInv'
<1> USE LifecycleAssumption DEF IInv, Made, PollInterrupted, Unlock, Leave,
      startVars, guardVars, stateVars, threadVars, closerVars, stopVars
<1>1. TypeOK'
  BY FileBounds, ZenonT(30) DEF TypeOK, InHandler
<1>2. LockInv'
  BY DEF TypeOK, LockInv, CallInv, InHandler
<1>3. CallInv'
  BY DEF TypeOK, CallInv, GuardInv
<1>4. (GuardInv /\ PhaseInv /\ CloserInv /\ FileInv)'
  BY DEF GuardInv, PhaseInv, CloserInv, FileInv, Reachable
<1>5. MakeInv'
  BY DEF TypeOK, MakeInv, CallInv, GuardInv, LockInv, CloserInv, PhaseInv,
         InHandler, GuardFree
<1> QED BY <1>1, <1>2, <1>3, <1>4, <1>5, Zenon DEF IInv

\* closeInstance takes the state out of the map.
LEMMA CloseInstancePreserves ==
  ASSUME IInv, NEW i \in Identities, CloseInstance(i)
  PROVE  IInv'
<1> USE LifecycleAssumption DEF IInv, Made, CloseInstance,
      startVars, guardVars, stateVars, threadVars, closerVars, stopVars
<1>1. TypeOK'
  BY FileBounds, ZenonT(30) DEF TypeOK, InHandler
<1>2. GuardInv'
  BY Zenon DEF TypeOK, GuardInv, PhaseInv
<1>3. PhaseInv'
  BY Zenon DEF TypeOK, PhaseInv
<1>4. CloserInv'
  BY DEF TypeOK, CloserInv, GuardInv, PhaseInv
<1>5. FileInv'
  BY DEF TypeOK, FileInv, Reachable, GuardInv, PhaseInv, CloserInv
<1>6. (LockInv /\ CallInv)'
  BY Zenon DEF LockInv, CallInv, InHandler
<1>7. MakeInv'
  BY DEF TypeOK, MakeInv, CallInv, GuardInv, LockInv, CloserInv, PhaseInv,
         InHandler, GuardFree
<1> QED BY <1>1, <1>2, <1>3, <1>4, <1>5, <1>6, <1>7, Zenon DEF IInv

\* closeInstance cancels the state's polls.
LEMMA CloseInstanceCancelPreserves ==
  ASSUME IInv, NEW i \in Identities, CloseInstanceCancel(i)
  PROVE  IInv'
<1> USE LifecycleAssumption DEF IInv, Made, CloseInstanceCancel, CancelPoll,
      startVars, guardVars, stateVars, threadVars, closerVars, stopVars
<1>1. TypeOK'
  BY FileBounds, ZenonT(30) DEF TypeOK, InHandler
<1>2. CloserInv'
  BY DEF TypeOK, CloserInv, GuardInv, PhaseInv
<1>3. FileInv'
  BY DEF TypeOK, FileInv, Reachable, GuardInv, PhaseInv, CloserInv
<1>4. (LockInv /\ CallInv /\ GuardInv /\ PhaseInv)'
  BY Zenon DEF LockInv, CallInv, GuardInv, PhaseInv, InHandler
<1>5. MakeInv'
  BY DEF TypeOK, MakeInv, CallInv, GuardInv, LockInv, CloserInv, PhaseInv,
         InHandler, GuardFree
<1> QED BY <1>1, <1>2, <1>3, <1>4, <1>5, Zenon DEF IInv

\* closeInstance closes the state.
LEMMA CloseInstanceFinishPreserves ==
  ASSUME IInv, NEW i \in Identities, CloseInstanceFinish(i)
  PROVE  IInv'
<1> USE LifecycleAssumption DEF IInv, Made, CloseInstanceFinish, CloseFS,
      startVars, guardVars, stateVars, threadVars, closerVars, stopVars
<1>1. TypeOK'
  BY FileBounds, ZenonT(30) DEF TypeOK, InHandler
<1>2. LockInv'
  BY DEF TypeOK, LockInv, CallInv, InHandler
<1>3. CallInv'
  BY Zenon DEF TypeOK, CallInv, GuardInv
<1>4. GuardInv'
  BY DEF TypeOK, GuardInv, PhaseInv
<1>5. CloserInv'
  BY DEF TypeOK, CloserInv, GuardInv, PhaseInv
<1>6. FileInv'
  BY DEF TypeOK, FileInv, Reachable, GuardInv, PhaseInv, CloserInv
<1>7. PhaseInv'
  BY Zenon DEF PhaseInv
<1>8. MakeInv'
  BY DEF TypeOK, MakeInv, CallInv, GuardInv, LockInv, CloserInv, PhaseInv,
         InHandler, GuardFree
<1> QED BY <1>1, <1>2, <1>3, <1>4, <1>5, <1>6, <1>7, <1>8, Zenon DEF IInv

\* closeAll takes every state out of the guard.
LEMMA CloseAllPreserves ==
  ASSUME IInv, CloseAll
  PROVE  IInv'
<1> USE LifecycleAssumption DEF IInv, Made, CloseAll,
      startVars, guardVars, stateVars, threadVars, closerVars, stopVars
<1>1. TypeOK'
  BY FileBounds DEF TypeOK, InHandler
<1>2. GuardInv'
  BY Zenon DEF TypeOK, GuardInv, PhaseInv
<1>3. PhaseInv'
  BY Zenon DEF TypeOK, PhaseInv
<1>4. CloserInv'
  BY DEF TypeOK, CloserInv, GuardInv, PhaseInv
<1>5. FileInv'
  BY DEF TypeOK, FileInv, Reachable, GuardInv, PhaseInv, CloserInv
<1>6. (LockInv /\ CallInv)'
  BY Zenon DEF LockInv, CallInv, InHandler
<1>7. MakeInv'
  BY DEF TypeOK, MakeInv, CallInv, GuardInv, LockInv, CloserInv, PhaseInv,
         InHandler, GuardFree
<1> QED BY <1>1, <1>2, <1>3, <1>4, <1>5, <1>6, <1>7, Zenon DEF IInv

\* closeAll cancels one state.
LEMMA CloseAllCancelPreserves ==
  ASSUME IInv, NEW s \in States, CloseAllCancel(s)
  PROVE  IInv'
<1> USE LifecycleAssumption DEF IInv, Made, CloseAllCancel, CancelPoll, InOrder,
      startVars, guardVars, stateVars, threadVars, closerVars, stopVars
<1>1. TypeOK'
  BY FileBounds, Zenon DEF TypeOK, InHandler
<1>2. CloserInv'
  BY DEF TypeOK, CloserInv, GuardInv, PhaseInv
<1>3. (LockInv /\ CallInv /\ GuardInv /\ PhaseInv /\ FileInv)'
  BY DEF LockInv, CallInv, GuardInv, PhaseInv, FileInv, InHandler, Reachable
<1>4. MakeInv'
  BY DEF TypeOK, MakeInv, CallInv, GuardInv, LockInv, CloserInv, PhaseInv,
         InHandler, GuardFree
<1> QED BY <1>1, <1>2, <1>3, <1>4, Zenon DEF IInv

\* closeAll has canceled every state.
LEMMA CloseAllCanceledPreserves ==
  ASSUME IInv, CloseAllCanceled
  PROVE  IInv'
<1> USE LifecycleAssumption DEF IInv, Made, CloseAllCanceled,
      startVars, guardVars, stateVars, threadVars, closerVars, stopVars
<1>1. TypeOK'
  BY FileBounds, Zenon DEF TypeOK, InHandler
<1>2. PhaseInv'
  BY Zenon DEF TypeOK, PhaseInv
<1>3. CloserInv'
  BY Zenon DEF TypeOK, CloserInv, GuardInv, PhaseInv
<1>4. (LockInv /\ CallInv /\ GuardInv /\ FileInv)'
  BY DEF LockInv, CallInv, GuardInv, FileInv, InHandler, Reachable
<1>5. MakeInv'
  BY DEF TypeOK, MakeInv, CallInv, GuardInv, LockInv, CloserInv, PhaseInv,
         InHandler, GuardFree
<1> QED BY <1>1, <1>2, <1>3, <1>4, <1>5, Zenon DEF IInv

\* closeAll closes one state.
LEMMA CloseAllClosePreserves ==
  ASSUME IInv, NEW s \in States, CloseAllClose(s)
  PROVE  IInv'
<1> USE LifecycleAssumption DEF IInv, Made, CloseAllClose, CloseFS, InOrder,
      startVars, guardVars, stateVars, threadVars, closerVars, stopVars
<1>1. TypeOK'
  BY FileBounds, Zenon DEF TypeOK, InHandler
<1>2. LockInv'
  BY DEF TypeOK, LockInv, CallInv, InHandler
<1>3. CallInv'
  BY Zenon DEF TypeOK, CallInv, GuardInv
<1>4. GuardInv'
  BY Zenon DEF TypeOK, GuardInv, PhaseInv
<1>5. PhaseInv'
  BY Zenon DEF TypeOK, PhaseInv
<1>6. CloserInv'
  BY DEF TypeOK, CloserInv, GuardInv, PhaseInv
<1>7. FileInv'
  BY DEF TypeOK, FileInv, Reachable, GuardInv, PhaseInv, CloserInv
<1>8. MakeInv'
  BY DEF TypeOK, MakeInv, CallInv, GuardInv, LockInv, CloserInv, PhaseInv,
         InHandler, GuardFree
<1> QED BY <1>1, <1>2, <1>3, <1>4, <1>5, <1>6, <1>7, <1>8, Zenon DEF IInv

\* closeAll returns.
LEMMA CloseAllDonePreserves ==
  ASSUME IInv, CloseAllDone
  PROVE  IInv'
<1> USE LifecycleAssumption DEF IInv, Made, CloseAllDone,
      startVars, guardVars, stateVars, threadVars, closerVars, stopVars
<1>1. TypeOK'
  BY FileBounds, Zenon DEF TypeOK, InHandler
<1>2. PhaseInv'
  BY Zenon DEF TypeOK, PhaseInv
<1>3. CloserInv'
  BY Zenon DEF TypeOK, CloserInv, GuardInv, PhaseInv
<1>4. (LockInv /\ CallInv /\ GuardInv /\ FileInv)'
  BY DEF LockInv, CallInv, GuardInv, FileInv, InHandler, Reachable
<1>5. MakeInv'
  BY DEF TypeOK, MakeInv, CallInv, GuardInv, LockInv, CloserInv, PhaseInv,
         InHandler, GuardFree
<1> QED BY <1>1, <1>2, <1>3, <1>4, <1>5, Zenon DEF IInv

-----------------------------------------------------------------------------

\* A step that changes nothing.
LEMMA StutterPreserves ==
  ASSUME IInv, UNCHANGED vars
  PROVE  IInv'
<1> USE DEF IInv, vars, startVars, guardVars, stateVars, threadVars, closerVars,
            stopVars
<1>1. TypeOK'
  BY DEF TypeOK
<1>2. (LockInv /\ CallInv)'
  BY Zenon DEF LockInv, CallInv, Made
<1>3. (GuardInv /\ PhaseInv)'
  BY Zenon DEF GuardInv, PhaseInv, Made
<1>4. (CloserInv /\ MakeInv)'
  BY Zenon DEF CloserInv, MakeInv, Made
<1>5. FileInv'
  BY DEF FileInv, Reachable
<1> QED BY <1>1, <1>2, <1>3, <1>4, <1>5, Zenon DEF IInv

\* Every step of the provider, its guests and its closers preserves IInv.
LEMMA NextIInv == IInv /\ [Next]_vars => IInv'
<1> SUFFICES ASSUME IInv, [Next]_vars
             PROVE  IInv'
  BY Zenon
<1>1. CASE StartArgs
  BY <1>1, StartArgsPreserves, Zenon
<1>2. CASE StartFS
  BY <1>2, StartFSPreserves, Zenon
<1>7. CASE MakeStep
  BY <1>7, OpenPreopenPreserves, StorePreopenPreserves, MakeFSFailsPreserves,
     MakeFSDonePreserves, Zenon DEF MakeStep
<1>3. ASSUME NEW t \in Threads, ThreadStep(t)
      PROVE  IInv'
  <2>1. ASSUME NEW i \in Identities, EnterRefused(t, i)
        PROVE  IInv'
    BY <2>1, StutterPreserves, Zenon DEF EnterRefused
  <2>2. ASSUME NEW i \in Identities, EnterKnown(t, i) \/ EnterClaim(t, i)
        PROVE  IInv'
    BY <2>2, EnterKnownPreserves, EnterClaimPreserves, Zenon
  <2>3. ASSUME NEW i \in Identities, NEW s \in States, EnterNew(t, i, s)
        PROVE  IInv'
    BY <2>3, EnterNewPreserves, Zenon
  <2>4. CASE LockState(t)
    BY <2>4, LockStatePreserves, Zenon
  <2>5. CASE HandlerReturns(t)
    BY <2>5, HandlerReturnsPreserves, Zenon
  <2>6. CASE HandlerBlocks(t) \/ HandlerWakes(t) \/ PollInterrupted(t)
    BY <2>6, HandlerBlocksPreserves, HandlerWakesPreserves,
       PollInterruptedPreserves, Zenon
  <2> QED BY <1>3, <2>1, <2>2, <2>3, <2>4, <2>5, <2>6, Zenon DEF ThreadStep
<1>4. ASSUME NEW i \in Identities, CloserStep(i)
      PROVE  IInv'
  BY <1>4, CloseInstancePreserves, CloseInstanceCancelPreserves,
     CloseInstanceFinishPreserves, Zenon DEF CloserStep
<1>5. CASE StopStep
  BY <1>5, CloseAllPreserves, CloseAllCancelPreserves,
     CloseAllCanceledPreserves, CloseAllClosePreserves, CloseAllDonePreserves, ZenonT(30)
     DEF StopStep
<1>6. CASE UNCHANGED vars
  BY <1>6, StutterPreserves, Zenon
<1> QED BY <1>1, <1>2, <1>3, <1>4, <1>5, <1>6, <1>7, Zenon DEF Next

\* The invariant holds in every reachable state of the provider: whatever
\* start, stateFor, the handlers, closeInstance and closeAll do, and in
\* whatever order.
THEOREM Inductive == Spec => []IInv
BY InitIInv, NextIInv, PTL DEF Spec

\* Every variable keeps its type.
THEOREM TypeCorrect == Spec => []TypeOK
BY Inductive, PTL DEF IInv

\* stateFor's lock and second check: a handler runs only on a live state whose
\* lock its call holds.
THEOREM UseAfterCloseImpossible == Spec => []NoUseAfterClose
<1>1. IInv => NoUseAfterClose
  BY Zenon DEF IInv, LockInv, NoUseAfterClose
<1> QED BY <1>1, Inductive, PTL

\* stateFor's map and claimed flag: calls of two instances never share a state.
THEOREM InstancesIsolated == Spec => []Isolation
<1>1. IInv => Isolation
  BY DEF IInv, TypeOK, CallInv, Isolation, InHandler, Made
<1> QED BY <1>1, Inductive, PTL

\* makeFS, closeInstance and closeAll: every live state and every open file can
\* still be closed, also while makeFS is between two preopens.
THEOREM NothingOrphaned == Spec => []NoOrphanState
<1>1. IInv => NoOrphanState
  BY DEF IInv, TypeOK, FileInv, MakeInv, NoOrphanState, Reachable
<1> QED BY <1>1, Inductive, PTL

\* closeAll: when it has returned, nothing is open and nothing runs, but for
\* what a closeInstance under way still closes.
THEOREM StopIsComplete == Spec => []StopLeavesNothing
<1>1. ASSUME IInv, spc = "done",
             \A i \in Identities : cpc[i] \in {"idle", "done"}
      PROVE  /\ \A s \in States : life[s] \notin {"making", "live"} /\ files[s] = 0
             /\ \A t \in Threads : pc[t] \notin InHandler
  <2>1. \A s \in States : ~Reachable(s) /\ life[s] # "making"
    BY <1>1, LifecycleAssumption, Zenon DEF IInv, TypeOK, PhaseInv, MakeInv, Reachable
  <2>2. \A s \in States : life[s] \notin {"making", "live"} /\ files[s] = 0
    BY <1>1, <2>1, Zenon DEF IInv, TypeOK, FileInv
  <2>3. \A t \in Threads : pc[t] \notin InHandler
    BY <1>1, <2>2 DEF IInv, TypeOK, LockInv, CallInv, InHandler
  <2> QED BY <2>2, <2>3, Zenon
<1>2. IInv => StopLeavesNothing
  BY <1>1, Zenon DEF StopLeavesNothing
<1> QED BY <1>2, Inductive, PTL

\* closeAll and closeInstance cancel before they wait, the safety half of the
\* claim that shutdown terminates.
THEOREM CanceledBeforeWait == Spec => []CancelBeforeWait
<1>1. IInv => CancelBeforeWait
  BY Zenon DEF IInv, CloserInv, CancelBeforeWait
<1> QED BY <1>1, Inductive, PTL

\* start: no handler runs before the guest's arguments are published.
THEOREM ArgsPublished == Spec => []ArgsBeforeCalls
<1>1. IInv => ArgsBeforeCalls
  BY Zenon DEF IInv, CallInv, ArgsBeforeCalls, InHandler
<1> QED BY <1>1, Inductive, PTL

\* stateFor binds a state to an instance at most once.
THEOREM Bound == Spec => BoundForGood
<1>1. ASSUME IInv, [Next]_vars, NEW s \in States, owner[s] # NoIdentity
      PROVE  owner'[s] = owner[s]
  <2> USE <1>1, LifecycleAssumption DEF IInv, TypeOK, GuardInv
  <2>1. ASSUME NEW t \in Threads, NEW i \in Identities, EnterClaim(t, i)
        PROVE  owner'[s] = owner[s]
    BY <2>1, Zenon DEF EnterClaim
  <2>2. CASE MakeFSDone
    <3>1. /\ making \in States /\ ~Made(making)
          /\ owner' = owner \/ \E i : owner' = [owner EXCEPT ![making] = i]
      BY <2>2, Zenon DEF MakeFSDone, MakeInv, Made
    <3> QED BY <3>1, Zenon
  <2>3. CASE UNCHANGED owner
    BY <2>3, Zenon
  <2> QED
    BY <2>1, <2>2, <2>3, Zenon
       DEF Next, vars, StartArgs, StartFS, MakeStep, OpenPreopen, StorePreopen,
           MakeFSFails, ThreadStep, EnterRefused, EnterKnown, EnterNew,
           LockState, HandlerReturns, HandlerBlocks, HandlerWakes,
           PollInterrupted, CloserStep, CloseInstance, CloseInstanceCancel,
           CloseInstanceFinish, StopStep, CloseAll, CloseAllCancel,
           CloseAllCanceled, CloseAllClose, CloseAllDone
<1>2. IInv /\ [Next]_vars =>
        [\A s \in States : owner[s] # NoIdentity => owner'[s] = owner[s]]_vars
  BY <1>1, Zenon
<1> QED BY <1>2, Inductive, PTL DEF Spec, BoundForGood

-----------------------------------------------------------------------------
(***************************************************************************)
(* poll_oneoff, P1Poll: its constants and variables, and what is proved of *)
(* it for any number of subscriptions and any clock.                       *)
(***************************************************************************)

CONSTANTS N, MaxU64, Timeouts, Readings

VARIABLES shape, kind, timeout, began, up, broken, ctx, at, elapsed, since, left, passed,
          result

Polling == INSTANCE P1Poll

\* What was measured, with what has passed since, has passed; the loop goes on
\* only while no clock is due at the time last measured (the first look is at
\* time zero), and waits for none beyond its time.
PollInv ==
  /\ kind \in [Polling!Subs -> Polling!Kinds] /\ timeout \in [Polling!Subs -> Nat]
  /\ began \in Nat /\ elapsed \in Nat /\ since \in Nat /\ left \in Nat /\ passed \in Nat
  /\ elapsed <= MaxU64 /\ passed <= MaxU64
  /\ elapsed + since <= passed \/ passed = MaxU64
  /\ at \in {"parse", "check"} => elapsed = 0
  /\ at \in {"wait", "pause"} =>
       \A s \in Polling!Chosen(Polling!Clocks) : elapsed < Polling!Due(s)
  /\ at = "waiting" =>
       \A s \in Polling!Chosen(Polling!Clocks) : elapsed + left <= Polling!Due(s)

LEMMA SmallerOfTwo ==
  ASSUME NEW a \in Int, NEW b \in Int
  PROVE  Polling!Min({a, b}) = IF a <= b THEN a ELSE b
BY DEF Polling!Min

LEMMA LargerOfTwo ==
  ASSUME NEW a \in Int, NEW b \in Int
  PROVE  Polling!Max({a, b}) = IF a >= b THEN a ELSE b
BY DEF Polling!Max

LEMMA SumBelow ==
  ASSUME NEW a \in Nat, NEW b \in Nat, NEW c \in Nat, NEW d \in Nat, a + b <= c, c <= d
  PROVE  a + b <= d
OBVIOUS

\* One more has passed, and at most one more is seen.
LEMMA SumAfterTick ==
  ASSUME NEW e \in Nat, NEW n \in Nat, NEW p \in Nat, NEW m \in Nat, p <= m,
         e + n <= p \/ p = m, NEW n1 \in Nat, NEW p1 \in Nat, n1 <= n + 1, p1 <= m,
         p1 = p + 1 \/ p1 = m
  PROVE  e + n1 <= p1 \/ p1 = m
OBVIOUS

LEMMA DueIsNatural ==
  ASSUME PollInv, NEW s \in Polling!Subs PROVE Polling!Due(s) \in Nat
<1>1. timeout[s] \in Nat /\ began \in Nat
  BY Zenon DEF PollInv
<1> DEFINE d == timeout[s] - began
<1>2. d \in Int
  BY <1>1
<1>3. Polling!Max({d, 0}) \in Nat
  <2> HIDE DEF d
  <2> QED BY <1>2, LargerOfTwo
<1> QED BY <1>1, <1>3 DEF Polling!Due

\* The smallest of the clocks' times is the time of one of them.
LEMMA EarliestIsDue ==
  ASSUME PollInv, Polling!HasDeadline
  PROVE  /\ \E s \in Polling!Chosen(Polling!Clocks) : Polling!Earliest = Polling!Due(s)
         /\ \A s \in Polling!Chosen(Polling!Clocks) : Polling!Earliest <= Polling!Due(s)
         /\ Polling!Earliest \in Nat
<1> DEFINE T == {Polling!Due(s) : s \in Polling!Chosen(Polling!Clocks)}
<1>1. T \subseteq Nat /\ T # {}
  BY DueIsNatural, Zenon DEF Polling!Chosen, Polling!HasDeadline
<1> HIDE DEF T
<1>2. PICK x \in T : \A y \in T : ~(<<y, x>> \in OpToRel(<, Nat))
  BY <1>1, NatLessThanWellFounded, WFMin, Zenon
<1>3. \A y \in T : x <= y
  <2> TAKE y \in T
  <2>1. x \in Nat /\ y \in Nat
    BY <1>1, Zenon
  <2>2. ~(y < x)
    BY <1>2, <2>1, Zenon DEF OpToRel
  <2> QED BY <2>1, <2>2
<1>4. Polling!Min(T) \in T /\ \A y \in T : Polling!Min(T) <= y
  BY <1>2, <1>3, Zenon DEF Polling!Min
<1> QED BY <1>1, <1>4, Zenon DEF T, Polling!Earliest

\* What is not ready at e is not due at e.
LEMMA NothingDue ==
  ASSUME PollInv, NEW e \in Int, Polling!Ready(e) = {},
         NEW s \in Polling!Chosen(Polling!Clocks)
  PROVE  e < Polling!Due(s)
<1>1. s \in Polling!Subs /\ kind[s] \in Polling!Clocks
  BY Zenon DEF Polling!Chosen
<1>2. ~(e >= Polling!Due(s))
  BY <1>1, Zenon DEF Polling!Ready
<1>3. Polling!Due(s) \in Nat
  BY <1>1, DueIsNatural, Zenon
<1> QED BY <1>2, <1>3

LEMMA DueStays ==
  ASSUME UNCHANGED Polling!call
  PROVE  /\ UNCHANGED <<kind, timeout, began>>
         /\ Polling!Chosen(Polling!Clocks)' = Polling!Chosen(Polling!Clocks)
         /\ \A s : Polling!Due(s)' = Polling!Due(s)
BY Zenon DEF Polling!call, Polling!Chosen, Polling!Due

LEMMA TickKeepsPoll ==
  ASSUME MaxU64 \in Nat, PollInv, Polling!Tick PROVE PollInv'
<1>1. UNCHANGED <<Polling!call, at, elapsed>>
  BY Zenon DEF Polling!Tick
<1>2. Polling!MaxDuration \in Nat
  BY DEF Polling!MaxDuration
<1>3. /\ since' \in Nat /\ since' <= since + 1 /\ left' \in Nat /\ left' <= left
      /\ passed' \in Nat /\ passed' <= MaxU64 /\ passed' \in {passed + 1, MaxU64}
  <2>1. since \in Nat /\ left \in Nat /\ passed \in Nat
    BY Zenon DEF PollInv
  <2>2. /\ since' = Polling!Min({since + 1, Polling!MaxDuration})
        /\ left' = Polling!Max({left - 1, 0}) /\ passed' = Polling!Min({passed + 1, MaxU64})
    BY Zenon DEF Polling!Tick
  <2>3. since + 1 \in Int /\ left - 1 \in Int /\ passed + 1 \in Int
    BY <2>1
  <2>4. /\ since' = IF since + 1 <= Polling!MaxDuration THEN since + 1 ELSE Polling!MaxDuration
        /\ left' = IF left - 1 >= 0 THEN left - 1 ELSE 0
        /\ passed' = IF passed + 1 <= MaxU64 THEN passed + 1 ELSE MaxU64
    BY <1>2, <2>2, <2>3, SmallerOfTwo, LargerOfTwo
  <2> QED BY <1>2, <2>1, <2>4
<1>4. elapsed + since' <= passed' \/ passed' = MaxU64
  <2>1. /\ elapsed \in Nat /\ since \in Nat /\ passed \in Nat /\ passed <= MaxU64
        /\ (elapsed + since <= passed \/ passed = MaxU64)
    BY Zenon DEF PollInv
  <2>2. passed' = passed + 1 \/ passed' = MaxU64
    BY <1>3
  <2> QED BY <1>3, <2>1, <2>2, SumAfterTick, Zenon
<1>5. ASSUME at = "waiting", NEW s \in Polling!Chosen(Polling!Clocks)
      PROVE  elapsed + left' <= Polling!Due(s)
  <2>1. elapsed \in Nat /\ left \in Nat /\ elapsed + left <= Polling!Due(s)
    BY <1>5, Zenon DEF PollInv
  <2>2. Polling!Due(s) \in Nat
    BY DueIsNatural, Zenon DEF Polling!Chosen
  <2> QED BY <1>3, <2>1, <2>2
<1> QED BY <1>1, <1>3, <1>4, <1>5, DueStays, Zenon DEF PollInv

LEMMA WorldKeepsPoll ==
  ASSUME PollInv,
         \/ Polling!ContextEnds \/ \E s \in Polling!Subs : Polling!StreamChanges(s)
         \/ UNCHANGED Polling!vars
  PROVE  PollInv'
<1>1. UNCHANGED <<Polling!call, at, elapsed, since, left, passed>>
  BY Zenon DEF Polling!ContextEnds, Polling!StreamChanges, Polling!vars, Polling!time
<1> QED BY <1>1, DueStays, Zenon DEF PollInv

\* A step that does not look for ready subscriptions and starts no wait.
LEMMA OtherStepKeepsPoll ==
  ASSUME PollInv,
         \/ Polling!Parse \/ Polling!WaitEnds \/ Polling!Pause \/ Polling!PauseInterrupted
  PROVE  PollInv'
<1>1. UNCHANGED <<Polling!call, elapsed, since, left, passed>>
  BY ZenonT(30) DEF Polling!Parse, Polling!WaitEnds, Polling!Pause,
               Polling!PauseInterrupted, Polling!time
<1>2. \/ at' \in {"done", "woken", "paused"}
      \/ at = "parse" /\ at' = "check"
  BY DEF Polling!Parse, Polling!WaitEnds, Polling!Pause,
         Polling!PauseInterrupted, Polling!Return, Polling!Goto
<1>3. /\ at' \in {"parse", "check"} => at = "parse"
      /\ at' \notin {"wait", "pause"} /\ at' # "waiting"
  BY <1>2
<1> QED BY <1>1, <1>3, DueStays, Zenon DEF PollInv

\* The wait lasts at most until the earliest clock is due.
LEMMA WaitBeginsKeepsPoll ==
  ASSUME MaxU64 \in Nat, PollInv, Polling!WaitBegins PROVE PollInv'
<1>1. UNCHANGED <<Polling!call, elapsed, since, passed>> /\ at = "wait"
  BY Zenon DEF Polling!WaitBegins
<1>2. CASE at' = "done" /\ UNCHANGED left
  <2>1. at' \notin {"parse", "check", "wait", "pause", "waiting"}
    BY <1>2
  <2> QED BY <1>1, <1>2, <2>1, DueStays, Zenon DEF PollInv
<1>3. CASE at' = "waiting" /\ left' = IF Polling!HasDeadline THEN Polling!Delay ELSE 0
  <2>1. CASE ~Polling!HasDeadline
    <3>1. left' \in Nat /\ Polling!Chosen(Polling!Clocks) = {}
      BY <1>3, <2>1, SMT DEF Polling!HasDeadline
    <3>2. at' \notin {"parse", "check", "wait", "pause"}
      BY <1>3
    <3> QED BY <1>1, <3>1, <3>2, DueStays, Zenon DEF PollInv
  <2>2. CASE Polling!HasDeadline
    <3>1. elapsed \in Nat /\ Polling!Earliest \in Nat /\ elapsed < Polling!Earliest
      <4>1. PICK s \in Polling!Chosen(Polling!Clocks) : Polling!Earliest = Polling!Due(s)
        BY <2>2, EarliestIsDue, Zenon
      <4>2. elapsed \in Nat /\ elapsed < Polling!Earliest
        BY <1>1, <4>1, Zenon DEF PollInv
      <4> QED BY <2>2, <4>2, EarliestIsDue, Zenon
    <3>2. Polling!MaxDuration \in Nat
      BY DEF Polling!MaxDuration
    <3>3. left' \in Nat /\ elapsed + left' <= Polling!Earliest
      <4>1. left' = Polling!Min({Polling!Earliest - elapsed, Polling!MaxDuration})
        BY <1>3, <2>2, Zenon DEF Polling!Delay
      <4>2. Polling!Earliest - elapsed \in Int
        BY <3>1
      <4>3. left' = IF Polling!Earliest - elapsed <= Polling!MaxDuration
                    THEN Polling!Earliest - elapsed ELSE Polling!MaxDuration
        BY <3>2, <4>1, <4>2, SmallerOfTwo
      <4> QED BY <3>1, <3>2, <4>3
    <3>4. ASSUME NEW s \in Polling!Chosen(Polling!Clocks) PROVE elapsed + left' <= Polling!Due(s)
      <4>1. Polling!Due(s) \in Nat /\ Polling!Earliest <= Polling!Due(s)
        BY <2>2, DueIsNatural, EarliestIsDue, Zenon DEF Polling!Chosen
      <4> QED BY <3>1, <3>3, <4>1, SumBelow, Zenon
    <3>5. at' \notin {"parse", "check", "wait", "pause"}
      BY <1>3
    <3> QED BY <1>1, <3>3, <3>4, <3>5, DueStays, Zenon DEF PollInv
  <2> QED BY <2>1, <2>2
<1> QED BY <1>2, <1>3, Zenon DEF Polling!WaitBegins, Polling!Return, Polling!Goto

\* A look that finds nothing leaves the loop before every clock's time.
LEMMA LookKeepsPoll ==
  ASSUME PollInv, NEW e \in Nat, NEW next \in {"wait", "pause"}, elapsed' = e, e <= MaxU64,
         UNCHANGED <<Polling!call, left, passed>>, since' \in Nat,
         e + since' <= passed \/ passed = MaxU64, Polling!AnswerOr(e, next)
  PROVE  PollInv'
<1>1. (at' = "done") \/ (Polling!Ready(e) = {} /\ at' = next)
  BY Zenon DEF Polling!AnswerOr, Polling!Return, Polling!Goto
<1>2. at' \notin {"parse", "check", "waiting"}
  BY <1>1
<1>3. ASSUME at' \in {"wait", "pause"}, NEW s \in Polling!Chosen(Polling!Clocks)
      PROVE  e < Polling!Due(s)
  <2>1. at' # "done" /\ e \in Int
    BY <1>3
  <2> QED BY <1>1, <2>1, NothingDue, Zenon
<1> QED BY <1>2, <1>3, DueStays, Zenon DEF PollInv

LEMMA PollKeeps ==
  ASSUME MaxU64 \in Nat, PollInv, [Polling!Next]_(Polling!vars) PROVE PollInv'
<1>1. CASE Polling!FirstCheck
  <2>1. /\ elapsed' = 0 /\ UNCHANGED <<Polling!call, since, left, passed>>
        /\ Polling!AnswerOr(0, "wait") /\ since \in Nat
        /\ (0 + since <= passed \/ passed = MaxU64)
    BY <1>1, ZenonT(30) DEF PollInv, Polling!FirstCheck, Polling!time
  <2>2. 0 <= MaxU64
    OBVIOUS
  <2> QED BY <2>1, <2>2, LookKeepsPoll
<1>2. ASSUME Polling!Recheck \/ Polling!PauseEnds PROVE PollInv'
  <2> DEFINE e == Polling!Measured
  <2>1. e \in Nat /\ e <= MaxU64 /\ (e + 0 <= passed \/ passed = MaxU64)
    BY SMT DEF PollInv, Polling!Measured
  <2>2. PICK next \in {"wait", "pause"} :
          /\ elapsed' = e /\ since' = 0 /\ UNCHANGED <<Polling!call, left, passed>>
          /\ Polling!AnswerOr(e, next)
    BY <1>2, Zenon DEF Polling!Recheck, Polling!PauseEnds, Polling!Measure
  <2> HIDE DEF e
  <2> QED BY <2>1, <2>2, LookKeepsPoll
<1> QED BY <1>1, <1>2, TickKeepsPoll, WorldKeepsPoll, WaitBeginsKeepsPoll,
           OtherStepKeepsPoll, Zenon
        DEF Polling!Next, Polling!CallStep

\* The time pollOneoff measures is right for clocks of any width: nothing is due
\* early, earliest - elapsed does not wrap before a wait or a pause, and no wait
\* is longer than it should be.
THEOREM PollTimeIsRight ==
  ASSUME Polling!PollAssumption PROVE Polling!Spec => []Polling!TimeMeasured
<1>1. MaxU64 \in Nat /\ Timeouts \subseteq Nat /\ Readings \subseteq Nat
  <2>1. 0..MaxU64 \subseteq Nat
    OBVIOUS
  <2> QED BY <2>1, Zenon DEF Polling!PollAssumption
<1>2. Polling!Init => PollInv
  <2> SUFFICES ASSUME Polling!Init PROVE PollInv
    OBVIOUS
  <2>1. /\ kind \in [Polling!Subs -> Polling!Kinds] /\ timeout \in [Polling!Subs -> Timeouts]
        /\ began \in Readings /\ at = "parse" /\ elapsed = 0
        /\ since = 0 /\ left = 0 /\ passed = 0
    BY Zenon DEF Polling!Init
  <2>2. timeout \in [Polling!Subs -> Nat] /\ began \in Nat
    BY <1>1, <2>1, Zenon
  <2> QED BY <1>1, <2>1, <2>2 DEF PollInv
<1>3. PollInv /\ [Polling!Next]_(Polling!vars) => PollInv'
  BY <1>1, PollKeeps
<1>4. PollInv => Polling!TimeMeasured
  <2> SUFFICES ASSUME PollInv PROVE Polling!TimeMeasured
    OBVIOUS
  <2>1. elapsed <= passed
    BY DEF PollInv
  <2>2. ASSUME Polling!HasDeadline
        PROVE  /\ at \in {"wait", "pause"} => elapsed < Polling!Earliest
               /\ at = "waiting" => left \in 0..(Polling!Earliest - elapsed)
    <3>1. PICK s \in Polling!Chosen(Polling!Clocks) : Polling!Earliest = Polling!Due(s)
      BY <2>2, EarliestIsDue, Zenon
    <3>2. /\ at \in {"wait", "pause"} => elapsed < Polling!Earliest
          /\ at = "waiting" => elapsed + left <= Polling!Earliest
          /\ elapsed \in Nat /\ left \in Nat
      BY <3>1, Zenon DEF PollInv
    <3>3. Polling!Earliest \in Nat
      BY <2>2, EarliestIsDue, Zenon
    <3> QED BY <3>2, <3>3
  <2> QED BY <2>1, <2>2, Zenon DEF Polling!TimeMeasured
<1> QED BY <1>2, <1>3, <1>4, PTL DEF Polling!Spec
==============================================================================
