-------------------------------- MODULE P1Poll --------------------------------
(***************************************************************************)
(* poll_oneoff of Preview 1: one call, its subscriptions, the loop that    *)
(* waits, measures the time and looks again, and waitSubscriptions below   *)
(* it, while streams become ready and unready, time passes and the         *)
(* plugin's context ends.                                                  *)
(***************************************************************************)
EXTENDS Integers, FiniteSets, FiniteSetsExt

CONSTANTS N,          \* subscriptions of the call
          MaxU64,     \* the largest uint64
          Timeouts,   \* the timeouts of clocks
          Readings    \* what a clock may show when the call looks at it

ASSUME PollAssumption ==
  /\ N \in Nat \ {0} /\ MaxU64 \in Nat
  /\ Timeouts \subseteq 0..MaxU64 /\ Readings \subseteq 0..MaxU64

Subs == 1..N
MaxDuration == MaxU64 \div 2   \* the largest time.Duration

(***************************************************************************)
(* Kinds of subscription: a relative or absolute clock; a descriptor that  *)
(* is wrong (its errno is the event); a stream without object or a buffer, *)
(* which is always ready; a Pollable or an operating system file, which is *)
(* waited for; a plain reader or writer, for which nothing is known; and   *)
(* what ends the call at once: a type, clock or flag that does not exist,  *)
(* a clock that is not provided, a clock value that does not fit.          *)
(***************************************************************************)
Kinds == {"rel", "abs", "wrong", "always", "waitable", "plain", "invalid",
          "noclock", "overflow"}
Clocks == {"rel", "abs"}
Shapes == {"good", "empty", "many", "outside"}

VARIABLES shape,     \* the arguments: none, more than allowed, outside memory
          kind, timeout,  \* per subscription
          began,     \* what the clock showed when the call read its timeouts
          up,        \* per subscription: its stream is ready
          broken,    \* per subscription: its Wait returns an error
          ctx,       \* the plugin's context: live, canceled, past its deadline
          at,        \* where the call is
          elapsed,   \* the time it has measured, a uint64
          since,     \* the time since measuredAt, as Sub tells it
          left,      \* what is left of waitSubscriptions' own timeout
          passed,    \* the time that really passed, up to MaxU64
          result     \* what was returned: "none", "ok" or an errno

call == <<shape, kind, timeout, began>>
world == <<up, broken, ctx>>
time == <<since, left, passed>>
vars == <<call, world, time, at, elapsed, result>>

Chosen(kinds) == {s \in Subs : kind[s] \in kinds}

\* sub.due: an absolute timeout is turned into what remains of it.
Due(s) ==
  IF kind[s] = "abs" THEN Max({timeout[s] - began, 0}) ELSE timeout[s]

HasDeadline == Chosen(Clocks) # {}
Earliest == Min({Due(s) : s \in Chosen(Clocks)})

Init ==
  /\ shape \in Shapes /\ kind \in [Subs -> Kinds] /\ timeout \in [Subs -> Timeouts]
  /\ began \in Readings
  /\ up \in [Subs -> BOOLEAN] /\ (\A s \in Subs : up[s] => kind[s] = "waitable")
  /\ broken = [s \in Subs |-> FALSE]
  /\ ctx = "live" /\ at = "parse" /\ elapsed = 0 /\ result = "none"
  /\ since = 0 /\ left = 0 /\ passed = 0

-----------------------------------------------------------------------------
(* The world *)

\* Time passes, which shows once it is measured.  The difference of two times is
\* a Duration and saturates.
Tick ==
  /\ at \notin {"parse", "check", "done"}
  /\ since' = Min({since + 1, MaxDuration}) /\ left' = Max({left - 1, 0})
  /\ passed' = Min({passed + 1, MaxU64})
  /\ UNCHANGED <<call, world, at, elapsed, result>>

StreamChanges(s) ==
  /\ kind[s] = "waitable"
  /\ \/ up' = [up EXCEPT ![s] = ~@] /\ UNCHANGED broken
     \/ ~broken[s] /\ broken' = [broken EXCEPT ![s] = TRUE] /\ UNCHANGED up
  /\ UNCHANGED <<call, ctx, time, at, elapsed, result>>

ContextEnds ==
  /\ ctx = "live" /\ ctx' \in {"canceled", "expired"}
  /\ UNCHANGED <<call, up, broken, time, at, elapsed, result>>

-----------------------------------------------------------------------------
(* The call *)

Return(r) == at' = "done" /\ result' = r
Goto(where) == at' = where /\ UNCHANGED result

\* Mutant: after a wait only the clocks are looked at.
ReadyClocks(e) ==
  {s \in Subs : \/ kind[s] \in Clocks /\ e >= Due(s)
                \/ kind[s] \in {"wrong", "always"}}

\* readySubscriptions: what is ready when e has elapsed.
Ready(e) ==
  {s \in Subs : \/ kind[s] \in Clocks /\ e >= Due(s)
                \/ kind[s] \in {"wrong", "always"}
                \/ kind[s] = "waitable" /\ up[s]}

\* The events are written, or the call goes on.
AnswerOr(e, next) == IF Ready(e) # {} THEN Return("ok") ELSE Goto(next)

ShapeError == [empty |-> "EINVAL", many |-> "ENOMEM", outside |-> "EFAULT"]
KindError == [invalid |-> "EINVAL", noclock |-> "ENOTSUP", overflow |-> "EOVERFLOW"]

\* The arguments are looked at in order; the first fault is the answer.
Parse ==
  /\ at = "parse"
  /\ LET bad == Chosen({"invalid", "noclock", "overflow"})
     IN  IF shape # "good" THEN Return(ShapeError[shape])
         ELSE IF bad # {} THEN Return(KindError[kind[Min(bad)]])
         ELSE Goto("check")
  /\ UNCHANGED <<call, world, time, elapsed>>

\* measuredAt is set: from here on time is measured.
FirstCheck ==
  /\ at = "check" /\ AnswerOr(0, "wait")
  /\ UNCHANGED <<call, world, time, elapsed>>

Unsupported ==
  \/ Chosen({"plain"}) # {}
  \/ Chosen({"waitable"}) = {} /\ ~HasDeadline

\* What remains until the earliest clock, as far as a Duration goes.
Delay == Min({Earliest - elapsed, MaxDuration})

\* waitSubscriptions starts a waiter for every stream and, with a clock, a
\* timeout of its own.
WaitBegins ==
  /\ at = "wait"
  /\ IF Unsupported THEN Return("ENOTSUP") /\ UNCHANGED left
     ELSE Goto("waiting") /\ left' = IF HasDeadline THEN Delay ELSE 0
  /\ UNCHANGED <<call, world, since, passed, elapsed>>

\* DeadlineExceeded is taken for the end of the wait when it has a deadline.
OwnDeadline == HasDeadline

\* The select: a waiter woke or failed, or waitCtx is done.
WaitEnds ==
  /\ at = "waiting"
  /\ \/ \E s \in Chosen({"waitable"}) :
          \/ up[s] /\ Goto("woken")
          \/ broken[s] /\ Return("errno")
     \/ HasDeadline /\ left = 0 /\ (IF OwnDeadline THEN Goto("woken") ELSE Return("EINTR"))
     \/ ctx = "canceled" /\ Return("EINTR")
     \/ ctx = "expired" /\ (IF OwnDeadline THEN Goto("woken") ELSE Return("EINTR"))
  /\ UNCHANGED <<call, world, time, elapsed>>

\* Mutant: the sum wraps.
MeasuredWrapped == (elapsed + since) % (MaxU64 + 1)

\* pollElapsed: the interval since measuredAt is added, as far as a uint64 goes.
Measured == IF since > MaxU64 - elapsed THEN MaxU64 ELSE elapsed + since

\* Mutant: measuredAt stays where it was.
MeasureAgain == elapsed' = Measured /\ UNCHANGED time

Measure == elapsed' = Measured /\ since' = 0 /\ UNCHANGED <<left, passed>>

\* The second look.
Recheck ==
  /\ at = "woken"
  /\ Measure /\ AnswerOr(Measured, "pause")
  /\ UNCHANGED <<call, world>>

PauseSeesContext == ctx # "live"

\* The pause before the next round, at most until the earliest clock is due.
Pause ==
  /\ at = "pause"
  /\ IF PauseSeesContext THEN Return("EINTR") ELSE Goto("paused")
  /\ UNCHANGED <<call, world, time, elapsed>>

PauseEnds ==
  /\ at = "paused"
  /\ Measure /\ AnswerOr(Measured, "wait")
  /\ UNCHANGED <<call, world>>

PauseInterrupted ==
  /\ at = "paused" /\ PauseSeesContext /\ Return("EINTR")
  /\ UNCHANGED <<call, world, time, elapsed>>

CallStep ==
  Parse \/ FirstCheck \/ WaitBegins \/ WaitEnds \/ Recheck \/ Pause \/ PauseEnds \/ PauseInterrupted

Next == Tick \/ ContextEnds \/ (\E s \in Subs : StreamChanges(s)) \/ CallStep

Spec == Init /\ [][Next]_vars

(***************************************************************************)
(* Fairness: time passes, the call's goroutine runs, and of the ready      *)
(* cases of a select none is passed over for ever.                         *)
(***************************************************************************)
FairSpec ==
  /\ Spec /\ WF_vars(Tick) /\ WF_vars(Parse \/ FirstCheck \/ WaitBegins \/ Recheck \/ Pause)
  /\ WF_vars(WaitEnds) /\ WF_vars(PauseEnds) /\ SF_vars(PauseInterrupted)

-----------------------------------------------------------------------------
(* Properties *)

\* pollOneoff's time is right, over waits too long for one Duration and sums too
\* large for a uint64: no clock is due early, since no more was measured than
\* passed; earliest - elapsed, computed before waiting and before pausing, does
\* not wrap; and no wait goes on beyond the earliest clock.
TimeMeasured ==
  /\ elapsed <= passed
  /\ HasDeadline => /\ at \in {"wait", "pause"} => elapsed < Earliest
                    /\ at = "waiting" => left \in 0..(Earliest - elapsed)

\* A call with a clock comes to an end, and so does one whose context ends,
\* also when streams keep waking it for nothing; it answers EINTR only for the
\* context: the deadline of a clock, which ends the same wait in the same way,
\* is not taken for it.
PollEnds ==
  (at # "parse" /\ (HasDeadline \/ ctx # "live"))
    ~> (at = "done" /\ (result = "EINTR" => ctx # "live"))

\* A call does not wait for ever beside a stream that stays ready.
NoLostWakeup == \A s \in Subs : ~<>[](at # "done" /\ kind[s] = "waitable" /\ up[s])

==============================================================================
