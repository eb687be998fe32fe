------------------------------ MODULE Activity ------------------------------
(***************************************************************************)
(* One scheduled activity as a value, and the transitions of activity.rs   *)
(* as operators on that value.  Nothing here has state: the scheduler      *)
(* actor (module SchedulerActor) owns the map of activities and the clock, *)
(* and applies these operators.                                            *)
(*                                                                         *)
(* Time is counted in whole units.  `mono' is the monotonic reading        *)
(* Clock::now, `utc' the wall-clock reading Clock::now_utc.  last_run_at   *)
(* is left out: nothing reads it.                                          *)
(***************************************************************************)
EXTENDS Integers

CONSTANT Millisecond  \* in units of time

ASSUME ActivityAssumption == Millisecond \in Nat \ {0}

-----------------------------------------------------------------------------
(* ActivitySchedule and its validation.                                    *)

ScheduleType ==
       [kind : {"FixedInterval"}, duration : Nat]
  \cup [kind : {"RandomInterval"}, min : Nat, max : Nat]
  \cup [kind : {"Scheduled"}, date : Nat]

FixedInterval(d) == [kind |-> "FixedInterval", duration |-> d]
RandomInterval(lo, hi) == [kind |-> "RandomInterval", min |-> lo, max |-> hi]
Scheduled(t) == [kind |-> "Scheduled", date |-> t]

IsOneShot(s) == s.kind = "Scheduled"

Validate(s) == s.kind = "RandomInterval" => s.min < s.max

-----------------------------------------------------------------------------
(* ActivationTarget, and the targets a schedule can be turned into: one,   *)
(* except for a random interval, which draws from the half-open range.     *)

TargetType == [kind : {"Duration", "Date"}, at : Nat]

DurationTarget(d) == [kind |-> "Duration", at |-> d]
DateTarget(t) == [kind |-> "Date", at |-> t]

ActivationTargets(s) ==
  CASE s.kind = "FixedInterval"  -> {DurationTarget(s.duration)}
    [] s.kind = "RandomInterval" -> {DurationTarget(d) : d \in s.min .. s.max - 1}
    [] s.kind = "Scheduled"      -> {DateTarget(s.date)}

-----------------------------------------------------------------------------
(* ActivityState.  Disabled boxes the state it replaced.                   *)

Idle == [tag |-> "Idle"]
Running == [tag |-> "Running"]
Completed == [tag |-> "Completed"]
Gc == [tag |-> "Gc"]
Snoozed(d) == [tag |-> "Snoozed", duration |-> d]
Disabled(prev) == [tag |-> "Disabled", prev |-> prev]

PlainState == [tag : {"Idle", "Running"}] \cup [tag : {"Snoozed"}, duration : Nat]

\* The states an activity may rest in between two commands: never Completed
\* or Gc, and Disabled boxes a state that is not itself Disabled.
RestingState == PlainState \cup [tag : {"Disabled"}, prev : PlainState]

Is(st, tag) == st.tag = tag

IsScheduled(st) == st.tag \in {"Idle", "Snoozed"}

\* The state under a Disabled box, or the state itself.
Unboxed(st) == IF Is(st, "Disabled") THEN st.prev ELSE st

-----------------------------------------------------------------------------
(* Acknowledgements.                                                       *)

Done == [kind |-> "Done"]
Snooze(d) == [kind |-> "Snooze", duration |-> d]

-----------------------------------------------------------------------------
(* Activity<T> and its methods.                                            *)

ActivityType ==
  [schedule : ScheduleType, state : RestingState, duration_delta : Nat,
   activation_target : TargetType, last_tick : Nat, created_at : Nat]

New(s, target, mono, utc) ==
  [schedule |-> s, state |-> Idle, duration_delta |-> 0,
   activation_target |-> target, last_tick |-> mono, created_at |-> utc]

IsAtTarget(a, utc) ==
  IF a.activation_target.kind = "Duration"
    THEN a.duration_delta >= a.activation_target.at
    ELSE utc >= a.activation_target.at

\* Mutant: the state is not looked at, so a running one-shot is due again.
ShouldRunInAnyState(a, utc) == IsAtTarget(a, utc)

ShouldRun(a, utc) == IsScheduled(a.state) /\ IsAtTarget(a, utc)

\* Mutant: any disabled activity at its target is collected.
TryGcMarkInterval(a, utc) ==
  IF Is(a.state, "Disabled") /\ IsAtTarget(a, utc) THEN [a EXCEPT !.state = Gc] ELSE a

\* Mutant: a one-shot past its date is collected, disabled or not.
TryGcMarkEnabled(a, utc) ==
  IF IsOneShot(a.schedule) /\ IsAtTarget(a, utc) THEN [a EXCEPT !.state = Gc] ELSE a

\* Mutant: nothing is collected.
TryGcMarkNever(a, utc) == a

TryGcMark(a, utc) ==
  IF IsOneShot(a.schedule) /\ Is(a.state, "Disabled") /\ IsAtTarget(a, utc)
    THEN [a EXCEPT !.state = Gc]
    ELSE a

\* now.saturating_duration_since(last_tick)
Elapsed(last, now) == IF now >= last THEN now - last ELSE 0

\* Mutant: last_tick is kept while the activity is disabled.
TickedUnlessDisabled(a, mono, utc) ==
  IF IsScheduled(a.state)
    THEN [a EXCEPT !.last_tick = mono,
                   !.duration_delta = @ + Elapsed(a.last_tick, mono)]
    ELSE TryGcMark(IF Is(a.state, "Disabled") THEN a ELSE [a EXCEPT !.last_tick = mono], utc)

\* Mutant: the time since the last tick replaces the time counted so far.
TickedNotSummed(a, mono, utc) ==
  TryGcMark([a EXCEPT !.last_tick = mono, !.duration_delta = Elapsed(a.last_tick, mono)], utc)

\* Mutant: last_tick is set before the time since it is taken.
TickedStandingStill(a, mono, utc) == TryGcMark([a EXCEPT !.last_tick = mono], utc)

Ticked(a, mono, utc) ==
  LET delta == IF IsScheduled(a.state)
                 THEN a.duration_delta + Elapsed(a.last_tick, mono)
                 ELSE a.duration_delta
  IN  TryGcMark([a EXCEPT !.last_tick = mono, !.duration_delta = delta], utc)

\* The state change of claim_if_due when should_run holds.
Claimed(a) == [a EXCEPT !.state = Running, !.duration_delta = 0]

\* Mutant: disabling twice boxes the Disabled state again.
SetEnabledNesting(a, enabled) ==
  CASE enabled /\ Is(a.state, "Disabled") -> [a EXCEPT !.state = a.state.prev]
    [] enabled /\ ~Is(a.state, "Disabled") -> a
    [] OTHER -> [a EXCEPT !.state = Disabled(a.state)]

\* Mutant: enabling forgets what the activity was doing.
SetEnabledForgetting(a, enabled) ==
  CASE enabled /\ Is(a.state, "Disabled")   -> [a EXCEPT !.state = Idle]
    [] ~enabled /\ ~Is(a.state, "Disabled") -> [a EXCEPT !.state = Disabled(a.state)]
    [] OTHER                                -> a

SetEnabled(a, enabled) ==
  CASE enabled /\ Is(a.state, "Disabled")   -> [a EXCEPT !.state = a.state.prev]
    [] ~enabled /\ ~Is(a.state, "Disabled") -> [a EXCEPT !.state = Disabled(a.state)]
    [] OTHER                                -> a

\* Mutant: only intervals are made due.
SetImmediateInterval(a, utc) ==
  IF a.activation_target.kind = "Duration"
    THEN [a EXCEPT !.activation_target = DurationTarget(0)]
    ELSE a

SetImmediate(a, utc) ==
  [a EXCEPT !.activation_target = IF a.activation_target.kind = "Duration"
                                    THEN DurationTarget(0)
                                    ELSE DateTarget(utc)]

Rescheduled(a, state, target) ==
  [a EXCEPT !.state = state, !.activation_target = target, !.duration_delta = 0]

\* What finish makes of the acknowledgement; `next' is the target after Done.
FinishedWith(a, ack, snoozed, next) ==
  CASE ack.kind = "Snooze" -> Rescheduled(a, snoozed, DurationTarget(ack.duration))
    [] ack.kind = "Done" /\ IsOneShot(a.schedule) -> [a EXCEPT !.state = Completed]
    [] OTHER -> Rescheduled(a, Idle, next)

\* Mutant: a snoozed activity gets its target but keeps its state.
FinishedStillRunning(a, ack, target) == FinishedWith(a, ack, a.state, target)

\* Mutant: Done keeps the target of the run that ended.
FinishedOldTarget(a, ack, target) ==
  FinishedWith(a, ack, Snoozed(ack.duration), a.activation_target)

\* `target' is the fresh target finish draws from the schedule on Done.
Finished(a, ack, target) == FinishedWith(a, ack, Snoozed(ack.duration), target)

-----------------------------------------------------------------------------
(* Progress.                                                               *)

\* TimeDelta::num_milliseconds drops what exceeds whole milliseconds.
Millis(t) == IF t >= 0 THEN t \div Millisecond ELSE -((-t) \div Millisecond)

NaN == [part |-> 0, whole |-> 0]
Nothing == [part |-> 0, whole |-> 1]
Everything == [part |-> 1, whole |-> 1]

\* n / d, clamped: 0/0 is NaN and stays so, infinities come out as the limits.
Clamped(n, d) ==
  LET num == IF d < 0 THEN -n ELSE n
      den == IF d < 0 THEN -d ELSE d
  IN  IF num = 0 /\ den = 0 THEN NaN
      ELSE IF num <= 0 THEN Nothing
      ELSE IF num >= den THEN Everything ELSE [part |-> num, whole |-> den]

\* The fraction of which the code gives the percentage.
CalculateProgress(a, utc) ==
  IF a.activation_target.kind = "Duration"
    THEN Clamped(a.duration_delta, a.activation_target.at)
    ELSE Clamped(Millis(utc - a.created_at), Millis(a.activation_target.at - a.created_at))

\* p is no less than q, if both are numbers.  The code's multiplication and
\* division in floating point round, and keep this order.
NoLess(p, q) == p.part * q.whole >= q.part * p.whole

=============================================================================
