---------------------------- MODULE TimerHistory ----------------------------
(***************************************************************************)
(* The scheduler actor with auxiliary variables about elapsed time.        *)
(* duration_delta is not a stopwatch: it grows only when a Tick is         *)
(* handled, by the whole time since the previous Tick.  The variables tell *)
(* what a stopwatch would show.                                            *)
(***************************************************************************)
EXTENDS SchedulerActor

VARIABLES
  lastPoll,    \* when the last Tick was handled
  since,       \* when the activity was created or last acknowledged
  timerFrom    \* the last Tick at or before that moment (that moment itself
               \* for an activity just created), and later by every stretch
               \* of time at whose end a Tick has found the activity paused

timerVars == <<vars, lastPoll, since, timerFrom>>

Zero == [id \in Ids |-> 0]

TimerInit ==
  /\ Init
  /\ lastPoll = 0
  /\ since = Zero
  /\ timerFrom = Zero

\* The timers of ids restart now; the last Tick before that was at `poll'.
Restart(ids, poll) ==
  /\ since' = [id \in Ids |-> IF id \in ids THEN mono ELSE since[id]]
  /\ timerFrom' = [id \in Ids |-> IF id \in ids THEN poll ELSE timerFrom[id]]
  /\ UNCHANGED lastPoll

TimedInsertion(ids) == Insertion(ids) /\ Restart(ids, mono)

TimedFinish(id) == (\E ack \in Acks : Finish(id, ack)) /\ Restart({id}, lastPoll)

\* What a Tick that finds the activity paused has to leave out: the time since
\* the Tick before it, or since the activity's timer was restarted.
Paused(id) ==
  IF ~Present(id) \/ ~Is(activities[id].state, "Disabled") THEN 0
  ELSE mono - (IF since[id] > lastPoll THEN since[id] ELSE lastPoll)

TimedTick ==
  /\ Tick
  /\ lastPoll' = mono
  /\ timerFrom' = [id \in Ids |-> timerFrom[id] + Paused(id)]
  /\ UNCHANGED since

TimerNext ==
  \/ \E ids \in SUBSET Ids : TimedInsertion(ids)
  \/ \E id \in Ids : TimedFinish(id)
  \/ TimedTick
  \/ /\ \/ \E id \in Ids, enabled \in BOOLEAN : SetEnabledCmd(id, enabled)
        \/ ClaimDue
        \/ \E id \in Ids : SetImmediateCmd(id)
        \/ AdvanceClock \/ JumpClock
     /\ UNCHANGED <<lastPoll, since, timerFrom>>

TimerSpec == TimerInit /\ [][TimerNext]_timerVars

-----------------------------------------------------------------------------

\* An activity waiting out a duration.
DueAfter(id, d) ==
  id \in Due /\ activities[id].activation_target = DurationTarget(d)

\* A duration is cut short by at most the time between the acknowledgement
\* and the Tick before it, and never for an activity that has not run yet: no
\* order of pauses, dispatches and polls credits more, and no time counts that
\* a poll has found it paused at the end of, not even once it is resumed.
EarlyByAtMostOnePoll ==
  \A id \in Due :
    LET target == activities[id].activation_target
    IN  target.kind = "Duration" => mono - timerFrom[id] >= target.at

\* README.md:197: Snooze(duration) is to "re-run after `duration`": an activity
\* must not be due sooner after the acknowledgement than it was snoozed for.
SnoozeElapses ==
  \A id \in DOMAIN activities, d \in SnoozeDurations :
    Is(activities[id].state, "Snoozed") /\ DueAfter(id, d) => mono - since[id] >= d

=============================================================================
