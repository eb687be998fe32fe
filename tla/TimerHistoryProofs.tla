------------------------- MODULE TimerHistoryProofs -------------------------
(***************************************************************************)
(* A theorem about elapsed time, for all schedules, snoozes and polls.     *)
(***************************************************************************)
EXTENDS TimerHistory, SchedulerActorProofs

\* The accumulated time never exceeds the time from timerFrom to the activity's
\* last_tick, which is not after both its creation and the last Tick, and no
\* timestamp is in the future.
AccumulatedIsElapsed ==
  /\ lastPoll \in Nat /\ lastPoll <= mono
  /\ timerFrom \in [Ids -> Nat]
  /\ since \in [Ids -> Nat]
  /\ \A id \in Ids : since[id] <= mono
  /\ \A id \in DOMAIN activities :
       LET a == activities[id]
       IN  /\ lastPoll <= a.last_tick /\ a.last_tick <= mono
           /\ timerFrom[id] + a.duration_delta <= a.last_tick
           /\ a.last_tick <= since[id] \/ a.last_tick <= lastPoll

TimerInv == Inv /\ AccumulatedIsElapsed

LEMMA InsertionTimer ==
  ASSUME TimerInv, NEW ids \in SUBSET Ids, Insertion(ids), Restart(ids, mono)
  PROVE  AccumulatedIsElapsed'
<1>1. /\ UNCHANGED <<mono, lastPoll>>
      /\ DOMAIN activities' = DOMAIN activities \cup ids
      /\ \A id \in ids : activities'[id].duration_delta = 0 /\ activities'[id].last_tick = mono
      /\ \A id \in DOMAIN activities \ ids : activities'[id] = activities[id]
  BY InsertionEffect DEF TimerInv, Inv, IsFresh, Restart
<1>2. /\ timerFrom' = [id \in Ids |-> IF id \in ids THEN mono ELSE timerFrom[id]]
      /\ since' = [id \in Ids |-> IF id \in ids THEN mono ELSE since[id]]
  BY DEF Restart
<1>3. mono \in Nat /\ DOMAIN activities \subseteq Ids
  BY DEF TimerInv, Inv, TypeOK
<1> QED
  BY <1>1, <1>2, <1>3 DEF TimerInv, AccumulatedIsElapsed

\* A step that keeps mono and the history and lets no activity's timer run keeps
\* AccumulatedIsElapsed.
LEMMA QuietTimer ==
  ASSUME TimerInv, UNCHANGED <<mono, lastPoll, since, timerFrom>>,
         DOMAIN activities' \subseteq DOMAIN activities,
         \A id \in DOMAIN activities' :
           /\ activities'[id].last_tick = activities[id].last_tick
           /\ activities'[id].duration_delta \in {0, activities[id].duration_delta}
  PROVE  AccumulatedIsElapsed'
<1>1. \A id \in DOMAIN activities : activities[id].duration_delta \in Nat
  BY DEF TimerInv, Inv, TypeOK, ActivityType
<1>2. \A id \in DOMAIN activities : timerFrom[id] \in Nat /\ activities[id].last_tick \in Nat
  BY DEF TimerInv, Inv, TypeOK, ActivityType, AccumulatedIsElapsed
<1>3. ASSUME NEW id \in DOMAIN activities'
      PROVE  timerFrom[id] + activities'[id].duration_delta <= activities'[id].last_tick
  BY <1>1, <1>2 DEF TimerInv, AccumulatedIsElapsed
<1> QED
  BY <1>3 DEF TimerInv, AccumulatedIsElapsed

LEMMA TickTimer ==
  ASSUME TimerInv, TimedTick
  PROVE  AccumulatedIsElapsed'
<1>1. /\ DOMAIN activities' \subseteq DOMAIN activities
      /\ \A id \in DOMAIN activities' : activities'[id] = Ticked(activities[id], mono, utc)
      /\ UNCHANGED <<mono, since>> /\ lastPoll' = mono
      /\ timerFrom' = [id \in Ids |-> timerFrom[id] + Paused(id)]
  BY DEF TimedTick, Tick, clockVars
<1>2. ASSUME NEW id \in Ids PROVE Paused(id) \in Nat
  BY DEF Paused, TimerInv, Inv, TypeOK, AccumulatedIsElapsed
<1>3. ASSUME NEW id \in DOMAIN activities'
      PROVE  /\ activities'[id].last_tick = mono
             /\ timerFrom'[id] + activities'[id].duration_delta <= mono
  <2> DEFINE a == activities[id]
  <2>1. /\ a \in ActivityType /\ mono \in Nat /\ timerFrom[id] \in Nat
        /\ a.last_tick <= mono
        /\ timerFrom[id] + a.duration_delta <= a.last_tick
    BY <1>1 DEF TimerInv, Inv, TypeOK, AccumulatedIsElapsed
  <2>2. a.last_tick \in Nat /\ a.duration_delta \in Nat
    BY <2>1 DEF ActivityType
  <2>3. Elapsed(a.last_tick, mono) = mono - a.last_tick
    BY <2>1, <2>2 DEF Elapsed
  <2>4. /\ Ticked(a, mono, utc).last_tick = mono
        /\ Ticked(a, mono, utc).duration_delta =
             IF IsScheduled(a.state) THEN a.duration_delta + Elapsed(a.last_tick, mono)
                                     ELSE a.duration_delta
    BY <2>1 DEF Ticked, TryGcMark, ActivityType
  <2>5. timerFrom'[id] = timerFrom[id] + Paused(id) /\ Present(id) /\ id \in Ids
    BY <1>1 DEF TimerInv, Inv, TypeOK, Present
  <2>6. CASE IsScheduled(a.state)
    <3>1. Paused(id) = 0
      BY <2>6 DEF Paused, IsScheduled, Is
    <3> QED
      BY <1>1, <2>1, <2>2, <2>3, <2>4, <2>5, <2>6, <3>1
  <2>7. CASE ~IsScheduled(a.state)
    <3>1. Paused(id) <= mono - a.last_tick
      <4>1. /\ since[id] \in Nat /\ lastPoll \in Nat
            /\ a.last_tick <= since[id] \/ a.last_tick <= lastPoll
        BY <1>1, <2>5 DEF TimerInv, AccumulatedIsElapsed
      <4> QED
        BY <2>1, <2>2, <4>1 DEF Paused
    <3>2. Paused(id) \in Nat
      BY <1>2, <2>5
    <3> QED
      BY <1>1, <2>1, <2>2, <2>4, <2>5, <2>7, <3>1, <3>2
  <2> QED
    BY <2>6, <2>7
<1>4. mono \in Nat /\ timerFrom' \in [Ids -> Nat]
  BY <1>1, <1>2 DEF TimerInv, Inv, TypeOK, AccumulatedIsElapsed
<1> QED
  BY <1>1, <1>3, <1>4 DEF TimerInv, AccumulatedIsElapsed

\* An acknowledgement restarts the timer of its activity at the last poll, which
\* is not after the activity's own last Tick.
LEMMA FinishTimer ==
  ASSUME TimerInv, NEW id \in Ids, NEW ack \in Acks, Finish(id, ack), Restart({id}, lastPoll)
  PROVE  AccumulatedIsElapsed'
<1>1. /\ UNCHANGED <<mono, lastPoll>>
      /\ timerFrom' = [i \in Ids |-> IF i = id THEN lastPoll ELSE timerFrom[i]]
      /\ since' = [i \in Ids |-> IF i = id THEN mono ELSE since[i]]
      /\ FinishActivity(id, ack)
  BY DEF Finish, Restart, clockVars
<1>2. /\ mono \in Nat /\ lastPoll \in Nat
      /\ timerFrom' \in [Ids -> Nat] /\ since' \in [Ids -> Nat]
      /\ \A i \in Ids : since'[i] <= mono
      /\ DOMAIN activities \subseteq Ids
  BY <1>1 DEF TimerInv, Inv, TypeOK, AccumulatedIsElapsed
<1>3. CASE UNCHANGED activities /\ ~Present(id)
  BY <1>1, <1>2, <1>3 DEF TimerInv, AccumulatedIsElapsed, Present
<1>4. CASE Present(id)
  <2>1. PICK t \in ActivationTargets(activities[id].schedule) :
          LET a == Finished(activities[id], ack, t)
          IN  activities' = IF Is(a.state, "Completed")
                              THEN [i \in DOMAIN activities \ {id} |-> activities[i]]
                              ELSE [activities EXCEPT ![id] = a]
    BY <1>1, <1>4 DEF FinishActivity
  <2> DEFINE a == Finished(activities[id], ack, t)
  <2>2. activities[id] \in ActivityType
    BY <1>4 DEF TimerInv, Inv, TypeOK, Present
  <2>3. CASE Is(a.state, "Completed")
    BY <1>1, <1>2, <2>1, <2>3 DEF TimerInv, AccumulatedIsElapsed
  <2>4. CASE ~Is(a.state, "Completed")
    <3>1. a.duration_delta = 0 /\ a.last_tick = activities[id].last_tick
      BY <2>2, <2>4 DEF Finished, FinishedWith, Rescheduled, ActivityType, Completed, Is
    <3>2. activities' = [activities EXCEPT ![id] = a]
      BY <2>1, <2>4
    <3>3. /\ lastPoll <= activities[id].last_tick
          /\ activities[id].last_tick <= mono /\ activities[id].last_tick \in Nat
      BY <1>4, <2>2 DEF TimerInv, AccumulatedIsElapsed, Present, ActivityType
    <3>4. lastPoll + a.duration_delta <= a.last_tick
      BY <1>2, <3>1, <3>3
    <3> QED
      BY <1>1, <1>2, <3>1, <3>2, <3>3, <3>4 DEF TimerInv, AccumulatedIsElapsed
  <2> QED
    BY <2>3, <2>4
<1> QED
  BY <1>1, <1>3, <1>4 DEF FinishActivity

LEMMA OtherTimer ==
  ASSUME TimerInv,
         \/ \E id \in Ids, enabled \in BOOLEAN : SetEnabledCmd(id, enabled)
         \/ ClaimDue
         \/ \E id \in Ids : SetImmediateCmd(id),
         UNCHANGED <<lastPoll, since, timerFrom>>
  PROVE  AccumulatedIsElapsed'
<1>1. \A id \in DOMAIN activities : activities[id] \in ActivityType
  BY DEF TimerInv, Inv, TypeOK
<1>2. ASSUME NEW id \in Ids, NEW enabled \in BOOLEAN, SetEnabledCmd(id, enabled)
      PROVE  AccumulatedIsElapsed'
  <2>1. /\ SetEnabled(activities[id], enabled).last_tick = activities[id].last_tick
        /\ SetEnabled(activities[id], enabled).duration_delta = activities[id].duration_delta
    BY <1>1, <1>2 DEF SetEnabledCmd, Present, SetEnabled, ActivityType
  <2> QED
    BY <1>2, <2>1, QuietTimer DEF SetEnabledCmd, clockVars
<1>3. ASSUME ClaimDue
      PROVE  AccumulatedIsElapsed'
  <2>1. \A id \in DOMAIN activities : /\ Claimed(activities[id]).last_tick = activities[id].last_tick
                                     /\ Claimed(activities[id]).duration_delta = 0
    BY <1>1 DEF Claimed, ActivityType
  <2> QED
    BY <1>3, <2>1, QuietTimer DEF ClaimDue, clockVars
<1>4. ASSUME NEW id \in Ids, SetImmediateCmd(id)
      PROVE  AccumulatedIsElapsed'
  <2>1. /\ SetImmediate(activities[id], utc).last_tick = activities[id].last_tick
        /\ SetImmediate(activities[id], utc).duration_delta = activities[id].duration_delta
    BY <1>1, <1>4 DEF SetImmediateCmd, Present, SetImmediate, ActivityType
  <2> QED
    BY <1>4, <2>1, QuietTimer DEF SetImmediateCmd, clockVars
<1> QED
  BY <1>2, <1>3, <1>4

LEMMA ClockTimer ==
  ASSUME TimerInv, AdvanceClock \/ JumpClock, UNCHANGED <<lastPoll, since, timerFrom>>
  PROVE  AccumulatedIsElapsed'
<1>1. /\ mono \in Nat /\ mono' \in Nat /\ mono <= mono'
      /\ UNCHANGED activities
  BY DEF TimerInv, Inv, TypeOK, AdvanceClock, JumpClock, Advance, AdjustWallClock
<1>2. \A id \in DOMAIN activities : activities[id].last_tick \in Nat
  BY DEF TimerInv, Inv, TypeOK, ActivityType
<1> QED
  BY <1>1, <1>2 DEF TimerInv, AccumulatedIsElapsed

LEMMA TimerInvInductive ==
  ASSUME TimerInv, [TimerNext]_timerVars
  PROVE  TimerInv'
<1>1. [Next]_vars
  BY DEF TimerNext, TimedInsertion, TimedFinish, TimedTick, Next, timerVars
<1>2. Inv'
  BY <1>1, InvInductive DEF TimerInv
<1>3. ASSUME UNCHANGED timerVars PROVE AccumulatedIsElapsed'
  BY <1>3 DEF timerVars, vars, TimerInv, AccumulatedIsElapsed
<1>4. ASSUME TimerNext PROVE AccumulatedIsElapsed'
  BY <1>4, InsertionTimer, FinishTimer, TickTimer, OtherTimer, ClockTimer
  DEF TimerNext, TimedInsertion, TimedFinish, TimedTick
<1> QED
  BY <1>2, <1>3, <1>4 DEF TimerInv

\* An interval or a snooze is never cut short by more than the time from the
\* acknowledgement back to the poll before it.
THEOREM EarlyByOnePoll == TimerSpec => []EarlyByAtMostOnePoll
<1>1. TimerInit => TimerInv
  BY InvInit DEF TimerInit, Init, ClockInit, Zero, TimerInv, AccumulatedIsElapsed
<1>2. TimerInv => EarlyByAtMostOnePoll
  <2> SUFFICES ASSUME TimerInv, NEW id \in Due, activities[id].activation_target.kind = "Duration"
               PROVE  mono - timerFrom[id] >= activities[id].activation_target.at
    BY DEF EarlyByAtMostOnePoll
  <2>1. id \in DOMAIN activities /\ IsAtTarget(activities[id], utc)
    BY DEF Due, ShouldRun
  <2>2. activities[id].duration_delta >= activities[id].activation_target.at
    BY <2>1 DEF IsAtTarget
  <2>3. /\ activities[id].duration_delta \in Nat /\ activities[id].last_tick \in Nat
        /\ activities[id].activation_target.at \in Nat
        /\ timerFrom[id] \in Nat /\ mono \in Nat
    BY <2>1 DEF TimerInv, Inv, TypeOK, ActivityType, TargetType, AccumulatedIsElapsed
  <2>4. /\ activities[id].last_tick <= mono
        /\ timerFrom[id] + activities[id].duration_delta <= activities[id].last_tick
    BY <2>1 DEF TimerInv, AccumulatedIsElapsed
  <2> QED
    BY <2>2, <2>3, <2>4
<1> QED
  BY <1>1, <1>2, TimerInvInductive, PTL DEF TimerSpec

=============================================================================
