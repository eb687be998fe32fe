------------------------ MODULE SchedulerActorProofs ------------------------
(***************************************************************************)
(* Theorems about the scheduler actor for all ids, schedules, durations,   *)
(* batches and clock readings.                                             *)
(***************************************************************************)
EXTENDS SchedulerActor, WellFoundedInduction, TLAPS

-----------------------------------------------------------------------------
(* The transitions of one activity.                                        *)

\* What ActivityTarget::from draws from a schedule is a target.
LEMMA TargetsType ==
  ASSUME NEW s \in ScheduleType, NEW t \in ActivationTargets(s)
  PROVE  t \in TargetType
  BY DEF ScheduleType, ActivationTargets, TargetType, DurationTarget, DateTarget

\* Activity::new builds an idle activity of its schedule.
LEMMA NewType ==
  ASSUME NEW s \in ScheduleType, NEW t \in ActivationTargets(s), NEW m \in Nat, NEW u \in Nat
  PROVE  /\ New(s, t, m, u) \in ActivityType
         /\ New(s, t, m, u).state = Idle
         /\ New(s, t, m, u).schedule = s
  BY TargetsType DEF New, ActivityType, RestingState, PlainState, Idle

\* The time a Tick adds is a natural number: it saturates at zero.
LEMMA ElapsedType ==
  ASSUME NEW last \in Nat, NEW now \in Nat
  PROVE  Elapsed(last, now) \in Nat
  BY DEF Elapsed

\* Activity::tick changes the state only by marking a disabled one-shot at its
\* target Gc, and never the schedule.
LEMMA TickedType ==
  ASSUME NEW a \in ActivityType, NEW m \in Nat, NEW u \in Nat
  PROVE  /\ Ticked(a, m, u).schedule = a.schedule
         /\ \/ Ticked(a, m, u) \in ActivityType /\ Ticked(a, m, u).state = a.state
            \/ /\ Ticked(a, m, u).state = Gc
               /\ IsOneShot(a.schedule) /\ Is(a.state, "Disabled") /\ IsAtTarget(a, u)
<1> DEFINE delta == IF IsScheduled(a.state)
                      THEN a.duration_delta + Elapsed(a.last_tick, m)
                      ELSE a.duration_delta
           b == [a EXCEPT !.last_tick = m, !.duration_delta = delta]
<1>1. delta \in Nat
  <2>1. a.duration_delta \in Nat /\ a.last_tick \in Nat
    BY DEF ActivityType
  <2>2. Elapsed(a.last_tick, m) \in Nat
    BY <2>1, ElapsedType
  <2> QED
    BY <2>1, <2>2 DEF IsScheduled
<1>2. b \in ActivityType /\ b.state = a.state /\ b.schedule = a.schedule
  BY <1>1 DEF ActivityType
<1>3. Ticked(a, m, u) = TryGcMark(b, u)
  BY DEF Ticked
<1>4. CASE IsOneShot(b.schedule) /\ Is(b.state, "Disabled") /\ IsAtTarget(b, u)
  <2>1. IsAtTarget(a, u)
    BY <1>2, <1>4 DEF IsAtTarget, ActivityType, Is, IsScheduled
  <2>2. TryGcMark(b, u) = [b EXCEPT !.state = Gc]
    BY <1>4 DEF TryGcMark
  <2> QED
    BY <1>2, <1>3, <1>4, <2>1, <2>2 DEF ActivityType
<1>5. CASE ~(IsOneShot(b.schedule) /\ Is(b.state, "Disabled") /\ IsAtTarget(b, u))
  BY <1>2, <1>3, <1>5 DEF TryGcMark
<1> QED
  BY <1>4, <1>5

\* claim_if_due turns an activity that should run, hence an enabled one, Running.
LEMMA ClaimedType ==
  ASSUME NEW a \in ActivityType
  PROVE  /\ Claimed(a) \in ActivityType
         /\ Claimed(a).state = Running
         /\ Claimed(a).schedule = a.schedule
  BY DEF Claimed, ActivityType, RestingState, PlainState, Running

\* set_enabled only puts on or takes off the Disabled box.
LEMMA SetEnabledType ==
  ASSUME NEW a \in ActivityType, NEW enabled \in BOOLEAN
  PROVE  /\ SetEnabled(a, enabled) \in ActivityType
         /\ SetEnabled(a, enabled).schedule = a.schedule
         /\ Unboxed(SetEnabled(a, enabled).state) = Unboxed(a.state)
         /\ Is(SetEnabled(a, enabled).state, "Disabled") <=> ~enabled
<1>1. CASE enabled /\ Is(a.state, "Disabled")
  BY <1>1 DEF SetEnabled, ActivityType, RestingState, PlainState, Is, Unboxed
<1>2. CASE ~enabled /\ ~Is(a.state, "Disabled")
  <2>1. a.state \in PlainState /\ Unboxed(a.state) = a.state
    BY <1>2 DEF ActivityType, RestingState, PlainState, Is, Unboxed
  <2>2. SetEnabled(a, enabled) = [a EXCEPT !.state = Disabled(a.state)]
    BY <1>2 DEF SetEnabled
  <2>3. Disabled(a.state) \in RestingState
    BY <2>1 DEF Disabled, RestingState
  <2> QED
    BY <1>2, <2>1, <2>2, <2>3 DEF ActivityType, Disabled, Unboxed, Is
<1>3. CASE enabled <=> ~Is(a.state, "Disabled")
  BY <1>3 DEF SetEnabled
<1> QED
  BY <1>1, <1>2, <1>3

\* set_immediate touches the target only.
LEMMA SetImmediateType ==
  ASSUME NEW a \in ActivityType, NEW u \in Nat
  PROVE  /\ SetImmediate(a, u) \in ActivityType
         /\ SetImmediate(a, u).state = a.state
         /\ SetImmediate(a, u).schedule = a.schedule
  BY DEF SetImmediate, ActivityType, TargetType, DurationTarget, DateTarget

\* finish completes a one-shot that is done, and otherwise leaves the activity
\* enabled and waiting.
LEMMA FinishedType ==
  ASSUME NEW a \in ActivityType, NEW ack \in Acks, NEW t \in ActivationTargets(a.schedule)
  PROVE  IF IsOneShot(a.schedule) /\ ack.kind = "Done"
           THEN Finished(a, ack, t).state = Completed
           ELSE /\ Finished(a, ack, t) \in ActivityType
                /\ IsScheduled(Finished(a, ack, t).state)
                /\ Finished(a, ack, t).schedule = a.schedule
<1>1. CASE ack.kind = "Snooze"
  <2>1. ack.duration \in Nat
    BY <1>1, ActorAssumption DEF Acks, Done, Snooze
  <2>2. Snoozed(ack.duration) \in RestingState /\ DurationTarget(ack.duration) \in TargetType
    BY <2>1 DEF Snoozed, RestingState, PlainState, DurationTarget, TargetType
  <2> QED
    BY <1>1, <2>2 DEF Finished, FinishedWith, Rescheduled, ActivityType, IsScheduled, Snoozed
<1>2. CASE ack.kind = "Done" /\ IsOneShot(a.schedule)
  BY <1>2 DEF Finished, FinishedWith, ActivityType
<1>3. CASE ack.kind = "Done" /\ ~IsOneShot(a.schedule)
  <2>1. t \in TargetType
    BY TargetsType DEF ActivityType
  <2>2. Idle \in RestingState
    BY DEF Idle, RestingState, PlainState
  <2> QED
    BY <1>3, <2>1, <2>2 DEF Finished, FinishedWith, Rescheduled, ActivityType, IsScheduled, Idle
<1>4. ack.kind \in {"Done", "Snooze"}
  BY DEF Acks, Done, Snooze
<1> QED
  BY <1>1, <1>2, <1>3, <1>4

-----------------------------------------------------------------------------
(* Insertion.                                                              *)

\* A non-empty set of batch indices has a last one.
LEMMA LastIndex ==
  ASSUME NEW n \in Nat, NEW S \in SUBSET (1 .. n), S # {}
  PROVE  \E i \in S : \A j \in S : j <= i
<1> DEFINE less == {ss \in Nat \X Nat : ss[1] < ss[2]}
           fromEnd == {m \in Nat : n - m \in S}
<1>1. IsWellFoundedOn(less, Nat)
  BY NatLessThanWellFounded DEF OpToRel
<1>2. ASSUME NEW i \in S PROVE i \in Int /\ n - i \in fromEnd
  <2>1. i \in 1 .. n
    OBVIOUS
  <2>2. n - i \in Nat /\ n - (n - i) = i
    BY <2>1
  <2> QED
    BY <2>1, <2>2
<1>3. fromEnd # {}
  BY <1>2
<1>4. \E u \in fromEnd : \A v \in fromEnd : <<v, u>> \notin less
  BY <1>1, <1>3, WFMin
<1>5. PICK u \in fromEnd : \A v \in fromEnd : ~(v < u)
  BY <1>4
<1>6. ASSUME NEW j \in S PROVE j <= n - u
  BY <1>2, <1>5
<1> QED
  BY <1>6

\* A batch chooses a schedule from Schedules for every id at the given indices.
LEMMA ChosenType ==
  ASSUME NEW specs \in Batches, NEW indices \in SUBSET DOMAIN specs
  PROVE  LET chosen == Chosen(specs, indices)
         IN  /\ DOMAIN chosen = {specs[i].id : i \in indices}
             /\ \A id \in DOMAIN chosen : chosen[id] \in Schedules
<1> DEFINE last == LastOf(specs, indices)
           chosen == Chosen(specs, indices)
<1>1. PICK n \in 1 .. MaxBatch : specs \in [1 .. n -> Specs]
  BY DEF Batches
<1>2. last \subseteq indices /\ \A i \in DOMAIN specs : specs[i] \in Specs
  BY <1>1 DEF LastOf
<1>3. DOMAIN chosen = {specs[i].id : i \in last}
  BY DEF Chosen
<1>4. ASSUME NEW k \in indices
      PROVE  \E i \in last : specs[i].id = specs[k].id
  <2> DEFINE same == {i \in indices : specs[i].id = specs[k].id}
  <2>1. n \in Nat
    BY <1>1, ActorAssumption
  <2>2. DOMAIN specs = 1 .. n
    BY <1>1
  <2>3. same \in SUBSET (1 .. n) /\ k \in same
    BY <2>2
  <2>4. PICK i \in same : \A j \in same : j <= i
    BY <2>1, <2>3, LastIndex
  <2>5. \A j \in indices : j \in Int /\ i \in Int
    BY <2>1, <2>2
  <2>6. i \in last
    BY <2>4, <2>5 DEF LastOf
  <2> QED
    BY <2>6
<1>5. ASSUME NEW id \in DOMAIN chosen
      PROVE  chosen[id] \in Schedules
  <2> DEFINE i == CHOOSE j \in last : specs[j].id = id
  <2>1. i \in last
    BY <1>3
  <2>2. chosen[id] = specs[i].schedule
    BY <1>3 DEF Chosen
  <2> QED
    BY <1>2, <2>1, <2>2 DEF Specs
<1> QED
  BY <1>2, <1>3, <1>4, <1>5

\* An activity just built by Activity::new.
IsFresh(a) ==
  /\ a \in ActivityType
  /\ a.state = Idle
  /\ a.activation_target \in ActivationTargets(a.schedule)
  /\ a.duration_delta = 0
  /\ a.last_tick = mono

\* InsertNew gives the chosen ids fresh activities and keeps the others.
LEMMA InsertNewEffect ==
  ASSUME TypeOK,
         NEW chosen,
         \A id \in DOMAIN chosen : chosen[id] \in Schedules,
         InsertNew(chosen)
  PROVE  /\ DOMAIN activities' = DOMAIN activities \cup DOMAIN chosen
         /\ \A id \in DOMAIN chosen : IsFresh(activities'[id])
         /\ \A id \in DOMAIN chosen : activities'[id].schedule = chosen[id]
         /\ \A id \in DOMAIN activities \ DOMAIN chosen : activities'[id] = activities[id]
<1>1. PICK new : /\ \A id \in DOMAIN chosen : new[id] \in NewActivities(chosen[id])
                 /\ activities' = [id \in DOMAIN activities \cup DOMAIN chosen |->
                                     IF id \in DOMAIN chosen THEN new[id] ELSE activities[id]]
  BY DEF InsertNew
<1>2. ASSUME NEW id \in DOMAIN chosen
      PROVE  IsFresh(new[id]) /\ new[id].schedule = chosen[id]
  <2>1. chosen[id] \in ScheduleType /\ mono \in Nat /\ utc \in Nat
    BY ActorAssumption DEF TypeOK
  <2>2. PICK t \in ActivationTargets(chosen[id]) : new[id] = New(chosen[id], t, mono, utc)
    BY <1>1 DEF NewActivities
  <2>3. new[id] \in ActivityType /\ new[id].state = Idle /\ new[id].schedule = chosen[id]
    <3>1. \A s \in ScheduleType : \A d \in ActivationTargets(s) :
            /\ New(s, d, mono, utc) \in ActivityType
            /\ New(s, d, mono, utc).state = Idle
            /\ New(s, d, mono, utc).schedule = s
      BY <2>1, NewType
    <3> QED
      BY <2>1, <2>2, <3>1
  <2> QED
    BY <2>2, <2>3 DEF IsFresh, New
<1> QED
  BY <1>1, <1>2

\* What the four insertion commands have in common.
LEMMA InsertionEffect ==
  ASSUME TypeOK, NEW ids \in SUBSET Ids, Insertion(ids)
  PROVE  /\ UNCHANGED <<inflight, mono, utc>>
         /\ DOMAIN activities' = DOMAIN activities \cup ids
         /\ \A id \in ids : IsFresh(activities'[id])
         /\ \A id \in DOMAIN activities \ ids : activities'[id] = activities[id]
<1> DEFINE Goal(chosen) == /\ DOMAIN chosen = ids
                           /\ \A id \in DOMAIN chosen : chosen[id] \in Schedules
                           /\ InsertNew(chosen)
                           /\ UNCHANGED <<inflight, mono, utc>>
<1>1. ASSUME NEW spec \in Specs, ids = {spec.id}, Register(spec) \/ Reset(spec)
      PROVE  Goal([id \in {spec.id} |-> spec.schedule])
  BY <1>1 DEF Register, Reset, Specs, clockVars
<1>2. ASSUME NEW specs \in Batches, ids = {specs[i].id : i \in Accepted(specs)},
             RegisterMany(specs)
      PROVE  Goal(Chosen(specs, Accepted(specs)))
  <2>1. Accepted(specs) \in SUBSET DOMAIN specs
    BY DEF Accepted
  <2> QED
    BY <1>2, <2>1, ChosenType DEF RegisterMany, clockVars
<1>3. ASSUME NEW specs \in Batches, ids = {specs[i].id : i \in DOMAIN specs},
             ResetMany(specs)
      PROVE  Goal(Chosen(specs, DOMAIN specs))
  BY <1>3, ChosenType DEF ResetMany, clockVars
<1>4. PICK chosen : Goal(chosen)
  BY <1>1, <1>2, <1>3 DEF Insertion
<1> QED
  BY <1>4, InsertNewEffect

-----------------------------------------------------------------------------
(* Types, and that no activity is stuck in Running.                        *)

Inv == TypeOK /\ RunningIsOwed

LEMMA InsertionInv ==
  ASSUME Inv, NEW ids \in SUBSET Ids, Insertion(ids)
  PROVE  Inv'
<1>1. TypeOK'
  BY InsertionEffect DEF Inv, TypeOK, IsFresh
<1>2. /\ DOMAIN activities' = DOMAIN activities \cup ids
      /\ \A id \in ids : activities'[id].state = Idle
      /\ \A id \in DOMAIN activities \ ids : activities'[id] = activities[id]
      /\ UNCHANGED inflight
  BY InsertionEffect DEF Inv, IsFresh
<1>3. RunningIsOwed'
  BY <1>2 DEF Inv, RunningIsOwed, Idle, Is, Unboxed
<1> QED
  BY <1>1, <1>3 DEF Inv

LEMMA TickInv ==
  ASSUME Inv, Tick
  PROVE  Inv'
<1>1. /\ DOMAIN activities' \subseteq DOMAIN activities
      /\ \A id \in DOMAIN activities' :
           /\ activities'[id] = Ticked(activities[id], mono, utc)
           /\ ~Is(activities'[id].state, "Gc")
      /\ UNCHANGED <<inflight, mono, utc>>
  BY DEF Tick, clockVars
<1>2. ASSUME NEW id \in DOMAIN activities'
      PROVE  activities'[id] \in ActivityType /\ activities'[id].state = activities[id].state
  <2>1. activities[id] \in ActivityType /\ mono \in Nat /\ utc \in Nat
    BY <1>1 DEF Inv, TypeOK
  <2> QED
    BY <1>1, <2>1, TickedType DEF Is, Gc
<1>3. TypeOK'
  BY <1>1, <1>2 DEF Inv, TypeOK
<1>4. RunningIsOwed'
  BY <1>1, <1>2 DEF Inv, RunningIsOwed
<1> QED
  BY <1>3, <1>4 DEF Inv

LEMMA SetEnabledInv ==
  ASSUME Inv, NEW id \in Ids, NEW enabled \in BOOLEAN, SetEnabledCmd(id, enabled)
  PROVE  Inv'
<1>1. /\ id \in DOMAIN activities
      /\ activities' = [activities EXCEPT ![id] = SetEnabled(activities[id], enabled)]
      /\ UNCHANGED <<inflight, mono, utc>>
  BY DEF SetEnabledCmd, Present, clockVars
<1>2. /\ activities'[id] \in ActivityType
      /\ Unboxed(activities'[id].state) = Unboxed(activities[id].state)
  BY <1>1, SetEnabledType DEF Inv, TypeOK
<1>3. TypeOK'
  BY <1>1, <1>2 DEF Inv, TypeOK
<1>4. RunningIsOwed'
  BY <1>1, <1>2 DEF Inv, RunningIsOwed
<1> QED
  BY <1>3, <1>4 DEF Inv

LEMMA ClaimDueInv ==
  ASSUME Inv, ClaimDue
  PROVE  Inv'
<1>1. Due \subseteq DOMAIN activities
  BY DEF Due
<1>2. /\ DOMAIN activities' = DOMAIN activities
      /\ \A id \in DOMAIN activities :
           activities'[id] = IF id \in Due THEN Claimed(activities[id]) ELSE activities[id]
      /\ inflight' = [id \in Ids |-> IF id \in Due THEN inflight[id] + 1 ELSE inflight[id]]
      /\ UNCHANGED <<mono, utc>>
  BY DEF ClaimDue, clockVars
<1>3. TypeOK'
  BY <1>2, ClaimedType DEF Inv, TypeOK
<1>4. RunningIsOwed'
  <2> SUFFICES ASSUME NEW id \in DOMAIN activities,
                      Is(Unboxed(activities'[id].state), "Running")
               PROVE  inflight'[id] > 0
    BY <1>2 DEF RunningIsOwed
  <2>1. id \in Ids /\ inflight[id] \in Nat
    BY DEF Inv, TypeOK
  <2>2. CASE id \in Due
    BY <1>2, <2>1, <2>2
  <2>3. CASE id \notin Due
    BY <1>2, <2>1, <2>3 DEF Inv, RunningIsOwed
  <2> QED
    BY <2>2, <2>3
<1> QED
  BY <1>3, <1>4 DEF Inv

LEMMA SetImmediateInv ==
  ASSUME Inv, NEW id \in Ids, SetImmediateCmd(id)
  PROVE  Inv'
<1>1. /\ id \in DOMAIN activities
      /\ activities' = [activities EXCEPT ![id] = SetImmediate(activities[id], utc)]
      /\ UNCHANGED <<inflight, mono, utc>>
  BY DEF SetImmediateCmd, Present, clockVars
<1>2. activities'[id] \in ActivityType /\ activities'[id].state = activities[id].state
  BY <1>1, SetImmediateType DEF Inv, TypeOK
<1>3. TypeOK'
  BY <1>1, <1>2 DEF Inv, TypeOK
<1>4. RunningIsOwed'
  BY <1>1, <1>2 DEF Inv, RunningIsOwed
<1> QED
  BY <1>3, <1>4 DEF Inv

\* A Finish removes a completed one-shot or leaves its activity waiting.
LEMMA FinishEffect ==
  ASSUME TypeOK, NEW id \in Ids, NEW ack \in Acks, Finish(id, ack)
  PROVE  /\ inflight[id] > 0
         /\ inflight' = [inflight EXCEPT ![id] = inflight[id] - 1]
         /\ UNCHANGED <<mono, utc>>
         /\ IF ~Present(id) THEN UNCHANGED activities
            ELSE IF IsOneShot(activities[id].schedule) /\ ack.kind = "Done"
            THEN activities' = [i \in DOMAIN activities \ {id} |-> activities[i]]
            ELSE \E a \in ActivityType : /\ IsScheduled(a.state)
                                         /\ a.schedule = activities[id].schedule
                                         /\ activities' = [activities EXCEPT ![id] = a]
<1>1. /\ inflight[id] > 0
      /\ inflight' = [inflight EXCEPT ![id] = inflight[id] - 1]
      /\ UNCHANGED <<mono, utc>>
      /\ FinishActivity(id, ack)
  BY DEF Finish, clockVars
<1>2. ASSUME Present(id)
      PROVE  IF IsOneShot(activities[id].schedule) /\ ack.kind = "Done"
            THEN activities' = [i \in DOMAIN activities \ {id} |-> activities[i]]
            ELSE \E a \in ActivityType : /\ IsScheduled(a.state)
                                         /\ a.schedule = activities[id].schedule
                                         /\ activities' = [activities EXCEPT ![id] = a]
  <2>1. PICK t \in ActivationTargets(activities[id].schedule) :
          LET a == Finished(activities[id], ack, t)
          IN  activities' = IF Is(a.state, "Completed")
                              THEN [i \in DOMAIN activities \ {id} |-> activities[i]]
                              ELSE [activities EXCEPT ![id] = a]
    BY <1>1, <1>2 DEF FinishActivity
  <2> DEFINE a == Finished(activities[id], ack, t)
  <2>2. activities[id] \in ActivityType
    BY <1>2 DEF TypeOK, Present
  <2>3. CASE IsOneShot(activities[id].schedule) /\ ack.kind = "Done"
    BY <2>1, <2>2, <2>3, FinishedType DEF Is, Completed
  <2>4. CASE ~(IsOneShot(activities[id].schedule) /\ ack.kind = "Done")
    <3>1. /\ a \in ActivityType
          /\ IsScheduled(a.state)
          /\ a.schedule = activities[id].schedule
      BY <2>2, <2>4, FinishedType
    <3>2. ~Is(a.state, "Completed")
      BY <3>1 DEF Is, IsScheduled
    <3> QED
      BY <2>1, <2>4, <3>1, <3>2
  <2> QED
    BY <2>3, <2>4
<1>3. ASSUME ~Present(id) PROVE UNCHANGED activities
  BY <1>1, <1>3 DEF FinishActivity
<1> QED
  BY <1>1, <1>2, <1>3

LEMMA FinishInv ==
  ASSUME Inv, NEW id \in Ids, NEW ack \in Acks, Finish(id, ack)
  PROVE  Inv'
<1>1. /\ inflight' = [inflight EXCEPT ![id] = inflight[id] - 1]
      /\ inflight[id] > 0
      /\ UNCHANGED <<mono, utc>>
  BY FinishEffect DEF Inv
<1>2. /\ inflight' \in [Ids -> Nat]
      /\ \A i \in Ids \ {id} : inflight'[i] = inflight[i]
  BY <1>1 DEF Inv, TypeOK
<1>3. CASE ~Present(id)
  <2>1. UNCHANGED activities
    BY <1>3, FinishEffect DEF Inv
  <2> QED
    BY <1>1, <1>2, <1>3, <2>1 DEF Inv, TypeOK, RunningIsOwed, Present
<1>4. CASE Present(id) /\ IsOneShot(activities[id].schedule) /\ ack.kind = "Done"
  <2>1. activities' = [i \in DOMAIN activities \ {id} |-> activities[i]]
    BY <1>4, FinishEffect DEF Inv
  <2> QED
    BY <1>1, <1>2, <2>1 DEF Inv, TypeOK, RunningIsOwed
<1>5. CASE Present(id) /\ ~(IsOneShot(activities[id].schedule) /\ ack.kind = "Done")
  <2>1. PICK a \in ActivityType :
          IsScheduled(a.state) /\ activities' = [activities EXCEPT ![id] = a]
    BY <1>5, FinishEffect DEF Inv
  <2>2. TypeOK'
    BY <1>1, <1>2, <2>1 DEF Inv, TypeOK
  <2>3. ~Is(Unboxed(activities'[id].state), "Running")
    BY <1>5, <2>1 DEF Present, IsScheduled, Unboxed, Is
  <2>4. RunningIsOwed'
    BY <1>2, <2>1, <2>3 DEF Inv, TypeOK, RunningIsOwed
  <2> QED
    BY <2>2, <2>4 DEF Inv
<1> QED
  BY <1>3, <1>4, <1>5

LEMMA ClocksInv ==
  ASSUME Inv, AdvanceClock \/ JumpClock
  PROVE  Inv'
<1>1. mono' \in Nat /\ utc' \in Nat /\ UNCHANGED <<activities, inflight>>
  BY ClockAssumption
  DEF Inv, TypeOK, AdvanceClock, JumpClock, Advance, AdjustWallClock, clockVars
<1> QED
  BY <1>1 DEF Inv, TypeOK, RunningIsOwed

\* Inv is inductive.
LEMMA InvInductive ==
  ASSUME Inv, [Next]_vars
  PROVE  Inv'
<1>1. ASSUME UNCHANGED vars PROVE Inv'
  BY <1>1 DEF vars, Inv, TypeOK, RunningIsOwed
<1>2. ASSUME Next PROVE Inv'
  BY <1>2, InsertionInv, TickInv, SetEnabledInv, ClaimDueInv, SetImmediateInv, FinishInv,
     ClocksInv DEF Next
<1> QED
  BY <1>1, <1>2

LEMMA InvInit == Init => Inv
  BY DEF Init, ClockInit, Inv, TypeOK, RunningIsOwed

LEMMA InvAlways == Spec => []Inv
  BY InvInit, InvInductive, PTL DEF Spec

\* The actor's state keeps its type: in particular no activity rests in Completed
\* or Gc, and no Disabled box is put into another.
THEOREM TypeCorrect == Spec => []TypeOK
<1>1. Inv => TypeOK
  BY DEF Inv
<1> QED
  BY <1>1, InvAlways, PTL

\* An activity that is Running is always one that a Finish is still owed for.
THEOREM RunningOwed == Spec => []RunningIsOwed
<1>1. Inv => RunningIsOwed
  BY DEF Inv
<1> QED
  BY <1>1, InvAlways, PTL

-----------------------------------------------------------------------------
(* The actor implements Lifecycle: every command maps to one of its steps  *)
(* or to a stutter.                                                        *)

LEMMA InsertionLife ==
  ASSUME Inv, NEW ids \in SUBSET Ids, Insertion(ids)
  PROVE  \E shots \in SUBSET ids : Life!Create(ids, shots)
<1> DEFINE shots == {id \in ids : IsOneShot(activities'[id].schedule)}
<1>1. /\ UNCHANGED inflight
      /\ DOMAIN activities' = DOMAIN activities \cup ids
      /\ \A id \in ids : activities'[id].state = Idle
      /\ \A id \in DOMAIN activities \ ids : activities'[id] = activities[id]
  BY InsertionEffect DEF Inv, IsFresh
<1>2. ([id \in Ids |-> PhaseOf(id)])' =
        [id \in Ids |-> IF id \in ids THEN "waiting" ELSE PhaseOf(id)]
  BY <1>1 DEF PhaseOf, Present, Idle, Is, Unboxed
<1>3. ({id \in DOMAIN activities : Is(activities[id].state, "Disabled")})' =
        {id \in DOMAIN activities : Is(activities[id].state, "Disabled")} \ ids
  BY <1>1 DEF Idle, Is
<1>4. ({id \in DOMAIN activities : IsOneShot(activities[id].schedule)})' =
        ({id \in DOMAIN activities : IsOneShot(activities[id].schedule)} \ ids) \cup shots
  BY <1>1
<1>5. Life!Create(ids, shots)
  BY <1>1, <1>2, <1>3, <1>4 DEF Life!Create, Life!Insert, Life!Moved
<1> QED
  BY <1>5

LEMMA TickLife ==
  ASSUME Inv, Tick
  PROVE  \E ids \in SUBSET Life!Collectable : Life!Collect(ids)
<1> DEFINE gone == DOMAIN activities \ DOMAIN activities'
<1>1. /\ DOMAIN activities' \subseteq DOMAIN activities
      /\ \A id \in DOMAIN activities' :
           /\ activities'[id] = Ticked(activities[id], mono, utc)
           /\ ~Is(activities'[id].state, "Gc")
      /\ \A id \in gone : Is(Ticked(activities[id], mono, utc).state, "Gc")
      /\ UNCHANGED inflight
  BY DEF Tick
<1>2. \A id \in DOMAIN activities' : /\ activities'[id].state = activities[id].state
                                    /\ activities'[id].schedule = activities[id].schedule
  BY <1>1, TickedType DEF Inv, TypeOK, Is, Gc
<1>3. \A id \in gone : /\ IsOneShot(activities[id].schedule)
                       /\ Is(activities[id].state, "Disabled")
  <2> SUFFICES ASSUME NEW id \in gone
               PROVE  IsOneShot(activities[id].schedule) /\ Is(activities[id].state, "Disabled")
    OBVIOUS
  <2>1. activities[id] \in ActivityType /\ mono \in Nat /\ utc \in Nat
    BY DEF Inv, TypeOK
  <2>2. CASE Ticked(activities[id], mono, utc) \in ActivityType
    <3>1. Ticked(activities[id], mono, utc).state \in RestingState
      BY <2>2 DEF ActivityType
    <3> QED
      BY <1>1, <3>1 DEF RestingState, PlainState, Is
  <2>3. CASE Ticked(activities[id], mono, utc) \notin ActivityType
    BY <2>1, <2>3, TickedType
  <2> QED
    BY <2>2, <2>3
<1>4. gone \in SUBSET Life!Collectable
  BY <1>3 DEF Life!Collectable
<1>5. ([id \in Ids |-> PhaseOf(id)])' =
        [id \in Ids |-> IF id \in gone THEN "absent" ELSE PhaseOf(id)]
  BY <1>1, <1>2 DEF PhaseOf, Present
<1>6. ({id \in DOMAIN activities : Is(activities[id].state, "Disabled")})' =
        {id \in DOMAIN activities : Is(activities[id].state, "Disabled")} \ gone
  BY <1>1, <1>2
<1>7. ({id \in DOMAIN activities : IsOneShot(activities[id].schedule)})' =
        {id \in DOMAIN activities : IsOneShot(activities[id].schedule)} \ gone
  BY <1>1, <1>2
<1>8. Life!Collect(gone)
  BY <1>1, <1>5, <1>6, <1>7 DEF Life!Collect, Life!Remove, Life!Moved
<1> QED
  BY <1>4, <1>8

LEMMA SetEnabledLife ==
  ASSUME Inv, NEW id \in Ids, NEW enabled \in BOOLEAN, SetEnabledCmd(id, enabled)
  PROVE  \E on \in BOOLEAN : Life!SetPaused(id, on)
<1>1. /\ id \in DOMAIN activities
      /\ activities' = [activities EXCEPT ![id] = SetEnabled(activities[id], enabled)]
      /\ UNCHANGED inflight
  BY DEF SetEnabledCmd, Present
<1>2. /\ Unboxed(activities'[id].state) = Unboxed(activities[id].state)
      /\ activities'[id].schedule = activities[id].schedule
      /\ Is(activities'[id].state, "Disabled") <=> ~enabled
  BY <1>1, SetEnabledType DEF Inv, TypeOK
<1>3. ([i \in Ids |-> PhaseOf(i)])' = [i \in Ids |-> PhaseOf(i)]
  BY <1>1, <1>2 DEF PhaseOf, Present
<1>4. ({i \in DOMAIN activities : Is(activities[i].state, "Disabled")})' =
        IF ~enabled
          THEN {i \in DOMAIN activities : Is(activities[i].state, "Disabled")} \cup {id}
          ELSE {i \in DOMAIN activities : Is(activities[i].state, "Disabled")} \ {id}
  BY <1>1, <1>2
<1>5. ({i \in DOMAIN activities : IsOneShot(activities[i].schedule)})' =
        {i \in DOMAIN activities : IsOneShot(activities[i].schedule)}
  BY <1>1, <1>2
<1>6. PhaseOf(id) # "absent"
  BY <1>1 DEF PhaseOf, Present
<1>7. Life!SetPaused(id, ~enabled)
  BY <1>1, <1>3, <1>4, <1>5, <1>6 DEF Life!SetPaused, Life!Pause
<1> QED
  BY <1>7

LEMMA ClaimDueLife ==
  ASSUME Inv, ClaimDue
  PROVE  \E ids \in SUBSET Life!Claimable : Life!Claim(ids)
<1>1. Due \subseteq DOMAIN activities /\ Due \subseteq Ids
  BY DEF Due, Inv, TypeOK
<1>2. /\ DOMAIN activities' = DOMAIN activities
      /\ \A id \in DOMAIN activities :
           activities'[id] = IF id \in Due THEN Claimed(activities[id]) ELSE activities[id]
      /\ inflight' = [id \in Ids |-> IF id \in Due THEN inflight[id] + 1 ELSE inflight[id]]
  BY DEF ClaimDue
<1>3. \A id \in Due : /\ activities'[id].state = Running
                      /\ activities'[id].schedule = activities[id].schedule
                      /\ IsScheduled(activities[id].state)
  BY <1>1, <1>2, ClaimedType DEF Inv, TypeOK, Due, ShouldRun
<1>4. Due \in SUBSET Life!Claimable
  BY <1>1, <1>3 DEF Life!Claimable, PhaseOf, Present, IsScheduled, Is, Unboxed
<1>5. ([id \in Ids |-> PhaseOf(id)])' =
        [id \in Ids |-> IF id \in Due THEN "running" ELSE PhaseOf(id)]
  BY <1>1, <1>2, <1>3 DEF PhaseOf, Present, Running, Is, Unboxed
<1>6. ({id \in DOMAIN activities : Is(activities[id].state, "Disabled")})' =
        {id \in DOMAIN activities : Is(activities[id].state, "Disabled")}
  BY <1>1, <1>2, <1>3 DEF Running, Is, IsScheduled
<1>7. ({id \in DOMAIN activities : IsOneShot(activities[id].schedule)})' =
        {id \in DOMAIN activities : IsOneShot(activities[id].schedule)}
  BY <1>1, <1>2, <1>3
<1>8. Life!Claim(Due)
  BY <1>2, <1>5, <1>6, <1>7 DEF Life!Claim, Life!Start, Life!Moved
<1> QED
  BY <1>4, <1>8

LEMMA SetImmediateLife ==
  ASSUME Inv, NEW id \in Ids, SetImmediateCmd(id)
  PROVE  UNCHANGED Life!lifeVars
<1>1. /\ id \in DOMAIN activities
      /\ activities' = [activities EXCEPT ![id] = SetImmediate(activities[id], utc)]
      /\ UNCHANGED inflight
  BY DEF SetImmediateCmd, Present
<1>2. /\ activities'[id].state = activities[id].state
      /\ activities'[id].schedule = activities[id].schedule
  <2>1. activities[id] \in ActivityType /\ utc \in Nat
    BY <1>1 DEF Inv, TypeOK
  <2> QED
    BY <1>1, <2>1, SetImmediateType
<1>3. /\ DOMAIN activities' = DOMAIN activities
      /\ \A i \in DOMAIN activities : /\ activities'[i].state = activities[i].state
                                     /\ activities'[i].schedule = activities[i].schedule
  BY <1>1, <1>2
<1> QED
  BY <1>1, <1>3 DEF Life!lifeVars, PhaseOf, Present

LEMMA FinishLife ==
  ASSUME Inv, NEW id \in Ids, NEW ack \in Acks, Finish(id, ack)
  PROVE  \E snoozed \in BOOLEAN : Life!Acknowledge(id, snoozed)
<1> DEFINE disabled == {i \in DOMAIN activities : Is(activities[i].state, "Disabled")}
           shots == {i \in DOMAIN activities : IsOneShot(activities[i].schedule)}
           snoozed == ack.kind # "Done"
<1>1. inflight[id] > 0 /\ inflight' = [inflight EXCEPT ![id] = inflight[id] - 1]
  BY FinishEffect DEF Inv
<1>2. CASE ~Present(id)
  <2>1. UNCHANGED activities /\ PhaseOf(id) = "absent"
    BY <1>2, FinishEffect DEF Inv, PhaseOf
  <2>2. Life!Settle(id, snoozed)
    BY <2>1 DEF Life!Settle, PhaseOf, Present
  <2> QED
    BY <1>1, <2>2 DEF Life!Acknowledge
<1>3. CASE Present(id) /\ IsOneShot(activities[id].schedule) /\ ~snoozed
  <2>1. activities' = [i \in DOMAIN activities \ {id} |-> activities[i]]
    BY <1>3, FinishEffect DEF Inv
  <2>2. ([i \in Ids |-> PhaseOf(i)])' =
          [i \in Ids |-> IF i \in {id} THEN "absent" ELSE PhaseOf(i)]
    BY <2>1 DEF PhaseOf, Present
  <2>3. disabled' = disabled \ {id} /\ shots' = shots \ {id}
    BY <2>1
  <2>4. PhaseOf(id) # "absent" /\ id \in shots
    BY <1>3 DEF PhaseOf, Present
  <2>5. Life!Remove({id})
    BY <2>2, <2>3 DEF Life!Remove, Life!Moved
  <2>6. Life!Settle(id, snoozed)
    BY <1>3, <2>4, <2>5 DEF Life!Settle
  <2> QED
    BY <1>1, <2>6 DEF Life!Acknowledge
<1>4. CASE Present(id) /\ ~(IsOneShot(activities[id].schedule) /\ ~snoozed)
  <2>1. PICK a \in ActivityType : /\ IsScheduled(a.state)
                                 /\ a.schedule = activities[id].schedule
                                 /\ activities' = [activities EXCEPT ![id] = a]
    BY <1>4, FinishEffect DEF Inv
  <2>2. ([i \in Ids |-> PhaseOf(i)])' =
          [i \in Ids |-> IF i \in {id} THEN "waiting" ELSE PhaseOf(i)]
    BY <1>4, <2>1 DEF PhaseOf, Present, IsScheduled, Is, Unboxed
  <2>3. disabled' = disabled \ {id} /\ shots' = shots
    BY <1>4, <2>1 DEF IsScheduled, Is, Present
  <2>4. PhaseOf(id) # "absent" /\ ~(id \in shots /\ ~snoozed)
    BY <1>4 DEF PhaseOf, Present
  <2>5. Life!Settle(id, snoozed)
    BY <2>2, <2>3, <2>4 DEF Life!Settle, Life!Moved
  <2> QED
    BY <1>1, <2>5 DEF Life!Acknowledge
<1> QED
  BY <1>2, <1>3, <1>4

\* The actor behaves as Lifecycle for all ids, schedules and clock readings:
\* only enabled waiting activities are claimed, every acknowledgement settles
\* one claimed run, and only paused one-shots are collected.
THEOREM Implements == Spec => ImplementsLifecycle
<1>1. Init => Life!LifeInit
  BY DEF Init, Life!LifeInit, PhaseOf, Present
<1>2. ASSUME Inv, [Next]_vars
      PROVE  [Life!LifeNext]_Life!lifeVars
  <2>1. CASE UNCHANGED vars
    BY <2>1 DEF vars, Life!lifeVars, PhaseOf, Present
  <2>2. CASE AdvanceClock \/ JumpClock
    BY <2>2 DEF AdvanceClock, JumpClock, Life!lifeVars, PhaseOf, Present
  <2>3. ASSUME NEW ids \in SUBSET Ids, Insertion(ids) PROVE Life!LifeNext
    BY <1>2, <2>3, InsertionLife DEF Life!LifeNext
  <2>4. CASE Tick
    BY <1>2, <2>4, TickLife DEF Life!LifeNext
  <2>5. ASSUME NEW id \in Ids, NEW enabled \in BOOLEAN, SetEnabledCmd(id, enabled)
        PROVE  Life!LifeNext
    BY <1>2, <2>5, SetEnabledLife DEF Life!LifeNext
  <2>6. CASE ClaimDue
    BY <1>2, <2>6, ClaimDueLife DEF Life!LifeNext
  <2>7. ASSUME NEW id \in Ids, NEW ack \in Acks, Finish(id, ack) PROVE Life!LifeNext
    BY <1>2, <2>7, FinishLife DEF Life!LifeNext
  <2> QED
    BY <1>2, <2>1, <2>2, <2>3, <2>4, <2>5, <2>6, <2>7, SetImmediateLife DEF Next
<1> QED
  BY <1>1, <1>2, InvAlways, PTL DEF Spec, ImplementsLifecycle, Life!LifeSpec

-----------------------------------------------------------------------------

\* An interval activity never leaves the map, and a one-shot only by an
\* acknowledgement or by being disabled at its target.
THEOREM OnlySpent == Spec => OnlySpentOneShotsLeave
<1> DEFINE Spent(id) == /\ IsOneShot(activities[id].schedule)
                        /\ \/ inflight'[id] < inflight[id]
                           \/ Is(activities[id].state, "Disabled") /\ IsAtTarget(activities[id], utc)
           Leave == \A id \in DOMAIN activities \ DOMAIN activities' : Spent(id)
<1>1. ASSUME Inv, [Next]_vars
      PROVE  [Leave]_vars
  <2>1. ASSUME NEW ids \in SUBSET Ids, Insertion(ids) PROVE Leave
    BY <1>1, <2>1, InsertionEffect DEF Inv
  <2>2. ASSUME Tick PROVE Leave
    <3> SUFFICES ASSUME NEW id \in DOMAIN activities \ DOMAIN activities' PROVE Spent(id)
      OBVIOUS
    <3>1. Is(Ticked(activities[id], mono, utc).state, "Gc")
      BY <2>2 DEF Tick
    <3>2. activities[id] \in ActivityType /\ mono \in Nat /\ utc \in Nat
      BY <1>1 DEF Inv, TypeOK
    <3>3. Ticked(activities[id], mono, utc) \notin ActivityType
      <4>1. ASSUME NEW a \in ActivityType PROVE ~Is(a.state, "Gc")
        BY DEF ActivityType, RestingState, PlainState, Is
      <4> QED
        BY <3>1, <4>1
    <3> QED
      BY <3>2, <3>3, TickedType
  <2>3. ASSUME NEW id \in Ids, NEW ack \in Acks, Finish(id, ack) PROVE Leave
    <3> SUFFICES ASSUME NEW i \in DOMAIN activities \ DOMAIN activities' PROVE Spent(i)
      OBVIOUS
    <3>1. Present(id) /\ IsOneShot(activities[id].schedule) /\ i = id
      BY <1>1, <2>3, FinishEffect DEF Inv
    <3>2. inflight' = [inflight EXCEPT ![id] = inflight[id] - 1] /\ inflight[id] \in Nat
      BY <1>1, <2>3, FinishEffect DEF Inv, TypeOK
    <3>3. inflight'[id] < inflight[id]
      BY <1>1, <3>2 DEF Inv, TypeOK
    <3> QED
      BY <3>1, <3>3
  <2>4. ASSUME \/ ClaimDue
               \/ \E id \in Ids, enabled \in BOOLEAN : SetEnabledCmd(id, enabled)
               \/ \E id \in Ids : SetImmediateCmd(id)
               \/ AdvanceClock \/ JumpClock
        PROVE  Leave
    BY <2>4 DEF ClaimDue, SetEnabledCmd, SetImmediateCmd, AdvanceClock, JumpClock
  <2> QED
    BY <1>1, <2>1, <2>2, <2>3, <2>4 DEF Next
<1> QED
  BY <1>1, InvAlways, PTL DEF Spec, OnlySpentOneShotsLeave

-----------------------------------------------------------------------------
(* Batches.                                                                *)

\* What register_many gets past is new to the map, and no two of it share an id.
LEMMA AcceptedAreNew ==
  ASSUME NEW specs \in Batches
  PROVE  /\ Accepted(specs) \subseteq DOMAIN specs
         /\ \A i \in Accepted(specs) : ~Present(specs[i].id)
         /\ \A i, j \in Accepted(specs) : specs[i].id = specs[j].id => i = j
<1>1. PICK n \in 1 .. MaxBatch : specs \in [1 .. n -> Specs]
  BY DEF Batches
<1>2. DOMAIN specs = 1 .. n /\ n \in Nat
  BY <1>1, ActorAssumption
<1>3. ASSUME NEW i \in Accepted(specs)
      PROVE  /\ i \in Int /\ 1 <= i
             /\ ~Present(specs[i].id)
             /\ \A k \in 1 .. i - 1 : specs[k].id # specs[i].id
  <2>1. i \in 1 .. n
    BY <1>2 DEF Accepted
  <2>2. i \in 1 .. i
    BY <1>2, <2>1
  <2> QED
    BY <1>2, <2>1, <2>2 DEF Accepted
<1>4. ASSUME NEW i \in Accepted(specs), NEW j \in Accepted(specs), i < j
      PROVE  specs[i].id # specs[j].id
  BY <1>3, <1>4
<1>5. ASSUME NEW i \in Accepted(specs), NEW j \in Accepted(specs),
             specs[i].id = specs[j].id
      PROVE  i = j
  <2>1. i \in Int /\ j \in Int /\ ~(i < j) /\ ~(j < i)
    BY <1>3, <1>4, <1>5
  <2> QED
    BY <2>1
<1>6. Accepted(specs) \subseteq DOMAIN specs
  BY DEF Accepted
<1> QED
  BY <1>3, <1>5, <1>6

\* The indices register_many gets past are the first of the batch, up to an entry
\* whose id is taken.
LEMMA AcceptedPrefix ==
  ASSUME NEW specs \in Batches
  PROVE  \E n \in 0 .. Len(specs) :
           /\ Accepted(specs) = 1 .. n
           /\ n < Len(specs) => \/ Present(specs[n + 1].id)
                                \/ \E k \in 1 .. n : specs[k].id = specs[n + 1].id
<1> DEFINE accepted == Accepted(specs)
           Free(j) == ~Present(specs[j].id) /\ \A k \in 1 .. j - 1 : specs[k].id # specs[j].id
<1>1. PICK len \in Nat : specs \in [1 .. len -> Specs]
  BY ActorAssumption DEF Batches
<1>2. DOMAIN specs = 1 .. len /\ Len(specs) = len
  BY <1>1
<1>3. accepted \subseteq 1 .. len
  BY <1>2 DEF Accepted
<1>4. \A i \in 1 .. len : i \in accepted <=> \A j \in 1 .. i : Free(j)
  BY <1>2 DEF Accepted
<1>5. ASSUME NEW n \in 0 .. len, accepted = 1 .. n, n < len
      PROVE  Present(specs[n + 1].id) \/ \E k \in 1 .. n : specs[k].id = specs[n + 1].id
  <2>1. n + 1 \in 1 .. len /\ n + 1 \notin accepted /\ (n + 1) - 1 = n
    BY <1>5
  <2>2. PICK j \in 1 .. n + 1 : ~Free(j)
    BY <1>4, <2>1
  <2>3. ASSUME j \in 1 .. n PROVE FALSE
    <3>1. j \in accepted /\ j \in 1 .. j /\ j \in 1 .. len
      BY <1>5, <2>3
    <3> QED
      BY <1>4, <2>2, <3>1
  <2>4. j = n + 1
    BY <2>2, <2>3
  <2> QED
    BY <2>1, <2>2, <2>4
<1>6. \E n \in 0 .. len : accepted = 1 .. n
  <2>1. CASE accepted = {}
    <3>1. 0 \in 0 .. len /\ 1 .. 0 = {}
      OBVIOUS
    <3> QED
      BY <2>1, <3>1
  <2>2. CASE accepted # {}
    <3> HIDE DEF accepted
    <3>1. PICK n \in accepted : \A i \in accepted : i <= n
      BY <1>3, <2>2, LastIndex
    <3>2. \A i \in 1 .. n : i \in accepted
      <4> TAKE i \in 1 .. n
      <4>1. i \in 1 .. len /\ n \in 1 .. len /\ \A j \in 1 .. i : j \in 1 .. n
        BY <1>3, <3>1
      <4> QED
        BY <1>4, <3>1, <4>1
    <3>3. n \in 0 .. len /\ \A i \in accepted : i \in 1 .. n
      BY <1>3, <3>1
    <3> QED
      BY <3>2, <3>3
  <2> QED
    BY <2>1, <2>2
<1> HIDE DEF accepted, Free
<1> QED
  BY <1>2, <1>5, <1>6 DEF accepted

\* register_many enters the entries before the first id that is taken and none
\* behind it, and touches no activity that was there.
THEOREM RegisterManyFirst == Spec => RegisterManyStopsAtTaken
<1> DEFINE Outcome(specs, n) ==
             /\ DOMAIN activities' = DOMAIN activities \cup {specs[i].id : i \in 1 .. n}
             /\ \A id \in DOMAIN activities : activities'[id] = activities[id]
             /\ \A i \in 1 .. n :
                  /\ ~Present(specs[i].id) /\ \A j \in 1 .. i - 1 : specs[j].id # specs[i].id
                  /\ activities'[specs[i].id].schedule = specs[i].schedule
             /\ n < Len(specs) => specs[n + 1].id \in DOMAIN activities'
<1>1. ASSUME TypeOK, NEW specs \in Batches, RegisterMany(specs)
      PROVE  \E n \in 0 .. Len(specs) : Outcome(specs, n)
  <2> DEFINE accepted == Accepted(specs)
             chosen == Chosen(specs, accepted)
  <2>1. /\ accepted \subseteq DOMAIN specs
        /\ \A i \in accepted : ~Present(specs[i].id)
        /\ \A i, j \in accepted : specs[i].id = specs[j].id => i = j
    BY AcceptedAreNew
  <2>2. /\ DOMAIN chosen = {specs[i].id : i \in accepted}
        /\ \A id \in DOMAIN chosen : chosen[id] \in Schedules
    BY <2>1, ChosenType
  <2>3. InsertNew(chosen)
    BY <1>1 DEF RegisterMany
  <2>4. ASSUME NEW i \in accepted
        PROVE  chosen[specs[i].id] = specs[i].schedule
    <3> DEFINE last == LastOf(specs, accepted)
               j == CHOOSE k \in last : specs[k].id = specs[i].id
    <3>1. specs[i].id \in DOMAIN chosen
      BY <2>2
    <3>2. last \subseteq accepted /\ \E k \in last : specs[k].id = specs[i].id
      BY <3>1 DEF LastOf, Chosen
    <3>3. j = i
      BY <2>1, <3>2
    <3>4. chosen[specs[i].id] = specs[j].schedule
      BY <3>1 DEF Chosen
    <3> QED
      BY <3>3, <3>4
  <2> HIDE DEF chosen
  <2>5. /\ DOMAIN activities' = DOMAIN activities \cup DOMAIN chosen
        /\ \A id \in DOMAIN chosen : activities'[id].schedule = chosen[id]
        /\ \A id \in DOMAIN activities \ DOMAIN chosen : activities'[id] = activities[id]
    BY <1>1, <2>2, <2>3, InsertNewEffect
  <2>6. PICK n \in 0 .. Len(specs) :
          /\ accepted = 1 .. n
          /\ n < Len(specs) => \/ Present(specs[n + 1].id)
                               \/ \E k \in 1 .. n : specs[k].id = specs[n + 1].id
    BY AcceptedPrefix
  <2>7. DOMAIN activities' = DOMAIN activities \cup {specs[i].id : i \in 1 .. n}
    BY <2>2, <2>5, <2>6
  <2>8. \A id \in DOMAIN activities : activities'[id] = activities[id]
    BY <2>1, <2>2, <2>5 DEF Present
  <2>9. ASSUME NEW i \in 1 .. n
        PROVE  /\ ~Present(specs[i].id) /\ \A j \in 1 .. i - 1 : specs[j].id # specs[i].id
               /\ activities'[specs[i].id].schedule = specs[i].schedule
    <3>1. i \in accepted /\ n \in Nat
      BY <2>6
    <3>2. ASSUME NEW j \in 1 .. i - 1 PROVE specs[j].id # specs[i].id
      <4>1. i \in 1 .. i
        BY <3>1
      <4> QED
        BY <3>1, <3>2, <4>1 DEF accepted, Accepted
    <3> QED
      BY <2>1, <2>2, <2>4, <2>5, <3>1, <3>2
  <2>10. n < Len(specs) => specs[n + 1].id \in DOMAIN activities'
    BY <2>6, <2>7 DEF Present
  <2> QED
    BY <2>6, <2>7, <2>8, <2>9, <2>10
<1>2. TypeOK => [\A specs \in Batches : RegisterMany(specs) =>
                   \E n \in 0 .. Len(specs) : Outcome(specs, n)]_vars
  BY <1>1
<1> QED
  BY <1>2, TypeCorrect, PTL DEF RegisterManyStopsAtTaken

-----------------------------------------------------------------------------
(* Targets.                                                                *)

\* What TargetFitsState says of one activity; and, in whatever state it is, only
\* a one-shot has a date for its target.
Fits(a) ==
  LET st == Unboxed(a.state)
  IN  /\ Is(st, "Snoozed") =>
           a.activation_target \in {DurationTarget(st.duration), DurationTarget(0)}
      /\ Is(st, "Idle") =>
           IF IsOneShot(a.schedule)
             THEN a.activation_target.kind = "Date"
             ELSE a.activation_target \in ActivationTargets(a.schedule) \cup {DurationTarget(0)}
      /\ a.activation_target.kind = "Date" => IsOneShot(a.schedule)

TargetInv == Inv /\ \A id \in DOMAIN activities : Fits(activities[id])

\* What a schedule draws is a date for a one-shot and a duration otherwise.
LEMMA TargetsKind ==
  ASSUME NEW s \in ScheduleType, NEW t \in ActivationTargets(s)
  PROVE  t.kind = "Date" <=> IsOneShot(s)
  BY DEF ScheduleType, ActivationTargets, DurationTarget, DateTarget, IsOneShot

LEMMA FreshFits ==
  ASSUME NEW a, IsFresh(a)
  PROVE  Fits(a)
  BY TargetsKind DEF IsFresh, ActivityType, Fits, Idle, Is, Unboxed

\* Acknowledged with a snooze, an activity waits for its duration; done, for a new
\* target of its schedule.
LEMMA FinishedFits ==
  ASSUME NEW a \in ActivityType, NEW ack \in Acks, NEW t \in ActivationTargets(a.schedule),
         ~Is(Finished(a, ack, t).state, "Completed")
  PROVE  Fits(Finished(a, ack, t))
<1>1. CASE ack.kind = "Snooze"
  <2>1. /\ Finished(a, ack, t).state = Snoozed(ack.duration)
        /\ Finished(a, ack, t).activation_target = DurationTarget(ack.duration)
    BY <1>1 DEF Finished, FinishedWith, Rescheduled, ActivityType
  <2> QED
    BY <2>1 DEF Fits, Snoozed, DurationTarget, Is, Unboxed
<1>2. CASE ack.kind = "Done"
  <2>1. ~IsOneShot(a.schedule)
    BY <1>2 DEF Finished, FinishedWith, ActivityType, Completed, Is
  <2>2. /\ Finished(a, ack, t).state = Idle
        /\ Finished(a, ack, t).activation_target = t
        /\ Finished(a, ack, t).schedule = a.schedule
    BY <1>2, <2>1 DEF Finished, FinishedWith, Rescheduled, ActivityType
  <2>3. t.kind # "Date"
    BY <2>1, TargetsKind DEF ActivityType
  <2> QED
    BY <2>1, <2>2, <2>3 DEF Fits, Idle, Is, Unboxed
<1> QED
  BY <1>1, <1>2 DEF Acks, Done, Snooze

\* A change that keeps the schedule, the target and the state under any Disabled
\* box keeps the target fitting.
LEMMA SameFits ==
  ASSUME NEW a, NEW b, Fits(a),
         b.schedule = a.schedule,
         b.activation_target = a.activation_target,
         Unboxed(b.state) = Unboxed(a.state)
  PROVE  Fits(b)
  BY DEF Fits

LEMMA TargetInductive ==
  ASSUME TargetInv, [Next]_vars
  PROVE  TargetInv'
<1>0. /\ Inv /\ Inv' /\ mono \in Nat /\ utc \in Nat
      /\ \A id \in DOMAIN activities : activities[id] \in ActivityType /\ Fits(activities[id])
  BY InvInductive DEF TargetInv, Inv, TypeOK
<1> SUFFICES \A id \in DOMAIN activities' : Fits(activities'[id])
  BY <1>0 DEF TargetInv
<1>1. CASE UNCHANGED activities
  BY <1>0, <1>1
<1>2. ASSUME NEW ids \in SUBSET Ids, Insertion(ids)
      PROVE  \A id \in DOMAIN activities' : Fits(activities'[id])
  <2>1. ASSUME NEW id \in ids PROVE Fits(activities'[id])
    BY <1>0, <1>2, FreshFits, InsertionEffect DEF Inv
  <2> QED
    BY <1>0, <1>2, <2>1, InsertionEffect DEF Inv
<1>3. ASSUME Tick
      PROVE  \A id \in DOMAIN activities' : Fits(activities'[id])
  <2> SUFFICES ASSUME NEW id \in DOMAIN activities' PROVE Fits(activities'[id])
    OBVIOUS
  <2> DEFINE a == activities[id]
  <2>1. /\ a \in ActivityType /\ Fits(a)
        /\ activities'[id] = Ticked(a, mono, utc)
        /\ ~Is(Ticked(a, mono, utc).state, "Gc")
    BY <1>0, <1>3 DEF Tick
  <2>2. /\ Ticked(a, mono, utc).schedule = a.schedule
        /\ Ticked(a, mono, utc).state = a.state
    BY <1>0, <2>1, TickedType DEF Is, Gc
  <2>3. Ticked(a, mono, utc).activation_target = a.activation_target
    BY <2>1 DEF Ticked, TryGcMark, ActivityType
  <2> QED
    BY <2>1, <2>2, <2>3, SameFits
<1>4. ASSUME NEW id \in Ids, NEW enabled \in BOOLEAN, SetEnabledCmd(id, enabled)
      PROVE  \A i \in DOMAIN activities' : Fits(activities'[i])
  <2> DEFINE a == activities[id]
  <2>1. /\ id \in DOMAIN activities
        /\ activities' = [activities EXCEPT ![id] = SetEnabled(a, enabled)]
    BY <1>4 DEF SetEnabledCmd, Present
  <2>2. /\ SetEnabled(a, enabled).schedule = a.schedule
        /\ Unboxed(SetEnabled(a, enabled).state) = Unboxed(a.state)
    BY <1>0, <2>1, SetEnabledType
  <2>3. SetEnabled(a, enabled).activation_target = a.activation_target
    BY <1>0, <2>1 DEF SetEnabled, ActivityType
  <2>4. Fits(SetEnabled(a, enabled))
    BY <1>0, <2>1, <2>2, <2>3, SameFits
  <2> QED
    BY <1>0, <2>1, <2>4
<1>5. ASSUME ClaimDue
      PROVE  \A id \in DOMAIN activities' : Fits(activities'[id])
  <2>1. ASSUME NEW id \in DOMAIN activities PROVE Fits(Claimed(activities[id]))
    BY <1>0 DEF Claimed, ActivityType, Running, Fits, Is, Unboxed
  <2> QED
    BY <1>0, <1>5, <2>1 DEF ClaimDue
<1>6. ASSUME NEW id \in Ids, SetImmediateCmd(id)
      PROVE  \A i \in DOMAIN activities' : Fits(activities'[i])
  <2> DEFINE a == activities[id]
  <2>1. /\ id \in DOMAIN activities
        /\ activities' = [activities EXCEPT ![id] = SetImmediate(a, utc)]
    BY <1>6 DEF SetImmediateCmd, Present
  <2>2. /\ SetImmediate(a, utc).schedule = a.schedule
        /\ SetImmediate(a, utc).state = a.state
        /\ SetImmediate(a, utc).activation_target =
             IF a.activation_target.kind = "Duration" THEN DurationTarget(0) ELSE DateTarget(utc)
    BY <1>0, <2>1 DEF SetImmediate, ActivityType
  <2>3. a.activation_target.kind \in {"Duration", "Date"}
    BY <1>0, <2>1 DEF ActivityType, TargetType
  <2>4. Fits(a) => Fits(SetImmediate(a, utc))
    <3>1. CASE a.activation_target.kind = "Duration"
      BY <2>2, <3>1 DEF Fits, DurationTarget
    <3>2. CASE a.activation_target.kind = "Date"
      BY <2>2, <3>2 DEF Fits, DateTarget, DurationTarget
    <3> QED
      BY <2>3, <3>1, <3>2
  <2> QED
    BY <1>0, <2>1, <2>4
<1>7. ASSUME NEW id \in Ids, NEW ack \in Acks, Finish(id, ack)
      PROVE  \A i \in DOMAIN activities' : Fits(activities'[i])
  <2>1. CASE UNCHANGED activities
    BY <1>0, <2>1
  <2>2. CASE Present(id)
    <3>1. PICK t \in ActivationTargets(activities[id].schedule) :
            LET a == Finished(activities[id], ack, t)
            IN  activities' = IF Is(a.state, "Completed")
                                THEN [i \in DOMAIN activities \ {id} |-> activities[i]]
                                ELSE [activities EXCEPT ![id] = a]
      BY <1>7, <2>2 DEF Finish, FinishActivity
    <3> DEFINE a == Finished(activities[id], ack, t)
    <3>2. ~Is(a.state, "Completed") => Fits(a)
      BY <1>0, <2>2, FinishedFits DEF Present
    <3> HIDE DEF a
    <3> QED
      BY <1>0, <3>1, <3>2 DEF a
  <2> QED
    BY <1>7, <2>1, <2>2 DEF Finish, FinishActivity
<1>8. Next \/ UNCHANGED activities
  BY DEF vars
<1>9. AdvanceClock \/ JumpClock => UNCHANGED activities
  BY DEF AdvanceClock, JumpClock
<1> QED
  BY <1>1, <1>2, <1>3, <1>4, <1>5, <1>6, <1>7, <1>8, <1>9 DEF Next

LEMMA TargetAlways == Spec => []TargetInv
<1>1. Init => TargetInv
  BY InvInit DEF Init, TargetInv
<1> QED
  BY <1>1, TargetInductive, PTL DEF Spec

\* Whatever was dispatched, paused, snoozed or reset in between, an activity waits
\* for a target that its state and its schedule call for.
THEOREM TargetFits == Spec => []TargetFitsState
<1>1. TargetInv => TargetFitsState
  BY DEF TargetInv, Fits, TargetFitsState
<1> QED
  BY <1>1, TargetAlways, PTL

-----------------------------------------------------------------------------
(* Progress.                                                               *)

\* What Clamped makes of a whole that is not negative.
LEMMA ClampedCases ==
  ASSUME NEW n \in Int, NEW d \in Nat
  PROVE  Clamped(n, d) = IF n = 0 /\ d = 0 THEN NaN
                         ELSE IF n <= 0 THEN Nothing
                         ELSE IF n >= d THEN Everything ELSE [part |-> n, whole |-> d]
  BY DEF Clamped

\* A fraction is between nothing and everything, or the 0/0.
LEMMA ClampedType ==
  ASSUME NEW n \in Int, NEW d \in Nat
  PROVE  /\ Clamped(n, d).part \in Nat
         /\ Clamped(n, d).whole \in Nat
         /\ Clamped(n, d).part <= Clamped(n, d).whole
  BY ClampedCases DEF NaN, Nothing, Everything

\* The 0/0 is not compared, and everything is no less than any fraction.
LEMMA EverythingIsMost ==
  ASSUME NEW p \in {NaN, Everything}, NEW n \in Int, NEW d \in Nat
  PROVE  NoLess(p, Clamped(n, d))
<1> DEFINE q == Clamped(n, d)
<1>1. q.part \in Nat /\ q.whole \in Nat /\ q.part <= q.whole
  BY ClampedType
<1>2. p.part * q.whole >= q.part * p.whole
  <2> HIDE DEF q
  <2>1. CASE p = NaN
    BY <1>1, <2>1 DEF NaN
  <2>2. CASE p = Everything
    BY <1>1, <2>2 DEF Everything
  <2> QED
    BY <2>1, <2>2
<1> QED
  BY <1>2 DEF NoLess

\* A part that has reached its whole is everything, and so is, whatever its sign,
\* a part that is its whole.
LEMMA ReachedIsEverything ==
  ASSUME NEW m \in Int, NEW c \in Int, m = c \/ (c \in Nat /\ c <= m)
  PROVE  Clamped(m, c) \in {NaN, Everything}
  BY DEF Clamped

\* A part that grows is no less of the same whole.
LEMMA ClampedMonotone ==
  ASSUME NEW n \in Int, NEW m \in Int, NEW d \in Nat, n <= m
  PROVE  NoLess(Clamped(m, d), Clamped(n, d))
<1>1. CASE 0 < n /\ m < d
  <2>1. /\ Clamped(n, d) = [part |-> n, whole |-> d]
        /\ Clamped(m, d) = [part |-> m, whole |-> d]
    BY <1>1, ClampedCases
  <2>2. m * d >= n * d
    BY <1>1
  <2> QED
    BY <2>1, <2>2 DEF NoLess
<1>2. CASE d <= m
  BY <1>2, ReachedIsEverything, EverythingIsMost
<1>3. CASE n <= 0
  <2>1. Clamped(n, d).part = 0
    BY <1>3, ClampedCases DEF NaN, Nothing
  <2>2. /\ Clamped(m, d).part \in Nat /\ Clamped(m, d).whole \in Nat
        /\ Clamped(n, d).whole \in Nat
    BY ClampedType
  <2> QED
    BY <2>1, <2>2 DEF NoLess
<1> QED
  BY <1>1, <1>2, <1>3

\* Dropping what exceeds whole milliseconds keeps the order of two spans.
LEMMA DivMonotone ==
  ASSUME NEW x \in Nat, NEW y \in Nat, NEW d \in Nat \ {0}, x <= y
  PROVE  x \div d <= y \div d
<1> DEFINE p == x \div d
           q == y \div d
<1>1. p \in Int /\ q \in Int /\ p * d <= x /\ y < (q + 1) * d
  OBVIOUS
<1> HIDE DEF p, q
<1>2. p * d < (q + 1) * d
  <2>1. p * d \in Int /\ (q + 1) * d \in Int
    BY <1>1
  <2> HIDE <1>1
  <2> QED
    BY <1>1, <2>1
<1>3. ASSUME q + 1 <= p PROVE FALSE
  <2>1. (q + 1) * d <= p * d
    BY <1>1, <1>3
  <2> QED
    BY <1>1, <1>2, <2>1
<1>4. p <= q
  BY <1>1, <1>3
<1> QED
  BY <1>4 DEF p, q

LEMMA MillisType ==
  ASSUME NEW t \in Int
  PROVE  /\ Millis(t) \in Int
         /\ IF t >= 0 THEN Millis(t) >= 0 ELSE Millis(t) <= 0
<1>1. ASSUME NEW x \in Nat PROVE x \div Millisecond \in Nat
  <2> DEFINE p == x \div Millisecond
  <2>1. p \in Int /\ x < (p + 1) * Millisecond
    BY ActivityAssumption
  <2> HIDE DEF p
  <2>2. ASSUME p <= -1 PROVE FALSE
    <3>1. p + 1 \in Int /\ p + 1 <= 0 /\ Millisecond \in Nat
      BY <2>1, <2>2, ActivityAssumption
    <3>2. (p + 1) * Millisecond <= 0
      BY <3>1
    <3> QED
      BY <2>1, <3>1, <3>2
  <2> QED
    BY <2>1, <2>2 DEF p
<1>2. CASE t >= 0
  BY <1>1, <1>2 DEF Millis
<1>3. CASE t < 0
  <2>1. (-t) \div Millisecond \in Nat
    BY <1>1, <1>3
  <2> QED
    BY <1>3, <2>1 DEF Millis
<1> QED
  BY <1>2, <1>3

LEMMA MillisMonotone ==
  ASSUME NEW x \in Int, NEW y \in Int, x <= y
  PROVE  Millis(x) <= Millis(y)
<1>1. CASE x >= 0
  <2>1. x \div Millisecond <= y \div Millisecond
    BY <1>1, DivMonotone, ActivityAssumption
  <2> QED
    BY <1>1, <2>1 DEF Millis
<1>2. CASE x < 0 /\ y >= 0
  BY <1>2, MillisType
<1>3. CASE y < 0
  <2> DEFINE p == (-x) \div Millisecond
             q == (-y) \div Millisecond
  <2>1. q <= p
    BY <1>3, DivMonotone, ActivityAssumption
  <2>2. p \in Int /\ q \in Int
    BY <1>3, ActivityAssumption
  <2>3. Millis(x) = -p /\ Millis(y) = -q
    BY <1>3 DEF Millis
  <2> HIDE DEF p, q
  <2> QED
    BY <2>1, <2>2, <2>3
<1> QED
  BY <1>1, <1>2, <1>3

\* Neither a poll, a pause, a dispatch nor the time makes progress fall.
THEOREM ProgressMonotone == Spec => ProgressNeverFalls
<1> DEFINE Command(id) == \/ Tick
                          \/ \E enabled \in BOOLEAN : SetEnabledCmd(id, enabled)
                          \/ SetImmediateCmd(id)
                          \/ AdvanceClock
           Goal(id) == BornLate(activities[id]) \/ NoLess(ProgressOf(id)', ProgressOf(id))
<1>1. ASSUME TypeOK,
             NEW id \in DOMAIN activities \cap DOMAIN activities',
             Command(id),
             ~BornLate(activities[id])
      PROVE  NoLess(ProgressOf(id)', ProgressOf(id))
  <2> DEFINE a == activities[id]
             b == activities'[id]
             target == a.activation_target
             age == utc - a.created_at
             span == target.at - a.created_at
  <2>1. /\ a \in ActivityType /\ mono \in Nat /\ utc \in Nat
        /\ a.duration_delta \in Nat /\ a.created_at \in Nat /\ a.last_tick \in Nat
        /\ target \in TargetType /\ target.at \in Nat /\ target.kind \in {"Duration", "Date"}
    BY <1>1 DEF TypeOK, ActivityType, TargetType
  <2>2. age \in Int /\ Millis(age) \in Int
    BY <2>1, MillisType
  <2>3. target.kind = "Date" => Millis(span) \in Nat
    <3>1. target.kind = "Date" => span \in Nat
      BY <1>1, <2>1 DEF BornLate
    <3> QED
      BY <3>1, MillisType
  <2>4. /\ target.kind = "Duration" => ProgressOf(id) = Clamped(a.duration_delta, target.at)
        /\ target.kind = "Date" => ProgressOf(id) = Clamped(Millis(age), Millis(span))
    BY DEF ProgressOf, CalculateProgress
  <2>5. ProgressOf(id)' = CalculateProgress(b, utc')
    BY DEF ProgressOf
  <2>6. ASSUME b.activation_target = target, b.created_at = a.created_at,
               b.duration_delta \in Nat, b.duration_delta >= a.duration_delta,
               utc' \in Nat, utc' >= utc
        PROVE  NoLess(ProgressOf(id)', ProgressOf(id))
    <3>1. CASE target.kind = "Duration"
      <4>1. ProgressOf(id)' = Clamped(b.duration_delta, target.at)
        BY <2>5, <2>6, <3>1 DEF CalculateProgress
      <4> QED
        BY <2>1, <2>4, <2>6, <3>1, <4>1, ClampedMonotone
    <3>2. CASE target.kind = "Date"
      <4> DEFINE later == utc' - a.created_at
      <4>1. ProgressOf(id)' = Clamped(Millis(later), Millis(span))
        BY <2>5, <2>6, <3>2 DEF CalculateProgress
      <4>2. later \in Int /\ age <= later
        BY <2>1, <2>6
      <4>3. Millis(later) \in Int /\ Millis(age) <= Millis(later)
        BY <2>2, <4>2, MillisType, MillisMonotone
      <4> QED
        BY <2>2, <2>3, <2>4, <3>2, <4>1, <4>3, ClampedMonotone
    <3> QED
      BY <2>1, <3>1, <3>2
  <2>7. CASE Tick
    <3> DEFINE delta == IF IsScheduled(a.state)
                          THEN a.duration_delta + Elapsed(a.last_tick, mono)
                          ELSE a.duration_delta
    <3>1. utc' = utc /\ b = Ticked(a, mono, utc)
      BY <1>1, <2>7 DEF Tick, clockVars
    <3>2. delta \in Nat /\ delta >= a.duration_delta
      <4>1. Elapsed(a.last_tick, mono) \in Nat
        BY <2>1, ElapsedType
      <4> QED
        BY <2>1, <4>1
    <3>3. /\ b.activation_target = target /\ b.created_at = a.created_at
          /\ b.duration_delta = delta
      BY <2>1, <3>1 DEF Ticked, TryGcMark, ActivityType
    <3> HIDE DEF delta
    <3> QED
      BY <2>1, <2>6, <3>1, <3>2, <3>3
  <2>8. ASSUME NEW enabled \in BOOLEAN, SetEnabledCmd(id, enabled)
        PROVE  NoLess(ProgressOf(id)', ProgressOf(id))
    <3>1. utc' = utc /\ b = SetEnabled(a, enabled)
      BY <2>8 DEF SetEnabledCmd, Present, clockVars
    <3>2. /\ b.activation_target = target /\ b.created_at = a.created_at
          /\ b.duration_delta = a.duration_delta
      BY <2>1, <3>1 DEF SetEnabled, ActivityType
    <3> QED
      BY <2>1, <2>6, <3>1, <3>2
  <2>9. CASE SetImmediateCmd(id)
    <3>1. utc' = utc /\ b = SetImmediate(a, utc)
      BY <2>9 DEF SetImmediateCmd, Present, clockVars
    <3>2. /\ b.created_at = a.created_at /\ b.duration_delta = a.duration_delta
          /\ b.activation_target = IF target.kind = "Duration" THEN DurationTarget(0)
                                                               ELSE DateTarget(utc)
      BY <2>1, <3>1 DEF SetImmediate, ActivityType
    <3>3. ProgressOf(id)' \in {NaN, Everything}
      <4>1. CASE target.kind = "Duration"
        <5>1. ProgressOf(id)' = Clamped(a.duration_delta, 0)
          BY <2>5, <3>2, <4>1 DEF CalculateProgress, DurationTarget
        <5> QED
          BY <2>1, <5>1, ReachedIsEverything
      <4>2. CASE target.kind = "Date"
        <5>1. ProgressOf(id)' = Clamped(Millis(age), Millis(age))
          BY <2>5, <3>1, <3>2, <4>2 DEF CalculateProgress, DateTarget
        <5> QED
          BY <2>2, <5>1, ReachedIsEverything
      <4> QED
        BY <2>1, <4>1, <4>2
    <3> QED
      BY <2>1, <2>2, <2>3, <2>4, <3>3, EverythingIsMost
  <2>10. CASE AdvanceClock
    <3>1. utc' = utc + 1 /\ b = a
      BY <2>10 DEF AdvanceClock, Advance
    <3> QED
      BY <2>1, <2>6, <3>1
  <2> QED
    BY <1>1, <2>7, <2>8, <2>9, <2>10
<1>2. TypeOK => [\A id \in DOMAIN activities \cap DOMAIN activities' :
                   Command(id) => Goal(id)]_vars
  BY <1>1
<1> QED
  BY <1>2, TypeCorrect, PTL DEF ProgressNeverFalls

=============================================================================
