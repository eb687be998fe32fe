--------------------------- MODULE SchedulerActor ---------------------------
(***************************************************************************)
(* The scheduler actor of schedule.rs: the map of activities and one       *)
(* action per Command it handles.  The actor is a single task that handles *)
(* one command at a time, so each command is one atomic step; the mailbox  *)
(* in front of it belongs to module Ritualist.                             *)
(*                                                                         *)
(* The driver is the actor's only source of Finish: it sends exactly one   *)
(* for every id a ClaimDue returned.  inflight[id] counts those it still   *)
(* owes.  Everything else may come from any client at any time.            *)
(***************************************************************************)
EXTENDS Activity, Clock, Sequences

CONSTANTS
  Ids,              \* activity ids, the type parameter T
  Schedules,        \* the schedules clients use
  SnoozeDurations,  \* the durations consumers snooze for
  MaxBatch,         \* bound on the length of a register_many/reset_many
  MaxRuns           \* bound on the unfinished runs of one id

ASSUME ActorAssumption ==
  /\ Schedules \subseteq ScheduleType
  /\ SnoozeDurations \subseteq Nat
  /\ MaxBatch \in Nat
  /\ MaxRuns \in Nat

VARIABLES
  activities,  \* HashMap<T, Activity<T>>
  inflight

vars == <<activities, mono, utc, inflight>>

Specs == [id : Ids, schedule : Schedules]
Batches == UNION {[1 .. n -> Specs] : n \in 1 .. MaxBatch}
Acks == {Done} \cup {Snooze(d) : d \in SnoozeDurations}

Present(id) == id \in DOMAIN activities

-----------------------------------------------------------------------------
(* Insertion.                                                              *)

\* What Activity::new may build from a schedule: the random target varies.
NewActivities(s) == {New(s, t, mono, utc) : t \in ActivationTargets(s)}

\* HashMap::insert of a new activity for every id of chosen \in [ids -> Schedules].
InsertNew(chosen) ==
  \E new \in [DOMAIN chosen -> UNION {NewActivities(s) : s \in Schedules}] :
    /\ \A id \in DOMAIN chosen : new[id] \in NewActivities(chosen[id])
    /\ activities' = [id \in DOMAIN activities \cup DOMAIN chosen |->
                        IF id \in DOMAIN chosen THEN new[id] ELSE activities[id]]

\* Mutant: register_many looks for ids in the map only before it starts.
AcceptedRepeats(specs) == {i \in DOMAIN specs : \A j \in 1 .. i : ~Present(specs[j].id)}

\* register_many stops at the first id already there, from before or from
\* earlier in the batch: the indices it gets past.
Accepted(specs) ==
  {i \in DOMAIN specs :
     \A j \in 1 .. i : /\ ~Present(specs[j].id)
                       /\ \A k \in 1 .. j - 1 : specs[k].id # specs[j].id}

\* The batch entries in `indices' with no later entry for their id: those
\* whose activity is in the map once the batch has been inserted in order.
LastOf(specs, indices) ==
  {i \in indices : \A j \in indices : j > i => specs[j].id # specs[i].id}

\* The schedule each id of the batch ends up with.
Chosen(specs, indices) ==
  LET last == LastOf(specs, indices)
  IN  [id \in {specs[i].id : i \in last} |->
         specs[CHOOSE i \in last : specs[i].id = id].schedule]

-----------------------------------------------------------------------------
(* One action per Command.  The client-side validation of WithScheduler    *)
(* comes first: an invalid schedule never reaches the actor.  A Register   *)
(* of an id already present only replies an error.                         *)

Register(spec) ==
  /\ Validate(spec.schedule)
  /\ ~Present(spec.id)
  /\ InsertNew([id \in {spec.id} |-> spec.schedule])
  /\ UNCHANGED <<inflight, clockVars>>

RegisterMany(specs) ==
  /\ \A i \in DOMAIN specs : Validate(specs[i].schedule)
  /\ InsertNew(Chosen(specs, Accepted(specs)))
  /\ UNCHANGED <<inflight, clockVars>>

Reset(spec) ==
  /\ Validate(spec.schedule)
  /\ InsertNew([id \in {spec.id} |-> spec.schedule])
  /\ UNCHANGED <<inflight, clockVars>>

ResetMany(specs) ==
  /\ \A i \in DOMAIN specs : Validate(specs[i].schedule)
  /\ InsertNew(Chosen(specs, DOMAIN specs))
  /\ UNCHANGED <<inflight, clockVars>>

\* Tick every activity, and retain those it did not mark Gc.
Tick ==
  LET after == [id \in DOMAIN activities |-> Ticked(activities[id], mono, utc)]
      kept == {id \in DOMAIN activities : ~Is(after[id].state, "Gc")}
  IN  /\ activities' = [id \in kept |-> after[id]]
      /\ UNCHANGED <<inflight, clockVars>>

SetEnabledCmd(id, enabled) ==
  /\ Present(id)
  /\ activities' = [activities EXCEPT ![id] = SetEnabled(@, enabled)]
  /\ UNCHANGED <<inflight, clockVars>>

Due == {id \in DOMAIN activities : ShouldRun(activities[id], utc)}

\* Replies Due; the driver then owes one Finish for each.
ClaimDue ==
  /\ \A id \in Due : inflight[id] < MaxRuns
  /\ activities' = [id \in DOMAIN activities |->
                      IF id \in Due THEN Claimed(activities[id]) ELSE activities[id]]
  /\ inflight' = [id \in Ids |-> IF id \in Due THEN inflight[id] + 1 ELSE inflight[id]]
  /\ UNCHANGED clockVars

SetImmediateCmd(id) ==
  /\ Present(id)
  /\ activities' = [activities EXCEPT ![id] = SetImmediate(@, utc)]
  /\ UNCHANGED <<inflight, clockVars>>

\* Finish of an id that has left the map is dropped; a Completed one is removed.
FinishActivity(id, ack) ==
  IF ~Present(id) THEN UNCHANGED activities
  ELSE \E t \in ActivationTargets(activities[id].schedule) :
         LET a == Finished(activities[id], ack, t)
         IN  activities' = IF Is(a.state, "Completed")
                             THEN [i \in DOMAIN activities \ {id} |-> activities[i]]
                             ELSE [activities EXCEPT ![id] = a]

Finish(id, ack) ==
  /\ inflight[id] > 0
  /\ inflight' = [inflight EXCEPT ![id] = @ - 1]
  /\ FinishActivity(id, ack)
  /\ UNCHANGED clockVars

AdvanceClock == Advance /\ UNCHANGED <<activities, inflight>>

JumpClock == (\E t \in 0 .. MaxTime : AdjustWallClock(t)) /\ UNCHANGED <<activities, inflight>>

-----------------------------------------------------------------------------

Init ==
  /\ activities = <<>>
  /\ inflight = [id \in Ids |-> 0]
  /\ ClockInit

\* The insertion commands, by the ids whose activity they create or replace.
Insertion(ids) ==
  \/ \E spec \in Specs : /\ ids = {spec.id}
                         /\ Register(spec) \/ Reset(spec)
  \/ \E specs \in Batches : /\ ids = {specs[i].id : i \in Accepted(specs)}
                            /\ RegisterMany(specs)
  \/ \E specs \in Batches : /\ ids = {specs[i].id : i \in DOMAIN specs}
                            /\ ResetMany(specs)

Next ==
  \/ \E ids \in SUBSET Ids : Insertion(ids)
  \/ Tick
  \/ \E id \in Ids, enabled \in BOOLEAN : SetEnabledCmd(id, enabled)
  \/ ClaimDue
  \/ \E id \in Ids : SetImmediateCmd(id)
  \/ \E id \in Ids, ack \in Acks : Finish(id, ack)
  \/ AdvanceClock
  \/ JumpClock

Spec == Init /\ [][Next]_vars

-----------------------------------------------------------------------------
(* Properties.                                                             *)

\* Types.  RestingState says that no activity is left Completed or Gc between
\* two commands and that disabling twice does not nest.
TypeOK ==
  /\ DOMAIN activities \subseteq Ids
  /\ \A id \in DOMAIN activities : activities[id] \in ActivityType
  /\ inflight \in [Ids -> Nat]
  /\ mono \in Nat
  /\ utc \in Nat

\* An activity that is Running, disabled in the meantime or not, is one the
\* driver still owes a Finish for: nothing can leave it stuck in Running.
RunningIsOwed ==
  \A id \in DOMAIN activities :
    Is(Unboxed(activities[id].state), "Running") => inflight[id] > 0

\* The target always is the one its state calls for: the snooze duration while
\* snoozed, the schedule's own range while idle, a date only for a one-shot,
\* or "at once" when dispatched.  A snooze target must not outlive its snooze.
TargetFitsState ==
  \A id \in DOMAIN activities :
    LET a == activities[id]
        st == Unboxed(a.state)
    IN  /\ Is(st, "Snoozed") =>
             a.activation_target \in {DurationTarget(st.duration), DurationTarget(0)}
        /\ Is(st, "Idle") =>
             IF IsOneShot(a.schedule)
               THEN a.activation_target.kind = "Date"
               ELSE a.activation_target \in ActivationTargets(a.schedule)
                                              \cup {DurationTarget(0)}

\* Only one-shots ever leave the map, and only by the acknowledgement of a run
\* or by being disabled at their target: an interval activity is never lost.
OnlySpentOneShotsLeave ==
  [][\A id \in DOMAIN activities \ DOMAIN activities' :
       /\ IsOneShot(activities[id].schedule)
       /\ \/ inflight'[id] < inflight[id]
          \/ Is(activities[id].state, "Disabled") /\ IsAtTarget(activities[id], utc)]_vars

\* "Will return an error if the activity is already registered" (schedule.rs:305),
\* and for a batch that error comes when part of it is done: register_many enters
\* the entries before the first id that is taken, by an activity from before or by
\* an entry before it; that one and all behind it are dropped, and whatever was
\* there stays as it was.  Nothing is overwritten.
RegisterManyStopsAtTaken ==
  [][\A specs \in Batches : RegisterMany(specs) =>
       \E n \in 0 .. Len(specs) :
         /\ DOMAIN activities' = DOMAIN activities \cup {specs[i].id : i \in 1 .. n}
         /\ \A id \in DOMAIN activities : activities'[id] = activities[id]
         /\ \A i \in 1 .. n :
              /\ ~Present(specs[i].id) /\ \A j \in 1 .. i - 1 : specs[j].id # specs[i].id
              /\ activities'[specs[i].id].schedule = specs[i].schedule
         /\ n < Len(specs) => specs[n + 1].id \in DOMAIN activities']_vars

-----------------------------------------------------------------------------
(* What a Snapshot shows: calculate_progress_pct of each activity.         *)

ProgressOf(id) == CalculateProgress(activities[id], utc)

\* The progress of an activity that was created after its date means nothing.
BornLate(a) ==
  a.activation_target.kind = "Date" /\ a.activation_target.at < a.created_at

\* "It resets to 0.0 each time the activity runs" (activity.rs:222) and only
\* then: neither a pause, a dispatch nor a poll makes progress fall.
ProgressNeverFalls ==
  [][\A id \in DOMAIN activities \cap DOMAIN activities' :
       \/ Tick
       \/ \E enabled \in BOOLEAN : SetEnabledCmd(id, enabled)
       \/ SetImmediateCmd(id)
       \/ AdvanceClock
       => BornLate(activities[id]) \/ NoLess(ProgressOf(id)', ProgressOf(id))]_vars

\* That it does reset: the progress of an interval that was just claimed is 0.0.
ProgressResetsAtRun ==
  [][\A id \in Due :
       ClaimDue /\ ~IsOneShot(activities[id].schedule) => ProgressOf(id)' = Nothing]_vars

-----------------------------------------------------------------------------
(* The actor implements the untimed Lifecycle.                             *)

PhaseOf(id) ==
  IF ~Present(id) THEN "absent"
  ELSE IF Is(Unboxed(activities[id].state), "Running") THEN "running" ELSE "waiting"

Life == INSTANCE Lifecycle WITH
          phase   <- [id \in Ids |-> PhaseOf(id)],
          paused  <- {id \in DOMAIN activities : Is(activities[id].state, "Disabled")},
          oneshot <- {id \in DOMAIN activities : IsOneShot(activities[id].schedule)},
          owed    <- inflight

\* Every command does to the phases what Lifecycle allows: only an enabled,
\* waiting activity is claimed, only a paused one-shot is collected, and every
\* acknowledgement settles one run.
ImplementsLifecycle == Life!LifeSpec

=============================================================================
