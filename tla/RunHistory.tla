----------------------------- MODULE RunHistory -----------------------------
(***************************************************************************)
(* The scheduler actor with auxiliary variables about runs and dispatches. *)
(*                                                                         *)
(* `stale' holds the ids that were inserted anew while a run of the        *)
(* replaced activity was still unfinished, until their outstanding runs    *)
(* have all been finished: the Finish of such a run hits an activity it is *)
(* not for.  `dispatched' holds the ids that a dispatch promised to run,   *)
(* until they are claimed, removed or inserted anew.                       *)
(***************************************************************************)
EXTENDS SchedulerActor

VARIABLES
  stale,
  dispatched,
  quiet        \* the dispatched ids without an unfinished run at that moment

runVars == <<vars, stale, dispatched, quiet>>

RunInit == Init /\ stale = {} /\ dispatched = {} /\ quiet = {}

\* The ids that are stale after a step that inserted the activities of ids.
Renewed(ids) == stale' = {id \in stale \cup ids : inflight'[id] > 0}

\* No dispatch of ids, or of an id that has left the map, is pending any more.
Forget(ids) ==
  /\ dispatched' = (dispatched \ ids) \cap DOMAIN activities'
  /\ quiet' = (quiet \ ids) \cap DOMAIN activities'

RunNext ==
  \/ \E ids \in SUBSET Ids : Insertion(ids) /\ Renewed(ids) /\ Forget(ids)
  \/ ClaimDue /\ Renewed({}) /\ Forget(Due)
  \/ \E id \in Ids : /\ SetImmediateCmd(id)
                     /\ Renewed({})
                     /\ dispatched' = dispatched \cup {id}
                     /\ quiet' = IF inflight[id] = 0 THEN quiet \cup {id} ELSE quiet
  \/ /\ \/ Tick
        \/ \E id \in Ids, enabled \in BOOLEAN : SetEnabledCmd(id, enabled)
        \/ \E id \in Ids, ack \in Acks : Finish(id, ack)
        \/ AdvanceClock
     /\ Renewed({}) /\ Forget({})
  \* A wall clock that is set takes the dates of one-shots with it.
  \/ /\ JumpClock
     /\ quiet' = {id \in quiet : activities[id].activation_target.kind = "Duration"}
     /\ UNCHANGED <<stale, dispatched>>

RunSpec == RunInit /\ [][RunNext]_runVars

-----------------------------------------------------------------------------

IsRunning(id) == Present(id) /\ Is(Unboxed(activities[id].state), "Running")

\* Unless an activity was replaced during a run, its state tells exactly
\* whether a run is out: one while Running (disabled or not), none otherwise,
\* and at most one for an id whose one-shot was collected during its run.
RunsMatchState ==
  \A id \in Ids \ stale :
    /\ IsRunning(id) => inflight[id] = 1
    /\ Present(id) /\ ~IsRunning(id) => inflight[id] = 0
    /\ inflight[id] <= 1

\* A one-shot leaves the map by an acknowledgement only if that activity was
\* claimed, so a reminder is never dropped unseen.  Claims about a one-shot
\* that was replaced during a run are excluded: see RescheduledOneShotSurvives.
OneShotsRunBeforeCompletion ==
  [][\A id \in DOMAIN activities \ DOMAIN activities' :
       inflight'[id] < inflight[id] /\ id \notin stale
         => Is(Unboxed(activities[id].state), "Running")]_runVars

\* schedule.rs:334: reset "will overwrite and reschedule the given activity":
\* the rescheduled one-shot must then not vanish before it was ever claimed.
RescheduledOneShotSurvives ==
  [][\A id \in DOMAIN activities \ DOMAIN activities' :
       inflight'[id] < inflight[id]
         => Is(Unboxed(activities[id].state), "Running")]_runVars

\* README.md:222: disabling "preserves" the activity's state and "re-enabling
\* resumes exactly where it left off": disabling is undone by enabling only, so
\* an acknowledgement must leave a disabled activity disabled.
PauseSurvivesAck ==
  [][\A id \in DOMAIN activities \cap DOMAIN activities' :
       Is(activities[id].state, "Disabled") /\ inflight'[id] < inflight[id]
         => Is(activities'[id].state, "Disabled")]_runVars

\* README.md:198 "Snoozing a one-shot keeps it alive rather than completing
\* it": after a run was acknowledged with a snooze, its activity is in the map.
SnoozeKeepsOneShot ==
  [][\A id \in Ids, d \in SnoozeDurations :
       Finish(id, Snooze(d)) /\ id \notin stale => id \in DOMAIN activities']_runVars

\* schedule.rs:363-364: dispatch "Schedules an activity to run immediatly": it
\* stays at its target until it has been claimed.
DispatchIsHonoured ==
  \A id \in dispatched : IsAtTarget(activities[id], utc)

\* That does hold for a dispatch made while no run of the activity was out,
\* whatever is done to the activity meanwhile short of resetting it, or of
\* setting the wall clock its date is compared with.
QuietDispatchIsHonoured ==
  \A id \in quiet : IsAtTarget(activities[id], utc)

=============================================================================
