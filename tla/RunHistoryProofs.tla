-------------------------- MODULE RunHistoryProofs --------------------------
(***************************************************************************)
(* Theorems about runs and dispatches, for all interleavings of resets,    *)
(* pauses, dispatches and acknowledgements with any number of ids.         *)
(***************************************************************************)
EXTENDS RunHistory, SchedulerActorProofs

\* What RunsMatchState says of one id.
Matches(id) ==
  /\ IsRunning(id) => inflight[id] = 1
  /\ Present(id) /\ ~IsRunning(id) => inflight[id] = 0
  /\ inflight[id] <= 1

\* A quiet dispatch has no unfinished run, so no acknowledgement can undo it.
QuietHasNoRun ==
  /\ stale \subseteq Ids
  /\ quiet \subseteq DOMAIN activities
  /\ \A id \in quiet : inflight[id] = 0

RunInv == Inv /\ RunsMatchState /\ QuietHasNoRun

-----------------------------------------------------------------------------
(* Runs match states.                                                      *)

\* Nothing that leaves an id's run count alone and does not make its activity
\* appear, or start or end in Running, disturbs Matches.
LEMMA MatchesKept ==
  ASSUME NEW id \in Ids, Matches(id),
         inflight'[id] = inflight[id],
         Present(id)' => Present(id),
         Present(id)' => (IsRunning(id)' <=> IsRunning(id))
  PROVE  Matches(id)'
  BY DEF Matches, IsRunning

LEMMA ClaimMatches ==
  ASSUME Inv, ClaimDue, NEW id \in Ids, Matches(id)
  PROVE  Matches(id)'
<1>1. /\ DOMAIN activities' = DOMAIN activities
      /\ Due \subseteq DOMAIN activities
      /\ activities' = [i \in DOMAIN activities |->
                          IF i \in Due THEN Claimed(activities[i]) ELSE activities[i]]
      /\ inflight' = [i \in Ids |-> IF i \in Due THEN inflight[i] + 1 ELSE inflight[i]]
  BY DEF ClaimDue, Due
<1>2. CASE id \in Due
  <2>1. ~IsRunning(id) /\ Present(id)
    BY <1>1, <1>2 DEF Due, ShouldRun, IsScheduled, IsRunning, Present, Is, Unboxed
  <2>2. inflight'[id] = 1
    BY <1>1, <1>2, <2>1 DEF Matches
  <2>3. activities'[id].state = Running
    BY <1>1, <1>2, ClaimedType DEF Inv, TypeOK
  <2>4. IsRunning(id)'
    BY <1>1, <1>2, <2>3 DEF IsRunning, Present, Running, Is, Unboxed
  <2> QED
    BY <2>2, <2>4 DEF Matches
<1>3. CASE id \notin Due
  <2>1. /\ Present(id)' <=> Present(id)
        /\ Present(id) => activities'[id] = activities[id]
        /\ inflight'[id] = inflight[id]
    BY <1>1, <1>3 DEF Present
  <2> QED
    BY <2>1, MatchesKept DEF IsRunning
<1> QED
  BY <1>2, <1>3

LEMMA FinishMatches ==
  ASSUME Inv, NEW id \in Ids, NEW ack \in Acks, Finish(id, ack), NEW i \in Ids, Matches(i)
  PROVE  Matches(i)'
<1>1. /\ inflight[id] > 0 /\ inflight \in [Ids -> Nat]
      /\ inflight' = [inflight EXCEPT ![id] = inflight[id] - 1]
  BY FinishEffect DEF Inv, TypeOK
<1>2. \/ UNCHANGED activities /\ ~Present(id)
      \/ activities' = [j \in DOMAIN activities \ {id} |-> activities[j]]
      \/ /\ Present(id)
         /\ \E a \in ActivityType : /\ IsScheduled(a.state)
                                   /\ activities' = [activities EXCEPT ![id] = a]
  BY FinishEffect DEF Inv
<1>3. CASE i # id
  <2>1. /\ Present(i)' <=> Present(i)
        /\ Present(i) => activities'[i] = activities[i]
        /\ inflight'[i] = inflight[i]
    BY <1>1, <1>2, <1>3 DEF Present
  <2> QED
    BY <2>1, MatchesKept DEF IsRunning
<1>4. CASE i = id
  <2>1. inflight'[id] = 0
    BY <1>1, <1>4 DEF Matches
  <2>2. ~IsRunning(id)'
    BY <1>2 DEF IsRunning, Present, IsScheduled, Is, Unboxed
  <2> QED
    BY <1>4, <2>1, <2>2 DEF Matches
<1> QED
  BY <1>3, <1>4

\* The commands that neither start nor end a run leave every Matches alone.
LEMMA OtherMatches ==
  ASSUME Inv, NEW i \in Ids, Matches(i),
         \/ Tick
         \/ \E id \in Ids, enabled \in BOOLEAN : SetEnabledCmd(id, enabled)
         \/ \E id \in Ids : SetImmediateCmd(id)
         \/ AdvanceClock \/ JumpClock
  PROVE  Matches(i)'
<1> DEFINE Same == /\ inflight'[i] = inflight[i]
                   /\ Present(i)' => /\ Present(i)
                                     /\ Unboxed(activities'[i].state) = Unboxed(activities[i].state)
<1>1. ASSUME Tick PROVE Same
  <2>1. /\ DOMAIN activities' \subseteq DOMAIN activities
        /\ \A id \in DOMAIN activities' :
             /\ activities'[id] = Ticked(activities[id], mono, utc)
             /\ ~Is(activities'[id].state, "Gc")
        /\ UNCHANGED inflight
    BY <1>1 DEF Tick
  <2> QED
    BY <2>1, TickedType DEF Inv, TypeOK, Is, Gc, Present
<1>2. ASSUME NEW id \in Ids, NEW enabled \in BOOLEAN, SetEnabledCmd(id, enabled) PROVE Same
  <2>1. /\ id \in DOMAIN activities
        /\ activities' = [activities EXCEPT ![id] = SetEnabled(activities[id], enabled)]
        /\ UNCHANGED inflight
    BY <1>2 DEF SetEnabledCmd, Present
  <2>2. Unboxed(SetEnabled(activities[id], enabled).state) = Unboxed(activities[id].state)
    BY <2>1, SetEnabledType DEF Inv, TypeOK
  <2> QED
    BY <2>1, <2>2 DEF Present
<1>3. ASSUME NEW id \in Ids, SetImmediateCmd(id) PROVE Same
  <2>1. /\ id \in DOMAIN activities
        /\ activities' = [activities EXCEPT ![id] = SetImmediate(activities[id], utc)]
        /\ UNCHANGED inflight
    BY <1>3 DEF SetImmediateCmd, Present
  <2>2. SetImmediate(activities[id], utc).state = activities[id].state
    BY <2>1, SetImmediateType DEF Inv, TypeOK
  <2> QED
    BY <2>1, <2>2 DEF Present
<1>4. ASSUME AdvanceClock \/ JumpClock PROVE Same
  BY <1>4 DEF AdvanceClock, JumpClock, Present
<1>5. Same
  BY <1>1, <1>2, <1>3, <1>4
<1> QED
  BY <1>5, MatchesKept DEF IsRunning

LEMMA RunsMatchKept ==
  ASSUME RunInv, Inv', RunNext
  PROVE  RunsMatchState'
<1> SUFFICES ASSUME NEW i \in Ids, i \notin stale' PROVE Matches(i)'
  BY DEF RunsMatchState, Matches
<1>1. ASSUME NEW ids \in SUBSET Ids, Renewed(ids), i \in stale \cup ids
      PROVE  Matches(i)'
  <2>1. inflight'[i] = 0
    BY <1>1 DEF Renewed, Inv, TypeOK
  <2> QED
    BY <2>1 DEF Inv, RunningIsOwed, Matches, IsRunning, Present
<1>2. i \notin stale => Matches(i)
  BY DEF RunInv, RunsMatchState, Matches
<1>3. ASSUME NEW ids \in SUBSET Ids, Insertion(ids), Renewed(ids), i \notin stale \cup ids
      PROVE  Matches(i)'
  <2>1. /\ UNCHANGED inflight
        /\ Present(i)' <=> Present(i)
        /\ Present(i) => activities'[i] = activities[i]
    BY <1>3, InsertionEffect DEF RunInv, Inv, Present
  <2> QED
    BY <1>2, <1>3, <2>1, MatchesKept DEF IsRunning
<1>4. ASSUME \/ ClaimDue
             \/ \E id \in Ids, ack \in Acks : Finish(id, ack)
             \/ Tick
             \/ \E id \in Ids, enabled \in BOOLEAN : SetEnabledCmd(id, enabled)
             \/ \E id \in Ids : SetImmediateCmd(id)
             \/ AdvanceClock,
             Renewed({})
      PROVE  Matches(i)'
  <2>1. i \in stale => Matches(i)'
    BY <1>1, <1>4
  <2>2. Inv
    BY DEF RunInv
  <2> QED
    BY <1>2, <1>4, <2>1, <2>2, ClaimMatches, FinishMatches, OtherMatches
<1>5. ASSUME JumpClock, UNCHANGED stale
      PROVE  Matches(i)'
  BY <1>2, <1>5, OtherMatches DEF RunInv
<1> QED
  BY <1>1, <1>3, <1>4, <1>5 DEF RunNext

-----------------------------------------------------------------------------
(* Quiet dispatches.                                                       *)

LEMMA QuietKept ==
  ASSUME RunInv, Inv', RunNext
  PROVE  QuietHasNoRun'
<1>1. stale' \subseteq Ids
  BY DEF RunNext, Renewed, RunInv, QuietHasNoRun
<1>2. ASSUME NEW ids \in SUBSET Ids, Insertion(ids), Forget(ids)
      PROVE  QuietHasNoRun'
  BY <1>1, <1>2, InsertionEffect DEF Forget, RunInv, Inv, QuietHasNoRun
<1>3. ASSUME ClaimDue, Forget(Due)
      PROVE  QuietHasNoRun'
  BY <1>1, <1>3 DEF ClaimDue, Forget, RunInv, Inv, TypeOK, QuietHasNoRun
<1>4. ASSUME NEW id \in Ids, SetImmediateCmd(id),
             quiet' = IF inflight[id] = 0 THEN quiet \cup {id} ELSE quiet
      PROVE  QuietHasNoRun'
  BY <1>1, <1>4 DEF SetImmediateCmd, Present, RunInv, QuietHasNoRun
<1>5. ASSUME NEW id \in Ids, NEW ack \in Acks, Finish(id, ack), Forget({})
      PROVE  QuietHasNoRun'
  <2>1. inflight[id] > 0 /\ inflight' = [inflight EXCEPT ![id] = inflight[id] - 1]
    BY <1>5, FinishEffect DEF RunInv, Inv
  <2>2. id \notin quiet
    BY <2>1 DEF RunInv, QuietHasNoRun
  <2> QED
    BY <1>1, <1>5, <2>1, <2>2 DEF Forget, RunInv, Inv, TypeOK, QuietHasNoRun
<1>6. ASSUME \/ Tick
             \/ \E id \in Ids, enabled \in BOOLEAN : SetEnabledCmd(id, enabled)
             \/ AdvanceClock,
             Forget({})
      PROVE  QuietHasNoRun'
  <2>1. UNCHANGED inflight
    BY <1>6 DEF Tick, SetEnabledCmd, AdvanceClock
  <2> QED
    BY <1>1, <1>6, <2>1 DEF Forget, RunInv, QuietHasNoRun
<1>7. ASSUME JumpClock, quiet' \subseteq quiet
      PROVE  QuietHasNoRun'
  BY <1>1, <1>7 DEF JumpClock, RunInv, QuietHasNoRun
<1> QED
  BY <1>2, <1>3, <1>4, <1>5, <1>6, <1>7 DEF RunNext

LEMMA RunInvInductive ==
  ASSUME RunInv, [RunNext]_runVars
  PROVE  RunInv'
<1>1. [Next]_vars
  BY DEF RunNext, Next, runVars
<1>2. Inv'
  BY <1>1, InvInductive DEF RunInv
<1>3. CASE UNCHANGED runVars
  BY <1>2, <1>3 DEF runVars, vars, RunInv, RunsMatchState, QuietHasNoRun, IsRunning, Present
<1>4. CASE RunNext
  BY <1>2, <1>4, RunsMatchKept, QuietKept DEF RunInv
<1> QED
  BY <1>3, <1>4

LEMMA RunInvAlways == RunSpec => []RunInv
<1>1. RunInit => RunInv
  BY InvInit DEF RunInit, Init, RunInv, RunsMatchState, QuietHasNoRun, IsRunning, Present
<1> QED
  BY <1>1, RunInvInductive, PTL DEF RunSpec

-----------------------------------------------------------------------------
(* Theorems.                                                               *)

\* Runs and states agree: of an activity that was not replaced during a run,
\* exactly one run is out while it is Running, paused or not, and none otherwise.
THEOREM RunsMatch == RunSpec => []RunsMatchState
<1>1. RunInv => RunsMatchState
  BY DEF RunInv
<1> QED
  BY <1>1, RunInvAlways, PTL

\* The acknowledgement that completes a one-shot belongs to a run of that very
\* one-shot, unless it was replaced during a run.
THEOREM RunBeforeCompletion == RunSpec => OneShotsRunBeforeCompletion
<1> DEFINE Run == \A id \in DOMAIN activities \ DOMAIN activities' :
                    inflight'[id] < inflight[id] /\ id \notin stale
                      => Is(Unboxed(activities[id].state), "Running")
<1>1. ASSUME RunInv, RunInv' PROVE Run
  <2> SUFFICES ASSUME NEW id \in DOMAIN activities, inflight'[id] < inflight[id], id \notin stale
               PROVE  Is(Unboxed(activities[id].state), "Running")
    OBVIOUS
  <2>1. id \in Ids /\ inflight[id] \in Nat /\ inflight'[id] \in Nat
    BY <1>1 DEF RunInv, Inv, TypeOK
  <2>2. inflight[id] # 0
    BY <2>1
  <2> QED
    BY <1>1, <2>1, <2>2 DEF RunInv, RunsMatchState, IsRunning, Present
<1>2. RunSpec => [][Run]_runVars
  BY <1>1, RunInvAlways, PTL DEF RunSpec
<1> QED
  BY <1>2 DEF OneShotsRunBeforeCompletion

\* No step takes a quietly dispatched activity off its target, short of setting
\* the wall clock that its date is compared with.
LEMMA QuietStep ==
  ASSUME RunInv, QuietDispatchIsHonoured, [RunNext]_runVars
  PROVE  QuietDispatchIsHonoured'
<1>0. /\ quiet \subseteq DOMAIN activities /\ mono \in Nat /\ utc \in Nat
      /\ \A id \in DOMAIN activities : activities[id] \in ActivityType
      /\ \A id \in quiet : IsAtTarget(activities[id], utc) /\ inflight[id] = 0
  BY DEF RunInv, Inv, TypeOK, QuietHasNoRun, QuietDispatchIsHonoured
<1>1. CASE UNCHANGED runVars
  BY <1>1 DEF runVars, vars, QuietDispatchIsHonoured, IsAtTarget
<1>2. ASSUME NEW ids \in SUBSET Ids, Insertion(ids), Forget(ids)
      PROVE  QuietDispatchIsHonoured'
  BY <1>0, <1>2, InsertionEffect DEF Forget, RunInv, Inv, QuietDispatchIsHonoured
<1>3. ASSUME ClaimDue, Forget(Due)
      PROVE  QuietDispatchIsHonoured'
  BY <1>0, <1>3 DEF ClaimDue, clockVars, Forget, QuietDispatchIsHonoured
<1>4. ASSUME NEW id \in Ids, SetImmediateCmd(id),
             quiet' = IF inflight[id] = 0 THEN quiet \cup {id} ELSE quiet
      PROVE  QuietDispatchIsHonoured'
  <2>1. /\ activities' = [activities EXCEPT ![id] = SetImmediate(activities[id], utc)]
        /\ id \in DOMAIN activities /\ UNCHANGED utc
    BY <1>4 DEF SetImmediateCmd, Present, clockVars
  <2>2. IsAtTarget(SetImmediate(activities[id], utc), utc)
    BY <1>0, <2>1 DEF SetImmediate, IsAtTarget, ActivityType, DurationTarget, DateTarget
  <2> QED
    BY <1>0, <1>4, <2>1, <2>2 DEF QuietDispatchIsHonoured
<1>5. ASSUME NEW id \in Ids, NEW ack \in Acks, Finish(id, ack), Forget({})
      PROVE  QuietDispatchIsHonoured'
  <2>1. inflight[id] > 0 /\ UNCHANGED utc
    BY <1>5, FinishEffect DEF RunInv, Inv
  <2>2. id \notin quiet
    BY <1>0, <2>1
  <2>3. \A i \in DOMAIN activities \ {id} : activities'[i] = activities[i]
    BY <1>5, FinishEffect DEF RunInv, Inv
  <2> QED
    BY <1>0, <1>5, <2>1, <2>2, <2>3 DEF Forget, QuietDispatchIsHonoured
<1>6. ASSUME Tick, Forget({})
      PROVE  QuietDispatchIsHonoured'
  <2>1. /\ UNCHANGED utc
        /\ \A id \in DOMAIN activities' : activities'[id] = Ticked(activities[id], mono, utc)
    BY <1>6 DEF Tick, clockVars
  <2>2. ASSUME NEW id \in quiet
        PROVE  IsAtTarget(Ticked(activities[id], mono, utc), utc)
    <3> DEFINE a == activities[id]
    <3>1. /\ a \in ActivityType /\ IsAtTarget(a, utc)
          /\ a.duration_delta \in Nat /\ a.last_tick \in Nat /\ a.activation_target.at \in Nat
      BY <1>0, <2>2 DEF ActivityType, TargetType
    <3>2. Elapsed(a.last_tick, mono) \in Nat
      BY <1>0, <3>1, ElapsedType
    <3>3. Ticked(a, mono, utc).activation_target = a.activation_target
      BY <3>1 DEF Ticked, TryGcMark, ActivityType
    <3>4. \/ Ticked(a, mono, utc).duration_delta = a.duration_delta
          \/ Ticked(a, mono, utc).duration_delta = a.duration_delta + Elapsed(a.last_tick, mono)
      BY <3>1 DEF Ticked, TryGcMark, ActivityType
    <3>5. Ticked(a, mono, utc).duration_delta >= a.duration_delta
      BY <3>1, <3>2, <3>4
    <3>6. Ticked(a, mono, utc).duration_delta \in Nat
      BY <3>1, <3>2, <3>4
    <3> QED
      BY <3>1, <3>3, <3>5, <3>6 DEF IsAtTarget
  <2> QED
    BY <1>0, <1>6, <2>1, <2>2 DEF Forget, QuietDispatchIsHonoured
<1>7. ASSUME NEW id \in Ids, NEW enabled \in BOOLEAN, SetEnabledCmd(id, enabled), Forget({})
      PROVE  QuietDispatchIsHonoured'
  <2>1. /\ activities' = [activities EXCEPT ![id] = SetEnabled(activities[id], enabled)]
        /\ id \in DOMAIN activities /\ UNCHANGED utc
    BY <1>7 DEF SetEnabledCmd, Present, clockVars
  <2>2. /\ SetEnabled(activities[id], enabled).activation_target = activities[id].activation_target
        /\ SetEnabled(activities[id], enabled).duration_delta = activities[id].duration_delta
    BY <1>0, <2>1 DEF SetEnabled, ActivityType
  <2> QED
    BY <1>0, <1>7, <2>1, <2>2 DEF Forget, QuietDispatchIsHonoured, IsAtTarget
<1>8. ASSUME AdvanceClock, Forget({})
      PROVE  QuietDispatchIsHonoured'
  <2>1. utc' >= utc /\ utc' \in Nat /\ UNCHANGED activities
    BY <1>0, <1>8 DEF AdvanceClock, Advance
  <2>2. \A id \in quiet : activities[id].activation_target.at \in Nat
    BY <1>0 DEF ActivityType, TargetType
  <2> QED
    BY <1>0, <1>8, <2>1, <2>2 DEF Forget, QuietDispatchIsHonoured, IsAtTarget
<1>9. ASSUME JumpClock,
             quiet' = {id \in quiet : activities[id].activation_target.kind = "Duration"}
      PROVE  QuietDispatchIsHonoured'
  BY <1>0, <1>9 DEF JumpClock, QuietDispatchIsHonoured, IsAtTarget
<1> QED
  BY <1>1, <1>2, <1>3, <1>4, <1>5, <1>6, <1>7, <1>8, <1>9 DEF RunNext

\* A dispatch made while no run was out is kept until the activity is claimed,
\* removed or reset, or the wall clock is set under its date.
THEOREM QuietDispatchKept == RunSpec => []QuietDispatchIsHonoured
<1>1. RunInit => QuietDispatchIsHonoured
  BY DEF RunInit, QuietDispatchIsHonoured
<1>2. RunInv /\ QuietDispatchIsHonoured /\ [RunNext]_runVars => QuietDispatchIsHonoured'
  BY QuietStep
<1> QED
  BY <1>1, <1>2, RunInvAlways, PTL DEF RunSpec

=============================================================================
