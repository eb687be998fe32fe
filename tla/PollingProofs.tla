---------------------------- MODULE PollingProofs ----------------------------
(***************************************************************************)
(* Theorems about the actor under the driver's ticker, for every poll      *)
(* interval, schedule and delay of the driver: activities are claimed      *)
(* neither late nor more often than the ticker ticks.                      *)
(***************************************************************************)
EXTENDS Polling, TimerHistoryProofs

-----------------------------------------------------------------------------
(* Types.                                                                  *)

PollType ==
  /\ driver \in {"off", "select", "ticking", "claiming"}
  /\ deadline \in Nat /\ start \in Nat
  /\ runs \in [Ids -> Nat] /\ touched \in [Ids -> Nat]
  /\ utc = mono

\* What holds of the actor itself, whoever sends its commands.
ActorInv == TimerInv /\ \A id \in DOMAIN activities : Fits(activities[id])

BaseInv == ActorInv /\ PollType

LEMMA PollIsTimer ==
  ASSUME [PollNext]_pollVars
  PROVE  [TimerNext]_timerVars
  BY DEF PollNext, Run, Poll, SendTick, SendClaim, Others, TimerNext, pollVars, timerVars

LEMMA BaseInductive ==
  ASSUME BaseInv, [PollNext]_pollVars
  PROVE  BaseInv'
<1>1. TimerInv'
  BY PollIsTimer, TimerInvInductive DEF BaseInv, ActorInv
<1>2. [Next]_vars
  BY PollIsTimer DEF TimerNext, TimedInsertion, TimedFinish, TimedTick, Next, timerVars
<1>3. TargetInv'
  BY <1>2, TargetInductive DEF BaseInv, ActorInv, TimerInv, TargetInv
<1>4. PollType'
  <2>1. mono \in Nat
    BY DEF BaseInv, ActorInv, TimerInv, Inv, TypeOK
  <2>2. CASE UNCHANGED pollVars
    BY <2>2 DEF pollVars, tickerVars, timerVars, vars, BaseInv, PollType
  <2>3. CASE Run
    BY <2>1, <2>3 DEF Run, timerVars, vars, BaseInv, PollType
  <2>4. CASE Poll
    BY <2>4, PollAssumption DEF Poll, timerVars, vars, BaseInv, PollType
  <2>5. CASE SendTick
    BY <2>5 DEF SendTick, TimedTick, Tick, clockVars, BaseInv, PollType
  <2>6. CASE SendClaim
    BY <2>6 DEF SendClaim, ClaimDue, clockVars, BaseInv, PollType
  <2>7. CASE Others /\ UNCHANGED <<tickerVars, runs>>
    <3>1. utc' = mono'
      <4>1. ASSUME NEW ids \in SUBSET Ids, TimedInsertion(ids) PROVE utc' = mono'
        BY <4>1, InsertionEffect DEF TimedInsertion, BaseInv, ActorInv, TimerInv, Inv, PollType
      <4> QED
        BY <2>1, <2>7, <4>1
        DEF Others, TimedFinish, Finish, SetEnabledCmd, SetImmediateCmd, AdvanceClock, Advance,
            clockVars, BaseInv, PollType
    <3>2. touched' \in [Ids -> Nat]
      BY <2>1, <2>7 DEF Others, Touch, BaseInv, PollType
    <3> QED
      BY <2>7, <3>1, <3>2 DEF tickerVars, BaseInv, PollType
  <2> QED
    BY <2>2, <2>3, <2>4, <2>5, <2>6, <2>7 DEF PollNext
<1> QED
  BY <1>1, <1>3, <1>4 DEF BaseInv, ActorInv, TargetInv

\* Whoever acts between two polls touches the activities it changes.
LEMMA OthersEffect ==
  ASSUME BaseInv, Others
  PROVE  /\ UNCHANGED lastPoll /\ mono <= mono'
         /\ \A id \in DOMAIN activities' :
              \/ touched'[id] = mono'
              \/ /\ id \in DOMAIN activities
                 /\ activities'[id] = activities[id] /\ touched'[id] = touched[id]
<1>0. mono \in Nat /\ DOMAIN activities \subseteq Ids /\ Inv
  BY DEF BaseInv, ActorInv, TimerInv, Inv, TypeOK
<1> DEFINE Goal == /\ UNCHANGED lastPoll /\ mono <= mono'
                   /\ \A id \in DOMAIN activities' :
                        \/ touched'[id] = mono'
                        \/ /\ id \in DOMAIN activities
                           /\ activities'[id] = activities[id] /\ touched'[id] = touched[id]
<1>1. ASSUME NEW ids \in SUBSET Ids, TimedInsertion(ids), Touch(ids) PROVE Goal
  <2>1. /\ UNCHANGED <<mono, lastPoll>>
        /\ DOMAIN activities' = DOMAIN activities \cup ids
        /\ \A id \in DOMAIN activities \ ids : activities'[id] = activities[id]
    BY <1>0, <1>1, InsertionEffect DEF TimedInsertion, Restart, Inv
  <2> QED
    BY <1>0, <1>1, <2>1 DEF Touch
<1>2. ASSUME NEW id \in Ids, NEW ack \in Acks, Finish(id, ack), Restart({id}, lastPoll), Touch({id})
      PROVE  Goal
  <2>1. UNCHANGED <<mono, lastPoll>>
    BY <1>2 DEF Finish, Restart, clockVars
  <2>2. \A i \in DOMAIN activities' \ {id} :
          i \in DOMAIN activities /\ activities'[i] = activities[i]
    BY <1>0, <1>2, FinishEffect DEF Inv
  <2>3. DOMAIN activities' \subseteq Ids
    BY <1>0, <1>2, FinishInv DEF Inv, TypeOK
  <2> QED
    BY <1>0, <1>2, <2>1, <2>2, <2>3 DEF Touch
<1>3. ASSUME NEW id \in Ids,
             (\E enabled \in BOOLEAN : SetEnabledCmd(id, enabled)) \/ SetImmediateCmd(id),
             Touch(IF activities' = activities THEN {} ELSE {id}),
             UNCHANGED <<lastPoll, since, timerFrom>>
      PROVE  Goal
  <2>1. /\ UNCHANGED <<mono, lastPoll>> /\ DOMAIN activities' = DOMAIN activities
        /\ \A i \in DOMAIN activities \ {id} : activities'[i] = activities[i]
    BY <1>3 DEF SetEnabledCmd, SetImmediateCmd, clockVars
  <2>2. CASE activities' = activities
    BY <1>0, <1>3, <2>1, <2>2 DEF Touch
  <2>3. CASE activities' # activities
    BY <1>0, <1>3, <2>1, <2>3 DEF Touch
  <2> QED
    BY <2>2, <2>3
<1>4. ASSUME AdvanceClock, UNCHANGED <<lastPoll, since, timerFrom, touched>> PROVE Goal
  BY <1>0, <1>4 DEF AdvanceClock, Advance
<1> QED
  BY <1>1, <1>2, <1>3, <1>4 DEF Others, TimedFinish

-----------------------------------------------------------------------------
(* How often an id runs.                                                   *)

\* Multiplication by the period, for the provers.
LEMMA OnePeriodMore ==
  ASSUME NEW r \in Nat, NEW p \in Nat
  PROVE  r * p \in Nat /\ (r + 1) * p = r * p + p /\ (r - 1) * p = r * p - p
  OBVIOUS

\* The deadline has moved by one period for every poll, each of which claims an
\* id at most once, and no poll comes before its deadline.
RateBounded ==
  /\ driver = "off" => \A id \in Ids : runs[id] = 0
  /\ driver # "off" =>
       /\ deadline <= mono + PollInterval
       /\ \A id \in Ids :
            start + runs[id] * PollInterval
              + (IF driver \in {"ticking", "claiming"} THEN PollInterval ELSE 0) <= deadline

\* A later bound is a weaker one.
LEMMA LaterBound ==
  ASSUME NEW m \in Nat, NEW n \in Nat, m <= n, NEW p \in Nat, NEW d \in Nat
  PROVE  /\ d <= m => d <= n
         /\ d <= m + p => d <= n + p
  OBVIOUS

LEMMA RateInductive ==
  ASSUME BaseInv, RateBounded, [PollNext]_pollVars
  PROVE  RateBounded'
<1>0. /\ mono \in Nat /\ deadline \in Nat /\ start \in Nat /\ PollInterval \in Nat
      /\ \A id \in Ids : runs[id] \in Nat /\ runs[id] * PollInterval \in Nat
  BY PollAssumption, OnePeriodMore DEF BaseInv, PollType, ActorInv, TimerInv, Inv, TypeOK
<1>1. CASE UNCHANGED pollVars
  BY <1>1 DEF pollVars, tickerVars, timerVars, vars, RateBounded
<1>2. CASE Run
  <2>1. \A id \in Ids : runs'[id] * PollInterval = 0
    BY <1>0, <1>2 DEF Run, RateBounded
  <2> QED
    BY <1>0, <1>2, <2>1 DEF Run, timerVars, vars, RateBounded
<1>3. CASE Poll
  <2>1. /\ deadline' = deadline + PollInterval /\ deadline <= mono
        /\ UNCHANGED <<mono, start, runs>> /\ driver = "select" /\ driver' = "ticking"
    BY <1>3 DEF Poll, timerVars, vars
  <2> QED
    BY <1>0, <2>1 DEF RateBounded
<1>4. CASE SendTick
  BY <1>0, <1>4 DEF SendTick, TimedTick, Tick, clockVars, RateBounded
<1>5. CASE SendClaim
  <2>1. /\ driver = "claiming" /\ driver' = "select"
        /\ UNCHANGED <<mono, deadline, start>>
        /\ runs' = [id \in Ids |-> IF id \in Due THEN runs[id] + 1 ELSE runs[id]]
    BY <1>5 DEF SendClaim, ClaimDue, clockVars
  <2>2. ASSUME NEW id \in Ids
        PROVE  start + runs'[id] * PollInterval <= deadline
    <3>1. start + runs[id] * PollInterval + PollInterval <= deadline
      BY <2>1 DEF RateBounded
    <3>2. CASE runs'[id] = runs[id]
      BY <1>0, <3>1, <3>2
    <3>3. CASE runs'[id] = runs[id] + 1
      <4>1. (runs[id] + 1) * PollInterval = runs[id] * PollInterval + PollInterval
        BY <1>0, OnePeriodMore
      <4> QED
        BY <1>0, <3>1, <3>3, <4>1
    <3> QED
      BY <2>1, <3>2, <3>3
  <2>3. \A id \in Ids : runs'[id] * PollInterval \in Nat
    <3>1. \A id \in Ids : runs'[id] \in Nat
      BY <1>0, <2>1
    <3> QED
      BY <1>0, <3>1, OnePeriodMore
  <2> QED
    BY <1>0, <2>1, <2>2, <2>3 DEF RateBounded
<1>6. CASE Others /\ UNCHANGED <<tickerVars, runs>>
  <2>1. mono <= mono' /\ mono' \in Nat
    BY <1>6, OthersEffect, BaseInductive DEF BaseInv, ActorInv, TimerInv, Inv, TypeOK
  <2>2. UNCHANGED <<driver, deadline, start, runs>>
    BY <1>6 DEF tickerVars
  <2>3. ASSUME driver # "off" PROVE deadline <= mono' + PollInterval
    <3>1. deadline <= mono + PollInterval
      BY <2>3 DEF RateBounded
    <3> QED
      BY <1>0, <2>1, <3>1, LaterBound
  <2> QED
    BY <2>2, <2>3 DEF RateBounded
<1> QED
  BY <1>1, <1>2, <1>3, <1>4, <1>5, <1>6 DEF PollNext

-----------------------------------------------------------------------------
(* When an activity is claimed.                                            *)

\* The time credited to a scheduled activity reaches back to when it was last
\* touched: its target is not missed by adding up too little.
CreditComplete ==
  \A id \in DOMAIN activities :
    LET a == activities[id]
    IN  /\ touched[id] <= mono
        /\ IsScheduled(a.state) => a.last_tick <= touched[id] + a.duration_delta

\* A poll's Tick is not handled before its own deadline, one period before the
\* next; the first deadline is not in the future.
DeadlineNear ==
  /\ driver = "select" => deadline <= lastPoll + PollInterval \/ deadline <= mono
  /\ driver = "ticking" => deadline <= mono + PollInterval
  /\ driver = "claiming" => deadline <= lastPoll + PollInterval

\* Nothing that was ripe before the last Tick is left: not for the claim, once the
\* poll is over, and not disabled with a date.
NothingRipeLeft ==
  \A id \in DOMAIN activities :
    \/ driver # "claiming" /\ IsScheduled(activities[id].state)
    \/ /\ Is(activities[id].state, "Disabled")
       /\ activities[id].activation_target.kind = "Date"
    => lastPoll <= RipeAt(id)

PollInv == BaseInv /\ CreditComplete /\ DeadlineNear /\ NothingRipeLeft

Facts ==
  /\ mono \in Nat /\ utc = mono /\ deadline \in Nat /\ lastPoll \in Nat /\ lastPoll <= mono
  /\ \A id \in DOMAIN activities :
       /\ activities[id] \in ActivityType /\ touched[id] \in Nat
       /\ activities[id].last_tick \in Nat /\ activities[id].duration_delta \in Nat
       /\ activities[id].activation_target.at \in Nat
       /\ activities[id].activation_target.kind \in {"Duration", "Date"}
       /\ lastPoll <= activities[id].last_tick /\ activities[id].last_tick <= mono
       /\ Fits(activities[id])
       /\ RipeAt(id) \in Nat /\ touched[id] <= RipeAt(id)

LEMMA BaseFacts == BaseInv => Facts
<1> SUFFICES ASSUME BaseInv PROVE Facts
  OBVIOUS
<1>1. /\ mono \in Nat /\ utc = mono /\ deadline \in Nat /\ lastPoll \in Nat /\ lastPoll <= mono
      /\ DOMAIN activities \subseteq Ids /\ touched \in [Ids -> Nat]
  BY DEF BaseInv, ActorInv, PollType, TimerInv, Inv, TypeOK, AccumulatedIsElapsed
<1>2. ASSUME NEW id \in DOMAIN activities
      PROVE  /\ activities[id] \in ActivityType
             /\ lastPoll <= activities[id].last_tick /\ activities[id].last_tick <= mono
             /\ Fits(activities[id])
  BY DEF BaseInv, ActorInv, TimerInv, Inv, TypeOK, AccumulatedIsElapsed
<1>3. ASSUME NEW id \in DOMAIN activities
      PROVE  /\ activities[id].last_tick \in Nat /\ activities[id].duration_delta \in Nat
             /\ activities[id].activation_target.at \in Nat
             /\ activities[id].activation_target.kind \in {"Duration", "Date"}
  BY <1>2 DEF ActivityType, TargetType
<1>4. ASSUME NEW id \in DOMAIN activities
      PROVE  touched[id] \in Nat /\ RipeAt(id) \in Nat /\ touched[id] <= RipeAt(id)
  BY <1>1, <1>3 DEF RipeAt
<1> QED
  BY <1>1, <1>2, <1>3, <1>4 DEF Facts

LEMMA BaseFactsNext == BaseInv' => Facts'
  BY BaseFacts, PTL

LEMMA OthersPoll ==
  ASSUME PollInv, BaseInv', Others, UNCHANGED tickerVars
  PROVE  CreditComplete' /\ DeadlineNear' /\ NothingRipeLeft'
<1>0. /\ mono \in Nat /\ mono' \in Nat /\ lastPoll \in Nat
      /\ UNCHANGED <<lastPoll, driver, deadline>>
      /\ lastPoll <= mono /\ mono <= mono' /\ deadline \in Nat /\ PollInterval \in Nat
  BY PollAssumption, BaseFacts, BaseFactsNext, OthersEffect DEF Facts, PollInv, tickerVars
<1>1. DeadlineNear'
  <2>1. /\ deadline <= mono => deadline <= mono'
        /\ deadline <= mono + PollInterval => deadline <= mono' + PollInterval
    BY <1>0, LaterBound
  <2>2. lastPoll' = lastPoll /\ driver' = driver /\ deadline' = deadline
    BY <1>0
  <2> QED
    BY <2>1, <2>2 DEF PollInv, DeadlineNear
<1>2. ASSUME NEW id \in DOMAIN activities', touched'[id] = mono'
      PROVE  /\ touched'[id] <= mono'
             /\ activities'[id].last_tick <= touched'[id] + activities'[id].duration_delta
             /\ lastPoll' <= RipeAt(id)'
  <2>1. /\ activities'[id].last_tick \in Nat /\ activities'[id].duration_delta \in Nat
        /\ activities'[id].last_tick <= mono'
    BY BaseFactsNext DEF Facts
  <2>2. RipeAt(id)' \in Nat /\ touched'[id] <= RipeAt(id)'
    BY BaseFactsNext DEF Facts
  <2> QED
    BY <1>0, <1>2, <2>1, <2>2
<1>3. ASSUME NEW id \in DOMAIN activities', id \in DOMAIN activities,
             activities'[id] = activities[id], touched'[id] = touched[id]
      PROVE  /\ touched'[id] <= mono' /\ touched[id] \in Nat
             /\ RipeAt(id)' = RipeAt(id)
  BY <1>0, <1>3, BaseFacts DEF Facts, PollInv, CreditComplete, RipeAt
<1>4. CreditComplete'
  BY <1>2, <1>3, OthersEffect DEF PollInv, CreditComplete
<1>5. NothingRipeLeft'
  BY <1>0, <1>2, <1>3, OthersEffect DEF PollInv, NothingRipeLeft
<1> QED
  BY <1>1, <1>4, <1>5

\* A Tick credits the time since the last one, and collects what is disabled and
\* past its date.
LEMMA SendTickPoll ==
  ASSUME PollInv, BaseInv', SendTick
  PROVE  CreditComplete' /\ DeadlineNear' /\ NothingRipeLeft'
<1>0. /\ mono \in Nat /\ utc = mono /\ deadline \in Nat /\ PollInterval \in Nat
      /\ UNCHANGED <<mono, utc, deadline, touched>> /\ lastPoll' = mono
      /\ driver = "ticking" /\ driver' = "claiming"
      /\ DOMAIN activities' \subseteq DOMAIN activities
      /\ \A id \in DOMAIN activities' :
           /\ activities'[id] = Ticked(activities[id], mono, utc)
           /\ ~Is(activities'[id].state, "Gc")
  BY PollAssumption, BaseFacts DEF Facts, PollInv, SendTick, TimedTick, Tick, clockVars
<1>1. DeadlineNear'
  BY <1>0 DEF PollInv, DeadlineNear
<1>2. ASSUME NEW id \in DOMAIN activities'
      PROVE  /\ touched[id] \in Nat /\ touched[id] <= mono
             /\ activities'[id].state = activities[id].state
             /\ activities'[id].activation_target = activities[id].activation_target
             /\ activities'[id].last_tick = mono
             /\ IsScheduled(activities[id].state) =>
                  mono <= touched[id] + activities'[id].duration_delta
             /\ Is(activities[id].state, "Disabled")
                  /\ activities[id].activation_target.kind = "Date"
                  => utc < activities[id].activation_target.at
  <2> DEFINE a == activities[id]
  <2>1. /\ a \in ActivityType /\ touched[id] \in Nat /\ touched[id] <= mono
        /\ a.last_tick \in Nat /\ a.duration_delta \in Nat /\ a.last_tick <= mono
        /\ a.activation_target.at \in Nat
        /\ Fits(a)
        /\ IsScheduled(a.state) => a.last_tick <= touched[id] + a.duration_delta
    BY <1>0, BaseFacts DEF Facts, PollInv, CreditComplete
  <2>2. /\ Ticked(a, mono, utc).activation_target = a.activation_target
        /\ Ticked(a, mono, utc).last_tick = mono
        /\ IsScheduled(a.state) =>
             Ticked(a, mono, utc).duration_delta = a.duration_delta + Elapsed(a.last_tick, mono)
    BY <2>1 DEF Ticked, TryGcMark, ActivityType
  <2>3. Elapsed(a.last_tick, mono) = mono - a.last_tick
    BY <1>0, <2>1 DEF Elapsed
  <2>4. Ticked(a, mono, utc).state = a.state
    <3>1. Ticked(a, mono, utc).state # Gc
      BY <1>0 DEF Is, Gc
    <3> QED
      BY <1>0, <2>1, <3>1, TickedType
  <2>5. ASSUME Is(a.state, "Disabled"), a.activation_target.kind = "Date"
        PROVE  utc < a.activation_target.at
    <3>1. IsOneShot(a.schedule)
      BY <2>1, <2>5 DEF Fits
    <3> DEFINE b == [a EXCEPT !.last_tick = mono, !.duration_delta = a.duration_delta]
    <3>2. Ticked(a, mono, utc) = TryGcMark(b, utc)
      BY <2>5 DEF Ticked, IsScheduled, Is
    <3>3. /\ b.schedule = a.schedule /\ b.state = a.state
          /\ b.activation_target = a.activation_target
      BY <2>1 DEF ActivityType
    <3>4. TryGcMark(b, utc).state # Gc
      BY <1>0, <3>2 DEF Is, Gc
    <3>5. b \in ActivityType
      BY <1>0, <2>1 DEF ActivityType
    <3>6. ASSUME utc >= a.activation_target.at PROVE FALSE
      <4>1. TryGcMark(b, utc) = [b EXCEPT !.state = Gc]
        BY <2>5, <3>1, <3>3, <3>6 DEF TryGcMark, IsAtTarget
      <4> QED
        BY <3>4, <3>5, <4>1 DEF ActivityType
    <3> QED
      BY <1>0, <2>1, <3>6
  <2> QED
    BY <1>0, <2>1, <2>2, <2>3, <2>4, <2>5
<1>3. CreditComplete'
  BY <1>0, <1>2 DEF CreditComplete
<1>4. NothingRipeLeft'
  <2> SUFFICES ASSUME NEW id \in DOMAIN activities',
                      Is(activities'[id].state, "Disabled"),
                      activities'[id].activation_target.kind = "Date"
               PROVE  lastPoll' <= RipeAt(id)'
    BY <1>0 DEF NothingRipeLeft
  <2>1. /\ activities[id].activation_target.at \in Nat /\ touched[id] \in Nat
        /\ utc < activities[id].activation_target.at
        /\ activities'[id].activation_target = activities[id].activation_target
    BY <1>0, <1>2, BaseFacts DEF Facts, PollInv
  <2> QED
    BY <1>0, <2>1 DEF RipeAt
<1> QED
  BY <1>1, <1>3, <1>4

\* What a ClaimDue leaves scheduled has not reached its target.
LEMMA SendClaimPoll ==
  ASSUME PollInv, BaseInv', SendClaim
  PROVE  CreditComplete' /\ DeadlineNear' /\ NothingRipeLeft'
<1>0. /\ mono \in Nat /\ utc = mono /\ lastPoll \in Nat /\ lastPoll <= mono
      /\ UNCHANGED <<mono, utc, lastPoll, deadline, touched>>
      /\ driver = "claiming" /\ driver' = "select"
      /\ DOMAIN activities' = DOMAIN activities
      /\ \A id \in DOMAIN activities' :
           activities'[id] = IF id \in Due THEN Claimed(activities[id]) ELSE activities[id]
  BY BaseFacts DEF Facts, PollInv, SendClaim, ClaimDue, clockVars
<1>1. DeadlineNear'
  BY <1>0 DEF PollInv, DeadlineNear
<1>2. ASSUME NEW id \in Due
      PROVE  ~IsScheduled(activities'[id].state) /\ ~Is(activities'[id].state, "Disabled")
  <2>1. activities[id] \in ActivityType /\ activities'[id] = Claimed(activities[id])
    BY <1>0, BaseFacts DEF Facts, PollInv, Due
  <2> QED
    BY <2>1, ClaimedType DEF Running, IsScheduled, Is
<1>3. ASSUME NEW id \in DOMAIN activities \ Due
      PROVE  activities'[id] = activities[id] /\ RipeAt(id)' = RipeAt(id)
  BY <1>0 DEF RipeAt
<1>4. CreditComplete'
  BY <1>0, <1>2, <1>3 DEF PollInv, CreditComplete
<1>5. ASSUME NEW id \in DOMAIN activities \ Due, IsScheduled(activities[id].state)
      PROVE  lastPoll <= RipeAt(id)
  <2> DEFINE a == activities[id]
  <2>1. /\ touched[id] \in Nat /\ a.last_tick \in Nat /\ a.duration_delta \in Nat
        /\ a.activation_target.at \in Nat /\ a.activation_target.kind \in {"Duration", "Date"}
        /\ lastPoll <= a.last_tick /\ a.last_tick <= touched[id] + a.duration_delta
    BY <1>5, BaseFacts DEF Facts, PollInv, CreditComplete
  <2>2. ~IsAtTarget(a, utc)
    BY <1>5 DEF Due, ShouldRun
  <2>3. CASE a.activation_target.kind = "Duration"
    BY <1>0, <2>1, <2>2, <2>3 DEF IsAtTarget, RipeAt
  <2>4. CASE a.activation_target.kind = "Date"
    BY <1>0, <2>1, <2>2, <2>4 DEF IsAtTarget, RipeAt
  <2> QED
    BY <2>1, <2>3, <2>4
<1>6. NothingRipeLeft'
  BY <1>0, <1>2, <1>3, <1>5 DEF PollInv, NothingRipeLeft
<1> QED
  BY <1>1, <1>4, <1>6

LEMMA PollInvInductive ==
  ASSUME PollInv, [PollNext]_pollVars
  PROVE  PollInv'
<1>1. BaseInv'
  BY BaseInductive DEF PollInv
<1>2. CASE UNCHANGED pollVars
  BY <1>1, <1>2
  DEF pollVars, tickerVars, timerVars, vars, PollInv, CreditComplete, DeadlineNear,
      NothingRipeLeft, RipeAt
<1>3. CASE Run \/ Poll
  <2>1. /\ UNCHANGED <<activities, mono, lastPoll, touched>>
        /\ driver # "claiming" /\ driver' # "claiming"
        /\ \/ driver' = "select" /\ deadline' = mono
           \/ driver' = "ticking" /\ deadline' = deadline + PollInterval /\ deadline <= mono
    BY <1>3 DEF Run, Poll, timerVars, vars
  <2>2. DeadlineNear'
    BY <2>1, PollAssumption, BaseFacts DEF Facts, PollInv, DeadlineNear
  <2>3. CreditComplete' /\ NothingRipeLeft'
    BY <2>1 DEF PollInv, CreditComplete, NothingRipeLeft, RipeAt
  <2> QED
    BY <1>1, <2>2, <2>3 DEF PollInv
<1>4. CASE SendTick
  BY <1>1, <1>4, SendTickPoll DEF PollInv
<1>5. CASE SendClaim
  BY <1>1, <1>5, SendClaimPoll DEF PollInv
<1>6. CASE Others /\ UNCHANGED <<tickerVars, runs>>
  BY <1>1, <1>6, OthersPoll DEF PollInv
<1> QED
  BY <1>2, <1>3, <1>4, <1>5, <1>6 DEF PollNext

LEMMA PollAlways == PollSpec => [](PollInv /\ RateBounded)
<1>1. PollInit => PollInv /\ RateBounded
  <2> SUFFICES ASSUME PollInit PROVE PollInv /\ RateBounded
    OBVIOUS
  <2>1. Inv
    BY InvInit DEF PollInit, TimerInit
  <2> QED
    BY <2>1
    DEF PollInit, TimerInit, Init, ClockInit, Zero, PollInv, BaseInv, ActorInv, TimerInv,
        AccumulatedIsElapsed, PollType, CreditComplete, DeadlineNear, NothingRipeLeft, RateBounded
<1>2. PollInv /\ RateBounded /\ [PollNext]_pollVars => (PollInv /\ RateBounded)'
  BY PollInvInductive, RateInductive DEF PollInv
<1> QED
  BY <1>1, <1>2, PTL DEF PollSpec

-----------------------------------------------------------------------------
(* Theorems.                                                               *)

\* However late the driver is and however it catches up, no id is claimed more
\* often than once for each poll interval that has passed.
THEOREM RateIsBounded == PollSpec => []NoMoreRunsThanPeriods
<1>1. ASSUME PollInv, RateBounded, NEW id \in Ids, runs[id] > 0
      PROVE  (runs[id] - 1) * PollInterval <= mono - start
  <2>1. /\ mono \in Nat /\ deadline \in Nat /\ start \in Nat /\ PollInterval \in Nat
        /\ runs[id] \in Nat
    BY <1>1, PollAssumption DEF PollInv, BaseInv, PollType, ActorInv, TimerInv, Inv, TypeOK
  <2>2. /\ runs[id] * PollInterval \in Nat
        /\ (runs[id] - 1) * PollInterval = runs[id] * PollInterval - PollInterval
    BY <2>1, OnePeriodMore
  <2>3. deadline <= mono + PollInterval /\ start + runs[id] * PollInterval <= deadline
    BY <1>1, <2>1, <2>2 DEF RateBounded
  <2> QED
    BY <2>1, <2>2, <2>3
<1>2. PollInv /\ RateBounded => NoMoreRunsThanPeriods
  BY <1>1 DEF NoMoreRunsThanPeriods
<1> QED
  BY <1>2, PollAlways, PTL

\* As long as polls come on time, an enabled activity is claimed less than a poll
\* interval after it is due.
THEOREM ClaimedSoon == PollSpec => []ClaimedInTime
<1>1. PollInv => ClaimedInTime
  <2> SUFFICES ASSUME PollInv, Punctual,
                      NEW id \in DOMAIN activities, IsScheduled(activities[id].state)
               PROVE  mono < RipeAt(id) + PollInterval
    BY DEF ClaimedInTime
  <2>1. /\ mono \in Nat /\ lastPoll \in Nat /\ deadline \in Nat /\ PollInterval \in Nat
        /\ RipeAt(id) \in Nat
    BY PollAssumption, BaseFacts DEF Facts, PollInv
  <2>2. mono < deadline /\ deadline <= lastPoll + PollInterval /\ lastPoll <= RipeAt(id)
    BY <2>1 DEF PollInv, Punctual, DeadlineNear, NothingRipeLeft
  <2> QED
    BY <2>1, <2>2
<1> QED
  BY <1>1, PollAlways, PTL

\* As long as polls come on time, a one-shot that is disabled over its date is
\* dropped less than a poll interval after it.
THEOREM MissedAreDropped == PollSpec => []MissedDatesAreDropped
<1>1. PollInv => MissedDatesAreDropped
  <2> SUFFICES ASSUME PollInv, Punctual, NEW id \in DOMAIN activities,
                      Is(activities[id].state, "Disabled"),
                      activities[id].activation_target.kind = "Date"
               PROVE  mono < RipeAt(id) + PollInterval
    BY DEF MissedDatesAreDropped
  <2>1. /\ mono \in Nat /\ lastPoll \in Nat /\ deadline \in Nat /\ PollInterval \in Nat
        /\ RipeAt(id) \in Nat
    BY PollAssumption, BaseFacts DEF Facts, PollInv
  <2>2. mono < deadline /\ deadline <= lastPoll + PollInterval /\ lastPoll <= RipeAt(id)
    BY <2>1 DEF PollInv, Punctual, DeadlineNear, NothingRipeLeft
  <2> QED
    BY <2>1, <2>2
<1> QED
  BY <1>1, PollAlways, PTL

-----------------------------------------------------------------------------
(* The polls are those of PollCycle.                                       *)

\* Lifecycle's steps under the name of PollCycle.
LEMMA CycleHasLife ==
  /\ UNCHANGED Cycle!lifeVars <=> UNCHANGED Life!lifeVars
  /\ \A ids, shots : Life!Create(ids, shots) => Cycle!Create(ids, shots)
  /\ \A id, on : Life!SetPaused(id, on) => Cycle!SetPaused(id, on)
  /\ \A id, snoozed : Life!Acknowledge(id, snoozed) => Cycle!Acknowledge(id, snoozed)
  /\ \A ids : Life!Collect(ids) => Cycle!Collect(ids)
  /\ \A ids : Life!Claim(ids) => Cycle!Claim(ids)
  /\ Cycle!Collectable = Life!Collectable /\ Cycle!Claimable = Life!Claimable
<1>1. UNCHANGED Cycle!lifeVars <=> UNCHANGED Life!lifeVars
  BY DEF Life!lifeVars, Cycle!lifeVars
<1>2. \A ids, shots : Life!Create(ids, shots) => Cycle!Create(ids, shots)
  BY DEF Life!Create, Cycle!Create, Life!Insert, Cycle!Insert, Life!Moved, Cycle!Moved
<1>3. \A id, on : Life!SetPaused(id, on) => Cycle!SetPaused(id, on)
  BY DEF Life!SetPaused, Cycle!SetPaused, Life!Pause, Cycle!Pause
<1>4. \A ids : Life!Remove(ids) <=> Cycle!Remove(ids)
  BY DEF Life!Remove, Cycle!Remove, Life!Moved, Cycle!Moved
<1>5. \A id, snoozed : Life!Settle(id, snoozed) => Cycle!Settle(id, snoozed)
  BY <1>4 DEF Life!Settle, Cycle!Settle, Life!Moved, Cycle!Moved
<1>6. \A id, snoozed : Life!Acknowledge(id, snoozed) => Cycle!Acknowledge(id, snoozed)
  BY <1>5 DEF Life!Acknowledge, Cycle!Acknowledge
<1>7. \A ids : Life!Collect(ids) => Cycle!Collect(ids)
  BY <1>4 DEF Life!Collect, Cycle!Collect
<1>8. \A ids : Life!Claim(ids) => Cycle!Claim(ids)
  BY DEF Life!Claim, Cycle!Claim, Life!Start, Cycle!Start, Life!Moved, Cycle!Moved
<1>9. Cycle!Collectable = Life!Collectable /\ Cycle!Claimable = Life!Claimable
  BY DEF Life!Collectable, Cycle!Collectable, Life!Claimable, Cycle!Claimable
<1> QED
  BY <1>1, <1>2, <1>3, <1>6, <1>7, <1>8, <1>9

LEMMA OthersCycle ==
  ASSUME Inv, Others, UNCHANGED driver
  PROVE  Cycle!Others \/ UNCHANGED Cycle!cycleVars
<1>1. ASSUME NEW ids \in SUBSET Ids, TimedInsertion(ids) PROVE Cycle!Others
  BY <1>1, InsertionLife, CycleHasLife DEF TimedInsertion, Cycle!Others
<1>2. ASSUME NEW id \in Ids, TimedFinish(id) PROVE Cycle!Others
  BY <1>2, FinishLife, CycleHasLife DEF TimedFinish, Cycle!Others
<1>3. ASSUME NEW id \in Ids, NEW enabled \in BOOLEAN, SetEnabledCmd(id, enabled)
      PROVE  Cycle!Others
  BY <1>3, SetEnabledLife, CycleHasLife DEF Cycle!Others
<1>4. ASSUME NEW id \in Ids, SetImmediateCmd(id) PROVE UNCHANGED Cycle!cycleVars
  BY <1>4, SetImmediateLife, CycleHasLife DEF Cycle!cycleVars
<1>5. CASE AdvanceClock
  BY <1>5 DEF AdvanceClock, Cycle!cycleVars, Cycle!lifeVars, PhaseOf, Present
<1> QED
  BY <1>1, <1>2, <1>3, <1>4, <1>5 DEF Others

\* Between two polls no run starts and nothing is collected, for every schedule and
\* every delay of the driver: with SystemPolls, the polls of Polling are those that
\* the running system makes through its mailbox.
THEOREM PollingPolls == PollSpec => ImplementsPollCycle
<1>1. PollInit => Cycle!CycleInit
  BY DEF PollInit, TimerInit, Init, Cycle!CycleInit, Cycle!LifeInit, PhaseOf, Present
<1>2. ASSUME BaseInv, [PollNext]_pollVars PROVE [Cycle!CycleNext]_Cycle!cycleVars
  <2> USE DEF Cycle!CycleNext
  <2>1. Inv
    BY <1>2 DEF BaseInv, ActorInv, TimerInv
  <2>2. CASE UNCHANGED pollVars
    BY <2>2 DEF pollVars, tickerVars, timerVars, vars, Cycle!cycleVars, Cycle!lifeVars, PhaseOf, Present
  <2>3. CASE Run
    BY <2>3 DEF Run, timerVars, vars, Cycle!cycleVars, Cycle!lifeVars, PhaseOf, Present
  <2>4. CASE Poll
    BY <2>4 DEF Poll, timerVars, vars, Cycle!Begins, Cycle!lifeVars, PhaseOf, Present
  <2>5. CASE SendTick
    BY <2>1, <2>5, TickLife, CycleHasLife DEF SendTick, TimedTick, Cycle!Ticks
  <2>6. CASE SendClaim
    BY <2>1, <2>6, ClaimDueLife, CycleHasLife DEF SendClaim, Cycle!Claims
  <2>7. CASE Others /\ UNCHANGED <<tickerVars, runs>>
    BY <2>1, <2>7, OthersCycle DEF tickerVars
  <2> QED
    BY <1>2, <2>2, <2>3, <2>4, <2>5, <2>6, <2>7 DEF PollNext
<1>3. PollInv => BaseInv
  BY DEF PollInv
<1> QED
  BY <1>1, <1>2, <1>3, PollAlways, PTL DEF PollSpec, ImplementsPollCycle, Cycle!CycleSpec

=============================================================================
