------------------------------- MODULE Polling -------------------------------
(***************************************************************************)
(* The scheduler actor polled by the driver's ticker, in time.             *)
(*                                                                         *)
(* ScheduleDriver::run polls on tokio's interval with its default missed-  *)
(* tick behaviour, a burst: a tick is ready once its deadline has passed,  *)
(* and the next deadline is one period after that deadline, however late   *)
(* the tick was taken.  Between the tick, the Tick command and the         *)
(* ClaimDue command any time may pass, and clients may do anything.        *)
(***************************************************************************)
EXTENDS TimerHistory

CONSTANT PollInterval

\* tokio::time::interval panics on a period of zero.
ASSUME PollAssumption == PollInterval \in Nat \ {0}

VARIABLES
  driver,    \* "off" before run, then "select", "ticking" or "claiming"
  deadline,  \* of the ticker's next tick
  start,     \* auxiliary: when the ticker was made
  runs,      \* auxiliary: how often each id was claimed
  touched    \* auxiliary: when each activity was last created, acknowledged,
             \* paused, resumed or dispatched

tickerVars == <<driver, deadline, start>>
pollVars == <<timerVars, tickerVars, runs, touched>>

PollInit ==
  /\ TimerInit
  /\ driver = "off" /\ deadline = 0 /\ start = 0
  /\ runs = Zero
  /\ touched = Zero

Touch(ids) == touched' = [id \in Ids |-> IF id \in ids THEN mono ELSE touched[id]]

Run ==
  /\ driver = "off"
  /\ driver' = "select"
  /\ deadline' = mono
  /\ start' = mono
  /\ UNCHANGED <<timerVars, runs, touched>>

\* Mutant: the deadline stays where it is.
PollAgainAndAgain ==
  /\ driver = "select" /\ deadline <= mono
  /\ driver' = "ticking"
  /\ UNCHANGED <<timerVars, deadline, start, runs, touched>>

\* Mutant: a poll that is late makes up for it with a ClaimDue only.
PollClaimsOnly ==
  /\ driver = "select" /\ deadline <= mono
  /\ driver' = IF deadline + PollInterval <= mono THEN "claiming" ELSE "ticking"
  /\ deadline' = deadline + PollInterval
  /\ UNCHANGED <<timerVars, start, runs, touched>>

Poll ==
  /\ driver = "select" /\ deadline <= mono
  /\ driver' = "ticking"
  /\ deadline' = deadline + PollInterval
  /\ UNCHANGED <<timerVars, start, runs, touched>>

SendTick ==
  /\ driver = "ticking"
  /\ driver' = "claiming"
  /\ TimedTick
  /\ UNCHANGED <<deadline, start, runs, touched>>

SendClaim ==
  /\ driver = "claiming"
  /\ driver' = "select"
  /\ ClaimDue
  /\ runs' = [id \in Ids |-> IF id \in Due THEN runs[id] + 1 ELSE runs[id]]
  /\ UNCHANGED <<lastPoll, since, timerFrom, deadline, start, touched>>

\* Everybody else: dispatch tasks post Finish, clients their calls.
Others ==
  \/ \E ids \in SUBSET Ids : TimedInsertion(ids) /\ Touch(ids)
  \/ \E id \in Ids : TimedFinish(id) /\ Touch({id})
  \/ \E id \in Ids :
       /\ (\E enabled \in BOOLEAN : SetEnabledCmd(id, enabled)) \/ SetImmediateCmd(id)
       /\ Touch(IF activities' = activities THEN {} ELSE {id})
       /\ UNCHANGED <<lastPoll, since, timerFrom>>
  \/ AdvanceClock /\ UNCHANGED <<lastPoll, since, timerFrom, touched>>

PollNext ==
  \/ Run \/ Poll \/ SendTick \/ SendClaim
  \/ Others /\ UNCHANGED <<tickerVars, runs>>

PollSpec == PollInit /\ [][PollNext]_pollVars

-----------------------------------------------------------------------------
(* Properties.  They compare dates with the monotonic clock: no wall clock *)
(* is set here, so that both clocks show the same.                         *)

\* The driver waits for its next tick, and has not missed it.
Punctual == driver = "select" /\ mono < deadline

\* The latest moment at which an activity left alone reaches its target.
RipeAt(id) ==
  LET target == activities[id].activation_target
  IN  IF target.kind = "Duration" THEN touched[id] + target.at
      ELSE IF target.at > touched[id] THEN target.at ELSE touched[id]

\* An enabled activity is claimed less than a poll interval after its interval,
\* snooze or date is over, or its dispatch, as long as polls come on time: no
\* order of ticks, pauses and acknowledgements makes the time credited fall
\* short of the time that has passed.
ClaimedInTime ==
  Punctual => \A id \in DOMAIN activities :
                IsScheduled(activities[id].state) => mono < RipeAt(id) + PollInterval

\* schedule.rs:357-358, disabling "will omit emitting the activity event if the
\* activity is disabled when it should have fired": less than a poll interval
\* after its date a disabled one-shot is gone, and enabling it is too late.
MissedDatesAreDropped ==
  Punctual => \A id \in DOMAIN activities :
                /\ Is(activities[id].state, "Disabled")
                /\ activities[id].activation_target.kind = "Date"
                => mono < RipeAt(id) + PollInterval

\* "No activity can run more often than this" (lib.rs:213): a driver that was
\* held up polls in a burst, but only makes up for the polls it has missed, so
\* an id is never claimed more often than once for each period so far.
NoMoreRunsThanPeriods ==
  \A id \in Ids : runs[id] > 0 => (runs[id] - 1) * PollInterval <= mono - start

-----------------------------------------------------------------------------
(* The driver's polls, in time, are those of the running system.           *)

Cycle == INSTANCE PollCycle WITH
           phase   <- [id \in Ids |-> PhaseOf(id)],
           paused  <- {id \in DOMAIN activities : Is(activities[id].state, "Disabled")},
           oneshot <- {id \in DOMAIN activities : IsOneShot(activities[id].schedule)},
           owed    <- inflight,
           stage   <- IF driver \in {"ticking", "claiming"} THEN driver ELSE "idle"

\* A run starts in the ClaimDue of a poll only, after the Tick of the same poll:
\* what Polling does without the mailbox, Ritualist does with it.
ImplementsPollCycle == Cycle!CycleSpec

=============================================================================
