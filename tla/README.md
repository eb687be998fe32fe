# Ritualist in TLA+

Ritualist (`src/src/*.rs`) is a Rust library that runs recurring and one-shot
*activities*.  A scheduler actor holds the activities, a driver polls it and
spawns a task for each activity that is due, the task hands the run to the
application over a channel and reports the application's acknowledgement back.
This directory holds a model of that system: TLA+ modules, TLC runs on small
instances, and theorems checked by TLAPS.  `PROJECT.json` maps every definition
to the source lines it models, and lists the hazards the properties are for.

## 1. Inventory

| component | source | state | operations |
|---|---|---|---|
| Activity state machine | `activity.rs` | `schedule`, `state`, `duration_delta`, `activation_target`, `last_tick`, `created_at` | `new`, `tick`, `claim_if_due`, `set_enabled`, `set_immediate`, `finish` |
| Progress | `activity.rs:214-242` | none | `calculate_progress_pct`, of the activities in a `Snapshot` |
| Schedules and targets | `activity_spec.rs`, `activation_target.rs` | none | `validate`, `From<ActivitySchedule>` |
| Clock | `clock.rs` | monotonic and wall-clock time | `now`, `now_utc`, `TestClock::advance` |
| Scheduler actor | `schedule.rs:158-252` | `HashMap<T, Activity<T>>` | one handler for each `Command` |
| Scheduler handle, mailbox | `schedule.rs:59-156, 261-293` | bounded mpsc channel, replies, cancellation token | the methods of `Scheduler`, `shutdown`, `abort` |
| `WithScheduler` | `schedule.rs:295-374` | none | the public calls, with validation |
| Driver | `driver.rs` | where it is in its `select!` loop, its ticker, its `JoinSet` | `run`, `shutdown`, `abort` |
| Dispatch tasks | `driver.rs:76-83` | an id, an ack receiver | hand out, await the ack, `finish` |
| `Ritualist`, `RunningRitualist` | `lib.rs:93-182` | which of the two it is | `new`, `run`, `shutdown`, `abort`, drop |
| Consumer application | `examples/*.rs`, otherwise external | the `Receiver`, the ack senders it holds | receive, answer, drop |
| Builder, errors, serialization | `lib.rs`, `error.rs` | none | not modelled (section 8) |

**How they interact.**  All state of the scheduler belongs to one task, which
handles one command at a time; everybody else posts into its bounded mailbox.
The driver posts `Tick` and `ClaimDue` on every poll, and awaits the reply of
the second.  Each claimed id becomes a dispatch task in the driver's `JoinSet`.
The task sends `(id, ack sender)` into a second bounded channel, awaits the
oneshot acknowledgement (a dropped sender counts as `Done`) and posts `Finish`.
Clients post the public calls through clones of the same handle, before the
system runs, while it runs, and after it was shut down.

**What is hard.**

* Time is only credited by `Tick`, by the whole period since the previous one,
  according to the state at that moment.
* Between a claim and its `Finish` anything may happen to the activity: pause,
  dispatch, reset, collection by a `Tick`.  `Finish` names an id, not a run.
* Two bounded channels and a task that both receives from one side and posts to
  the other (a consumer that calls `register`): who waits for whom.
* Shutdown joins driver and actor in order, with a grace period that races the
  last acknowledgements.  Abort works only because a `JoinSet` is dropped.
* Every clone of the handle can shut the actor down, and a handle used directly
  can make it panic: shutdown, calls and drain must cope with an actor that is
  gone.  Dropping handles instead must end the actor, and dropping a
  `RunningRitualist` must not.
* The ticker fires on a grid of deadlines and makes up for missed ones in a burst.

**What makes each component correct.**

| component | properties |
|---|---|
| activity, scheduler actor | states and targets fit each other (`TypeOK`, `TargetFitsState`); nothing stuck in `Running` (`RunningIsOwed`) or lost (`OnlySpentOneShotsLeave`); batches that fail half way (`RegisterManyStopsAtTaken`); implements `Lifecycle` |
| actor, over runs and dispatches | `RunsMatchState`, `OneShotsRunBeforeCompletion`, `QuietDispatchIsHonoured` |
| progress | `ProgressNeverFalls` |
| actor, over time | `EarlyByAtMostOnePoll` |
| actor under the driver's ticker | `ClaimedInTime`, `MissedDatesAreDropped`, `NoMoreRunsThanPeriods`, implements `PollCycle` |
| mailbox, driver, tasks | `RunningIsCarried`, `NoRunLostInService`, implements `Lifecycle` and `PollCycle`, `PollsInTurn`, `PollingGoesOn`, `CallsReturn`, `RunsAreSettled` |
| who waits for what | `EveryWaitHasItsAck`, `RepliesAreAwaited`, `OneWaitsForTheActor` |
| shutdown and abort | `ActorOutlivesDriver`, `NothingLeftAfterShutdown`, `DrainIsComplete`, `ShutdownCompletes`, `AbortReleasesAll` |
| dropped handles | `DroppedHandlesFreeActor`, `RunsAreSettled`, `CallsReturn` |

## 2. Modules

```
Activity   Clock                          Lifecycle
    \       /                            /    |    \
   SchedulerActor ---- implements -------  PollCycle \
    /            \                        /        \  \
RunHistory   TimerHistory               /         Ritualist (uses Lifecycle's
                  |                    /              effects, and implements both)
               Polling -- implements --

proofs:  SchedulerActorProofs <- RunHistoryProofs
                              <- TimerHistoryProofs <- PollingProofs
         RitualistProofs <- RitualistWaits <- RitualistRefinement
```

**Activity** is one activity as a record, and each method of `activity.rs` as
an operator on it.  Time is counted in whole units.  `Disabled` boxes the state
it replaced, as the enum does.  A random interval is the *set* of targets it
may draw.  `last_run_at` is left out: nothing reads it.  `CalculateProgress` is an
exact fraction, of which the code computes the percentage: `Clamped` is the
quotient and its `clamp`, through which 0/0 stays `NaN`, and `Millis` is what
`num_milliseconds` makes of the two spans of a date (durations the code divides
in full).  `Millisecond` is the number of time units in one, so that a date need
not be a whole number of milliseconds away.

**Clock** has `mono` (`Clock::now`) and `utc` (`Clock::now_utc`).
`TestClock::advance` moves both; with `WallClockJumps` the wall clock can also
be set to any time, as the operating system may under `SystemClock`.  A handler
reads the clock several times in the code and once in the model: no time passes
within one command.

**SchedulerActor** is the map of activities and one action per `Command`:
`Register`, `RegisterMany`, `Reset`, `ResetMany`, `Tick`, `SetEnabledCmd`,
`ClaimDue`, `SetImmediateCmd`, `Finish`.  (`Snapshot` changes nothing; it
matters for its reply only, in `Ritualist`.)  A handler does not await, so it is
one atomic step, and the order of the commands is arbitrary.  `inflight[id]`
counts the `Finish` commands the driver still owes; that it posts exactly one
for each claimed id is what `Ritualist` establishes.  The validation of
`WithScheduler` is a conjunct of the four inserting actions.  A batch is
inserted entry by entry in the code; the action states the net effect, with the
entries `register_many` gets past (`Accepted`) and the last entry for each id
(`Chosen`).

**RunHistory** and **TimerHistory** add auxiliary variables to the actor that
never influence it: which ids were replaced during a run (`stale`), which
dispatches are pending (`dispatched`, `quiet`), and what a stopwatch would show
(`lastPoll`, `since`, `timerFrom`, which a pause that a `Tick` finds moves ahead).

**Polling** composes the timed actor with the driver's ticker.  `deadline` is
tokio's next tick: `Poll` is possible once it has passed, and moves it by one
`PollInterval`, so that a driver that is late polls several times in a row.
Ticker and activities are driven by one clock here: what a wall clock that is set
does to dates is a matter of `SchedulerActor` (`actor_one`), not of `Polling`.
Between `Poll`, `SendTick` and `SendClaim` any time may pass and anybody may post.
`runs` and `touched` count claims and remember when each activity was last
created, acknowledged, paused, resumed or dispatched.

**Lifecycle** is the abstract specification: an id is absent, waiting or
running, possibly paused, possibly a one-shot, and `owed` acknowledgements are
outstanding for it.  Its effects (`Insert`, `Start`, `Settle`, ...) are also how
`Ritualist` talks about the scheduler.

**PollCycle** extends `Lifecycle` by what the scheduler sees of a poll: its
`Tick` and its `ClaimDue`, in this order and once each, before the next poll
begins; one-shots are collected in the first only, and runs start in the second
only.  `Polling` takes this order for granted, by having the actor handle each
command as it is sent; `Ritualist` has a mailbox in between.  Both implement
`PollCycle`, which is why what `Polling` shows of time holds for polls that queue.
In `Ritualist` a poll has begun (`stage`) until its `Tick` has left the mailbox,
and goes on until its `ClaimDue` has.

**Ritualist** is the whole running system.

| variable | code |
|---|---|
| `phase`, `paused`, `oneshot` | the actor's map, untimed: what is due at a poll, and which paused one-shots a `Tick` collects, is any choice `Lifecycle` allows |
| `actor`, `mailbox` | the loop of `spawn_scheduler` and its mpsc channel of capacity `BufferSize` |
| `call` | what each client is doing: posting, awaiting a reply, awaiting the actor in `Scheduler::shutdown` (joining), without its handle (gone), or panicked (`rx.await.unwrap()` on a dropped reply) |
| `taker` | who took the one `JoinHandle` that all clones share, and with it ended the actor: the owner, a clone, or nobody, because it panicked |
| `driver`, `claimed` | the program counter of `ScheduleDriver::run`: `off`, `select`, `ticking`, `claiming`, `awaiting`, `spawning`, `draining` (five-second timeout), `reaping` (after `abort_all`), `ended`; and the ids of the last reply |
| `task` | the `JoinSet`: each slot is free, sending, waiting for its ack, or finishing; a task that is done leaves its slot at once, so the `join_next` branch of the loop is no step of its own |
| `out`, `held`, `receiver` | the consumer's channel, the ack senders it holds, whether it dropped its `Receiver` |
| `owner` | `Ritualist` (built), `RunningRitualist` (running), `shutdown` at its first join (stopping), at its second (closing), returned (shut), aborted, or dropped |
| `lost` | auxiliary: runs whose `Finish` will never be handled because tasks or actor were stopped |

Every await of the code is a point between two actions.  `SetEnabled` stands for
`dispatch` too (it posts, without a reply), `Register` and `Reset` for their
batch forms.  `Unchecked` and `UncheckedReset` are `Scheduler::register` and
`reset` on a handle from `get_scheduler`, with an empty random range: nobody
validates it, and the actor panics (`ActorPanics`), on a `register` only if the id
is new.  `EndHandle` is what a client may do
with its clone in the end: shut down, abort, or drop it.  When the owner, the
driver, its tasks and all clients are without a handle (`~HandleAlive`), `recv`
returns `None` and the actor ends.  The arguments of a client's call are chosen
when it is handled.

## 3. Runs

All bounds are constants of the cfg files.

| run | instance | distinct states | shows |
|---|---|---|---|
| `actor_one` | 1 id; a random interval, a one-shot and an invalid range; batches of 2 entries; times 0..4, of 2 to the millisecond, with wall-clock jumps; 2 unfinished runs | 103 k | `TypeOK`, `RunningIsOwed`, `TargetFitsState`, `RunsMatchState`, `QuietDispatchIsHonoured`, `RegisterManyStopsAtTaken`, `OnlySpentOneShotsLeave`, `OneShotsRunBeforeCompletion`, `ProgressNeverFalls`, `ImplementsLifecycle` |
| `polling` | 1 id, a random interval of 1 to 3 and a one-shot, snooze of 2, poll interval 2, times 0..6, the driver late by any time | 1.2 M | `EarlyByAtMostOnePoll`, `ClaimedInTime`, `MissedDatesAreDropped`, `NoMoreRunsThanPeriods`, `ImplementsPollCycle` |
| `system_safety` | 2 ids, 2 slots, 1 client that may end its handle in all three ways, channels of capacity 1, an unvalidated `reset`, symmetry in ids and slots | 4.5 M | `TypeOK`, `RunningIsCarried`, `ActorOutlivesDriver`, `NothingLeftAfterShutdown`, `DrainIsComplete`, `ImplementsLifecycle` |
| `system_queues` | 1 id, 2 slots, 2 clients that register, pause and shut down or drop their handle, channels of capacity 2, symmetry in clients and slots | 1.7 M | `NoRunLostInService`, `EveryWaitHasItsAck`, `RepliesAreAwaited`, `PollsInTurn`, `OneWaitsForTheActor`, `ImplementsPollCycle` |
| `system_live` | 1 id, 1 slot, 1 client that may shut its handle down or drop it, an unvalidated `register`, `FairSpec` | 80 k | `ShutdownCompletes`, `AbortReleasesAll`, `DroppedHandlesFreeActor`, `CallsReturn`, `PollingGoesOn` |
| `system_served` | 1 id, 2 slots, a client that resets, `ServedSpec` | 43 k | `RunsAreSettled` |

**Why the bounds are enough to be interesting.**  Activities never read one
another, so one id shows everything about an activity; a second id is needed only
for competing tasks.  Of a batch the run shows what two entries for one id do; a
batch over several ids, some of them taken, is beyond what TLC gets through in this
instance, and is for the theorem `RegisterManyFirst`, as it is for `Implements` that
one command handles any number of activities.
A fixed interval is a range with one choice.  Two unfinished runs of one id is
where a late acknowledgement meets a newer run.  Durations of 1 to 3 with times
up to 4 or 6 let an activity become due, run, be snoozed or paused, and become
due again; three poll intervals leave room for a burst of three polls.  Channels of
capacity 1 are full as soon as anyone posts, so every wait occurs.  Two slots let
two runs of an id overlap (through a reset) and compete for both channels.  With
capacity 2 (`system_queues`) commands stand behind one another: a `ClaimDue`
behind its `Tick`, or either behind a client's call; with two clients there are
two replies to mix up and two who may want to wait for the actor.

`MaxRuns` and `Slots` bound what the code does not bound: a driver whose
consumer is slow spawns tasks without limit.  The guard of `ClaimDue` (of
`HandleClaim`) that enforces it is the one place where the model waits and the
code would not; an instance with more slots behaves the same until it is full.

`MaxTime` ends time, not the system: every other step goes on at the last moment.
`system_live` leaves out a client's `abort`, which differs from its `shutdown`
only in not waiting; `system_safety` leaves out `Snapshot`, which only reads.

Deadlock is checked in all runs.  `Terminated` names the states in which the
system is really over: everything stopped and no handle left, because every
client has given its own up or panicked.

## 4. Fairness

Safety runs assume none.  `FairSpec` assumes what the runtime gives:

* weak fairness of every task that can go on (tokio schedules ready tasks), of
  the poll timer (`Poll`), of the five-second grace timer (`GraceExpires`), and
  of the joins in `shutdown`, the owner's and a clone's (`JoinClone`); the actor
  goes on to its next command also when that makes it panic (`Handle \/ ActorPanics`);
* strong fairness where a step competes with others for something that comes and
  goes: posting to a full channel (`Send`, `SendTick`, `SendClaim`, `HandOut`,
  `SendFinish`), because tokio's mpsc serves waiting senders first-in first-out;
  and the cancelled branch of the driver's `select!` (`Cancelled`), because
  `select!` picks at random among ready branches.

Nothing is assumed of the consumer or of the clients' decision to call, so the
properties of `system_live` hold with a consumer that never receives.
`ServedSpec` adds a consumer that keeps receiving and answers what it received;
only `RunsAreSettled` needs it.

## 5. Proofs

Checked by TLAPS, for every value of the constants that satisfies the named
assumptions (`ClockAssumption`, `ActorAssumption`: durations and times are
naturals, schedules are of the three kinds; `PollAssumption`: a poll interval of at
least one; `ActivityAssumption`: a millisecond has at least one time unit;
`RitualistAssumption`: the six calls and three ends of a handle,
finitely many slots, a positive capacity).

| theorem | says |
|---|---|
| `TypeCorrect` | `Spec => []TypeOK`: no activity rests in `Completed` or `Gc`, `Disabled` never nests |
| `RunningOwed` | `Spec => []RunningIsOwed` |
| `TargetFits` | `Spec => []TargetFitsState` |
| `ProgressMonotone` | `Spec => ProgressNeverFalls` |
| `OnlySpent` | `Spec => OnlySpentOneShotsLeave` |
| `RegisterManyFirst` | `Spec => RegisterManyStopsAtTaken` |
| `Implements` | `Spec => ImplementsLifecycle`: the actor refines `Lifecycle` |
| `RunsMatch` | `RunSpec => []RunsMatchState` |
| `RunBeforeCompletion` | `RunSpec => OneShotsRunBeforeCompletion` |
| `QuietDispatchKept` | `RunSpec => []QuietDispatchIsHonoured` |
| `EarlyByOnePoll` | `TimerSpec => []EarlyByAtMostOnePoll` |
| `RateIsBounded` | `PollSpec => []NoMoreRunsThanPeriods` |
| `ClaimedSoon` | `PollSpec => []ClaimedInTime` |
| `MissedAreDropped` | `PollSpec => []MissedDatesAreDropped` |
| `PollingPolls` | `PollSpec => ImplementsPollCycle` |
| `SystemTypes` | `Ritualist!Spec => []TypeOK` |
| `ActorOutlives` | `Ritualist!Spec => []ActorOutlivesDriver` |
| `NothingLeft` | `Ritualist!Spec => []NothingLeftAfterShutdown` |
| `DrainComplete` | `Ritualist!Spec => DrainIsComplete` |
| `RunningCarried` | `Ritualist!Spec => []RunningIsCarried` |
| `NoRunLost` | `Ritualist!Spec => []NoRunLostInService` |
| `WaitsHaveAcks` | `Ritualist!Spec => []EveryWaitHasItsAck` |
| `RepliesMatch` | `Ritualist!Spec => []RepliesAreAwaited` |
| `PollsAreInTurn` | `Ritualist!Spec => []PollsInTurn` |
| `OneWaits` | `Ritualist!Spec => []OneWaitsForTheActor` |
| `SystemImplements` | `Ritualist!Spec => ImplementsLifecycle`: the running system refines `Lifecycle` |
| `SystemPolls` | `Ritualist!Spec => ImplementsPollCycle`: and `PollCycle`, through its mailbox |

* `SchedulerActorProofs`.  A lemma for each operator of `Activity` says what it
  does to type, state and schedule.  `InsertionEffect` reduces the four inserting
  commands to one fact, that the given ids hold fresh activities and the others
  are untouched; for batches it needs that a non-empty set of indices has a last
  one (`LastIndex`, by well-foundedness of `<` on the naturals).  The inductive
  invariant is `Inv == TypeOK /\ RunningIsOwed`; `TargetInv` adds
  `TargetFitsState` and that, in whatever state, only a one-shot has a date for its
  target.  The refinement maps each command to one `Lifecycle` step or a stutter,
  with one lemma per command.  `RegisterManyFirst` needs that the entries
  `register_many` gets past have different ids, none of them present
  (`AcceptedAreNew`), and that they are the first of the batch, up to an entry
  whose id is taken (`AcceptedPrefix`).  Progress is a fraction, compared by
  multiplying across, which the solver does not handle at large: `ClampedMonotone`
  reduces it to its two parts, `MillisMonotone` says that dropping fractions of a
  millisecond keeps their order, and `EverythingIsMost` with `ReachedIsEverything`
  that nothing is shown above an activity that was dispatched.
* `TimerHistoryProofs`.  `EarlyByAtMostOnePoll` speaks of due activities only,
  and is not inductive: it says nothing of the time credited before the target is
  reached.  `TimerInv` adds `AccumulatedIsElapsed`, that `timerFrom +
  duration_delta <= last_tick` for every activity, and that `last_tick` is not
  later than both `since` and `lastPoll`, so that a `Tick` that credits a paused
  activity with nothing leaves out at least what it moves `timerFrom` by.
* `PollingProofs`.  Rates: every claim belongs to a poll that moved `deadline` by a
  period, and no poll comes before its deadline (`RateBounded`).  Delays:
  `CreditComplete` says that the credit of a scheduled activity reaches back to
  when it was touched, `DeadlineNear` that the deadline is at most one period
  after the last `Tick`, and `NothingRipeLeft` that no activity that was ripe
  before that `Tick` is still waiting once the poll is over.  Neither theorem
  assumes that the driver is in time; the properties speak of the moments when it
  is (`Punctual`).  The refinement reuses the lemmas of the actor, one per command.
* `RunHistoryProofs`.  `RunInv == Inv /\ RunsMatchState /\ QuietHasNoRun`.  `Inv`
  is needed where an id stops being stale: its runs are all finished, and
  `RunningIsOwed` then says that it is not `Running`.  `QuietHasNoRun` keeps every
  `Finish` away from a quietly dispatched activity; a wall clock that is set takes
  the quiet dispatches of one-shots with it.
* `RitualistProofs`.  The order of shutdown rests on `OrderInv`: the actor only
  stops for a client, a panic, an owner that has joined the driver or has aborted,
  or when it is `Abandoned`; and a driver that was not aborted only ends with its
  tasks.  `DrainComplete` needs more, because it speaks of everything that
  happened before: `DrainInv` adds that each ack
  sender, queued or held, has one task of its own waiting (`AcksAwaited`), and
  that the driver is awaiting the reply of the one `ClaimDue` that may be queued
  (`ClaimsAwaited`), so that no claimed ids are dropped with it.  `CarryInv` says
  where the run of a `Running` activity is, in the reply, in a task or in the
  mailbox (`CarriedBy`), instead of counting (`Carried`): each move hands it on
  from one place to the next, and `CarriedCounts` turns it into the number.
  `Appended` and `Shifted` say what posting and handling do to the mailbox.
* `RitualistWaits`.  `EveryWaitHasItsAck` holds in two parts: while tasks may still
  end in their own time the senders and the waiting tasks correspond (`AcksAwaited`
  of `DrainInv`), and afterwards only that a waiting task's sender exists
  (`WaitsCovered`), because a killed task leaves its sender behind.  `Replies`
  follows each client's command through the mailbox.
  `PollsInTurn` needs `OrderInv`: an actor that has stopped has an empty mailbox, so
  that a driver whose `ClaimDue` came too late finds no `Tick` there.
* `RitualistRefinement`.  Here the number itself matters: `Lifecycle`'s `owed` is
  `Owed`, the sum of a claim, a count of tasks, a count of queued `Finish`es and
  `lost`.  A lemma for each move says what it does to each term (`TaskLeft`,
  `TasksSpawned`, `PostedFinish`, and `TakenOut`, which shifts the mailbox by one
  with a bijection), and `MovesKeepOwed` that the sum stands for whatever is not
  done by the actor.  `HandleLife` maps each command to a step; the reply to a
  `ClaimDue` needs `OrderInv`, that no older reply is overwritten by it.  For
  `PollCycle`, `HandleAdvances` says which stage a poll is in when its commands are
  handled, which is where `PollsInTurn` is used, and `MovesAdvance` that everything
  else lets a poll begin, or cuts it short, but never brings it back.

Only model-checked: liveness (`ShutdownCompletes`, `AbortReleasesAll`,
`DroppedHandlesFreeActor`, `CallsReturn`, `PollingGoesOn`, `RunsAreSettled`), which
is out of the prover's reach, as is `ENABLED`.  Every invariant, action property
and refinement that a passing run checks is a theorem.

## 6. Where the code and its documentation disagree

Six runs end in a counterexample, each against a sentence of the README or of a
doc comment; a seventh sentence is contradicted by a property that holds (all are
quoted under `findings` in `PROJECT.json`).

* `PauseSurvivesAck`: `finish` overwrites `Disabled`, so a pause made during a
  run is undone by its acknowledgement.
* `RescheduledOneShotSurvives`: the acknowledgement of an old run completes, and
  so removes, the one-shot that a reset has put in its place.
* `SnoozeKeepsOneShot`: a one-shot disabled during its run is collected by the
  next `Tick`; the snooze finds nothing.
* `DispatchIsHonoured`: a dispatch during a run is overwritten by `finish`.
  `QuietDispatchIsHonoured` is the part that does hold.
* `SnoozeElapses`: `finish` resets `duration_delta` but not `last_tick`, so the
  time since the previous `Tick` is credited to the snooze.
  `EarlyByAtMostOnePoll` bounds the error by one poll period.
* `ProgressResetsAtRun`: a dispatched interval has a target of zero, and its progress
  after the claim is 0/0, which `clamp` keeps, where `activity.rs:222` says it
  resets to 0.0.
* `RegisterManyStopsAtTaken` holds: `README.md:60-61` and `activity_spec.rs:12-13`
  say that registering an id again overwrites the old entry; the code returns an
  error (as `schedule.rs:305` says), and leaves a batch half entered.

Read off the code, with no run of their own:

* `schedule.rs:356` says disabling pauses the timer of an interval; a pause that
  lies between two `Tick`s is counted in full.  `EarlyByAtMostOnePoll` says that
  a pause that a `Tick` has seen is not counted, up to that `Tick`.
* `schedule.rs:357-358` says a one-shot disabled at its date is not emitted; it is
  when it is enabled again before the next `Tick`.  `MissedDatesAreDropped` bounds
  that window by one poll interval.
* `lib.rs:213` says no activity runs more often than `poll_interval`; the ticker
  catches up missed polls in a burst.  `NoMoreRunsThanPeriods` is what holds: as
  many runs as periods, not one in each.

## 7. Plan

Done, in this order: `Activity`, `Clock`, `SchedulerActor`, its type invariant
and refinement, the histories, `Ritualist` with shutdown, abort and liveness; then
the ends of the handle (clones that shut down, abort or drop, an owner that is
dropped, an actor that panics), progress, `Polling` with the ticker,
and the theorems of section 5; then the queues of the running system, with who
waits for whom, and `PollCycle` as the link between its polls and those of `Polling`.

Left: every safety property is proved.  What could still be stated is the order in
which the commands of one client take effect, which the mailbox keeps and the
calls that await no reply rely on.

## 8. Not modelled

* The builder, error wrappers, serde derives: no behaviour.  A `buffer_size` of 0
  panics when the `Ritualist` is built; a `poll_interval` of 0 panics in `run`, in
  the caller, before there is a driver.  The assumptions exclude both.
* The rendering of the examples' progress bars, and their `round()`.
* The digits of a floating-point progress.  Each operation the code does with it
  rounds and keeps the order of its operands, which is all `ProgressNeverFalls`
  speaks of; whether 100.0 is shown exactly at the target is not claimed.
* Client futures that are cancelled at an await: a call runs to its end or panics.
* Panics of the consumer inside its own tasks, beyond the ack sender they drop.
* Clients that post the driver's commands themselves: `get_scheduler` is public,
  and so are `Scheduler::tick`, `claim_due` and `finish`.  Only the driver does so
  in the model, as in the README and the examples of the repository.
