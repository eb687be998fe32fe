------------------------------ MODULE Ritualist ------------------------------
(***************************************************************************)
(* The running system: clients and the driver post commands into the       *)
(* bounded mailbox of the scheduler actor; the driver polls it and spawns  *)
(* a task for every claimed id; the task hands the run to the consumer     *)
(* over a bounded channel, awaits the acknowledgement and posts Finish.    *)
(* The owner shuts all of it down, aborts it, or drops it; so may a client *)
(* do with its clone of the Scheduler handle.                              *)
(*                                                                         *)
(* Time is left to SchedulerActor: which activities are due and which      *)
(* disabled one-shots a Tick collects is any choice Lifecycle allows, and  *)
(* so are the arguments of a client's call.                                *)
(***************************************************************************)
EXTENDS Naturals, Sequences, FiniteSets

CONSTANTS
  Ids,        \* activity ids
  Clients,    \* tasks holding a Scheduler clone
  Ops,        \* the calls they make
  Ends,       \* what they may do with their clone in the end
  Slots,      \* dispatch tasks: a bound on the runs alive at once
  BufferSize  \* capacity of the mailbox and of the consumer's channel

ASSUME RitualistAssumption ==
  /\ Ops \subseteq {"Register", "Unchecked", "Reset", "UncheckedReset",
                    "SetEnabled", "Snapshot"}
  /\ Ends \subseteq {"Shutdown", "Abort", "Drop"}
  /\ IsFiniteSet(Slots)
  /\ BufferSize \in Nat \ {0}

VARIABLES
  phase, paused, oneshot,  \* the actor's activities, as in Lifecycle
  actor,     \* "running" or "stopped"
  mailbox,   \* commands queued for the actor
  call,      \* what each client is doing
  driver,    \* where the driver task is in its loop
  claimed,   \* the ids in the reply to its ClaimDue
  task,      \* the dispatch task in each slot
  out,       \* slots whose (id, ack sender) is queued for the consumer
  held,      \* slots whose ack sender the consumer holds
  receiver,  \* "open", or "closed" once the consumer dropped its Receiver
  owner,     \* the Ritualist value: built, running, stopping, closing, shut,
             \* aborted or dropped
  taker,     \* who ended the actor, and so took its JoinHandle: "nobody" yet,
             \* the "owner", a "clone", or a "panic" of its own
  lost       \* auxiliary: runs of each id that can no longer be finished

scheduler == <<phase, paused, oneshot>>
consumer == <<out, held, receiver>>
ending == <<owner, taker>>
vars == <<scheduler, actor, mailbox, call, driver, claimed, task, consumer, ending, lost>>

-----------------------------------------------------------------------------

\* SetEnabled stands for dispatch as well, and Register and Reset for their
\* batch forms.  Unchecked and UncheckedReset are Scheduler::register and reset,
\* called on the handle instead of through WithScheduler, with an empty random range.
AwaitsReply == {"Register", "Unchecked", "Snapshot"}

IdleCall == [pc |-> "idle"]
Sending(op) == [pc |-> "sending", op |-> op]
Awaiting(op) == [pc |-> "awaiting", op |-> op]
Panicked == [pc |-> "panicked"]
Joining == [pc |-> "joining"]
Gone == [pc |-> "gone"]

CallType == {IdleCall, Panicked, Joining, Gone} \cup [pc : {"sending", "awaiting"}, op : Ops]

\* A reply that is dropped: register unwraps it, snapshot returns nothing.
Unanswered(op) == IF op = "Snapshot" THEN IdleCall ELSE Panicked

CallCmd(c, op) == [op |-> op, client |-> c]
TickCmd == [op |-> "Tick"]
ClaimCmd == [op |-> "ClaimDue"]
FinishCmd(id, snoozed) == [op |-> "Finish", id |-> id, snoozed |-> snoozed]

CommandType ==
       [op : Ops, client : Clients]
  \cup {TickCmd, ClaimCmd}
  \cup [op : {"Finish"}, id : Ids, snoozed : BOOLEAN]

Free == [pc |-> "free"]
SendingRun(id) == [pc |-> "sending", id |-> id]
WaitingAck(id) == [pc |-> "waiting", id |-> id]
Finishing(id, snoozed) == [pc |-> "finishing", id |-> id, snoozed |-> snoozed]

TaskType ==
       {Free}
  \cup [pc : {"sending", "waiting"}, id : Ids]
  \cup [pc : {"finishing"}, id : Ids, snoozed : BOOLEAN]

FreeSlots == {s \in Slots : task[s] = Free}
Idle == FreeSlots = Slots

\* Mutant: a channel without a capacity.
PostUnbounded(cmd) ==
  \/ actor = "running" /\ mailbox' = Append(mailbox, cmd)
  \/ actor = "stopped" /\ UNCHANGED mailbox

\* mpsc::Sender::send: waits for room; fails once the receiver is gone.
Post(cmd) ==
  \/ actor = "running" /\ Len(mailbox) < BufferSize /\ mailbox' = Append(mailbox, cmd)
  \/ actor = "stopped" /\ UNCHANGED mailbox

\* The runs of an id on their way: claimed, in a task, or with a Finish queued.
Carried(id) ==
    (IF id \in claimed THEN 1 ELSE 0)
  + Cardinality({s \in Slots \ FreeSlots : task[s].id = id})
  + Cardinality({i \in DOMAIN mailbox : mailbox[i].op = "Finish" /\ mailbox[i].id = id})

Life == INSTANCE Lifecycle WITH owed <- [id \in Ids |-> Carried(id) + lost[id]]

\* A poll has begun until its Tick is handled, and goes on until its ClaimDue is.
Queued(op) == \E i \in DOMAIN mailbox : mailbox[i].op = op

Cycle == INSTANCE PollCycle WITH
           owed  <- [id \in Ids |-> Carried(id) + lost[id]],
           stage <- IF driver = "ticking" \/ Queued("Tick") THEN "ticking"
                    ELSE IF driver = "claiming" \/ Queued("ClaimDue") THEN "claiming"
                    ELSE "idle"

Losing(ids) == lost' = [id \in Ids |-> IF id \in ids THEN lost[id] + 1 ELSE lost[id]]

-----------------------------------------------------------------------------
(* Clients: the methods of Scheduler.                                      *)

Call(c, op) ==
  /\ call[c] = IdleCall
  /\ call' = [call EXCEPT ![c] = Sending(op)]
  /\ UNCHANGED <<scheduler, actor, mailbox, driver, claimed, task, consumer, ending, lost>>

Send(c) ==
  /\ call[c].pc = "sending"
  /\ LET op == call[c].op
     IN  /\ Post(CallCmd(c, op))
         /\ call' = [call EXCEPT ![c] = IF op \notin AwaitsReply THEN IdleCall
                                        ELSE IF actor = "running" THEN Awaiting(op)
                                        ELSE Unanswered(op)]
  /\ UNCHANGED <<scheduler, actor, driver, claimed, task, consumer, ending, lost>>

\* Mutant: every clone that shuts down waits for the actor.
EndHandleAndWait(c, how) ==
  /\ call[c] = IdleCall
  /\ call' = [call EXCEPT ![c] = IF how = "Shutdown" THEN Joining ELSE Gone]
  /\ taker' = IF how # "Drop" /\ taker = "nobody" THEN "clone" ELSE taker
  /\ UNCHANGED <<scheduler, actor, mailbox, driver, claimed, task, consumer, owner, lost>>

\* Scheduler::shutdown, Scheduler::abort or drop of a client's clone.  All
\* clones share the JoinHandle: only the first to take it waits for the actor.
EndHandle(c, how) ==
  /\ call[c] = IdleCall
  /\ call' = [call EXCEPT ![c] = IF how = "Shutdown" /\ taker = "nobody" THEN Joining ELSE Gone]
  /\ taker' = IF how # "Drop" /\ taker = "nobody" THEN "clone" ELSE taker
  /\ UNCHANGED <<scheduler, actor, mailbox, driver, claimed, task, consumer, owner, lost>>

JoinClone(c) ==
  /\ call[c] = Joining /\ actor = "stopped"
  /\ call' = [call EXCEPT ![c] = Gone]
  /\ UNCHANGED <<scheduler, actor, mailbox, driver, claimed, task, consumer, ending, lost>>

-----------------------------------------------------------------------------
(* The actor task: SchedulerActor::send under the loop of spawn_scheduler. *)

\* Mutant: the command is handled but its reply is dropped.
ReplyDropped(c) == call' = [call EXCEPT ![c] = Unanswered(@.op)]

\* Mutant: the actor keeps the reply sender, so that it is neither used nor dropped.
ReplyKept(c) == UNCHANGED call

Reply(c) == call' = [call EXCEPT ![c] = IdleCall]

HandleCall(cmd) ==
  /\ \/ /\ cmd.op = "Register"
        /\ Reply(cmd.client)
        /\ \/ \E id \in Ids, shots \in SUBSET Ids :
                phase[id] = "absent" /\ shots \subseteq {id} /\ Life!Insert({id}, shots)
           \/ (\E id \in Ids : phase[id] # "absent") /\ UNCHANGED scheduler
     \/ /\ cmd.op = "Unchecked"
        /\ Reply(cmd.client)
        /\ (\E id \in Ids : phase[id] # "absent") /\ UNCHANGED scheduler
     \/ /\ cmd.op = "Reset"
        /\ \E id \in Ids, shots \in SUBSET Ids :
             shots \subseteq {id} /\ Life!Insert({id}, shots)
        /\ UNCHANGED call
     \/ /\ cmd.op = "SetEnabled"
        /\ \/ \E id \in Ids, on \in BOOLEAN : phase[id] # "absent" /\ Life!Pause(id, on)
           \/ UNCHANGED scheduler
        /\ UNCHANGED call
     \/ cmd.op = "Snapshot" /\ Reply(cmd.client) /\ UNCHANGED scheduler
  /\ UNCHANGED <<driver, claimed, lost>>

HandleTick(cmd) ==
  /\ cmd.op = "Tick"
  /\ \E ids \in SUBSET Life!Collectable : Life!Remove(ids)
  /\ UNCHANGED <<call, driver, claimed, lost>>

\* The reply wakes the driver, or is dropped if the driver was aborted.
HandleClaim(cmd) ==
  /\ cmd.op = "ClaimDue"
  /\ \E ids \in SUBSET Life!Claimable :
       /\ Cardinality(ids) <= Cardinality(FreeSlots)
       /\ Life!Start(ids)
       /\ IF driver = "awaiting"
            THEN driver' = "spawning" /\ claimed' = ids /\ UNCHANGED lost
            ELSE Losing(ids) /\ UNCHANGED <<driver, claimed>>
  /\ UNCHANGED call

HandleFinish(cmd) ==
  /\ cmd.op = "Finish"
  /\ Life!Settle(cmd.id, cmd.snoozed)
  /\ UNCHANGED <<call, driver, claimed, lost>>

Handle ==
  /\ actor = "running"
  /\ mailbox # <<>>
  /\ mailbox' = Tail(mailbox)
  /\ LET cmd == Head(mailbox)
     IN  HandleCall(cmd) \/ HandleTick(cmd) \/ HandleClaim(cmd) \/ HandleFinish(cmd)
  /\ UNCHANGED <<actor, task, consumer, ending>>

\* Mutant: the driver and its tasks have weak handles, which keep nothing open.
HandleAliveWeak ==
  \/ owner \in {"built", "running", "stopping", "closing"}
  \/ \E c \in Clients : call[c] \notin {Gone, Panicked}

\* Someone still has a Sender of the mailbox: the owner, the driver and its
\* tasks, or a client.
HandleAlive ==
  \/ owner \in {"built", "running", "stopping", "closing"}
  \/ driver \notin {"off", "ended"}
  \/ ~Idle
  \/ \E c \in Clients : call[c] \notin {Gone, Panicked}

\* Mutant: the loop ends for the token only.
MustStopWhenTold == taker # "nobody"

\* The token is cancelled or the task aborted, or recv has returned None.
MustStop == taker # "nobody" \/ (mailbox = <<>> /\ ~HandleAlive)

\* Whatever is queued is dropped with the receiver, and with it the replies.
Stops ==
  /\ actor = "running"
  /\ actor' = "stopped"
  /\ mailbox' = <<>>
  /\ call' = [c \in Clients |->
                IF call[c].pc = "awaiting" THEN Unanswered(call[c].op) ELSE call[c]]
  /\ driver' = IF driver = "awaiting" THEN "spawning" ELSE driver
  /\ lost' = [id \in Ids |-> lost[id] +
                Cardinality({i \in DOMAIN mailbox : mailbox[i].op = "Finish" /\ mailbox[i].id = id})]
  /\ UNCHANGED <<scheduler, claimed, task, consumer, owner>>

ActorStops == MustStop /\ Stops /\ UNCHANGED taker

\* random_range panics on the range that nobody validated, which register reads
\* for a new id only.
ActorPanics ==
  /\ mailbox # <<>>
  /\ \/ Head(mailbox).op = "Unchecked" /\ \E id \in Ids : phase[id] = "absent"
     \/ Head(mailbox).op = "UncheckedReset"
  /\ Stops
  /\ taker' = IF taker = "nobody" THEN "panic" ELSE taker

-----------------------------------------------------------------------------
(* The driver task: ScheduleDriver::run.                                   *)

Goes(from, to) == driver = from /\ driver' = to

Poll ==
  /\ Goes("select", "ticking")
  /\ UNCHANGED <<scheduler, actor, mailbox, call, claimed, task, consumer, ending, lost>>

SendTick ==
  /\ Goes("ticking", "claiming")
  /\ Post(TickCmd)
  /\ UNCHANGED <<scheduler, actor, call, claimed, task, consumer, ending, lost>>

\* Mutant: the driver does not wait for the reply.
SendClaimAndGoOn ==
  /\ Goes("claiming", "select")
  /\ Post(ClaimCmd)
  /\ UNCHANGED <<scheduler, actor, call, claimed, task, consumer, ending, lost>>

\* claim_due returns an empty Vec when the actor is gone.
SendClaim ==
  /\ Goes("claiming", IF actor = "running" THEN "awaiting" ELSE "select")
  /\ Post(ClaimCmd)
  /\ UNCHANGED <<scheduler, actor, call, claimed, task, consumer, ending, lost>>

\* A task in a free slot for every claimed id.
SpawnTasks ==
  /\ \E slot \in [claimed -> FreeSlots] :
       /\ \A i, j \in claimed : slot[i] = slot[j] => i = j
       /\ task' = [s \in Slots |-> IF \E id \in claimed : slot[id] = s
                                     THEN SendingRun(CHOOSE id \in claimed : slot[id] = s)
                                     ELSE task[s]]
  /\ claimed' = {}
  /\ UNCHANGED <<scheduler, actor, mailbox, call, consumer, ending, lost>>

\* Mutant: the driver joins the tasks it spawned before it polls again.
SpawnAndJoin ==
  /\ Goes("spawning", IF claimed = {} THEN "select" ELSE "spawning")
  /\ claimed # {} \/ Idle
  /\ SpawnTasks

\* The loop over `due' has no await: all tasks are spawned in one step.
Spawn == Goes("spawning", "select") /\ SpawnTasks

Cancelled ==
  /\ owner = "stopping"
  /\ Goes("select", "draining")
  /\ UNCHANGED <<scheduler, actor, mailbox, call, claimed, task, consumer, ending, lost>>

\* Mutant: the drain has no timeout.
GraceNeverExpires == FALSE /\ UNCHANGED vars

\* The five seconds are over before all tasks are: abort_all.
GraceExpires ==
  /\ ~Idle
  /\ Goes("draining", "reaping")
  /\ UNCHANGED <<scheduler, actor, mailbox, call, claimed, task, consumer, ending, lost>>

\* The driver task ends, from its drain or after it reaped aborted tasks.
DriverEnds(drained, reaped) ==
  /\ \/ drained /\ Goes("draining", "ended")
     \/ reaped /\ Goes("reaping", "ended")
  /\ UNCHANGED <<scheduler, actor, mailbox, call, claimed, task, consumer, ending, lost>>

\* Mutant: the tasks that abort_all stopped are not joined.
JoinedWithoutReaping == DriverEnds(Idle, TRUE)

\* Mutant: the driver ends without draining.
JoinedWithoutDraining == DriverEnds(TRUE, Idle)

\* join_next has returned None.
Joined == DriverEnds(Idle, Idle)

\* Aborting the driver drops its JoinSet, which aborts the tasks.
DriverKilled ==
  /\ owner = "aborted"
  /\ driver # "ended"
  /\ driver' = "ended"
  /\ Losing(claimed)
  /\ claimed' = {}
  /\ UNCHANGED <<scheduler, actor, mailbox, call, task, consumer, ending>>

-----------------------------------------------------------------------------
(* The dispatch tasks.                                                     *)

\* The send succeeds once there is room, or fails and drops the ack sender.
HandsOut(s, failed) ==
  /\ task[s].pc = "sending"
  /\ \/ /\ receiver = "open"
        /\ Len(out) < BufferSize
        /\ out' = Append(out, s)
        /\ task' = [task EXCEPT ![s] = WaitingAck(@.id)]
     \/ receiver = "closed" /\ task' = [task EXCEPT ![s] = failed] /\ UNCHANGED out
  /\ UNCHANGED <<scheduler, actor, mailbox, call, driver, claimed, held, receiver, ending, lost>>

\* Mutant: the task returns when the consumer is gone, without a Finish.
HandOutOrReturn(s) == HandsOut(s, Free)

\* Mutant: the message that the failed send returns is kept, and the ack sender in it.
HandOutKept(s) == HandsOut(s, WaitingAck(task[s].id))

HandOut(s) == HandsOut(s, Finishing(task[s].id, FALSE))

\* The task ends; its run is lost unless its Finish was posted.
TaskEnds(s, posted) ==
  /\ task' = [task EXCEPT ![s] = Free]
  /\ Losing(IF posted THEN {} ELSE {task[s].id})
  /\ UNCHANGED <<scheduler, actor, call, driver, claimed, consumer, ending>>

\* Mutant: try_send, so that a full mailbox drops the Finish.
TrySendFinish(s) ==
  /\ task[s].pc = "finishing"
  /\ \/ Post(FinishCmd(task[s].id, task[s].snoozed))
     \/ Len(mailbox) = BufferSize /\ UNCHANGED mailbox
  /\ TaskEnds(s, actor = "running")

SendFinish(s) ==
  /\ task[s].pc = "finishing"
  /\ Post(FinishCmd(task[s].id, task[s].snoozed))
  /\ TaskEnds(s, actor = "running")

\* Mutant: the tasks are spawned on the runtime, so they outlive an aborted driver.
TaskDetached(s) ==
  driver = "reaping" /\ task[s] # Free /\ UNCHANGED mailbox /\ TaskEnds(s, FALSE)

TaskKilled(s) ==
  /\ driver \in {"reaping", "ended"}
  /\ task[s] # Free
  /\ UNCHANGED mailbox
  /\ TaskEnds(s, FALSE)

-----------------------------------------------------------------------------
(* The consumer, outside the crate.                                        *)

Receive ==
  /\ out # <<>>
  /\ held' = held \cup {Head(out)}
  /\ out' = Tail(out)
  /\ UNCHANGED <<scheduler, actor, mailbox, call, driver, claimed, task, receiver, ending, lost>>

\* ack_rx.await.unwrap_or(Done) for the slots answered, if their task is alive.
Answered(slots, snoozed) ==
  task' = [s \in Slots |-> IF s \in slots /\ task[s].pc = "waiting"
                             THEN Finishing(task[s].id, snoozed)
                             ELSE task[s]]

\* Dropping the ack sender is the same as sending Done.
Answer(s, snoozed) ==
  /\ s \in held
  /\ held' = held \ {s}
  /\ Answered({s}, snoozed)
  /\ UNCHANGED <<scheduler, actor, mailbox, call, driver, claimed, out, receiver, ending, lost>>

\* The queued messages are dropped with the Receiver, and so their ack senders.
DropReceiver ==
  /\ receiver = "open"
  /\ driver # "off"
  /\ receiver' = "closed"
  /\ out' = <<>>
  /\ Answered({out[i] : i \in DOMAIN out}, FALSE)
  /\ UNCHANGED <<scheduler, actor, mailbox, call, driver, claimed, held, ending, lost>>

-----------------------------------------------------------------------------
(* The owner: Ritualist::run, RunningRitualist::shutdown and abort.        *)

Run ==
  /\ owner = "built"
  /\ owner' = "running"
  /\ Goes("off", "select")
  /\ UNCHANGED <<scheduler, actor, mailbox, call, claimed, task, consumer, taker, lost>>

\* The owner goes on; if it takes the actor's JoinHandle, `takes' holds.
Becomes(to, takes) ==
  /\ owner' = to
  /\ taker' = IF takes /\ taker = "nobody" THEN "owner" ELSE taker
  /\ UNCHANGED <<scheduler, actor, mailbox, call, driver, claimed, task, consumer, lost>>

Shutdown == owner = "running" /\ Becomes("stopping", FALSE)

\* The driver is joined, the actor cancelled; it is awaited by whoever has its handle.
CancelsActor == Becomes(IF taker = "nobody" THEN "closing" ELSE "shut", TRUE)

\* Mutant: the actor is cancelled without waiting for the driver.
JoinNothing == owner = "stopping" /\ CancelsActor

JoinDriver == owner = "stopping" /\ driver = "ended" /\ CancelsActor

JoinActor == owner = "closing" /\ actor = "stopped" /\ Becomes("shut", FALSE)

Abort == owner = "running" /\ Becomes("aborted", TRUE)

\* The value goes out of scope, before run or, as in the examples, after it: its
\* JoinHandles are dropped, which detaches the tasks and stops none.
DropOwner == owner \in {"built", "running"} /\ Becomes("dropped", FALSE)

-----------------------------------------------------------------------------

Init ==
  /\ phase = [id \in Ids |-> "absent"]
  /\ paused = {}
  /\ oneshot = {}
  /\ actor = "running"
  /\ mailbox = <<>>
  /\ call = [c \in Clients |-> IdleCall]
  /\ driver = "off"
  /\ claimed = {}
  /\ task = [s \in Slots |-> Free]
  /\ out = <<>>
  /\ held = {}
  /\ receiver = "open"
  /\ owner = "built"
  /\ taker = "nobody"
  /\ lost = [id \in Ids |-> 0]

\* Everything has stopped and no client has a handle left.
Terminated ==
  /\ ~HandleAlive /\ actor = "stopped"
  /\ UNCHANGED vars

Next ==
  \/ \E c \in Clients, op \in Ops : Call(c, op)
  \/ \E c \in Clients : Send(c) \/ JoinClone(c)
  \/ \E c \in Clients, how \in Ends : EndHandle(c, how)
  \/ Handle \/ ActorStops \/ ActorPanics
  \/ Poll \/ SendTick \/ SendClaim \/ Spawn
  \/ Cancelled \/ GraceExpires \/ Joined \/ DriverKilled
  \/ \E s \in Slots : HandOut(s) \/ SendFinish(s) \/ TaskKilled(s)
  \/ Receive \/ DropReceiver
  \/ \E s \in Slots, snoozed \in BOOLEAN : Answer(s, snoozed)
  \/ Run \/ Shutdown \/ JoinDriver \/ JoinActor \/ Abort \/ DropOwner
  \/ Terminated

Spec == Init /\ [][Next]_vars

\* Every task of the runtime is scheduled, the poll timer and the grace timer
\* fire, and an awaited join is noticed.  Strong fairness where a step competes:
\* a channel's waiting senders are served in order, and select! chooses at
\* random among the branches that are ready.
Fairness ==
  /\ \A c \in Clients : SF_vars(Send(c)) /\ WF_vars(JoinClone(c))
  /\ WF_vars(Handle \/ ActorPanics) /\ WF_vars(ActorStops)
  /\ WF_vars(Poll) /\ SF_vars(SendTick) /\ SF_vars(SendClaim) /\ WF_vars(Spawn)
  /\ SF_vars(Cancelled) /\ WF_vars(GraceExpires) /\ WF_vars(Joined) /\ WF_vars(DriverKilled)
  /\ \A s \in Slots : SF_vars(HandOut(s)) /\ SF_vars(SendFinish(s)) /\ WF_vars(TaskKilled(s))
  /\ WF_vars(JoinDriver) /\ WF_vars(JoinActor)

FairSpec == Spec /\ Fairness

\* A consumer that keeps receiving and answers every run it received.
ConsumerFairness ==
  /\ WF_vars(Receive)
  /\ \A s \in Slots : WF_vars(\E snoozed \in BOOLEAN : Answer(s, snoozed))

ServedSpec == FairSpec /\ ConsumerFairness

-----------------------------------------------------------------------------
(* Properties.                                                             *)

Drivers == {"off", "select", "ticking", "claiming", "awaiting", "spawning",
            "draining", "reaping", "ended"}
Owners == {"built", "running", "stopping", "closing", "shut", "aborted", "dropped"}

\* Types, and that neither channel ever holds more than its capacity.
TypeOK ==
  /\ actor \in {"running", "stopped"}
  /\ mailbox \in Seq(CommandType) /\ Len(mailbox) <= BufferSize
  /\ call \in [Clients -> CallType]
  /\ driver \in Drivers
  /\ claimed \subseteq Ids
  /\ task \in [Slots -> TaskType]
  /\ out \in Seq(Slots) /\ Len(out) <= BufferSize
  /\ held \subseteq Slots
  /\ receiver \in {"open", "closed"}
  /\ owner \in Owners
  /\ taker \in {"nobody", "owner", "clone", "panic"}
  /\ lost \in [Ids -> Nat]

\* A run is claimed once and finished once, wherever the driver, the tasks, the
\* consumer and the mailbox take it: every Finish the actor handles is that of
\* a run it handed out, and no run is duplicated or forgotten on the way.
ImplementsLifecycle == Life!LifeSpec

\* Runs start and one-shots are collected in polls only, each of which has its Tick
\* handled before its ClaimDue, and both before the next begins, whatever queues up
\* in the mailbox around them and whoever is stopped in between.
ImplementsPollCycle == Cycle!CycleSpec

\* Until the owner has the tasks killed, an activity in state Running has a run
\* on its way that will come back: none is stuck in Running while it serves.
RunningIsCarried ==
  (actor = "running" /\ owner # "aborted" /\ driver \notin {"reaping", "ended"}) =>
    \A id \in Ids : phase[id] = "running" => Carried(id) > 0

\* Unless a client cancels it or makes it panic, the actor is there for as long
\* as the owner may call it, the driver polls it or a task has a Finish to post:
\* in a shutdown until the drain is over, and for good when the running owner
\* was dropped.
ActorOutlivesDriver ==
  /\ taker \notin {"clone", "panic"} /\ owner # "aborted"
  /\ owner \in {"built", "running"} \/ driver \notin {"off", "ended"} \/ ~Idle
  => actor = "running"

\* No run is lost while the driver serves: whatever fills up, whoever stops
\* receiving and however runs overlap, a claimed run stays with the driver, a task
\* or the mailbox until its Finish is handled.
NoRunLostInService ==
  /\ taker = "nobody" /\ owner # "aborted" /\ driver \notin {"reaping", "ended"}
  => \A id \in Ids : lost[id] = 0

\* A task waits for its acknowledgement only while the consumer has the ack sender,
\* queued or received; and as long as no task is killed, each sender that is out
\* there is the only one of a task that still waits for it.
EveryWaitHasItsAck ==
  /\ \A s \in Slots : task[s].pc = "waiting" =>
       s \in held \/ \E i \in DOMAIN out : out[i] = s
  /\ driver \notin {"reaping", "ended"} =>
       /\ \A s \in held : task[s].pc = "waiting"
       /\ \A i \in DOMAIN out :
            /\ task[out[i]].pc = "waiting" /\ out[i] \notin held
            /\ \A j \in DOMAIN out : out[j] = out[i] => j = i

\* The commands in the mailbox that reply to client c.
Unreplied(c) == {i \in DOMAIN mailbox : mailbox[i].op \in AwaitsReply /\ mailbox[i].client = c}

\* A client that awaits a reply has one command in the mailbox, the one it sent; and
\* no command is there whose client has gone on without the reply.
RepliesAreAwaited ==
  \A c \in Clients :
    IF call[c].pc = "awaiting"
      THEN \E i \in DOMAIN mailbox : Unreplied(c) = {i} /\ mailbox[i].op = call[c].op
      ELSE Unreplied(c) = {}

\* A poll's Tick is handled before its ClaimDue, and both before the next poll: the
\* mailbox holds at most one Tick and, behind it, one ClaimDue, which the driver
\* awaits the reply of.  Only a driver that was aborted leaves them behind.
PollsInTurn ==
  /\ driver = "awaiting" => \E i \in DOMAIN mailbox : mailbox[i].op = "ClaimDue"
  /\ \A i \in DOMAIN mailbox : ~(owner = "aborted" /\ driver = "ended") =>
       /\ mailbox[i].op = "Tick" => driver \in {"claiming", "awaiting"}
       /\ mailbox[i].op = "ClaimDue" => driver = "awaiting"
  /\ \A i, j \in DOMAIN mailbox :
       i < j /\ mailbox[i].op \in {"Tick", "ClaimDue"} /\ mailbox[j].op \in {"Tick", "ClaimDue"}
       => mailbox[i].op = "Tick" /\ mailbox[j].op = "ClaimDue"

\* All clones share one JoinHandle: at most one party waits for the actor to end,
\* and it is the one that has ended it.
OneWaitsForTheActor ==
  /\ owner = "closing" => taker = "owner"
  /\ \A c \in Clients : call[c] = Joining =>
       taker = "clone" /\ \A d \in Clients : call[d] = Joining => d = c

\* Once shutdown returned, nothing of the system is left: no task, no claimed
\* run, and, unless a clone took the JoinHandle that shutdown would have awaited,
\* no actor and no reply outstanding.
NothingLeftAfterShutdown ==
  owner = "shut" => /\ driver = "ended" /\ Idle /\ claimed = {}
                    /\ taker = "owner" =>
                         /\ actor = "stopped" /\ mailbox = <<>>
                         /\ \A c \in Clients : call[c].pc # "awaiting"

\* "Leaves som room for running tasks to finish" (lib.rs:163): a driver that ends
\* its drain before the grace period is over leaves no run unanswered, and has
\* lost none if no client stopped the actor before.
DrainIsComplete ==
  [][owner = "stopping" /\ driver = "draining" /\ driver' = "ended"
       => /\ out = <<>> /\ held = {}
          /\ taker = "nobody" => \A id \in Ids : lost[id] = 0]_vars

\* shutdown returns, whatever the consumer and the clients do.
ShutdownCompletes == owner = "stopping" ~> owner = "shut"

\* abort leaves no task behind, so the consumer's channel is closed.
AbortReleasesAll == owner = "aborted" ~> (driver = "ended" /\ Idle /\ actor = "stopped")

\* An actor that no handle can reach any more ends: a Ritualist that was dropped
\* before run, or whose run panicked, leaks no task.
DroppedHandlesFreeActor ==
  (owner = "dropped" /\ ~HandleAlive) ~> actor = "stopped"

\* Every call returns, and register panics only if the actor was stopped: no full
\* channel and no consumer that stopped receiving can block it.
CallsReturn ==
  \A c \in Clients :
    call[c].pc \in {"sending", "awaiting", "joining"}
      ~> (call[c] \in {IdleCall, Gone} \/ (call[c] = Panicked /\ actor = "stopped"))

\* A poll is never held up by the consumer: the driver returns to its select!.
PollingGoesOn ==
  driver \in {"ticking", "claiming", "awaiting", "spawning"} ~> driver \in {"select", "ended"}

\* With a consumer that answers, every claimed activity is settled, also when the
\* RunningRitualist was dropped at once, as both examples do.
RunsAreSettled ==
  \A id \in Ids :
    phase[id] = "running"
      ~> (phase[id] # "running" \/ owner \notin {"running", "dropped"}
          \/ taker \in {"clone", "panic"})

=============================================================================
