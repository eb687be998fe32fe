---------------------------- MODULE RitualistWaits ----------------------------
(***************************************************************************)
(* Nobody waits for an answer that is not on its way, for any number of    *)
(* ids, clients, dispatch tasks and any capacity of the channels: a task   *)
(* for its acknowledgement, a client for its reply, the driver for its     *)
(* claims, and whoever shuts down for the actor.                           *)
(***************************************************************************)
EXTENDS RitualistProofs

-----------------------------------------------------------------------------
(* Acknowledgements.                                                       *)

\* A waiting task's ack sender is with the consumer, also once tasks are killed.
WaitsCovered ==
  \A s \in Slots : task[s].pc = "waiting" =>
    s \in held \/ \E i \in DOMAIN out : out[i] = s

\* A step that neither takes a sender away nor makes a task wait.
LEMMA CoveredKept ==
  ASSUME WaitsCovered,
         \A s \in Slots : task'[s].pc = "waiting" => task[s].pc = "waiting",
         held \subseteq held', UNCHANGED out
  PROVE  WaitsCovered'
  BY DEF WaitsCovered

LEMMA CoveredStep ==
  ASSUME TypeOK, WaitsCovered, Next
  PROVE  WaitsCovered'
<1>1. task \in [Slots -> TaskType] /\ out \in Seq(Slots) /\ held \subseteq Slots
  BY DEF TypeOK
<1>2. CASE UNCHANGED <<task, out, held>>
  BY <1>2, CoveredKept
<1>3. CASE Spawn
  <2>1. \A s \in Slots : task'[s].pc = "waiting" => task[s].pc = "waiting"
    BY <1>3 DEF Spawn, SpawnTasks, SendingRun
  <2> QED
    BY <1>3, <2>1, CoveredKept DEF Spawn, SpawnTasks, consumer
<1>4. ASSUME NEW s \in Slots, HandOut(s) PROVE WaitsCovered'
  <2>1. UNCHANGED held /\ \A r \in Slots \ {s} : task'[r] = task[r]
    BY <1>1, <1>4 DEF HandOut, HandsOut
  <2>2. CASE out' = Append(out, s)
    <3>1. /\ \A i \in DOMAIN out : i \in DOMAIN out' /\ out'[i] = out[i]
          /\ \E i \in DOMAIN out' : out'[i] = s
      <4>1. /\ Len(out) \in Nat /\ DOMAIN out = 1 .. Len(out)
            /\ DOMAIN out' = 1 .. (Len(out) + 1)
            /\ out'[Len(out) + 1] = s
            /\ \A i \in 1 .. Len(out) : out'[i] = out[i]
        BY <1>1, <2>2
      <4>2. Len(out) + 1 \in DOMAIN out' /\ \A i \in 1 .. Len(out) : i \in DOMAIN out'
        BY <4>1
      <4> QED
        BY <4>1, <4>2
    <3> QED
      BY <2>1, <3>1 DEF WaitsCovered
  <2>3. CASE UNCHANGED out /\ task' = [task EXCEPT ![s] = Finishing(task[s].id, FALSE)]
    <3>1. task'[s].pc # "waiting"
      BY <1>1, <2>3 DEF Finishing
    <3> QED
      BY <2>1, <2>3, <3>1, CoveredKept
  <2> QED
    BY <1>4, <2>2, <2>3 DEF HandOut, HandsOut
<1>5. ASSUME NEW s \in Slots, SendFinish(s) \/ TaskKilled(s) PROVE WaitsCovered'
  <2>1. \A r \in Slots : task'[r].pc = "waiting" => task[r].pc = "waiting"
    BY <1>1, <1>5 DEF SendFinish, TaskKilled, TaskEnds, Free
  <2> QED
    BY <1>5, <2>1, CoveredKept DEF SendFinish, TaskKilled, TaskEnds, consumer
<1>6. ASSUME Receive PROVE WaitsCovered'
  <2>1. out # <<>> /\ out' = Tail(out) /\ held' = held \cup {Head(out)} /\ UNCHANGED task
    BY <1>6 DEF Receive
  <2>2. \A i \in DOMAIN out : out[i] = Head(out) \/ \E j \in DOMAIN out' : out'[j] = out[i]
    <3>1. /\ Len(out) \in Nat /\ DOMAIN out = 1 .. Len(out) /\ Head(out) = out[1]
          /\ DOMAIN out' = 1 .. (Len(out) - 1)
          /\ \A j \in 1 .. (Len(out) - 1) : out'[j] = out[j + 1]
      BY <1>1, <2>1
    <3>2. \A i \in 1 .. Len(out) : i # 1 => i - 1 \in 1 .. (Len(out) - 1) /\ (i - 1) + 1 = i
      BY <3>1
    <3> QED
      BY <3>1, <3>2
  <2> QED
    BY <2>1, <2>2 DEF WaitsCovered
<1>7. ASSUME DropReceiver PROVE WaitsCovered'
  <2>1. UNCHANGED held /\ Answered({out[i] : i \in DOMAIN out}, FALSE)
    BY <1>7 DEF DropReceiver
  <2>2. ASSUME NEW s \in Slots, task'[s].pc = "waiting"
        PROVE  task[s].pc = "waiting" /\ s \notin {out[i] : i \in DOMAIN out}
    BY <2>1, <2>2 DEF Answered, Finishing
  <2> QED
    BY <2>1, <2>2 DEF WaitsCovered
<1>8. ASSUME NEW s \in Slots, NEW snoozed \in BOOLEAN, Answer(s, snoozed) PROVE WaitsCovered'
  <2>1. held' = held \ {s} /\ UNCHANGED out /\ Answered({s}, snoozed)
    BY <1>8 DEF Answer
  <2>2. ASSUME NEW r \in Slots, task'[r].pc = "waiting"
        PROVE  task[r].pc = "waiting" /\ r # s
    BY <2>1, <2>2 DEF Answered, Finishing
  <2> QED
    BY <2>1, <2>2 DEF WaitsCovered
<1>9. \/ UNCHANGED <<task, out, held>>
      \/ Spawn \/ Receive \/ DropReceiver
      \/ \E s \in Slots : HandOut(s) \/ SendFinish(s) \/ TaskKilled(s)
      \/ \E s \in Slots, snoozed \in BOOLEAN : Answer(s, snoozed)
  BY DEF Next, Call, Send, JoinClone, EndHandle, Handle, ActorStops, ActorPanics, Stops,
         Poll, SendTick, SendClaim, Cancelled, GraceExpires, Joined, DriverEnds,
         DriverKilled, Run, Shutdown, JoinDriver, CancelsActor, JoinActor, Abort, DropOwner,
         Becomes, Terminated, vars, consumer
<1> QED
  BY <1>2, <1>3, <1>4, <1>5, <1>6, <1>7, <1>8, <1>9

\* Every run at the consumer has one ack sender and one task waiting for it, and
\* no task waits for a sender that is gone.
THEOREM WaitsHaveAcks == Spec => []EveryWaitHasItsAck
<1>1. Init => WaitsCovered
  BY DEF Init, WaitsCovered, Free
<1>2. ASSUME TypeOK, WaitsCovered, [Next]_vars PROVE WaitsCovered'
  <2>1. CASE UNCHANGED vars
    BY <1>2, <2>1 DEF vars, consumer, WaitsCovered
  <2> QED
    BY <1>2, <2>1, CoveredStep
<1>3. ASSUME DrainInv, WaitsCovered PROVE EveryWaitHasItsAck
  <2>1. DOMAIN out = 1 .. Len(out)
    BY <1>3 DEF DrainInv, OrderInv, TypeOK
  <2> QED
    BY <1>3, <2>1 DEF DrainInv, Serving, AcksAwaited, WaitsCovered, EveryWaitHasItsAck
<1> QED
  BY <1>1, <1>2, <1>3, SystemTypes, DrainAlways, PTL DEF Spec

-----------------------------------------------------------------------------
(* Replies.                                                                *)

\* What RepliesAreAwaited says of one client.
Replies(c) ==
  IF call[c].pc = "awaiting"
    THEN \E i \in DOMAIN mailbox : Unreplied(c) = {i} /\ mailbox[i].op = call[c].op
    ELSE Unreplied(c) = {}

LEMMA UnrepliedPosted ==
  ASSUME TypeOK, NEW cmd, mailbox' = Append(mailbox, cmd), NEW c \in Clients
  PROVE  /\ DOMAIN mailbox \subseteq DOMAIN mailbox'
         /\ \A i \in DOMAIN mailbox : mailbox'[i] = mailbox[i]
         /\ IF cmd.op \in AwaitsReply /\ cmd.client = c
              THEN \E i \in DOMAIN mailbox' : /\ Unreplied(c)' = Unreplied(c) \cup {i}
                                              /\ mailbox'[i] = cmd
              ELSE Unreplied(c)' = Unreplied(c)
  BY Appended DEF Unreplied

LEMMA UnrepliedHandled ==
  ASSUME TypeOK, mailbox # <<>>, mailbox' = Tail(mailbox), NEW c \in Clients
  PROVE  /\ \A i \in Unreplied(c) \ {1} : /\ i - 1 \in Unreplied(c)'
                                          /\ mailbox'[i - 1] = mailbox[i]
         /\ \A i \in Unreplied(c)' : i \in Nat /\ i + 1 \in Unreplied(c) \ {1}
         /\ 1 \in Unreplied(c) <=> Head(mailbox).op \in AwaitsReply /\ Head(mailbox).client = c
         /\ Unreplied(c)' \subseteq DOMAIN mailbox'
  BY Shifted DEF Unreplied

\* The call of a client that is not concerned goes on, or at least does not await.
LEMMA RepliesKept ==
  ASSUME NEW c \in Clients, Replies(c), UNCHANGED mailbox,
         UNCHANGED call[c] \/ (call[c].pc # "awaiting" /\ call'[c].pc # "awaiting")
  PROVE  Replies(c)'
  BY DEF Replies, Unreplied

LEMMA RepliesSent ==
  ASSUME TypeOK, NEW c \in Clients, NEW d \in Clients, Replies(c), Send(d)
  PROVE  Replies(c)'
<1> DEFINE op == call[d].op
<1>1. /\ call \in [Clients -> CallType] /\ call[d].pc = "sending" /\ Post(CallCmd(d, op))
      /\ call' = [call EXCEPT ![d] = IF op \notin AwaitsReply THEN IdleCall
                                    ELSE IF actor = "running" THEN Awaiting(op)
                                    ELSE Unanswered(op)]
  BY DEF TypeOK, Send
<1>2. /\ CallCmd(d, op).op = op /\ CallCmd(d, op).client = d
      /\ IdleCall.pc # "awaiting" /\ Unanswered(op).pc # "awaiting"
      /\ Awaiting(op).pc = "awaiting" /\ Awaiting(op).op = op
  BY DEF CallCmd, IdleCall, Unanswered, Panicked, Awaiting
<1>3. CASE actor = "stopped"
  <2>1. UNCHANGED mailbox
    BY <1>1, <1>3 DEF Post
  <2>2. UNCHANGED call[c] \/ (call[c].pc # "awaiting" /\ call'[c].pc # "awaiting")
    BY <1>1, <1>2, <1>3
  <2> QED
    BY <2>1, <2>2, RepliesKept
<1>4. CASE actor = "running"
  <2>1. mailbox' = Append(mailbox, CallCmd(d, op))
    BY <1>1, <1>4 DEF Post
  <2>2. /\ DOMAIN mailbox \subseteq DOMAIN mailbox'
        /\ \A i \in DOMAIN mailbox : mailbox'[i] = mailbox[i]
        /\ IF op \in AwaitsReply /\ d = c
             THEN \E i \in DOMAIN mailbox' : /\ Unreplied(c)' = Unreplied(c) \cup {i}
                                             /\ mailbox'[i] = CallCmd(d, op)
             ELSE Unreplied(c)' = Unreplied(c)
    BY <1>2, <2>1, UnrepliedPosted
  <2>3. CASE d = c
    <3>1. Unreplied(c) = {}
      BY <1>1, <2>3 DEF Replies
    <3>2. call'[c] = IF op \in AwaitsReply THEN Awaiting(op) ELSE IdleCall
      BY <1>1, <1>4, <2>3
    <3> QED
      BY <1>2, <2>2, <2>3, <3>1, <3>2 DEF Replies
  <2>4. CASE d # c
    <3>1. call'[c] = call[c] /\ Unreplied(c)' = Unreplied(c)
      BY <1>1, <2>2, <2>4
    <3> QED
      BY <2>2, <3>1 DEF Replies
  <2> QED
    BY <2>3, <2>4
<1> QED
  BY <1>3, <1>4 DEF TypeOK

LEMMA RepliesHandled ==
  ASSUME TypeOK, NEW c \in Clients, Replies(c), Handle
  PROVE  Replies(c)'
<1> DEFINE cmd == Head(mailbox)
<1>1. call \in [Clients -> CallType] /\ mailbox # <<>> /\ mailbox' = Tail(mailbox)
  BY DEF TypeOK, Handle
<1>2. /\ \A i \in Unreplied(c) \ {1} : i - 1 \in Unreplied(c)' /\ mailbox'[i - 1] = mailbox[i]
      /\ \A i \in Unreplied(c)' : i \in Nat /\ i + 1 \in Unreplied(c) \ {1}
      /\ 1 \in Unreplied(c) <=> cmd.op \in AwaitsReply /\ cmd.client = c
      /\ Unreplied(c)' \subseteq DOMAIN mailbox'
  BY <1>1, UnrepliedHandled
<1>3. IF cmd.op \in AwaitsReply THEN Reply(cmd.client) ELSE UNCHANGED call
  BY DEF Handle, HandleCall, HandleTick, HandleClaim, HandleFinish, AwaitsReply
<1>4. CASE cmd.op \in AwaitsReply /\ cmd.client = c
  <2>1. Unreplied(c) = {1}
    BY <1>2, <1>4 DEF Replies
  <2>2. Unreplied(c)' = {}
    BY <1>2, <2>1
  <2>3. call'[c].pc # "awaiting"
    BY <1>1, <1>3, <1>4 DEF Reply, IdleCall
  <2> QED
    BY <2>2, <2>3 DEF Replies
<1>5. CASE ~(cmd.op \in AwaitsReply /\ cmd.client = c)
  <2>1. call'[c] = call[c]
    BY <1>1, <1>3, <1>5 DEF Reply
  <2>2. 1 \notin Unreplied(c)
    BY <1>2, <1>5
  <2>3. CASE call[c].pc # "awaiting"
    <3>1. Unreplied(c)' = {}
      BY <1>2, <2>3 DEF Replies
    <3> QED
      BY <2>1, <2>3, <3>1 DEF Replies
  <2>4. CASE call[c].pc = "awaiting"
    <3>1. PICK i \in DOMAIN mailbox : Unreplied(c) = {i} /\ mailbox[i].op = call[c].op
      BY <2>4 DEF Replies
    <3>2. i - 1 \in Unreplied(c)' /\ mailbox'[i - 1] = mailbox[i]
      BY <1>2, <2>2, <3>1
    <3>3. ASSUME NEW j \in Unreplied(c)' PROVE j = i - 1
      <4>1. j \in Nat /\ j + 1 = i
        BY <1>2, <3>1
      <4> QED
        BY <4>1
    <3>4. Unreplied(c)' = {i - 1}
      BY <3>2, <3>3
    <3> QED
      BY <1>2, <2>1, <2>4, <3>1, <3>2, <3>4 DEF Replies
  <2> QED
    BY <2>3, <2>4
<1> QED
  BY <1>4, <1>5

LEMMA RepliesStep ==
  ASSUME TypeOK, NEW c \in Clients, Replies(c), Next
  PROVE  Replies(c)'
<1>1. call \in [Clients -> CallType]
  BY DEF TypeOK
<1>2. CASE UNCHANGED <<mailbox, call>>
  BY <1>2, RepliesKept
<1>3. ASSUME NEW d \in Clients,
             \/ \E op \in Ops : Call(d, op)
             \/ JoinClone(d)
             \/ \E how \in Ends : EndHandle(d, how)
      PROVE  Replies(c)'
  <2>1. /\ UNCHANGED mailbox
        /\ UNCHANGED call[c] \/ (call[c].pc # "awaiting" /\ call'[c].pc # "awaiting")
    BY <1>1, <1>3 DEF Call, JoinClone, EndHandle, IdleCall, Sending, Joining, Gone
  <2> QED
    BY <2>1, RepliesKept
<1>4. ASSUME NEW cmd, Post(cmd), cmd.op \notin AwaitsReply, UNCHANGED call
      PROVE  Replies(c)'
  <2>1. CASE UNCHANGED mailbox
    BY <1>4, <2>1, RepliesKept
  <2>2. CASE mailbox' = Append(mailbox, cmd)
    BY <1>4, <2>2, UnrepliedPosted DEF Replies
  <2> QED
    BY <1>4, <2>1, <2>2 DEF Post
<1>5. SendTick \/ SendClaim => Replies(c)'
  BY <1>4 DEF SendTick, SendClaim, TickCmd, ClaimCmd, AwaitsReply
<1>6. ASSUME NEW s \in Slots, SendFinish(s) PROVE Replies(c)'
  BY <1>4, <1>6 DEF SendFinish, TaskEnds, FinishCmd, AwaitsReply
<1>7. CASE Stops
  <2>1. mailbox' = <<>> /\ call'[c].pc # "awaiting"
    BY <1>1, <1>7 DEF Stops, Unanswered, IdleCall, Panicked
  <2> QED
    BY <2>1 DEF Replies, Unreplied
<1>8. \/ UNCHANGED <<mailbox, call>>
      \/ \E d \in Clients : \/ \E op \in Ops : Call(d, op)
                            \/ Send(d) \/ JoinClone(d)
                            \/ \E how \in Ends : EndHandle(d, how)
      \/ Handle \/ Stops \/ SendTick \/ SendClaim
      \/ \E s \in Slots : SendFinish(s)
  BY DEF Next, ActorStops, ActorPanics, Poll, Spawn, SpawnTasks, Cancelled, GraceExpires,
         Joined, DriverEnds, DriverKilled, HandOut, HandsOut, TaskKilled, TaskEnds, Receive,
         DropReceiver, Answer, Run, Shutdown, JoinDriver, CancelsActor, JoinActor, Abort,
         DropOwner, Becomes, Terminated, vars
<1> QED
  BY <1>2, <1>3, <1>5, <1>6, <1>7, <1>8, RepliesSent, RepliesHandled

\* A call that awaits its reply has its one command in the mailbox, and the actor
\* never replies to a client that is not waiting for it.
THEOREM RepliesMatch == Spec => []RepliesAreAwaited
<1> DEFINE Inv == \A c \in Clients : Replies(c)
<1>1. Init => Inv
  BY DEF Init, Replies, Unreplied, IdleCall
<1>2. ASSUME TypeOK, Inv, [Next]_vars PROVE Inv'
  <2>1. CASE UNCHANGED vars
    <3>1. UNCHANGED <<mailbox, call>>
      BY <2>1 DEF vars
    <3> QED
      BY <1>2, <3>1 DEF Replies, Unreplied
  <2> QED
    BY <1>2, <2>1, RepliesStep
<1>3. Inv => RepliesAreAwaited
  BY DEF Replies, RepliesAreAwaited
<1> HIDE DEF Inv
<1> QED
  BY <1>1, <1>2, <1>3, SystemTypes, PTL DEF Spec

-----------------------------------------------------------------------------
(* Polls.                                                                  *)

PollOps == {"Tick", "ClaimDue"}
NoPollQueued == \A i \in DOMAIN mailbox : mailbox[i].op \notin PollOps
Killed == owner = "aborted" /\ driver = "ended"

\* A driver that is neither between its Tick and its claims nor killed has no
\* command in the mailbox.
LEMMA NoneOutsidePoll ==
  ASSUME PollsInTurn, driver \notin {"claiming", "awaiting"}, ~Killed
  PROVE  NoPollQueued
  BY DEF PollsInTurn, Killed, NoPollQueued, PollOps

LEMMA NoPollInTurn ==
  ASSUME NoPollQueued, driver # "awaiting"
  PROVE  PollsInTurn
  BY DEF PollsInTurn, NoPollQueued, PollOps

\* Whatever is not a poll's command may be posted at any time.
LEMMA OtherPosted ==
  ASSUME TypeOK, PollsInTurn, NEW cmd, Post(cmd), cmd.op \notin PollOps,
         UNCHANGED <<driver, owner>>
  PROVE  PollsInTurn'
<1>1. CASE UNCHANGED mailbox
  BY <1>1 DEF PollsInTurn
<1>2. CASE mailbox' = Append(mailbox, cmd)
  <2>1. /\ DOMAIN mailbox \subseteq DOMAIN mailbox'
        /\ \A i \in DOMAIN mailbox : mailbox'[i] = mailbox[i]
        /\ \A i \in DOMAIN mailbox' : i \in DOMAIN mailbox \/ mailbox'[i] = cmd
    BY <1>2, Appended
  <2> QED
    BY <2>1 DEF PollsInTurn, PollOps
<1> QED
  BY <1>1, <1>2 DEF Post

LEMMA TickPosted ==
  ASSUME OrderInv, PollsInTurn, SendTick
  PROVE  PollsInTurn'
<1>1. driver = "ticking" /\ driver' = "claiming" /\ Post(TickCmd) /\ NoPollQueued /\ TypeOK
  BY NoneOutsidePoll DEF SendTick, Goes, Killed, OrderInv
<1>2. CASE UNCHANGED mailbox
  BY <1>1, <1>2 DEF NoPollQueued, PollOps, PollsInTurn
<1>3. CASE mailbox' = Append(mailbox, TickCmd)
  <2>1. /\ Len(mailbox) \in Nat
        /\ DOMAIN mailbox' = (1 .. Len(mailbox)) \cup {Len(mailbox) + 1}
        /\ mailbox'[Len(mailbox) + 1].op = "Tick"
        /\ \A i \in 1 .. Len(mailbox) : mailbox'[i].op \notin PollOps
    BY <1>1, <1>3, Appended DEF TickCmd, NoPollQueued
  <2> QED
    BY <1>1, <2>1 DEF PollsInTurn, PollOps
<1> QED
  BY <1>1, <1>2, <1>3 DEF Post

LEMMA ClaimPosted ==
  ASSUME OrderInv, PollsInTurn, SendClaim
  PROVE  PollsInTurn'
<1>1. /\ driver = "claiming" /\ driver' = IF actor = "running" THEN "awaiting" ELSE "select"
      /\ Post(ClaimCmd) /\ TypeOK /\ actor \in {"running", "stopped"}
  BY DEF SendClaim, Goes, OrderInv, TypeOK
<1>2. CASE actor = "stopped"
  <2>1. mailbox' = <<>>
    BY <1>1, <1>2 DEF Post, OrderInv, StopOrder
  <2> QED
    BY <1>1, <1>2, <2>1 DEF PollsInTurn
<1>3. CASE actor = "running"
  <2>1. /\ Len(mailbox) \in Nat /\ DOMAIN mailbox = 1 .. Len(mailbox)
        /\ DOMAIN mailbox' = (1 .. Len(mailbox)) \cup {Len(mailbox) + 1}
        /\ mailbox'[Len(mailbox) + 1].op = "ClaimDue"
        /\ \A i \in 1 .. Len(mailbox) : mailbox'[i] = mailbox[i]
    BY <1>1, <1>3, Appended DEF Post, ClaimCmd
  <2>2. \A i \in 1 .. Len(mailbox) : mailbox[i].op # "ClaimDue"
    BY <1>1, <2>1 DEF PollsInTurn
  <2>3. driver' = "awaiting"
    BY <1>1, <1>3
  <2>4. ASSUME NEW i \in DOMAIN mailbox', NEW j \in DOMAIN mailbox', i < j,
               mailbox'[i].op \in PollOps, mailbox'[j].op \in PollOps
        PROVE  mailbox'[i].op = "Tick" /\ mailbox'[j].op = "ClaimDue"
    <3>1. i \in 1 .. Len(mailbox)
      BY <2>1, <2>4
    <3>2. mailbox'[i].op = "Tick"
      BY <2>1, <2>2, <2>4, <3>1 DEF PollOps
    <3>3. CASE j \in 1 .. Len(mailbox)
      BY <2>1, <2>2, <2>4, <3>1, <3>3 DEF PollsInTurn, PollOps
    <3>4. CASE j = Len(mailbox) + 1
      BY <2>1, <3>2, <3>4
    <3> QED
      BY <2>1, <3>3, <3>4
  <2>5. Len(mailbox) + 1 \in DOMAIN mailbox'
    BY <2>1
  <2> QED
    BY <2>1, <2>3, <2>4, <2>5 DEF PollsInTurn, PollOps
<1> QED
  BY <1>1, <1>2, <1>3

LEMMA PollsHandled ==
  ASSUME TypeOK, PollsInTurn, Handle
  PROVE  PollsInTurn'
<1> DEFINE cmd == Head(mailbox)
<1>1. mailbox # <<>> /\ mailbox' = Tail(mailbox) /\ UNCHANGED owner
  BY DEF Handle, ending
<1>2. /\ 1 \in DOMAIN mailbox /\ cmd = mailbox[1] /\ DOMAIN mailbox = 1 .. Len(mailbox)
      /\ \A i \in DOMAIN mailbox \ {1} : i - 1 \in DOMAIN mailbox' /\ mailbox'[i - 1] = mailbox[i]
      /\ \A i \in DOMAIN mailbox' :
           i \in Nat /\ i + 1 \in DOMAIN mailbox \ {1} /\ mailbox'[i] = mailbox[i + 1]
      /\ Len(mailbox) \in Nat
  BY <1>1, Shifted
<1>3. IF cmd.op = "ClaimDue" /\ driver = "awaiting" THEN driver' = "spawning" ELSE UNCHANGED driver
  BY RitualistAssumption DEF Handle, HandleCall, HandleTick, HandleClaim, HandleFinish
<1>4. CASE cmd.op = "ClaimDue" /\ driver = "awaiting"
  <2>1. ASSUME NEW i \in DOMAIN mailbox \ {1} PROVE mailbox[i].op \notin PollOps
    <3>1. 1 < i
      BY <1>2
    <3> QED
      BY <1>2, <1>4, <3>1 DEF PollsInTurn, PollOps
  <2>2. NoPollQueued'
    BY <1>2, <2>1 DEF NoPollQueued
  <2>3. driver' # "awaiting"
    BY <1>3, <1>4
  <2> QED
    BY <2>2, <2>3 DEF PollsInTurn, NoPollQueued, PollOps
<1>5. CASE ~(cmd.op = "ClaimDue" /\ driver = "awaiting")
  <2>1. UNCHANGED driver
    BY <1>3, <1>5
  <2>2. driver' = "awaiting" => \E i \in DOMAIN mailbox' : mailbox'[i].op = "ClaimDue"
    BY <1>2, <1>5, <2>1 DEF PollsInTurn
  <2>3. \A i, j \in DOMAIN mailbox' : i < j => i + 1 < j + 1
    BY <1>2
  <2> QED
    BY <1>1, <1>2, <2>1, <2>2, <2>3 DEF PollsInTurn
<1> QED
  BY <1>4, <1>5

LEMMA PollsStep ==
  ASSUME OrderInv, PollsInTurn, Next
  PROVE  PollsInTurn'
<1>1. TypeOK
  BY DEF OrderInv
<1>2. CASE UNCHANGED <<mailbox, driver>> /\ (owner = "aborted" => owner' = "aborted")
  BY <1>2 DEF PollsInTurn
<1>3. CASE /\ UNCHANGED mailbox /\ driver' # "awaiting"
           /\ driver \notin {"claiming", "awaiting", "ended"}
  <2>1. NoPollQueued'
    BY <1>3, NoneOutsidePoll DEF Killed, NoPollQueued
  <2> QED
    BY <1>3, <2>1 DEF PollsInTurn, NoPollQueued, PollOps
<1>4. CASE DriverKilled
  BY <1>4 DEF DriverKilled, PollsInTurn, ending
<1>5. CASE Stops
  BY <1>5 DEF Stops, PollsInTurn
<1>6. ASSUME NEW c \in Clients, Send(c) PROVE PollsInTurn'
  <2>1. CallCmd(c, call[c].op).op \notin PollOps
    BY <1>1, <1>6, SendsAnOp, RitualistAssumption DEF CallCmd, PollOps
  <2> QED
    BY <1>1, <1>6, <2>1, OtherPosted DEF Send, ending
<1>7. ASSUME NEW s \in Slots, SendFinish(s) PROVE PollsInTurn'
  BY <1>1, <1>7, OtherPosted DEF SendFinish, TaskEnds, FinishCmd, PollOps, ending
<1>8. \/ UNCHANGED <<mailbox, driver>> /\ (owner = "aborted" => owner' = "aborted")
      \/ /\ UNCHANGED mailbox /\ driver' # "awaiting"
         /\ driver \notin {"claiming", "awaiting", "ended"}
      \/ DriverKilled \/ Stops \/ Handle \/ SendTick \/ SendClaim
      \/ \E c \in Clients : Send(c)
      \/ \E s \in Slots : SendFinish(s)
  BY DEF Next, Call, JoinClone, EndHandle, ActorStops, ActorPanics, Poll, Spawn, SpawnTasks,
         Cancelled, GraceExpires, Joined, DriverEnds, HandOut, HandsOut, TaskKilled,
         TaskEnds, Receive, DropReceiver, Answer, Run, Shutdown, JoinDriver, CancelsActor,
         JoinActor, Abort, DropOwner, Becomes, Terminated, vars, ending, Goes
<1> QED
  BY <1>1, <1>2, <1>3, <1>4, <1>5, <1>6, <1>7, <1>8, TickPosted, ClaimPosted, PollsHandled

\* Each poll has its Tick handled before its claims, and both before the next poll
\* begins, whatever else is in the mailbox.
THEOREM PollsAreInTurn == Spec => []PollsInTurn
<1>1. Init => PollsInTurn
  BY DEF Init, PollsInTurn
<1>2. ASSUME OrderInv, PollsInTurn, [Next]_vars PROVE PollsInTurn'
  <2>1. CASE UNCHANGED vars
    BY <1>2, <2>1 DEF vars, ending, PollsInTurn
  <2> QED
    BY <1>2, <2>1, PollsStep
<1> QED
  BY <1>1, <1>2, OrderAlways, PTL DEF Spec

-----------------------------------------------------------------------------
(* The actor's JoinHandle.                                                 *)

LEMMA OneWaitsStep ==
  ASSUME TypeOK, OneWaitsForTheActor, Next
  PROVE  OneWaitsForTheActor'
<1>1. call \in [Clients -> CallType]
  BY DEF TypeOK
<1>2. ASSUME NEW c \in Clients, NEW how \in Ends, EndHandle(c, how)
      PROVE  OneWaitsForTheActor'
  <2>1. UNCHANGED owner /\ \A d \in Clients \ {c} : call'[d] = call[d]
    BY <1>1, <1>2 DEF EndHandle
  <2>2. CASE how = "Shutdown" /\ taker = "nobody"
    <3>1. \A d \in Clients : call[d] # Joining
      BY <2>2 DEF OneWaitsForTheActor
    <3>2. taker' = "clone" /\ owner # "closing"
      BY <1>2, <2>2 DEF EndHandle, OneWaitsForTheActor
    <3> QED
      BY <2>1, <3>1, <3>2 DEF OneWaitsForTheActor
  <2>3. CASE ~(how = "Shutdown" /\ taker = "nobody")
    <3>1. call'[c] # Joining
      BY <1>1, <1>2, <2>3 DEF EndHandle, Joining, Gone
    <3>2. taker # "nobody" => taker' = taker
      BY <1>2 DEF EndHandle
    <3> QED
      BY <2>1, <3>1, <3>2 DEF OneWaitsForTheActor
  <2> QED
    BY <2>2, <2>3
<1>3. CASE JoinDriver
  BY <1>3 DEF JoinDriver, CancelsActor, Becomes, OneWaitsForTheActor
<1>4. CASE ~JoinDriver /\ \A c \in Clients, how \in Ends : ~EndHandle(c, how)
  <2>1. \A d \in Clients : call'[d] = Joining => call[d] = Joining
    <3>1. Handle => UNCHANGED call \/ Reply(Head(mailbox).client)
      BY DEF Handle, HandleCall, HandleTick, HandleClaim, HandleFinish
    <3>2. \/ UNCHANGED call \/ Stops \/ Handle
          \/ \E c \in Clients : (\E op \in Ops : Call(c, op)) \/ Send(c) \/ JoinClone(c)
      BY <1>4
      DEF Next, ActorStops, ActorPanics, Poll, SendTick, SendClaim, Spawn, SpawnTasks,
          Cancelled, GraceExpires, Joined, DriverEnds, DriverKilled, HandOut, HandsOut,
          SendFinish, TaskKilled, TaskEnds, Receive, DropReceiver, Answer, Run, Shutdown,
          JoinActor, Abort, DropOwner, Becomes, Terminated, vars
    <3> QED
      BY <1>1, <3>1, <3>2 DEF Stops, Call, Send, JoinClone, Reply, Sending, Awaiting, Unanswered,
                        IdleCall, Panicked, Gone, Joining
  <2>2. (taker # "nobody" => taker' = taker) /\ (owner' = "closing" => owner = "closing")
    BY <1>4
    DEF Next, Call, Send, JoinClone, Handle, ActorStops, ActorPanics, Stops, Poll, SendTick,
        SendClaim, Spawn, SpawnTasks, Cancelled, GraceExpires, Joined, DriverEnds,
        DriverKilled, HandOut, HandsOut, SendFinish, TaskKilled, TaskEnds, Receive,
        DropReceiver, Answer, Run, Shutdown, JoinActor, Abort, DropOwner, Becomes,
        Terminated, vars, ending
  <2> QED
    BY <2>1, <2>2 DEF OneWaitsForTheActor
<1> QED
  BY <1>2, <1>3, <1>4

\* Of the owner and the clients that share the JoinHandle at most one waits for the
\* actor, and it has told the actor to end.
THEOREM OneWaits == Spec => []OneWaitsForTheActor
<1>1. Init => OneWaitsForTheActor
  BY DEF Init, OneWaitsForTheActor, IdleCall, Joining
<1>2. ASSUME TypeOK, OneWaitsForTheActor, [Next]_vars PROVE OneWaitsForTheActor'
  <2>1. CASE UNCHANGED vars
    BY <1>2, <2>1 DEF vars, ending, OneWaitsForTheActor
  <2> QED
    BY <1>2, <2>1, OneWaitsStep
<1> QED
  BY <1>1, <1>2, SystemTypes, PTL DEF Spec

=============================================================================
