--------------------------- MODULE RitualistProofs ---------------------------
(***************************************************************************)
(* Theorems about the running system, for any number of ids, clients,      *)
(* dispatch tasks and any capacity of the channels: types, and that        *)
(* shutdown stops things in the right order and loses nothing on the way.  *)
(***************************************************************************)
EXTENDS Ritualist, FiniteSetTheorems, TLAPS

-----------------------------------------------------------------------------
(* Types.                                                                  *)

\* Posting a command keeps the mailbox within its capacity.
LEMMA PostType ==
  ASSUME TypeOK, NEW cmd \in CommandType, Post(cmd)
  PROVE  mailbox' \in Seq(CommandType) /\ Len(mailbox') <= BufferSize
<1>1. BufferSize \in Nat /\ mailbox \in Seq(CommandType) /\ Len(mailbox) <= BufferSize
  BY RitualistAssumption DEF TypeOK
<1> QED
  BY <1>1 DEF Post

LEMMA CommandsType ==
  /\ \A c \in Clients, op \in Ops : CallCmd(c, op) \in CommandType
  /\ TickCmd \in CommandType /\ ClaimCmd \in CommandType
  /\ \A id \in Ids, snoozed \in BOOLEAN : FinishCmd(id, snoozed) \in CommandType
  BY DEF CommandType, CallCmd, TickCmd, ClaimCmd, FinishCmd

LEMMA LosingType ==
  ASSUME TypeOK, NEW ids, Losing(ids)
  PROVE  lost' \in [Ids -> Nat]
  BY DEF TypeOK, Losing

LEMMA ClientTypes ==
  ASSUME TypeOK, NEW c \in Clients,
         \/ \E op \in Ops : Call(c, op)
         \/ Send(c) \/ JoinClone(c)
         \/ \E how \in Ends : EndHandle(c, how)
  PROVE  TypeOK'
<1>1. ASSUME NEW op \in Ops, Call(c, op) PROVE TypeOK'
  BY <1>1 DEF Call, TypeOK, CallType, Sending, consumer, ending
<1>2. ASSUME Send(c) PROVE TypeOK'
  <2> DEFINE op == call[c].op
  <2>1. op \in Ops
    BY <1>2 DEF Send, TypeOK, CallType, IdleCall, Panicked, Joining, Gone
  <2>2. mailbox' \in Seq(CommandType) /\ Len(mailbox') <= BufferSize
    BY <1>2, <2>1, PostType, CommandsType DEF Send
  <2>3. call' \in [Clients -> CallType]
    BY <1>2, <2>1 DEF Send, TypeOK, CallType, Awaiting, Unanswered
  <2> QED
    BY <1>2, <2>2, <2>3 DEF Send, TypeOK, consumer, ending
<1>3. ASSUME JoinClone(c) PROVE TypeOK'
  BY <1>3 DEF JoinClone, TypeOK, CallType, consumer, ending
<1>4. ASSUME NEW how \in Ends, EndHandle(c, how) PROVE TypeOK'
  BY <1>4 DEF EndHandle, TypeOK, CallType, consumer
<1> QED
  BY <1>1, <1>2, <1>3, <1>4

LEMMA HandleTypes ==
  ASSUME TypeOK, Handle
  PROVE  TypeOK'
<1> DEFINE cmd == Head(mailbox)
<1>1. /\ mailbox # <<>> /\ mailbox' = Tail(mailbox)
      /\ HandleCall(cmd) \/ HandleTick(cmd) \/ HandleClaim(cmd) \/ HandleFinish(cmd)
      /\ UNCHANGED <<actor, task, consumer, ending>>
  BY DEF Handle
<1>2. cmd \in CommandType
  BY <1>1 DEF TypeOK
<1>3. mailbox' \in Seq(CommandType) /\ Len(mailbox') <= BufferSize
  BY <1>1, RitualistAssumption DEF TypeOK
<1>4. /\ call' \in [Clients -> CallType] /\ driver' \in Drivers
      /\ claimed' \subseteq Ids /\ lost' \in [Ids -> Nat]
  <2>1. CASE HandleCall(cmd)
    <3>1. UNCHANGED <<driver, claimed, lost>>
      BY <2>1 DEF HandleCall
    <3>2. UNCHANGED call \/ Reply(cmd.client)
      BY <2>1 DEF HandleCall
    <3>3. call' \in [Clients -> CallType]
      BY <3>2 DEF Reply, TypeOK, CallType
    <3> QED
      BY <3>1, <3>3 DEF TypeOK
  <2>2. CASE HandleTick(cmd) \/ HandleFinish(cmd)
    BY <2>2 DEF HandleTick, HandleFinish, TypeOK
  <2>3. CASE HandleClaim(cmd)
    <3>1. PICK ids \in SUBSET Life!Claimable :
            \/ driver' = "spawning" /\ claimed' = ids /\ UNCHANGED lost
            \/ Losing(ids) /\ UNCHANGED <<driver, claimed>>
      BY <2>3 DEF HandleClaim
    <3>2. Life!Claimable \subseteq Ids /\ UNCHANGED call
      BY <2>3 DEF HandleClaim, Life!Claimable
    <3> QED
      BY <3>1, <3>2, LosingType DEF TypeOK, Drivers
  <2> QED
    BY <1>1, <2>1, <2>2, <2>3
<1> QED
  BY <1>1, <1>3, <1>4 DEF TypeOK, consumer, ending

LEMMA StopsTypes ==
  ASSUME TypeOK, ActorStops \/ ActorPanics
  PROVE  TypeOK'
<1>0. Stops /\ taker' \in {taker, "panic"}
  BY DEF ActorStops, ActorPanics
<1>1. call' \in [Clients -> CallType]
  BY <1>0 DEF Stops, TypeOK, CallType, Unanswered
<1>2. lost' \in [Ids -> Nat]
  <2> DEFINE queued(id) == {i \in DOMAIN mailbox : mailbox[i].op = "Finish" /\ mailbox[i].id = id}
  <2>1. ASSUME NEW id \in Ids PROVE Cardinality(queued(id)) \in Nat
    <3>1. Len(mailbox) \in Nat /\ DOMAIN mailbox = 1 .. Len(mailbox)
      BY DEF TypeOK
    <3>2. IsFiniteSet(1 .. Len(mailbox))
      BY <3>1, FS_Interval
    <3>3. queued(id) \subseteq 1 .. Len(mailbox)
      BY <3>1
    <3> QED
      BY <3>2, <3>3, FS_Subset, FS_CardinalityType
  <2>2. lost' = [id \in Ids |-> lost[id] + Cardinality(queued(id))]
    BY <1>0 DEF Stops
  <2> HIDE DEF queued
  <2> QED
    BY <2>1, <2>2 DEF TypeOK
<1>3. /\ actor' = "stopped" /\ mailbox' = <<>> /\ driver' \in Drivers
      /\ UNCHANGED <<claimed, task, out, held, receiver, owner>>
  BY <1>0 DEF Stops, TypeOK, Drivers, consumer
<1>4. mailbox' \in Seq(CommandType) /\ Len(mailbox') <= BufferSize
  BY <1>3, RitualistAssumption
<1> QED
  BY <1>0, <1>1, <1>2, <1>3, <1>4 DEF TypeOK

LEMMA DriverTypes ==
  ASSUME TypeOK,
         \/ Poll \/ SendTick \/ SendClaim \/ Spawn
         \/ Cancelled \/ GraceExpires \/ Joined \/ DriverKilled
  PROVE  TypeOK'
<1>1. ASSUME SendTick PROVE TypeOK'
  <2>1. mailbox' \in Seq(CommandType) /\ Len(mailbox') <= BufferSize
    BY <1>1, PostType, CommandsType DEF SendTick
  <2> QED
    BY <1>1, <2>1 DEF SendTick, Goes, TypeOK, Drivers, consumer, ending
<1>2. ASSUME SendClaim PROVE TypeOK'
  <2>1. mailbox' \in Seq(CommandType) /\ Len(mailbox') <= BufferSize
    BY <1>2, PostType, CommandsType DEF SendClaim
  <2> QED
    BY <1>2, <2>1 DEF SendClaim, Goes, TypeOK, Drivers, consumer, ending
<1>3. ASSUME Spawn PROVE TypeOK'
  <2>1. PICK slot \in [claimed -> FreeSlots] :
          task' = [s \in Slots |-> IF \E id \in claimed : slot[id] = s
                                     THEN SendingRun(CHOOSE id \in claimed : slot[id] = s)
                                     ELSE task[s]]
    BY <1>3 DEF Spawn, SpawnTasks
  <2>2. \A id \in claimed : SendingRun(id) \in TaskType
    BY DEF TypeOK, SendingRun, TaskType
  <2>3. ASSUME NEW s \in Slots, \E id \in claimed : slot[id] = s
        PROVE  SendingRun(CHOOSE id \in claimed : slot[id] = s) \in TaskType
    BY <2>2, <2>3
  <2>4. task' \in [Slots -> TaskType]
    BY <2>1, <2>3 DEF TypeOK
  <2> QED
    BY <1>3, <2>4 DEF Spawn, SpawnTasks, Goes, TypeOK, Drivers, consumer, ending
<1>4. ASSUME DriverKilled PROVE TypeOK'
  BY <1>4, LosingType DEF DriverKilled, TypeOK, Drivers, consumer, ending
<1>5. ASSUME Poll \/ Cancelled \/ GraceExpires \/ Joined PROVE TypeOK'
  BY <1>5 DEF Poll, Cancelled, GraceExpires, Joined, DriverEnds, Goes, TypeOK, Drivers,
              consumer, ending
<1> QED
  BY <1>1, <1>2, <1>3, <1>4, <1>5

LEMMA TaskTypes ==
  ASSUME TypeOK, NEW s \in Slots, HandOut(s) \/ SendFinish(s) \/ TaskKilled(s)
  PROVE  TypeOK'
<1>1. ASSUME HandOut(s) PROVE TypeOK'
  <2>1. task[s].id \in Ids
    BY <1>1 DEF HandOut, HandsOut, TypeOK, TaskType, Free
  <2>2. WaitingAck(task[s].id) \in TaskType /\ Finishing(task[s].id, FALSE) \in TaskType
    BY <2>1 DEF TaskType, WaitingAck, Finishing
  <2>3. task' \in [Slots -> TaskType]
    BY <1>1, <2>2 DEF HandOut, HandsOut, TypeOK
  <2>4. out' \in Seq(Slots) /\ Len(out') <= BufferSize
    <3>1. CASE UNCHANGED out
      BY <3>1 DEF TypeOK
    <3>2. CASE Len(out) < BufferSize /\ out' = Append(out, s)
      BY <3>2, RitualistAssumption DEF TypeOK
    <3> QED
      BY <1>1, <3>1, <3>2 DEF HandOut, HandsOut
  <2> QED
    BY <1>1, <2>3, <2>4 DEF HandOut, HandsOut, TypeOK, ending
<1>2. ASSUME SendFinish(s) PROVE TypeOK'
  <2>1. task[s].id \in Ids /\ task[s].snoozed \in BOOLEAN
    <3>1. task[s] \in [pc : {"finishing"}, id : Ids, snoozed : BOOLEAN]
      BY <1>2 DEF SendFinish, TypeOK, TaskType, Free
    <3> QED
      BY <3>1, Zenon
  <2>2. mailbox' \in Seq(CommandType) /\ Len(mailbox') <= BufferSize
    BY <1>2, <2>1, PostType, CommandsType DEF SendFinish
  <2>3. task' \in [Slots -> TaskType]
    BY <1>2 DEF SendFinish, TaskEnds, TypeOK, TaskType
  <2>4. lost' \in [Ids -> Nat]
    BY <1>2, LosingType DEF SendFinish, TaskEnds
  <2> QED
    BY <1>2, <2>2, <2>3, <2>4 DEF SendFinish, TaskEnds, TypeOK, consumer, ending
<1>3. ASSUME TaskKilled(s) PROVE TypeOK'
  BY <1>3, LosingType DEF TaskKilled, TaskEnds, TypeOK, TaskType, consumer, ending
<1> QED
  BY <1>1, <1>2, <1>3

LEMMA AnsweredType ==
  ASSUME TypeOK, NEW slots, NEW snoozed \in BOOLEAN, Answered(slots, snoozed)
  PROVE  task' \in [Slots -> TaskType]
<1>1. ASSUME NEW s \in Slots, task[s].pc = "waiting"
      PROVE  Finishing(task[s].id, snoozed) \in TaskType
  BY <1>1 DEF TypeOK, TaskType, Free, Finishing
<1> QED
  BY <1>1 DEF Answered, TypeOK

LEMMA ConsumerTypes ==
  ASSUME TypeOK,
         \/ Receive \/ DropReceiver
         \/ \E s \in Slots, snoozed \in BOOLEAN : Answer(s, snoozed)
  PROVE  TypeOK'
<1>1. ASSUME Receive PROVE TypeOK'
  <2>1. out' \in Seq(Slots) /\ Len(out') <= BufferSize /\ held' \subseteq Slots
    BY <1>1, RitualistAssumption DEF Receive, TypeOK
  <2> QED
    BY <1>1, <2>1 DEF Receive, TypeOK, ending
<1>2. ASSUME DropReceiver PROVE TypeOK'
  <2>1. out' \in Seq(Slots) /\ Len(out') <= BufferSize
    BY <1>2, RitualistAssumption DEF DropReceiver
  <2>2. task' \in [Slots -> TaskType]
    BY <1>2, AnsweredType DEF DropReceiver
  <2> QED
    BY <1>2, <2>1, <2>2 DEF DropReceiver, TypeOK, ending
<1>3. ASSUME NEW s \in Slots, NEW snoozed \in BOOLEAN, Answer(s, snoozed) PROVE TypeOK'
  BY <1>3, AnsweredType DEF Answer, TypeOK, ending
<1> QED
  BY <1>1, <1>2, <1>3

LEMMA OwnerTypes ==
  ASSUME TypeOK, Run \/ Shutdown \/ JoinDriver \/ JoinActor \/ Abort \/ DropOwner
  PROVE  TypeOK'
  BY DEF Run, Shutdown, JoinDriver, CancelsActor, JoinActor, Abort, DropOwner, Becomes,
         Goes, TypeOK, Drivers, Owners, consumer

LEMMA TypeInductive ==
  ASSUME TypeOK, [Next]_vars
  PROVE  TypeOK'
<1>1. CASE UNCHANGED vars
  BY <1>1 DEF vars, consumer, ending, TypeOK
<1>2. CASE Terminated
  BY <1>1, <1>2 DEF Terminated
<1> QED
  BY <1>1, <1>2, ClientTypes, HandleTypes, StopsTypes, DriverTypes, TaskTypes,
     ConsumerTypes, OwnerTypes DEF Next

LEMMA InitType == Init => TypeOK
  BY RitualistAssumption DEF Init, TypeOK, CallType, TaskType, Drivers, Owners

\* Neither channel exceeds its capacity, and every task, call and command is
\* one the code can produce.
THEOREM SystemTypes == Spec => []TypeOK
  BY InitType, TypeInductive, PTL DEF Spec

-----------------------------------------------------------------------------
(* The mailbox.                                                            *)

\* Posting puts the command behind the others.
LEMMA Appended ==
  ASSUME TypeOK, NEW cmd, mailbox' = Append(mailbox, cmd)
  PROVE  /\ Len(mailbox) \in Nat
         /\ DOMAIN mailbox = 1 .. Len(mailbox)
         /\ DOMAIN mailbox' = (1 .. Len(mailbox)) \cup {Len(mailbox) + 1}
         /\ mailbox'[Len(mailbox) + 1] = cmd
         /\ \A i \in 1 .. Len(mailbox) : mailbox'[i] = mailbox[i]
<1>1. mailbox \in Seq(CommandType)
  BY DEF TypeOK
<1>2. /\ Len(mailbox) \in Nat /\ DOMAIN mailbox = 1 .. Len(mailbox)
      /\ DOMAIN mailbox' = 1 .. (Len(mailbox) + 1)
      /\ mailbox'[Len(mailbox) + 1] = cmd
      /\ \A i \in 1 .. Len(mailbox) : mailbox'[i] = mailbox[i]
  BY <1>1
<1>3. 1 .. (Len(mailbox) + 1) = (1 .. Len(mailbox)) \cup {Len(mailbox) + 1}
  BY <1>2
<1> QED
  BY <1>2, <1>3

\* Handling a command moves the others up by one.
LEMMA Shifted ==
  ASSUME TypeOK, mailbox # <<>>, mailbox' = Tail(mailbox)
  PROVE  /\ Len(mailbox) \in Nat
         /\ DOMAIN mailbox = 1 .. Len(mailbox)
         /\ 1 \in DOMAIN mailbox /\ Head(mailbox) = mailbox[1]
         /\ \A i \in DOMAIN mailbox \ {1} :
              i - 1 \in DOMAIN mailbox' /\ mailbox'[i - 1] = mailbox[i]
         /\ \A i \in DOMAIN mailbox' :
              i \in Nat /\ i + 1 \in DOMAIN mailbox \ {1} /\ mailbox'[i] = mailbox[i + 1]
<1>1. mailbox \in Seq(CommandType)
  BY DEF TypeOK
<1>2. /\ Len(mailbox) \in Nat /\ DOMAIN mailbox = 1 .. Len(mailbox)
      /\ 1 \in DOMAIN mailbox /\ Head(mailbox) = mailbox[1]
      /\ DOMAIN mailbox' = 1 .. (Len(mailbox) - 1)
      /\ \A i \in 1 .. (Len(mailbox) - 1) : mailbox'[i] = mailbox[i + 1]
  BY <1>1
<1>3. \A i \in 1 .. Len(mailbox) : i # 1 => i - 1 \in 1 .. (Len(mailbox) - 1) /\ (i - 1) + 1 = i
  BY <1>2
<1>4. \A i \in 1 .. (Len(mailbox) - 1) : i \in Nat /\ i + 1 \in 1 .. Len(mailbox) /\ i + 1 # 1
  BY <1>2
<1> QED
  BY <1>2, <1>3, <1>4

\* What a client posts is one of its calls.
LEMMA SendsAnOp ==
  ASSUME TypeOK, NEW c \in Clients, Send(c)
  PROVE  call[c].op \in Ops
  BY DEF Send, TypeOK, CallType, IdleCall, Panicked, Joining, Gone

-----------------------------------------------------------------------------
(* The order in which things stop.                                         *)

\* Nobody is left who could post a command, or ever will be again, but clients.
Abandoned == owner = "dropped" /\ driver \in {"off", "ended"} /\ Idle

\* The actor only stops for a client, a panic, an owner that has joined the
\* driver or given up, or when it is abandoned; and a driver that was not
\* aborted only ends once its tasks have.
StopOrder ==
  /\ claimed # {} => driver = "spawning"
  /\ driver = "ended" /\ owner # "aborted" => Idle
  /\ owner \in {"closing", "shut"} => driver = "ended"
  /\ taker = "owner" => owner \in {"closing", "shut", "aborted"}
  /\ owner = "shut" /\ taker = "owner" => actor = "stopped"
  /\ actor = "stopped" => /\ \/ taker \in {"clone", "panic"}
                             \/ owner \in {"closing", "shut", "aborted"}
                             \/ Abandoned
                          /\ mailbox = <<>>
                          /\ \A c \in Clients : call[c].pc # "awaiting"

OrderInv == TypeOK /\ StopOrder

LEMMA ClientOrder ==
  ASSUME OrderInv, NEW c \in Clients,
         \/ \E op \in Ops : Call(c, op)
         \/ Send(c) \/ JoinClone(c)
         \/ \E how \in Ends : EndHandle(c, how)
  PROVE  StopOrder'
<1>1. /\ UNCHANGED <<actor, driver, claimed, task, owner>> /\ (Idle' <=> Idle)
      /\ taker' = taker \/ taker' = "clone"
  BY DEF Call, Send, JoinClone, EndHandle, ending, Idle, FreeSlots
<1>2. ASSUME actor = "stopped"
      PROVE  mailbox' = mailbox /\ \A d \in Clients : call'[d].pc # "awaiting"
  <2>1. ASSUME NEW op \in Ops, Call(c, op)
        PROVE  mailbox' = mailbox /\ \A d \in Clients : call'[d].pc # "awaiting"
    BY <1>2, <2>1 DEF Call, Sending, OrderInv, StopOrder, TypeOK
  <2>2. ASSUME Send(c)
        PROVE  mailbox' = mailbox /\ \A d \in Clients : call'[d].pc # "awaiting"
    BY <1>2, <2>2 DEF Send, Post, Unanswered, IdleCall, Panicked, OrderInv, StopOrder, TypeOK
  <2>3. ASSUME JoinClone(c) \/ \E how \in Ends : EndHandle(c, how)
        PROVE  mailbox' = mailbox /\ \A d \in Clients : call'[d].pc # "awaiting"
    BY <1>2, <2>3 DEF JoinClone, EndHandle, Joining, Gone, OrderInv, StopOrder, TypeOK
  <2> QED
    BY <2>1, <2>2, <2>3
<1> QED
  BY <1>1, <1>2 DEF OrderInv, StopOrder, Abandoned

LEMMA ActorOrder ==
  ASSUME OrderInv, Handle \/ ActorStops \/ ActorPanics
  PROVE  StopOrder'
<1>1. ASSUME Handle PROVE StopOrder'
  <2>1. /\ actor = "running" /\ UNCHANGED <<actor, task, owner, taker>>
        /\ Idle' <=> Idle
    BY <1>1 DEF Handle, ending, Idle, FreeSlots
  <2>2. \/ UNCHANGED <<driver, claimed>>
        \/ driver = "awaiting" /\ driver' = "spawning"
    BY <1>1 DEF Handle, HandleCall, HandleTick, HandleClaim, HandleFinish
  <2> QED
    BY <2>1, <2>2 DEF OrderInv, StopOrder
<1>2. ASSUME Stops, taker' = taker \/ taker' = "panic",
             \/ taker' # "nobody"
             \/ owner \in {"shut", "aborted", "dropped"} /\ driver \in {"off", "ended"} /\ Idle
      PROVE  StopOrder'
  <2>1. /\ actor = "running" /\ actor' = "stopped" /\ mailbox' = <<>>
        /\ UNCHANGED <<claimed, task, owner>>
        /\ driver' = IF driver = "awaiting" THEN "spawning" ELSE driver
        /\ Idle' <=> Idle
    BY <1>2 DEF Stops, Idle, FreeSlots
  <2>2. \A c \in Clients : call'[c].pc # "awaiting"
    BY <1>2 DEF Stops, Unanswered, IdleCall, Panicked
  <2>3. \/ taker' \in {"clone", "panic"}
        \/ owner \in {"closing", "shut", "aborted"}
        \/ Abandoned'
    BY <1>2, <2>1 DEF OrderInv, TypeOK, StopOrder, Abandoned
  <2> QED
    BY <1>2, <2>1, <2>2, <2>3 DEF OrderInv, StopOrder
<1>3. CASE ActorStops
  <2>1. \/ taker # "nobody"
        \/ owner \in {"shut", "aborted", "dropped"} /\ driver \in {"off", "ended"} /\ Idle
    BY <1>3 DEF ActorStops, MustStop, HandleAlive, OrderInv, TypeOK, Owners
  <2> QED
    BY <1>2, <1>3, <2>1 DEF ActorStops
<1>4. CASE ActorPanics
  BY <1>2, <1>4 DEF ActorPanics
<1> QED
  BY <1>1, <1>3, <1>4

LEMMA DriverOrder ==
  ASSUME OrderInv,
         \/ Poll \/ SendTick \/ SendClaim \/ Spawn
         \/ Cancelled \/ GraceExpires \/ Joined \/ DriverKilled
  PROVE  StopOrder'
<1>1. /\ UNCHANGED <<actor, call, owner, taker>> /\ driver # "ended"
      /\ actor = "stopped" => mailbox' = mailbox
  BY DEF Poll, SendTick, SendClaim, Spawn, SpawnTasks, Cancelled, GraceExpires, Joined,
         DriverEnds, DriverKilled, Goes, Post, ending
<1>2. CASE Spawn
  BY <1>1, <1>2 DEF Spawn, SpawnTasks, Goes, OrderInv, StopOrder, Abandoned
<1>3. CASE DriverKilled
  BY <1>1, <1>3 DEF DriverKilled, OrderInv, StopOrder
<1>4. CASE Joined
  BY <1>1, <1>4 DEF Joined, DriverEnds, Goes, Idle, FreeSlots, OrderInv, StopOrder, Abandoned
<1>5. CASE Poll \/ SendTick \/ SendClaim \/ Cancelled \/ GraceExpires
  <2>1. /\ driver' # "ended" /\ driver # "spawning" /\ driver \notin {"off", "ended"}
        /\ UNCHANGED claimed
    BY <1>5 DEF Poll, SendTick, SendClaim, Cancelled, GraceExpires, Goes
  <2> QED
    BY <1>1, <2>1 DEF OrderInv, StopOrder, Abandoned
<1> QED
  BY <1>2, <1>3, <1>4, <1>5

LEMMA TaskOrder ==
  ASSUME OrderInv,
         \/ \E s \in Slots : HandOut(s) \/ SendFinish(s) \/ TaskKilled(s)
         \/ Receive \/ DropReceiver
         \/ \E s \in Slots, snoozed \in BOOLEAN : Answer(s, snoozed)
  PROVE  StopOrder'
<1>1. /\ UNCHANGED <<actor, call, driver, claimed, owner, taker>>
      /\ actor = "stopped" => mailbox' = mailbox
  BY DEF HandOut, HandsOut, SendFinish, TaskKilled, TaskEnds, Receive, DropReceiver, Answer,
         Post, ending
<1>2. ASSUME NEW r \in Slots, task[r] = Free PROVE task'[r] = Free
  <2>1. DOMAIN task = Slots /\ task[r].pc = "free"
    BY <1>2 DEF OrderInv, TypeOK, Free
  <2>2. ASSUME NEW s \in Slots, HandOut(s) \/ SendFinish(s) \/ TaskKilled(s)
        PROVE  task'[r] = Free
    BY <1>2, <2>1, <2>2 DEF HandOut, HandsOut, SendFinish, TaskKilled, TaskEnds
  <2>3. ASSUME NEW slots, NEW snoozed, Answered(slots, snoozed)
        PROVE  task'[r] = Free
    BY <1>2, <2>1, <2>3 DEF Answered
  <2> QED
    BY <1>2, <2>2, <2>3 DEF Receive, DropReceiver, Answer
<1>3. Idle => Idle'
  BY <1>2 DEF Idle, FreeSlots
<1> QED
  BY <1>1, <1>3 DEF OrderInv, StopOrder, Abandoned

LEMMA OwnerOrder ==
  ASSUME OrderInv, Run \/ Shutdown \/ JoinDriver \/ JoinActor \/ Abort \/ DropOwner
  PROVE  StopOrder'
<1>1. UNCHANGED <<actor, mailbox, call, claimed, task>> /\ (Idle' <=> Idle)
  BY DEF Run, Shutdown, JoinDriver, CancelsActor, JoinActor, Abort, DropOwner, Becomes,
         Idle, FreeSlots
<1>2. CASE Run
  BY <1>1, <1>2 DEF Run, Goes, OrderInv, StopOrder, Abandoned
<1>3. CASE JoinDriver
  BY <1>1, <1>3 DEF JoinDriver, CancelsActor, Becomes, OrderInv, StopOrder, Abandoned
<1>4. CASE Shutdown \/ JoinActor \/ Abort \/ DropOwner
  BY <1>1, <1>4
  DEF Shutdown, JoinActor, Abort, DropOwner, Becomes, OrderInv, StopOrder, Abandoned
<1> QED
  BY <1>2, <1>3, <1>4

LEMMA OrderInductive ==
  ASSUME OrderInv, [Next]_vars
  PROVE  OrderInv'
<1>1. TypeOK'
  BY TypeInductive DEF OrderInv
<1>2. CASE UNCHANGED vars
  <2>1. UNCHANGED <<actor, mailbox, call, driver, claimed, task, owner, taker>>
    BY <1>2 DEF vars, ending
  <2>2. Idle' <=> Idle
    BY <2>1 DEF Idle, FreeSlots
  <2>3. StopOrder'
    BY <2>1, <2>2 DEF OrderInv, StopOrder, Abandoned
  <2> QED
    BY <1>1, <2>3 DEF OrderInv
<1>3. CASE Next
  <2>1. Terminated => UNCHANGED vars
    BY DEF Terminated
  <2>2. StopOrder' \/ Terminated
    BY <1>3, ClientOrder, ActorOrder, DriverOrder, TaskOrder, OwnerOrder DEF Next
  <2> QED
    BY <1>1, <1>2, <2>1, <2>2 DEF OrderInv
<1> QED
  BY <1>2, <1>3

LEMMA OrderAlways == Spec => []OrderInv
<1>1. Init => OrderInv
  BY InitType DEF Init, OrderInv, StopOrder
<1> QED
  BY <1>1, OrderInductive, PTL DEF Spec

\* Unless a client ends the actor or makes it panic, it outlives the driver and
\* its tasks, so that every Finish of a run that drains still finds it.
THEOREM ActorOutlives == Spec => []ActorOutlivesDriver
<1>1. OrderInv => ActorOutlivesDriver
  BY DEF OrderInv, StopOrder, Abandoned, TypeOK, ActorOutlivesDriver
<1> QED
  BY <1>1, OrderAlways, PTL

\* Once shutdown has returned no task, command, call or claimed run is left.
THEOREM NothingLeft == Spec => []NothingLeftAfterShutdown
<1>1. OrderInv => NothingLeftAfterShutdown
  BY DEF OrderInv, StopOrder, NothingLeftAfterShutdown
<1> QED
  BY <1>1, OrderAlways, PTL

-----------------------------------------------------------------------------
(* Nothing is lost before the grace period is over.                        *)

Serving == driver \notin {"reaping", "ended"}

\* Until tasks are stopped, every ack sender out there, queued or held, has one
\* task waiting for it.
AcksAwaited ==
  /\ \A i \in 1 .. Len(out) : task[out[i]].pc = "waiting" /\ out[i] \notin held
  /\ \A i, j \in 1 .. Len(out) : out[i] = out[j] => i = j
  /\ \A s \in held : task[s].pc = "waiting"

\* At most one ClaimDue is queued, and the driver is awaiting its reply: the
\* claimed ids of its reply cannot be dropped.
ClaimsAwaited ==
  /\ \A i \in 1 .. Len(mailbox) : mailbox[i].op = "ClaimDue" => driver = "awaiting"
  /\ \A i, j \in 1 .. Len(mailbox) :
       mailbox[i].op = "ClaimDue" /\ mailbox[j].op = "ClaimDue" => i = j

NoneLost == \A id \in Ids : lost[id] = 0

DrainInv ==
  /\ OrderInv
  /\ Serving => AcksAwaited
  /\ owner # "aborted" => ClaimsAwaited
  /\ Serving /\ owner # "aborted" /\ taker = "nobody" => NoneLost

LEMMA LosingNone ==
  ASSUME TypeOK, Losing({})
  PROVE  lost' = lost
  BY DEF TypeOK, Losing

LEMMA ServingBefore ==
  ASSUME Next, Serving'
  PROVE  Serving
  BY DEF Next, Call, Send, JoinClone, EndHandle, Handle, HandleCall, HandleTick, HandleClaim,
         HandleFinish, ActorStops, ActorPanics, Stops, Poll, SendTick, SendClaim, Spawn,
         SpawnTasks, Cancelled, GraceExpires, Joined, DriverEnds, DriverKilled, HandOut,
         HandsOut, SendFinish, TaskKilled, TaskEnds, Receive, DropReceiver, Answer, Run,
         Shutdown, JoinDriver, CancelsActor, JoinActor, Abort, DropOwner, Becomes,
         Terminated, vars, ending,
         Goes, Serving

\* The owner does not come back from an abort, and the actor ends only once.
LEMMA EndedForGood ==
  ASSUME Next
  PROVE  /\ owner' # "aborted" => owner # "aborted"
         /\ taker' = "nobody" => taker = "nobody"
  BY DEF Next, Call, Send, JoinClone, EndHandle, Handle, HandleCall, HandleTick, HandleClaim,
         HandleFinish, ActorStops, ActorPanics, Stops, Poll, SendTick, SendClaim, Spawn,
         SpawnTasks, Cancelled, GraceExpires, Joined, DriverEnds, DriverKilled, HandOut,
         HandsOut, SendFinish, TaskKilled, TaskEnds, Receive, DropReceiver, Answer, Run,
         Shutdown, JoinDriver, CancelsActor, JoinActor, Abort, DropOwner, Becomes,
         Terminated, vars, ending

\* Only the hand-out, the consumer and the end of a task touch ack senders.
LEMMA AcksKept ==
  ASSUME DrainInv, Next, Serving'
  PROVE  AcksAwaited'
<1>1. Serving
  BY ServingBefore
<1>2. /\ AcksAwaited
      /\ out \in Seq(Slots) /\ held \subseteq Slots /\ task \in [Slots -> TaskType]
  BY <1>1 DEF DrainInv, OrderInv, TypeOK
<1>3. CASE UNCHANGED <<out, held, task>>
  BY <1>2, <1>3 DEF AcksAwaited
<1>4. CASE Spawn
  <2>1. UNCHANGED <<out, held>>
    BY <1>4 DEF Spawn, SpawnTasks, consumer
  <2>2. ASSUME NEW s \in Slots, task[s].pc = "waiting" PROVE task'[s] = task[s]
    <3>1. s \notin FreeSlots
      BY <2>2 DEF FreeSlots, Free
    <3> QED
      BY <1>4, <3>1 DEF Spawn, SpawnTasks
  <2>3. \A i \in 1 .. Len(out) : out[i] \in Slots
    BY <1>2
  <2> QED
    BY <1>2, <2>1, <2>2, <2>3 DEF AcksAwaited
<1>5. ASSUME NEW s \in Slots, HandOut(s) PROVE AcksAwaited'
  <2>1. task[s].pc = "sending" /\ UNCHANGED held
    BY <1>5 DEF HandOut, HandsOut
  <2>2. s \notin held /\ \A i \in 1 .. Len(out) : out[i] # s
    BY <1>2, <2>1 DEF AcksAwaited
  <2>3. \A r \in Slots \ {s} : task'[r] = task[r]
    BY <1>2, <1>5 DEF HandOut, HandsOut
  <2>4. CASE out' = Append(out, s) /\ task' = [task EXCEPT ![s] = WaitingAck(task[s].id)]
    <3>1. task'[s].pc = "waiting"
      BY <1>2, <2>4 DEF WaitingAck
    <3>2. /\ Len(out') = Len(out) + 1 /\ out'[Len(out) + 1] = s
          /\ \A i \in 1 .. Len(out) : out'[i] = out[i] /\ out[i] \in Slots
          /\ Len(out) \in Nat
      BY <1>2, <2>4
    <3>3. \A i \in 1 .. Len(out') : i = Len(out) + 1 \/ i \in 1 .. Len(out)
      BY <3>2
    <3> QED
      BY <1>2, <2>1, <2>2, <2>3, <3>1, <3>2, <3>3 DEF AcksAwaited
  <2>5. CASE UNCHANGED out
    BY <1>2, <2>1, <2>2, <2>3, <2>5 DEF AcksAwaited
  <2> QED
    BY <1>5, <2>4, <2>5 DEF HandOut, HandsOut
<1>6. ASSUME NEW s \in Slots, SendFinish(s) PROVE AcksAwaited'
  <2>1. task[s].pc = "finishing" /\ UNCHANGED <<out, held>>
    BY <1>6 DEF SendFinish, TaskEnds, consumer
  <2>2. \A r \in Slots \ {s} : task'[r] = task[r]
    BY <1>2, <1>6 DEF SendFinish, TaskEnds
  <2>3. \A i \in 1 .. Len(out) : out[i] \in Slots
    BY <1>2
  <2> QED
    BY <1>2, <2>1, <2>2, <2>3 DEF AcksAwaited
<1>7. ASSUME NEW s \in Slots, TaskKilled(s) PROVE AcksAwaited'
  BY <1>1, <1>7 DEF TaskKilled, Serving
<1>8. ASSUME Receive PROVE AcksAwaited'
  <2>1. out # <<>> /\ out' = Tail(out) /\ held' = held \cup {Head(out)} /\ UNCHANGED task
    BY <1>8 DEF Receive
  <2>2. /\ Len(out) \in Nat /\ 1 \in 1 .. Len(out) /\ Head(out) = out[1]
        /\ Len(out') = Len(out) - 1
        /\ \A i \in 1 .. Len(out') : out'[i] = out[i + 1] /\ i + 1 \in 1 .. Len(out) /\ i + 1 # 1
    BY <1>2, <2>1
  <2>3. \A i, j \in 1 .. Len(out') : i + 1 = j + 1 => i = j
    OBVIOUS
  <2> QED
    BY <1>2, <2>1, <2>2, <2>3 DEF AcksAwaited
<1>9. ASSUME DropReceiver PROVE AcksAwaited'
  <2>1. out' = <<>> /\ UNCHANGED held /\ Answered({out[i] : i \in DOMAIN out}, FALSE)
    BY <1>9 DEF DropReceiver
  <2>2. ASSUME NEW s \in held PROVE task'[s] = task[s]
    <3>1. s \in Slots /\ s \notin {out[i] : i \in DOMAIN out}
      BY <1>2 DEF AcksAwaited
    <3> QED
      BY <2>1, <3>1 DEF Answered
  <2> QED
    BY <1>2, <2>1, <2>2 DEF AcksAwaited
<1>10. ASSUME NEW s \in Slots, NEW snoozed \in BOOLEAN, Answer(s, snoozed) PROVE AcksAwaited'
  <2>1. s \in held /\ held' = held \ {s} /\ UNCHANGED out /\ Answered({s}, snoozed)
    BY <1>10 DEF Answer
  <2>2. \A r \in Slots \ {s} : task'[r] = task[r]
    BY <2>1 DEF Answered
  <2>3. \A i \in 1 .. Len(out) : out[i] \in Slots \ {s}
    BY <1>2, <2>1 DEF AcksAwaited
  <2> QED
    BY <1>2, <2>1, <2>2, <2>3 DEF AcksAwaited
<1>11. \/ UNCHANGED <<out, held, task>>
       \/ Spawn \/ Receive \/ DropReceiver
       \/ \E s \in Slots : HandOut(s) \/ SendFinish(s) \/ TaskKilled(s)
       \/ \E s \in Slots, snoozed \in BOOLEAN : Answer(s, snoozed)
  BY DEF Next, Call, Send, JoinClone, EndHandle, Handle, ActorStops, ActorPanics, Stops,
         Poll, SendTick, SendClaim, Cancelled, GraceExpires, Joined, DriverEnds,
         DriverKilled, Run, Shutdown, JoinDriver, CancelsActor, JoinActor, Abort, DropOwner,
         Becomes, Terminated, vars, consumer
<1> QED
  BY <1>3, <1>4, <1>5, <1>6, <1>7, <1>8, <1>9, <1>10, <1>11

\* What posting a command other than ClaimDue does to the queued ones.
LEMMA PostClaims ==
  ASSUME TypeOK, ClaimsAwaited, NEW cmd, Post(cmd),
         cmd.op # "ClaimDue" \/ (driver # "awaiting" /\ (driver' = "awaiting" \/ actor = "stopped")),
         driver = "awaiting" => driver' = "awaiting"
  PROVE  ClaimsAwaited'
<1>1. CASE UNCHANGED mailbox
  BY <1>1 DEF ClaimsAwaited
<1>2. CASE actor = "running" /\ mailbox' = Append(mailbox, cmd)
  <2>1. /\ Len(mailbox) \in Nat
        /\ Len(mailbox') = Len(mailbox) + 1 /\ mailbox'[Len(mailbox) + 1] = cmd
        /\ \A i \in 1 .. Len(mailbox) : mailbox'[i] = mailbox[i]
    BY <1>2 DEF TypeOK
  <2>2. \A i \in 1 .. Len(mailbox') : i = Len(mailbox) + 1 \/ i \in 1 .. Len(mailbox)
    BY <2>1
  <2> QED
    BY <1>2, <2>1, <2>2 DEF ClaimsAwaited
<1> QED
  BY <1>1, <1>2 DEF Post

LEMMA ClaimsKept ==
  ASSUME DrainInv, Next, owner' # "aborted"
  PROVE  ClaimsAwaited'
<1>1. /\ owner # "aborted" /\ ClaimsAwaited
      /\ TypeOK
  BY EndedForGood DEF DrainInv, OrderInv
<1>2. CASE UNCHANGED mailbox /\ (driver = "awaiting" => driver' = "awaiting")
  BY <1>1, <1>2 DEF ClaimsAwaited
<1>3. CASE Handle
  <2>1. mailbox # <<>> /\ mailbox' = Tail(mailbox)
    BY <1>3 DEF Handle
  <2>2. /\ Len(mailbox) \in Nat /\ 1 \in 1 .. Len(mailbox) /\ Head(mailbox) = mailbox[1]
        /\ Len(mailbox') = Len(mailbox) - 1
        /\ \A i \in 1 .. Len(mailbox') :
             mailbox'[i] = mailbox[i + 1] /\ i + 1 \in 1 .. Len(mailbox) /\ i + 1 # 1
    BY <1>1, <2>1 DEF TypeOK
  <2>3. \A i, j \in 1 .. Len(mailbox') : i + 1 = j + 1 => i = j
    OBVIOUS
  <2>4. UNCHANGED driver \/ Head(mailbox).op = "ClaimDue"
    BY <1>3 DEF Handle, HandleCall, HandleTick, HandleClaim, HandleFinish
  <2>5. CASE UNCHANGED driver
    BY <1>1, <2>2, <2>3, <2>5 DEF ClaimsAwaited
  <2>6. CASE Head(mailbox).op = "ClaimDue"
    <3>1. \A i \in 1 .. Len(mailbox') : mailbox'[i].op # "ClaimDue"
      BY <1>1, <2>2, <2>6 DEF ClaimsAwaited
    <3> QED
      BY <3>1 DEF ClaimsAwaited
  <2> QED
    BY <2>4, <2>5, <2>6
<1>4. CASE Stops
  BY <1>4 DEF Stops, ClaimsAwaited
<1>5. ASSUME NEW c \in Clients, Send(c) PROVE ClaimsAwaited'
  <2>1. call[c].op \in Ops
    BY <1>1, <1>5 DEF Send, TypeOK, CallType, IdleCall, Panicked, Joining, Gone
  <2>2. CallCmd(c, call[c].op).op # "ClaimDue"
    BY <2>1, RitualistAssumption DEF CallCmd
  <2> QED
    BY <1>1, <1>5, <2>2, PostClaims DEF Send
<1>6. CASE SendTick
  BY <1>1, <1>6, PostClaims DEF SendTick, Goes, TickCmd
<1>7. CASE SendClaim
  <2>1. actor = "running" \/ actor = "stopped"
    BY <1>1 DEF TypeOK
  <2> QED
    BY <1>1, <1>7, <2>1, PostClaims DEF SendClaim, Goes
<1>8. ASSUME NEW s \in Slots, SendFinish(s) PROVE ClaimsAwaited'
  BY <1>1, <1>8, PostClaims DEF SendFinish, TaskEnds, FinishCmd
<1>9. \/ UNCHANGED mailbox /\ (driver = "awaiting" => driver' = "awaiting")
      \/ Handle \/ Stops \/ SendTick \/ SendClaim
      \/ \E c \in Clients : Send(c)
      \/ \E s \in Slots : SendFinish(s)
  BY <1>1 DEF Next, Call, JoinClone, EndHandle, ActorStops, ActorPanics, Poll, Spawn,
         SpawnTasks, Cancelled, GraceExpires, Joined, DriverEnds, DriverKilled, HandOut,
         HandsOut, TaskKilled, Receive, DropReceiver, Answer, Run, Shutdown, JoinDriver,
         CancelsActor, JoinActor, Abort, DropOwner, Becomes, Terminated, vars, Goes
<1> QED
  BY <1>2, <1>3, <1>4, <1>5, <1>6, <1>7, <1>8, <1>9

LEMMA LostKept ==
  ASSUME DrainInv, Next, Serving', owner' # "aborted", taker' = "nobody"
  PROVE  NoneLost'
<1>1. /\ Serving /\ owner # "aborted" /\ taker = "nobody"
      /\ NoneLost /\ ClaimsAwaited /\ TypeOK /\ StopOrder
  BY ServingBefore, EndedForGood DEF DrainInv, OrderInv
<1>2. CASE UNCHANGED lost
  BY <1>1, <1>2 DEF NoneLost
<1>3. CASE Handle
  <2>1. mailbox # <<>>
    BY <1>3 DEF Handle
  <2>2. 1 \in 1 .. Len(mailbox) /\ Head(mailbox) = mailbox[1]
    BY <1>1, <2>1 DEF TypeOK
  <2>3. Head(mailbox).op = "ClaimDue" => driver = "awaiting"
    BY <1>1, <2>2 DEF ClaimsAwaited
  <2>4. UNCHANGED lost
    BY <1>3, <2>3 DEF Handle, HandleCall, HandleTick, HandleClaim, HandleFinish
  <2> QED
    BY <1>2, <2>4
<1>4. ASSUME NEW s \in Slots, SendFinish(s) PROVE NoneLost'
  <2>1. ~Idle
    BY <1>4 DEF SendFinish, Idle, FreeSlots, Free
  <2>2. actor = "running"
    BY <1>1, <2>1 DEF StopOrder, Abandoned, Serving, TypeOK
  <2>3. Losing({})
    BY <1>4, <2>2 DEF SendFinish, TaskEnds
  <2> QED
    BY <1>1, <1>2, <2>3, LosingNone
<1>5. CASE ActorStops
  <2> DEFINE queued(id) == {i \in DOMAIN mailbox : mailbox[i].op = "Finish" /\ mailbox[i].id = id}
  <2>1. mailbox = <<>>
    BY <1>1, <1>5 DEF ActorStops, MustStop
  <2>2. ASSUME NEW id \in Ids PROVE Cardinality(queued(id)) = 0
    BY <2>1, FS_EmptySet
  <2>3. lost' = [id \in Ids |-> lost[id] + Cardinality(queued(id))]
    BY <1>5 DEF ActorStops, Stops
  <2> HIDE DEF queued
  <2> QED
    BY <1>1, <2>2, <2>3 DEF NoneLost
<1>6. \/ UNCHANGED lost \/ Handle \/ ActorStops
      \/ \E s \in Slots : SendFinish(s)
  <2>1. ~ActorPanics
    BY <1>1 DEF ActorPanics
  <2>2. ~DriverKilled /\ \A s \in Slots : ~TaskKilled(s)
    BY <1>1 DEF DriverKilled, TaskKilled, Serving
  <2> QED
    BY <2>1, <2>2
    DEF Next, Call, Send, JoinClone, EndHandle, Poll, SendTick, SendClaim, Spawn, SpawnTasks,
        Cancelled, GraceExpires, Joined, DriverEnds, HandOut, HandsOut, Receive,
        DropReceiver, Answer, Run, Shutdown, JoinDriver, CancelsActor, JoinActor, Abort,
        DropOwner, Becomes, Terminated, vars
<1> QED
  BY <1>2, <1>3, <1>4, <1>5, <1>6

LEMMA DrainInductive ==
  ASSUME DrainInv, [Next]_vars
  PROVE  DrainInv'
<1>1. OrderInv'
  BY OrderInductive DEF DrainInv
<1>2. CASE Next
  BY <1>1, <1>2, AcksKept, ClaimsKept, LostKept DEF DrainInv
<1>3. CASE UNCHANGED vars
  <2>1. UNCHANGED <<mailbox, driver, task, out, held, owner, taker, lost>>
    BY <1>3 DEF vars, consumer, ending
  <2>2. (AcksAwaited => AcksAwaited') /\ (ClaimsAwaited => ClaimsAwaited')
    BY <2>1 DEF AcksAwaited, ClaimsAwaited
  <2>3. (NoneLost => NoneLost') /\ (Serving' <=> Serving)
    BY <2>1 DEF NoneLost, Serving
  <2> QED
    BY <1>1, <2>1, <2>2, <2>3 DEF DrainInv
<1> QED
  BY <1>2, <1>3

LEMMA DrainAlways == Spec => []DrainInv
<1>1. Init => DrainInv
  <2> SUFFICES ASSUME Init PROVE DrainInv
    OBVIOUS
  <2>1. OrderInv
    BY InitType DEF Init, OrderInv, StopOrder
  <2>2. AcksAwaited /\ ClaimsAwaited /\ NoneLost
    BY DEF Init, AcksAwaited, ClaimsAwaited, NoneLost
  <2> QED
    BY <2>1, <2>2 DEF DrainInv
<1> QED
  BY <1>1, DrainInductive, PTL DEF Spec

\* No run is lost in service: every ack sender has its task, every claim reply its
\* driver, and the actor outlives them unless somebody ends it.
THEOREM NoRunLost == Spec => []NoRunLostInService
<1>1. DrainInv => NoRunLostInService
  BY DEF DrainInv, Serving, NoneLost, NoRunLostInService
<1> QED
  BY <1>1, DrainAlways, PTL

\* A driver that ends its drain before the grace period is over leaves no run
\* queued for the consumer, none unanswered, and, if no client ended the actor
\* and it did not panic, has lost none since the start.
THEOREM DrainComplete == Spec => DrainIsComplete
<1> DEFINE Complete == owner = "stopping" /\ driver = "draining" /\ driver' = "ended"
                         => /\ out = <<>> /\ held = {}
                            /\ taker = "nobody" => \A id \in Ids : lost[id] = 0
<1>1. ASSUME DrainInv, Next PROVE Complete
  <2> SUFFICES ASSUME owner = "stopping", driver = "draining", driver' = "ended"
               PROVE  /\ out = <<>> /\ held = {}
                      /\ taker = "nobody" => \A id \in Ids : lost[id] = 0
    OBVIOUS
  <2>1. Idle
    BY <1>1
    DEF Next, Call, Send, JoinClone, EndHandle, Handle, HandleCall, HandleTick, HandleClaim,
        HandleFinish, ActorStops, ActorPanics, Stops, Poll, SendTick, SendClaim, Spawn,
        SpawnTasks, Cancelled, GraceExpires, Joined, DriverEnds, DriverKilled, HandOut,
        HandsOut, SendFinish, TaskKilled, TaskEnds, Receive, DropReceiver, Answer, Run,
        Shutdown, JoinDriver, CancelsActor, JoinActor, Abort, DropOwner, Becomes,
        Terminated, vars, ending,
        Goes
  <2>2. \A s \in Slots : task[s].pc = "free"
    BY <2>1 DEF Idle, FreeSlots, Free
  <2>3. AcksAwaited /\ (taker = "nobody" => NoneLost) /\ TypeOK
    BY <1>1 DEF DrainInv, OrderInv, Serving
  <2>4. held = {}
    BY <2>2, <2>3 DEF AcksAwaited, TypeOK
  <2>5. out = <<>>
    <3>1. out \in Seq(Slots) /\ \A i \in 1 .. Len(out) : out[i] \notin Slots
      BY <2>2, <2>3 DEF AcksAwaited, TypeOK
    <3> QED
      BY <3>1
  <2> QED
    BY <2>3, <2>4, <2>5 DEF NoneLost
<1>2. Spec => [][Complete]_vars
  BY <1>1, DrainAlways, PTL DEF Spec
<1> QED
  BY <1>2 DEF DrainIsComplete

-----------------------------------------------------------------------------
(* Nothing is stuck in Running.                                            *)

\* A run of the id is in the driver's hands, in a task, or its Finish is queued.
CarriedBy(id) ==
  \/ id \in claimed
  \/ \E s \in Slots : task[s] # Free /\ task[s].id = id
  \/ \E i \in 1 .. Len(mailbox) : mailbox[i].op = "Finish" /\ mailbox[i].id = id

InService == actor = "running" /\ owner # "aborted" /\ Serving

CarryInv == InService => \A id \in Ids : phase[id] = "running" => CarriedBy(id)

\* What carries a run is counted as one.
LEMMA CarriedCounts ==
  ASSUME TypeOK, NEW id \in Ids, CarriedBy(id)
  PROVE  Carried(id) > 0
<1> DEFINE taken == {s \in Slots \ FreeSlots : task[s].id = id}
           queued == {i \in DOMAIN mailbox : mailbox[i].op = "Finish" /\ mailbox[i].id = id}
           own == IF id \in claimed THEN 1 ELSE 0
<1>1. IsFiniteSet(taken)
  BY RitualistAssumption, FS_Subset
<1>2. IsFiniteSet(queued)
  <2>1. Len(mailbox) \in Nat /\ DOMAIN mailbox = 1 .. Len(mailbox)
    BY DEF TypeOK
  <2>2. IsFiniteSet(1 .. Len(mailbox))
    BY <2>1, FS_Interval
  <2>3. queued \subseteq 1 .. Len(mailbox)
    BY <2>1
  <2> QED
    BY <2>2, <2>3, FS_Subset
<1>3. Cardinality(taken) \in Nat /\ Cardinality(queued) \in Nat /\ own \in {0, 1}
  BY <1>1, <1>2, FS_CardinalityType
<1>4. id \in claimed \/ taken # {} \/ queued # {}
  BY DEF CarriedBy, FreeSlots, TypeOK
<1>5. /\ taken # {} => Cardinality(taken) # 0
      /\ queued # {} => Cardinality(queued) # 0
      /\ id \in claimed => own = 1
  BY <1>1, <1>2, FS_EmptySet
<1>6. Carried(id) = own + Cardinality(taken) + Cardinality(queued)
  BY DEF Carried
<1> HIDE DEF taken, queued, own
<1> QED
  BY <1>3, <1>4, <1>5, <1>6

\* Neither the actor nor its service comes back.
LEMMA ServiceBefore ==
  ASSUME Next, InService'
  PROVE  InService
<1>1. actor = "running"
  BY DEF InService, Next, Call, Send, JoinClone, EndHandle, Handle, ActorStops, ActorPanics,
         Stops, Poll, SendTick, SendClaim, Spawn, SpawnTasks, Cancelled, GraceExpires, Joined,
         DriverEnds, DriverKilled, HandOut, HandsOut, SendFinish, TaskKilled, TaskEnds,
         Receive, DropReceiver, Answer, Run, Shutdown, JoinDriver, CancelsActor, JoinActor,
         Abort, DropOwner, Becomes, Terminated, vars
<1> QED
  BY <1>1, ServingBefore, EndedForGood DEF InService

\* Posting loses nothing that is queued.
LEMMA PostCarries ==
  ASSUME TypeOK, NEW cmd, Post(cmd), actor = "running"
  PROVE  /\ \A i \in 1 .. Len(mailbox) : i \in 1 .. Len(mailbox') /\ mailbox'[i] = mailbox[i]
         /\ \E i \in 1 .. Len(mailbox') : mailbox'[i] = cmd
<1>1. mailbox \in Seq(CommandType) /\ mailbox' = Append(mailbox, cmd)
  BY DEF TypeOK, Post
<1>2. /\ Len(mailbox) \in Nat /\ Len(mailbox') = Len(mailbox) + 1
      /\ mailbox'[Len(mailbox) + 1] = cmd
      /\ \A i \in 1 .. Len(mailbox) : mailbox'[i] = mailbox[i]
  BY <1>1
<1>3. Len(mailbox) + 1 \in 1 .. Len(mailbox')
  BY <1>2
<1> QED
  BY <1>2, <1>3

\* A task keeps its id until it is free.
LEMMA TaskKeepsRun ==
  ASSUME TypeOK, NEW s \in Slots, task[s] # Free, Serving',
         \/ UNCHANGED task
         \/ Spawn
         \/ \E r \in Slots : HandOut(r) \/ (SendFinish(r) /\ r # s) \/ TaskKilled(r)
         \/ \E slots, snoozed : Answered(slots, snoozed)
  PROVE  task'[s] # Free /\ task'[s].id = task[s].id
<1>1. task \in [Slots -> TaskType]
  BY DEF TypeOK
<1>2. CASE UNCHANGED task
  BY <1>2
<1>3. CASE Spawn
  <2>1. s \notin FreeSlots
    BY DEF FreeSlots
  <2> QED
    BY <1>3, <2>1 DEF Spawn, SpawnTasks
<1>4. ASSUME NEW r \in Slots, HandOut(r) PROVE task'[s] # Free /\ task'[s].id = task[s].id
  <2>1. \/ task' = [task EXCEPT ![r] = WaitingAck(task[r].id)]
        \/ task' = [task EXCEPT ![r] = Finishing(task[r].id, FALSE)]
    BY <1>4 DEF HandOut, HandsOut
  <2> QED
    BY <1>1, <2>1 DEF WaitingAck, Finishing, Free
<1>5. ASSUME NEW r \in Slots, SendFinish(r), r # s PROVE UNCHANGED task[s]
  BY <1>1, <1>5 DEF SendFinish, TaskEnds
<1>6. ASSUME NEW r \in Slots PROVE ~TaskKilled(r)
  BY DEF TaskKilled, TaskEnds, Serving
<1>7. ASSUME NEW slots, NEW snoozed, Answered(slots, snoozed)
      PROVE  task'[s] # Free /\ task'[s].id = task[s].id
  BY <1>7 DEF Answered, Finishing, Free
<1> QED
  BY <1>2, <1>3, <1>4, <1>5, <1>6, <1>7

\* The actor's own steps: what it sets to Running is in the driver's reply, and
\* the Finish it handles leaves the activity in another state.
LEMMA HandleCarries ==
  ASSUME DrainInv, Handle, owner # "aborted",
         NEW id \in Ids, phase[id] = "running" => CarriedBy(id), phase'[id] = "running"
  PROVE  CarriedBy(id)'
<1>1. /\ TypeOK /\ ClaimsAwaited /\ mailbox # <<>> /\ mailbox' = Tail(mailbox)
      /\ UNCHANGED task
  BY DEF DrainInv, OrderInv, Handle
<1>2. /\ Len(mailbox) \in Nat /\ 1 \in 1 .. Len(mailbox) /\ Head(mailbox) = mailbox[1]
      /\ \A i \in 1 .. Len(mailbox) \ {1} :
           i - 1 \in 1 .. Len(mailbox') /\ mailbox'[i - 1] = mailbox[i]
  BY <1>1 DEF TypeOK
<1> DEFINE cmd == Head(mailbox)
<1>3. ASSUME phase[id] = "running", claimed \subseteq claimed',
             cmd.op # "Finish" \/ cmd.id # id
      PROVE  CarriedBy(id)'
  BY <1>1, <1>2, <1>3 DEF CarriedBy
<1>4. CASE HandleCall(cmd)
  <2>1. phase[id] = "running" /\ UNCHANGED claimed /\ cmd.op # "Finish"
    BY <1>4 DEF HandleCall, scheduler, Life!Insert, Life!Pause, Life!Moved
  <2> QED
    BY <1>3, <2>1
<1>5. CASE HandleTick(cmd)
  <2>1. phase[id] = "running" /\ UNCHANGED claimed /\ cmd.op # "Finish"
    BY <1>5 DEF HandleTick, Life!Remove, Life!Moved
  <2> QED
    BY <1>3, <2>1
<1>6. CASE HandleClaim(cmd)
  <2>1. driver = "awaiting"
    BY <1>1, <1>2, <1>6 DEF HandleClaim, ClaimsAwaited
  <2>2. claimed = {} /\ cmd.op # "Finish"
    BY <1>6, <2>1 DEF HandleClaim, DrainInv, OrderInv, StopOrder
  <2>3. phase[id] = "running" \/ id \in claimed'
    BY <1>6, <2>1 DEF HandleClaim, Life!Start, Life!Moved
  <2> QED
    BY <1>3, <2>2, <2>3 DEF CarriedBy
<1>7. CASE HandleFinish(cmd)
  <2>1. phase[id] = "running" /\ cmd.id # id /\ UNCHANGED claimed
    BY <1>7 DEF HandleFinish, Life!Settle, Life!Remove, Life!Moved
  <2> QED
    BY <1>3, <2>1
<1> QED
  BY <1>4, <1>5, <1>6, <1>7 DEF Handle

LEMMA CarryKept ==
  ASSUME DrainInv, CarryInv, Next
  PROVE  CarryInv'
<1> SUFFICES ASSUME InService', NEW id \in Ids, phase'[id] = "running"
             PROVE  CarriedBy(id)'
  BY DEF CarryInv
<1>1. /\ InService /\ Serving' /\ TypeOK /\ actor = "running" /\ owner # "aborted"
      /\ phase[id] = "running" => CarriedBy(id)
  BY ServiceBefore DEF CarryInv, InService, DrainInv, OrderInv
<1>2. CASE Handle
  BY <1>1, <1>2, HandleCarries
<1>3. CASE ~Handle
  <2>1. /\ UNCHANGED phase
        /\ ~Stops /\ ~DriverKilled
    BY <1>1, <1>3
    DEF Next, Call, Send, JoinClone, EndHandle, ActorStops, ActorPanics, Stops, Poll,
        SendTick, SendClaim, Spawn, SpawnTasks, Cancelled, GraceExpires, Joined, DriverEnds,
        DriverKilled, HandOut, HandsOut, SendFinish, TaskKilled, TaskEnds, Receive,
        DropReceiver, Answer, Run, Shutdown, JoinDriver, CancelsActor, JoinActor, Abort,
        DropOwner, Becomes, Terminated, vars, scheduler, InService
  <2>2. CarriedBy(id)
    BY <1>1, <2>1
  <2>3. UNCHANGED mailbox \/ \E cmd : Post(cmd)
    BY <1>3, <2>1
    DEF Next, Call, Send, JoinClone, EndHandle, ActorStops, ActorPanics, Poll, SendTick,
        SendClaim, Spawn, SpawnTasks, Cancelled, GraceExpires, Joined, DriverEnds, HandOut,
        HandsOut, SendFinish, TaskKilled, Receive, DropReceiver, Answer, Run, Shutdown,
        JoinDriver, CancelsActor, JoinActor, Abort, DropOwner, Becomes, Terminated, vars
  <2>4. \A i \in 1 .. Len(mailbox) : i \in 1 .. Len(mailbox') /\ mailbox'[i] = mailbox[i]
    BY <1>1, <2>3, PostCarries
  <2>5. CASE id \in claimed
    <3>1. UNCHANGED claimed \/ Spawn
      BY <1>3, <2>1
      DEF Next, Call, Send, JoinClone, EndHandle, ActorStops, ActorPanics, Poll, SendTick,
          SendClaim, Cancelled, GraceExpires, Joined, DriverEnds, HandOut, HandsOut,
          SendFinish, TaskKilled, TaskEnds, Receive, DropReceiver, Answer, Run, Shutdown,
          JoinDriver, CancelsActor, JoinActor, Abort, DropOwner, Becomes, Terminated, vars
    <3>2. CASE Spawn
      <4>1. PICK slot \in [claimed -> FreeSlots] :
              /\ \A i, j \in claimed : slot[i] = slot[j] => i = j
              /\ task' = [s \in Slots |-> IF \E i \in claimed : slot[i] = s
                                            THEN SendingRun(CHOOSE i \in claimed : slot[i] = s)
                                            ELSE task[s]]
        BY <3>2 DEF Spawn, SpawnTasks
      <4>2. slot[id] \in Slots /\ (CHOOSE i \in claimed : slot[i] = slot[id]) = id
        BY <2>5, <4>1 DEF FreeSlots
      <4>3. task'[slot[id]] = SendingRun(id)
        BY <2>5, <4>1, <4>2
      <4> QED
        BY <4>2, <4>3 DEF CarriedBy, SendingRun, Free
    <3> QED
      BY <2>5, <3>1, <3>2 DEF CarriedBy
  <2>6. ASSUME NEW s \in Slots, task[s] # Free, task[s].id = id PROVE CarriedBy(id)'
    <3>1. CASE SendFinish(s)
      <4>1. \E i \in 1 .. Len(mailbox') : mailbox'[i] = FinishCmd(id, task[s].snoozed)
        BY <1>1, <2>6, <3>1, PostCarries DEF SendFinish
      <4> QED
        BY <4>1 DEF CarriedBy, FinishCmd
    <3>2. CASE ~SendFinish(s)
      <4>1. \/ UNCHANGED task
            \/ Spawn
            \/ \E r \in Slots : HandOut(r) \/ (SendFinish(r) /\ r # s) \/ TaskKilled(r)
            \/ \E slots, snoozed : Answered(slots, snoozed)
        BY <1>3, <2>1, <3>2
        DEF Next, Call, Send, JoinClone, EndHandle, ActorStops, ActorPanics, Poll, SendTick,
            SendClaim, Cancelled, GraceExpires, Joined, DriverEnds, Receive, DropReceiver,
            Answer, Run, Shutdown, JoinDriver, CancelsActor, JoinActor, Abort, DropOwner,
            Becomes, Terminated, vars
      <4> QED
        BY <1>1, <2>6, <4>1, TaskKeepsRun DEF CarriedBy
    <3> QED
      BY <3>1, <3>2
  <2> QED
    BY <2>2, <2>4, <2>5, <2>6 DEF CarriedBy
<1> QED
  BY <1>2, <1>3

\* Until the owner has the tasks killed, whatever is in state Running has a run
\* that is still on its way, for any number of ids, tasks and clients.
THEOREM RunningCarried == Spec => []RunningIsCarried
<1>1. Init => CarryInv
  BY DEF Init, CarryInv
<1>2. ASSUME DrainInv, CarryInv, [Next]_vars PROVE CarryInv'
  <2>1. CASE UNCHANGED vars
    BY <1>2, <2>1
    DEF vars, scheduler, ending, CarryInv, InService, Serving, CarriedBy
  <2> QED
    BY <1>2, <2>1, CarryKept
<1>3. DrainInv /\ CarryInv => RunningIsCarried
  BY CarriedCounts DEF CarryInv, InService, Serving, RunningIsCarried, DrainInv, OrderInv
<1> QED
  BY <1>1, <1>2, <1>3, DrainAlways, PTL DEF Spec

=============================================================================
