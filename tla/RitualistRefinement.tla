------------------------- MODULE RitualistRefinement -------------------------
(***************************************************************************)
(* The running system implements Lifecycle, for any number of ids,         *)
(* clients, dispatch tasks and any capacity of the channels: every command *)
(* the actor handles is one of Lifecycle's steps, and everything else only *)
(* moves a run from one place to the next, where it still counts as one.   *)
(***************************************************************************)
EXTENDS RitualistWaits

-----------------------------------------------------------------------------
(* The places where a run can be, and how many are there.                  *)

Claims(id) == IF id \in claimed THEN 1 ELSE 0
TasksOf(id) == {s \in Slots \ FreeSlots : task[s].id = id}
FinishesOf(id) == {i \in DOMAIN mailbox : mailbox[i].op = "Finish" /\ mailbox[i].id = id}

Owed(id) == Carried(id) + lost[id]

LEMMA OwedIs ==
  ASSUME NEW id \in Ids
  PROVE  Owed(id) = Claims(id) + Cardinality(TasksOf(id)) + Cardinality(FinishesOf(id)) + lost[id]
  BY DEF Owed, Carried, Claims, TasksOf, FinishesOf

LEMMA OwedIsNext ==
  ASSUME NEW id \in Ids
  PROVE  Owed(id)' = Claims(id)' + Cardinality(TasksOf(id)') + Cardinality(FinishesOf(id)') + lost'[id]
  BY DEF Owed, Carried, Claims, TasksOf, FinishesOf

LEMMA Counts ==
  ASSUME TypeOK, NEW id \in Ids
  PROVE  /\ Claims(id) \in {0, 1} /\ lost[id] \in Nat
         /\ IsFiniteSet(TasksOf(id)) /\ Cardinality(TasksOf(id)) \in Nat
         /\ IsFiniteSet(FinishesOf(id)) /\ Cardinality(FinishesOf(id)) \in Nat
<1>1. IsFiniteSet(TasksOf(id))
  BY RitualistAssumption, FS_Subset DEF TasksOf
<1>2. IsFiniteSet(FinishesOf(id))
  <2>1. Len(mailbox) \in Nat /\ DOMAIN mailbox = 1 .. Len(mailbox)
    BY DEF TypeOK
  <2>2. IsFiniteSet(1 .. Len(mailbox))
    BY <2>1, FS_Interval
  <2>3. FinishesOf(id) \subseteq 1 .. Len(mailbox)
    BY <2>1 DEF FinishesOf
  <2> QED
    BY <2>2, <2>3, FS_Subset
<1> QED
  BY <1>1, <1>2, FS_CardinalityType DEF Claims, TypeOK

-----------------------------------------------------------------------------
(* The mailbox.                                                            *)

LEMMA PostedOther ==
  ASSUME TypeOK, NEW cmd, Post(cmd), cmd.op # "Finish", NEW id \in Ids
  PROVE  FinishesOf(id)' = FinishesOf(id)
<1>1. CASE UNCHANGED mailbox
  BY <1>1 DEF FinishesOf
<1>2. CASE mailbox' = Append(mailbox, cmd)
  BY <1>2, Appended DEF FinishesOf
<1> QED
  BY <1>1, <1>2 DEF Post

LEMMA PostedFinish ==
  ASSUME TypeOK, NEW f \in Ids, NEW snoozed, mailbox' = Append(mailbox, FinishCmd(f, snoozed)),
         NEW id \in Ids
  PROVE  Cardinality(FinishesOf(id)') =
           Cardinality(FinishesOf(id)) + (IF id = f THEN 1 ELSE 0)
<1> DEFINE new == Len(mailbox) + 1
<1>1. /\ Len(mailbox) \in Nat
      /\ DOMAIN mailbox = 1 .. Len(mailbox)
      /\ DOMAIN mailbox' = (1 .. Len(mailbox)) \cup {new}
      /\ mailbox'[new] = FinishCmd(f, snoozed)
      /\ \A i \in 1 .. Len(mailbox) : mailbox'[i] = mailbox[i]
  BY Appended
<1>2. new \notin FinishesOf(id)
  BY <1>1 DEF FinishesOf
<1>3. CASE id = f
  <2>1. FinishesOf(id)' = FinishesOf(id) \cup {new}
    BY <1>1, <1>3 DEF FinishesOf, FinishCmd
  <2> QED
    BY <1>2, <1>3, <2>1, Counts, FS_AddElement
<1>4. CASE id # f
  <2>1. FinishesOf(id)' = FinishesOf(id)
    BY <1>1, <1>4 DEF FinishesOf, FinishCmd
  <2> QED
    BY <1>4, <2>1, Counts
<1> QED
  BY <1>3, <1>4

\* A command that is taken out moves the others up by one.
LEMMA TakenOut ==
  ASSUME TypeOK, mailbox # <<>>, mailbox' = Tail(mailbox), NEW id \in Ids
  PROVE  /\ Cardinality(FinishesOf(id)') =
              Cardinality(FinishesOf(id)) - (IF 1 \in FinishesOf(id) THEN 1 ELSE 0)
         /\ 1 \in FinishesOf(id) <=> Head(mailbox).op = "Finish" /\ Head(mailbox).id = id
         /\ 1 \in FinishesOf(id) => Cardinality(FinishesOf(id)) > 0
<1> DEFINE rest == FinishesOf(id) \ {1}
           up == [i \in rest |-> i - 1]
<1>1. /\ Len(mailbox) \in Nat /\ DOMAIN mailbox = 1 .. Len(mailbox)
      /\ 1 \in DOMAIN mailbox /\ Head(mailbox) = mailbox[1]
      /\ DOMAIN mailbox' = 1 .. (Len(mailbox) - 1)
      /\ \A i \in 1 .. (Len(mailbox) - 1) : mailbox'[i] = mailbox[i + 1]
  BY DEF TypeOK
<1>2. up \in [rest -> FinishesOf(id)']
  <2> SUFFICES ASSUME NEW i \in rest PROVE i - 1 \in FinishesOf(id)'
    OBVIOUS
  <2>1. i \in 1 .. Len(mailbox) /\ i # 1
    BY <1>1 DEF FinishesOf
  <2>2. i - 1 \in 1 .. (Len(mailbox) - 1) /\ (i - 1) + 1 = i
    BY <1>1, <2>1
  <2>3. mailbox'[i - 1] = mailbox[i]
    BY <1>1, <2>2
  <2> QED
    BY <1>1, <2>2, <2>3 DEF FinishesOf
<1>3. \A i, j \in rest : up[i] = up[j] => i = j
  <2>1. \A i \in rest : i \in Nat
    BY <1>1 DEF FinishesOf
  <2> QED
    BY <2>1
<1>4. \A j \in FinishesOf(id)' : \E i \in rest : up[i] = j
  <2> SUFFICES ASSUME NEW j \in FinishesOf(id)' PROVE j + 1 \in rest /\ up[j + 1] = j
    OBVIOUS
  <2>1. j \in 1 .. (Len(mailbox) - 1)
    BY <1>1 DEF FinishesOf
  <2>2. j + 1 \in 1 .. Len(mailbox) /\ j + 1 # 1 /\ (j + 1) - 1 = j
    BY <1>1, <2>1
  <2>3. mailbox'[j] = mailbox[j + 1]
    BY <1>1, <2>1
  <2>4. j + 1 \in rest
    BY <1>1, <2>2, <2>3 DEF FinishesOf
  <2> QED
    BY <2>2, <2>4
<1>5. Cardinality(FinishesOf(id)') = Cardinality(rest)
  <2>1. up \in Bijection(rest, FinishesOf(id)')
    BY <1>2, <1>3, <1>4 DEF Bijection, Injection, Surjection, IsInjective
  <2>2. ExistsBijection(rest, FinishesOf(id)')
    BY <2>1 DEF ExistsBijection
  <2>3. IsFiniteSet(rest)
    BY Counts, FS_RemoveElement
  <2> QED
    BY <2>2, <2>3, FS_Bijection
<1>6. Cardinality(rest) = IF 1 \in FinishesOf(id) THEN Cardinality(FinishesOf(id)) - 1
                                                  ELSE Cardinality(FinishesOf(id))
  BY Counts, FS_RemoveElement
<1>7. 1 \in FinishesOf(id) => Cardinality(FinishesOf(id)) > 0
  BY Counts, FS_EmptySet
<1>8. 1 \in FinishesOf(id) <=> Head(mailbox).op = "Finish" /\ Head(mailbox).id = id
  BY <1>1 DEF FinishesOf
<1> QED
  BY <1>5, <1>6, <1>7, <1>8, Counts

-----------------------------------------------------------------------------
(* The tasks.                                                              *)

LEMMA TasksKept ==
  ASSUME TypeOK, NEW id \in Ids,
         \/ UNCHANGED task
         \/ \E s \in Slots : HandOut(s)
         \/ \E slots, snoozed : Answered(slots, snoozed)
  PROVE  TasksOf(id)' = TasksOf(id)
<1>1. task \in [Slots -> TaskType]
  BY DEF TypeOK
<1>2. \A s \in Slots : /\ task'[s] = Free <=> task[s] = Free
                       /\ task[s] # Free => task'[s].id = task[s].id
  <2>1. CASE UNCHANGED task
    BY <2>1
  <2>2. ASSUME NEW s \in Slots, HandOut(s), NEW r \in Slots
        PROVE  /\ task'[r] = Free <=> task[r] = Free
               /\ task[r] # Free => task'[r].id = task[r].id
    <3>1. /\ task[s].pc = "sending"
          /\ \/ task' = [task EXCEPT ![s] = WaitingAck(task[s].id)]
             \/ task' = [task EXCEPT ![s] = Finishing(task[s].id, FALSE)]
      BY <2>2 DEF HandOut, HandsOut
    <3> QED
      BY <1>1, <3>1 DEF WaitingAck, Finishing, Free
  <2>3. ASSUME NEW slots, NEW snoozed, Answered(slots, snoozed), NEW r \in Slots
        PROVE  /\ task'[r] = Free <=> task[r] = Free
               /\ task[r] # Free => task'[r].id = task[r].id
    BY <2>3 DEF Answered, Finishing, Free
  <2> QED
    BY <2>1, <2>2, <2>3
<1> QED
  BY <1>2 DEF TasksOf, FreeSlots

LEMMA TaskLeft ==
  ASSUME TypeOK, NEW s \in Slots, task[s] # Free, task' = [task EXCEPT ![s] = Free], NEW id \in Ids
  PROVE  /\ Cardinality(TasksOf(id)') =
              Cardinality(TasksOf(id)) - (IF task[s].id = id THEN 1 ELSE 0)
         /\ task[s].id \in Ids
<1>1. task \in [Slots -> TaskType]
  BY DEF TypeOK
<1>2. TasksOf(id)' = TasksOf(id) \ {s}
  BY <1>1 DEF TasksOf, FreeSlots
<1>3. s \in TasksOf(id) <=> task[s].id = id
  BY DEF TasksOf, FreeSlots
<1>4. task[s].id \in Ids
  <2>1. task[s] \in TaskType /\ task[s] # Free
    BY <1>1
  <2> QED
    BY <2>1 DEF TaskType, Free
<1>5. CASE task[s].id = id
  <2>1. Cardinality(TasksOf(id) \ {s}) = Cardinality(TasksOf(id)) - 1
    BY <1>3, <1>5, Counts, FS_RemoveElement
  <2> QED
    BY <1>2, <1>4, <1>5, <2>1
<1>6. CASE task[s].id # id
  <2>1. TasksOf(id) \ {s} = TasksOf(id)
    BY <1>3, <1>6
  <2> QED
    BY <1>2, <1>4, <1>6, <2>1, Counts
<1> QED
  BY <1>5, <1>6

\* Every claimed id gets a task of its own.
LEMMA TasksSpawned ==
  ASSUME TypeOK, SpawnTasks, NEW id \in Ids
  PROVE  Cardinality(TasksOf(id)') = Cardinality(TasksOf(id)) + Claims(id)
<1>1. task \in [Slots -> TaskType]
  BY DEF TypeOK
<1>2. PICK slot \in [claimed -> FreeSlots] :
        /\ \A i, j \in claimed : slot[i] = slot[j] => i = j
        /\ task' = [s \in Slots |-> IF \E i \in claimed : slot[i] = s
                                      THEN SendingRun(CHOOSE i \in claimed : slot[i] = s)
                                      ELSE task[s]]
  BY DEF SpawnTasks
<1>3. ASSUME NEW i \in claimed
      PROVE  slot[i] \in Slots /\ slot[i] \in FreeSlots /\ task'[slot[i]] = SendingRun(i)
  <2>1. slot[i] \in Slots /\ slot[i] \in FreeSlots
    BY <1>2 DEF FreeSlots
  <2>2. (CHOOSE j \in claimed : slot[j] = slot[i]) = i
    BY <1>2
  <2> QED
    BY <1>2, <2>1, <2>2
<1>4. ASSUME NEW s \in Slots, \A i \in claimed : slot[i] # s PROVE task'[s] = task[s]
  BY <1>2, <1>4
<1>5. CASE id \in claimed
  <2>1. TasksOf(id)' = TasksOf(id) \cup {slot[id]}
    <3>1. ASSUME NEW s \in Slots
          PROVE  s \in TasksOf(id)' <=> s \in TasksOf(id) \/ s = slot[id]
      <4>1. CASE \E i \in claimed : slot[i] = s
        <5>1. PICK i \in claimed : slot[i] = s
          BY <4>1
        <5>2. s \in FreeSlots /\ task'[s] = SendingRun(i) /\ (s = slot[id] <=> i = id)
          BY <1>2, <1>3, <1>5, <5>1
        <5> QED
          BY <5>2 DEF TasksOf, FreeSlots, SendingRun, Free
      <4>2. CASE \A i \in claimed : slot[i] # s
        BY <1>4, <1>5, <4>2 DEF TasksOf, FreeSlots
      <4> QED
        BY <4>1, <4>2
    <3> QED
      BY <1>3, <1>5, <3>1 DEF TasksOf
  <2>2. slot[id] \notin TasksOf(id)
    BY <1>3, <1>5 DEF TasksOf
  <2> QED
    BY <1>5, <2>1, <2>2, Counts, FS_AddElement DEF Claims
<1>6. CASE id \notin claimed
  <2>1. ASSUME NEW s \in Slots PROVE s \in TasksOf(id)' <=> s \in TasksOf(id)
    <3>1. CASE \E i \in claimed : slot[i] = s
      <4>1. PICK i \in claimed : slot[i] = s
        BY <3>1
      <4>2. s \in FreeSlots /\ task'[s] = SendingRun(i) /\ i # id
        BY <1>3, <1>6, <4>1
      <4> QED
        BY <4>2 DEF TasksOf, SendingRun
    <3>2. CASE \A i \in claimed : slot[i] # s
      BY <1>4, <3>2 DEF TasksOf, FreeSlots
    <3> QED
      BY <3>1, <3>2
  <2>2. TasksOf(id)' = TasksOf(id)
    BY <2>1 DEF TasksOf
  <2> QED
    BY <1>6, <2>2, Counts DEF Claims
<1> QED
  BY <1>5, <1>6

-----------------------------------------------------------------------------
(* What is not done by the actor moves runs, and loses none uncounted.     *)

LEMMA SumKept ==
  ASSUME NEW c \in Nat, NEW t \in Nat, NEW f \in Nat, NEW l \in Nat,
         NEW t1, NEW f1, NEW l1,
         \/ t1 = t /\ f1 = f /\ l1 = l
         \/ t1 = t - 1 /\ f1 = f + 1 /\ l1 = l
         \/ t1 = t - 1 /\ f1 = f /\ l1 = l + 1
  PROVE  c + t1 + f1 + l1 = c + t + f + l
  OBVIOUS

LEMMA TaskEndsOwed ==
  ASSUME TypeOK, NEW s \in Slots, NEW posted \in BOOLEAN, TaskEnds(s, posted), task[s] # Free,
         IF posted THEN mailbox' = Append(mailbox, FinishCmd(task[s].id, task[s].snoozed))
                   ELSE UNCHANGED mailbox,
         NEW id \in Ids
  PROVE  Owed(id)' = Owed(id)
<1>1. /\ task' = [task EXCEPT ![s] = Free] /\ UNCHANGED claimed
      /\ Losing(IF posted THEN {} ELSE {task[s].id})
  BY DEF TaskEnds
<1>2. /\ Cardinality(TasksOf(id)') = Cardinality(TasksOf(id)) - (IF task[s].id = id THEN 1 ELSE 0)
      /\ task[s].id \in Ids
  BY <1>1, TaskLeft
<1>3. Claims(id)' = Claims(id)
  BY <1>1 DEF Claims
<1> DEFINE c == Claims(id)
           t == Cardinality(TasksOf(id))    t1 == Cardinality(TasksOf(id)')
           f == Cardinality(FinishesOf(id)) f1 == Cardinality(FinishesOf(id)')
<1>4. \/ t1 = t /\ f1 = f /\ lost'[id] = lost[id]
      \/ t1 = t - 1 /\ f1 = f + 1 /\ lost'[id] = lost[id]
      \/ t1 = t - 1 /\ f1 = f /\ lost'[id] = lost[id] + 1
  <2>1. f1 = f + (IF posted /\ id = task[s].id THEN 1 ELSE 0)
    <3>1. CASE posted
      BY <1>2, <3>1, PostedFinish
    <3>2. CASE ~posted
      <4>1. FinishesOf(id)' = FinishesOf(id)
        BY <3>2 DEF FinishesOf
      <4> QED
        BY <3>2, <4>1, Counts
    <3> QED
      BY <3>1, <3>2
  <2>2. lost'[id] = lost[id] + (IF ~posted /\ id = task[s].id THEN 1 ELSE 0)
    BY <1>1, Counts DEF Losing
  <2>3. t \in Nat /\ f \in Nat /\ lost[id] \in Nat
    BY Counts
  <2> HIDE DEF t, t1, f, f1
  <2>4. t1 = t - (IF task[s].id = id THEN 1 ELSE 0)
    BY <1>2 DEF t, t1
  <2> QED
    BY <2>1, <2>2, <2>3, <2>4
<1>5. c \in Nat /\ t \in Nat /\ f \in Nat /\ lost[id] \in Nat
  BY Counts
<1>6. Owed(id) = c + t + f + lost[id]
  BY OwedIs
<1>7. Owed(id)' = c + t1 + f1 + lost'[id]
  BY <1>3, OwedIsNext
<1> HIDE DEF c, t, t1, f, f1
<1> QED
  BY <1>4, <1>5, <1>6, <1>7, SumKept

LEMMA MovesKeepOwed ==
  ASSUME TypeOK, Next, ~Handle, NEW id \in Ids
  PROVE  Owed(id)' = Owed(id)
<1>1. CASE Stops
  <2>1. /\ mailbox' = <<>> /\ UNCHANGED <<claimed, task>>
        /\ lost'[id] = lost[id] + Cardinality(FinishesOf(id))
    BY <1>1 DEF Stops, FinishesOf
  <2>2. FinishesOf(id)' = {}
    BY <2>1 DEF FinishesOf
  <2>3. Cardinality(FinishesOf(id)') = 0
    BY <2>2, FS_EmptySet
  <2>4. TasksOf(id)' = TasksOf(id) /\ Claims(id)' = Claims(id)
    BY <2>1, TasksKept DEF Claims
  <2> QED
    BY <2>1, <2>3, <2>4, Counts, OwedIs, OwedIsNext
<1>2. CASE Spawn
  <2>1. SpawnTasks /\ claimed' = {} /\ UNCHANGED <<mailbox, lost>>
    BY <1>2 DEF Spawn, SpawnTasks
  <2>2. Claims(id)' = 0 /\ FinishesOf(id)' = FinishesOf(id)
    BY <2>1 DEF Claims, FinishesOf
  <2> QED
    BY <2>1, <2>2, TasksSpawned, Counts, OwedIs, OwedIsNext
<1>3. CASE DriverKilled
  <2>1. claimed' = {} /\ Losing(claimed) /\ UNCHANGED <<mailbox, task>>
    BY <1>3 DEF DriverKilled
  <2>2. Claims(id)' = 0 /\ lost'[id] = lost[id] + Claims(id)
    BY <2>1, Counts DEF Claims, Losing
  <2>3. TasksOf(id)' = TasksOf(id) /\ FinishesOf(id)' = FinishesOf(id)
    BY <2>1, TasksKept DEF FinishesOf
  <2> QED
    BY <2>2, <2>3, Counts, OwedIs, OwedIsNext
<1>4. ASSUME NEW s \in Slots, SendFinish(s) PROVE Owed(id)' = Owed(id)
  <2>1. /\ task[s] # Free /\ TaskEnds(s, actor = "running")
        /\ IF actor = "running"
             THEN mailbox' = Append(mailbox, FinishCmd(task[s].id, task[s].snoozed))
             ELSE UNCHANGED mailbox
    BY <1>4 DEF SendFinish, Post, Free
  <2> QED
    BY <2>1, TaskEndsOwed
<1>5. ASSUME NEW s \in Slots, TaskKilled(s) PROVE Owed(id)' = Owed(id)
  BY <1>5, TaskEndsOwed DEF TaskKilled
<1>6. ASSUME UNCHANGED <<claimed, lost>>,
             UNCHANGED mailbox \/ \E cmd : Post(cmd) /\ cmd.op # "Finish",
             \/ UNCHANGED task
             \/ \E s \in Slots : HandOut(s)
             \/ \E slots, snoozed : Answered(slots, snoozed)
      PROVE  Owed(id)' = Owed(id)
  <2>1. FinishesOf(id)' = FinishesOf(id)
    <3>1. CASE UNCHANGED mailbox
      BY <3>1 DEF FinishesOf
    <3> QED
      BY <1>6, <3>1, PostedOther
  <2>2. TasksOf(id)' = TasksOf(id) /\ Claims(id)' = Claims(id)
    BY <1>6, TasksKept DEF Claims
  <2> QED
    BY <1>6, <2>1, <2>2, OwedIs, OwedIsNext
<1>7. ASSUME NEW c \in Clients, Send(c) PROVE Owed(id)' = Owed(id)
  <2>1. call[c].op \in Ops
    BY <1>7, SendsAnOp
  <2>2. CallCmd(c, call[c].op).op # "Finish"
    BY <2>1, RitualistAssumption DEF CallCmd
  <2>3. /\ UNCHANGED <<claimed, lost, task>>
        /\ \E cmd : Post(cmd) /\ cmd.op # "Finish"
    BY <1>7, <2>2 DEF Send
  <2> QED
    BY <1>6, <2>3
<1>8. CASE SendTick \/ SendClaim
  <2>1. \E cmd : Post(cmd) /\ cmd.op # "Finish"
    BY <1>8 DEF SendTick, SendClaim, TickCmd, ClaimCmd
  <2> QED
    BY <1>6, <1>8, <2>1 DEF SendTick, SendClaim
<1>9. ASSUME NEW s \in Slots, HandOut(s) PROVE Owed(id)' = Owed(id)
  BY <1>6, <1>9 DEF HandOut, HandsOut
<1>10. CASE DropReceiver \/ \E s \in Slots, snoozed \in BOOLEAN : Answer(s, snoozed)
  BY <1>6, <1>10 DEF DropReceiver, Answer
<1>11. CASE UNCHANGED <<claimed, lost, mailbox, task>>
  BY <1>6, <1>11
<1>12. \/ Stops \/ Spawn \/ DriverKilled \/ SendTick \/ SendClaim
       \/ \E c \in Clients : Send(c)
       \/ \E s \in Slots : SendFinish(s) \/ TaskKilled(s) \/ HandOut(s)
       \/ DropReceiver \/ \E s \in Slots, snoozed \in BOOLEAN : Answer(s, snoozed)
       \/ UNCHANGED <<claimed, lost, mailbox, task>>
  BY DEF Next, Call, JoinClone, EndHandle, ActorStops, ActorPanics, Poll, Cancelled,
         GraceExpires, Joined, DriverEnds, Receive, Run, Shutdown, JoinDriver, CancelsActor,
         JoinActor, Abort, DropOwner, Becomes, Terminated, vars
<1> QED
  BY <1>1, <1>2, <1>3, <1>4, <1>5, <1>7, <1>8, <1>9, <1>10, <1>11, <1>12

-----------------------------------------------------------------------------
(* The actor's steps.                                                      *)

LEMMA HandleOwed ==
  ASSUME TypeOK, Handle, NEW id \in Ids
  PROVE  /\ 1 \in FinishesOf(id) <=> Head(mailbox).op = "Finish" /\ Head(mailbox).id = id
         /\ 1 \in FinishesOf(id) => Cardinality(FinishesOf(id)) > 0
         /\ Owed(id)' = Claims(id)' + Cardinality(TasksOf(id)) + lost'[id]
                          + Cardinality(FinishesOf(id)) - (IF 1 \in FinishesOf(id) THEN 1 ELSE 0)
<1>1. mailbox # <<>> /\ mailbox' = Tail(mailbox) /\ UNCHANGED task
  BY DEF Handle
<1>2. TasksOf(id)' = TasksOf(id)
  BY <1>1, TasksKept
<1>3. Claims(id)' \in Nat
  BY DEF Claims
<1>4. lost'[id] \in Nat
  BY HandleTypes DEF TypeOK
<1> QED
  BY <1>1, <1>2, <1>3, <1>4, TakenOut, Counts, OwedIsNext

\* What is owed after a command of the mailbox was handled.
LEMMA HandledOther ==
  ASSUME TypeOK, Handle, UNCHANGED <<claimed, lost>>, Head(mailbox).op # "Finish", NEW id \in Ids
  PROVE  Owed(id)' = Owed(id)
<1>1. Claims(id)' = Claims(id) /\ lost'[id] = lost[id]
  BY DEF Claims
<1>2. 1 \notin FinishesOf(id)
  BY HandleOwed
<1> QED
  BY <1>1, <1>2, HandleOwed, OwedIs, Counts

LEMMA HandledFinish ==
  ASSUME TypeOK, Handle, UNCHANGED <<claimed, lost>>, Head(mailbox).op = "Finish", NEW id \in Ids
  PROVE  /\ Owed(id)' = IF id = Head(mailbox).id THEN Owed(id) - 1 ELSE Owed(id)
         /\ id = Head(mailbox).id => Owed(id) > 0
<1>1. Claims(id)' = Claims(id) /\ lost'[id] = lost[id]
  BY DEF Claims
<1>2. 1 \in FinishesOf(id) <=> Head(mailbox).id = id
  BY HandleOwed
<1>3. CASE Head(mailbox).id = id
  <2>1. Cardinality(FinishesOf(id)) > 0
    BY <1>2, <1>3, HandleOwed
  <2> QED
    BY <1>1, <1>2, <1>3, <2>1, HandleOwed, OwedIs, Counts
<1>4. CASE Head(mailbox).id # id
  BY <1>1, <1>2, <1>4, HandleOwed, OwedIs, Counts
<1> QED
  BY <1>3, <1>4

LEMMA HandledClaim ==
  ASSUME OrderInv, Handle, Head(mailbox).op = "ClaimDue",
         NEW ids \in SUBSET Ids,
         IF driver = "awaiting" THEN claimed' = ids /\ UNCHANGED lost
                                ELSE Losing(ids) /\ UNCHANGED claimed,
         NEW id \in Ids
  PROVE  Owed(id)' = IF id \in ids THEN Owed(id) + 1 ELSE Owed(id)
<1> USE DEF OrderInv
<1>1. Claims(id)' + lost'[id] = Claims(id) + lost[id] + (IF id \in ids THEN 1 ELSE 0)
  <2>1. CASE driver = "awaiting"
    <3>1. claimed = {} /\ claimed' = ids /\ lost' = lost
      BY <2>1 DEF StopOrder
    <3> QED
      BY <3>1, Counts DEF Claims
  <2>2. CASE driver # "awaiting"
    <3>1. claimed' = claimed /\ lost'[id] = IF id \in ids THEN lost[id] + 1 ELSE lost[id]
      BY <2>2 DEF Losing
    <3> QED
      BY <3>1, Counts DEF Claims
  <2> QED
    BY <2>1, <2>2
<1>2. 1 \notin FinishesOf(id)
  BY HandleOwed
<1>3. Claims(id)' \in Nat /\ lost'[id] \in Nat
  BY HandleTypes DEF Claims, TypeOK
<1> QED
  BY <1>1, <1>2, <1>3, HandleOwed, OwedIs, Counts

\* A command does to the activities one step of Lifecycle.
LEMMA CallLife ==
  ASSUME TypeOK, Handle, HandleCall(Head(mailbox))
  PROVE  \/ \E id \in Ids : \E shots \in SUBSET {id} : Life!Create({id}, shots)
         \/ \E id \in Ids, on \in BOOLEAN : Life!SetPaused(id, on)
         \/ UNCHANGED Life!lifeVars
<1>1. Head(mailbox).op # "Finish" /\ UNCHANGED <<claimed, lost>>
  BY DEF HandleCall
<1>2. \A id \in Ids : Owed(id)' = Owed(id)
  BY <1>1, HandledOther
<1>3. \/ \E id \in Ids, shots \in SUBSET Ids : shots \subseteq {id} /\ Life!Insert({id}, shots)
      \/ \E id \in Ids, on \in BOOLEAN : phase[id] # "absent" /\ Life!Pause(id, on)
      \/ UNCHANGED scheduler
  BY DEF HandleCall
<1>4. ASSUME NEW id \in Ids, NEW shots \in SUBSET {id}, Life!Insert({id}, shots)
      PROVE  Life!Create({id}, shots)
  BY <1>2, <1>4 DEF Life!Create, Owed
<1>5. ASSUME NEW id \in Ids, NEW on \in BOOLEAN, phase[id] # "absent", Life!Pause(id, on)
      PROVE  Life!SetPaused(id, on)
  BY <1>2, <1>5 DEF Life!SetPaused, Owed
<1>6. CASE UNCHANGED scheduler
  BY <1>2, <1>6 DEF Life!lifeVars, Owed, scheduler
<1> QED
  BY <1>3, <1>4, <1>5, <1>6

LEMMA TickLife ==
  ASSUME TypeOK, Handle, HandleTick(Head(mailbox))
  PROVE  \E ids \in SUBSET Life!Collectable : Life!Collect(ids)
<1>1. Head(mailbox).op # "Finish" /\ UNCHANGED <<claimed, lost>>
  BY DEF HandleTick
<1>2. \A id \in Ids : Owed(id)' = Owed(id)
  BY <1>1, HandledOther
<1> QED
  BY <1>2 DEF HandleTick, Life!Collect, Owed

LEMMA ClaimLife ==
  ASSUME OrderInv, Handle, HandleClaim(Head(mailbox))
  PROVE  \E ids \in SUBSET Life!Claimable : Life!Claim(ids)
<1>1. PICK ids \in SUBSET Life!Claimable :
        /\ Life!Start(ids)
        /\ IF driver = "awaiting" THEN claimed' = ids /\ UNCHANGED lost
                                  ELSE Losing(ids) /\ UNCHANGED claimed
  BY DEF HandleClaim
<1>2. ids \in SUBSET Ids /\ Head(mailbox).op = "ClaimDue"
  BY DEF Life!Claimable, HandleClaim
<1>3. \A id \in Ids : Owed(id)' = IF id \in ids THEN Owed(id) + 1 ELSE Owed(id)
  BY <1>1, <1>2, HandledClaim
<1> QED
  BY <1>1, <1>3 DEF Life!Claim, Owed

LEMMA FinishLife ==
  ASSUME TypeOK, Handle, HandleFinish(Head(mailbox))
  PROVE  \E id \in Ids, snoozed \in BOOLEAN : Life!Acknowledge(id, snoozed)
<1> DEFINE cmd == Head(mailbox)
<1>1. cmd.op = "Finish" /\ UNCHANGED <<claimed, lost>> /\ Life!Settle(cmd.id, cmd.snoozed)
  BY DEF HandleFinish
<1>2. PICK f \in Ids, snoozed \in BOOLEAN : f = cmd.id /\ snoozed = cmd.snoozed
  <2>1. cmd \in CommandType
    BY DEF Handle, TypeOK
  <2> QED
    BY <1>1, <2>1, RitualistAssumption DEF CommandType, TickCmd, ClaimCmd
<1>3. \A id \in Ids : /\ Owed(id)' = IF id = f THEN Owed(id) - 1 ELSE Owed(id)
                      /\ id = f => Owed(id) > 0
  BY <1>1, <1>2, HandledFinish
<1>4. Life!Acknowledge(f, snoozed)
  BY <1>1, <1>2, <1>3 DEF Life!Acknowledge, Owed
<1> QED
  BY <1>4

LEMMA HandleLife ==
  ASSUME OrderInv, Handle
  PROVE  [Life!LifeNext]_Life!lifeVars
<1> DEFINE cmd == Head(mailbox)
<1>1. TypeOK
  BY DEF OrderInv
<1>2. CASE HandleCall(cmd)
  BY <1>1, <1>2, CallLife DEF Life!LifeNext
<1>3. CASE HandleTick(cmd)
  BY <1>1, <1>3, TickLife DEF Life!LifeNext
<1>4. CASE HandleClaim(cmd)
  BY <1>4, ClaimLife DEF Life!LifeNext
<1>5. CASE HandleFinish(cmd)
  BY <1>1, <1>5, FinishLife DEF Life!LifeNext
<1> QED
  BY <1>2, <1>3, <1>4, <1>5 DEF Handle

-----------------------------------------------------------------------------

LEMMA OthersKeepScheduler ==
  ASSUME Next, ~Handle
  PROVE  UNCHANGED scheduler
  BY DEF Next, Call, Send, JoinClone, EndHandle, ActorStops, ActorPanics, Stops, Poll, SendTick,
         SendClaim, Spawn, SpawnTasks, Cancelled, GraceExpires, Joined, DriverEnds, DriverKilled,
         HandOut, HandsOut, SendFinish, TaskKilled, TaskEnds, Receive, DropReceiver, Answer, Run,
         Shutdown, JoinDriver, CancelsActor, JoinActor, Abort, DropOwner, Becomes, Terminated, vars

LEMMA StepLife ==
  ASSUME OrderInv, [Next]_vars
  PROVE  [Life!LifeNext]_Life!lifeVars
<1>1. CASE Handle
  BY <1>1, HandleLife
<1>2. CASE Next /\ ~Handle
  <2>1. \A id \in Ids : Owed(id)' = Owed(id)
    BY <1>2, MovesKeepOwed DEF OrderInv
  <2> QED
    BY <1>2, <2>1, OthersKeepScheduler DEF Life!lifeVars, Owed, scheduler
<1>3. CASE UNCHANGED vars
  <2>1. \A id \in Ids : Owed(id)' = Owed(id)
    BY <1>3 DEF vars, Owed, Carried, FreeSlots
  <2> QED
    BY <1>3, <2>1 DEF Life!lifeVars, Owed, scheduler, vars
<1> QED
  BY <1>1, <1>2, <1>3

LEMMA InitLife == Init => Life!LifeInit
<1> SUFFICES ASSUME Init PROVE Life!LifeInit
  OBVIOUS
<1>1. ASSUME NEW id \in Ids PROVE Carried(id) + lost[id] = 0
  <2>1. TasksOf(id) = {} /\ FinishesOf(id) = {} /\ Claims(id) = 0 /\ lost[id] = 0
    BY DEF Init, TasksOf, FreeSlots, FinishesOf, Claims
  <2>2. Cardinality(TasksOf(id)) = 0 /\ Cardinality(FinishesOf(id)) = 0
    BY <2>1, FS_EmptySet
  <2> QED
    BY <2>1, <2>2, OwedIs DEF Owed
<1> QED
  BY <1>1 DEF Init, Life!LifeInit

\* The driver, its tasks, the consumer, the clients and the owner do nothing to
\* the activities that Lifecycle does not allow: a run is claimed once and
\* acknowledged at most once, and those that can no longer be are counted.
THEOREM SystemImplements == Spec => ImplementsLifecycle
<1>1. Init => Life!LifeInit
  BY InitLife
<1>2. OrderInv /\ [Next]_vars => [Life!LifeNext]_Life!lifeVars
  BY StepLife
<1> QED
  BY <1>1, <1>2, OrderAlways, PTL DEF Spec, ImplementsLifecycle, Life!LifeSpec

-----------------------------------------------------------------------------
(* The polls: PollCycle.                                                   *)

\* The functions and sets that Lifecycle's effects keep as they are.
SchedulerOK ==
  phase = [id \in Ids |-> phase[id]] /\ paused \subseteq Ids /\ oneshot \subseteq Ids

LEMMA SchedulerKept ==
  ASSUME OrderInv, SchedulerOK, [Next]_vars
  PROVE  SchedulerOK'
<1>1. CASE Handle
  <2>1. CASE UNCHANGED Life!lifeVars
    BY <2>1 DEF Life!lifeVars, SchedulerOK
  <2>2. ASSUME NEW ids \in SUBSET Ids, NEW shots \in SUBSET ids, Life!Create(ids, shots)
        PROVE  SchedulerOK'
    BY <2>2 DEF Life!Create, Life!Insert, Life!Moved, SchedulerOK
  <2>3. ASSUME NEW ids \in SUBSET Life!Claimable, Life!Claim(ids)
        PROVE  SchedulerOK'
    BY <2>3 DEF Life!Claim, Life!Start, Life!Moved, SchedulerOK
  <2>4. ASSUME NEW ids, Life!Remove(ids) PROVE SchedulerOK'
    BY <2>4 DEF Life!Remove, Life!Moved, SchedulerOK
  <2>5. ASSUME NEW id \in Ids, NEW snoozed \in BOOLEAN, Life!Acknowledge(id, snoozed)
        PROVE  SchedulerOK'
    BY <2>4, <2>5 DEF Life!Acknowledge, Life!Settle, Life!Moved, SchedulerOK
  <2>6. ASSUME NEW id \in Ids, NEW on \in BOOLEAN, Life!SetPaused(id, on)
        PROVE  SchedulerOK'
    BY <2>6 DEF Life!SetPaused, Life!Pause, SchedulerOK
  <2> QED
    BY <1>1, <2>1, <2>2, <2>3, <2>4, <2>5, <2>6, HandleLife DEF Life!LifeNext, Life!Collect
<1>2. CASE Next /\ ~Handle
  BY <1>2, OthersKeepScheduler DEF SchedulerOK, scheduler
<1>3. CASE UNCHANGED vars
  BY <1>3 DEF SchedulerOK, scheduler, vars
<1> QED
  BY <1>1, <1>2, <1>3

Stage ==
  IF driver = "ticking" \/ Queued("Tick") THEN "ticking"
  ELSE IF driver = "claiming" \/ Queued("ClaimDue") THEN "claiming"
  ELSE "idle"

\* How far a poll may get in a step that does nothing to the activities.
Advances(from, to) ==
  \/ to = from
  \/ from = "idle" /\ to = "ticking"
  \/ from = "ticking" /\ to \in {"claiming", "idle"}
  \/ from = "claiming" /\ to = "idle"

LEMMA QueuedPosted ==
  ASSUME TypeOK, NEW cmd, mailbox' = Append(mailbox, cmd), NEW op
  PROVE  Queued(op)' <=> Queued(op) \/ cmd.op = op
<1>1. /\ \A i \in DOMAIN mailbox : i \in DOMAIN mailbox' /\ mailbox'[i] = mailbox[i]
      /\ \A i \in DOMAIN mailbox' : i \in DOMAIN mailbox \/ mailbox'[i] = cmd
      /\ \E i \in DOMAIN mailbox' : mailbox'[i] = cmd
  BY Appended
<1> QED
  BY <1>1 DEF Queued

LEMMA OtherKeepsStage ==
  ASSUME TypeOK, NEW cmd, Post(cmd), cmd.op \notin PollOps, UNCHANGED driver
  PROVE  Stage' = Stage
<1>1. \A op \in PollOps : Queued(op)' <=> Queued(op)
  BY QueuedPosted DEF Post, Queued, PollOps
<1> QED
  BY <1>1 DEF Stage, PollOps

LEMMA PostsAdvance ==
  ASSUME OrderInv, PollsInTurn, SendTick \/ SendClaim
  PROVE  Advances(Stage, Stage')
<1>1. TypeOK /\ (actor = "stopped" => mailbox = <<>>)
  BY DEF OrderInv, StopOrder
<1>2. actor = "stopped" => ~Queued("Tick") /\ ~Queued("ClaimDue")
  BY <1>1 DEF Queued
<1>3. CASE SendTick
  <2>1. Goes("ticking", "claiming") /\ Post(TickCmd)
    BY <1>3 DEF SendTick
  <2>2. CASE mailbox' = Append(mailbox, TickCmd)
    BY <1>1, <2>1, <2>2, QueuedPosted DEF TickCmd, Goes, Stage, Advances
  <2>3. CASE actor = "stopped" /\ UNCHANGED mailbox
    BY <1>2, <2>1, <2>3 DEF Goes, Stage, Advances, Queued
  <2> QED
    BY <2>1, <2>2, <2>3 DEF Post
<1>4. CASE SendClaim
  <2>1. /\ driver = "claiming" /\ driver' = IF actor = "running" THEN "awaiting" ELSE "select"
        /\ Post(ClaimCmd)
    BY <1>4 DEF SendClaim, Goes
  <2>2. CASE actor = "running" /\ mailbox' = Append(mailbox, ClaimCmd)
    <3>1. Queued("ClaimDue")' /\ (Queued("Tick")' <=> Queued("Tick"))
      BY <1>1, <2>2, QueuedPosted DEF ClaimCmd
    <3> QED
      BY <2>1, <2>2, <3>1 DEF Stage, Advances
  <2>3. CASE actor = "stopped" /\ UNCHANGED mailbox
    BY <1>2, <2>1, <2>3 DEF Stage, Advances, Queued
  <2> QED
    BY <2>1, <2>2, <2>3 DEF Post
<1> QED
  BY <1>3, <1>4

LEMMA MovesAdvance ==
  ASSUME OrderInv, PollsInTurn, Next, ~Handle
  PROVE  Advances(Stage, Stage')
<1>1. TypeOK
  BY DEF OrderInv
<1>2. CASE UNCHANGED <<mailbox, driver>>
  BY <1>2 DEF Stage, Queued, Advances
<1>3. CASE UNCHANGED mailbox /\ {driver, driver'} \cap {"ticking", "claiming"} = {}
  BY <1>3 DEF Stage, Queued, Advances
<1>4. CASE Poll
  BY <1>4, NoneOutsidePoll DEF Poll, Goes, Killed, NoPollQueued, PollOps, Stage, Queued, Advances
<1>5. CASE DriverKilled
  <2>1. driver = "ticking" => ~Queued("Tick") /\ ~Queued("ClaimDue")
    BY NoneOutsidePoll DEF Killed, NoPollQueued, PollOps, Queued
  <2>2. UNCHANGED mailbox /\ driver' = "ended"
    BY <1>5 DEF DriverKilled
  <2> QED
    BY <2>1, <2>2 DEF PollsInTurn, Stage, Queued, Advances
<1>6. CASE Stops
  BY <1>6 DEF Stops, Stage, Queued, Advances
<1>7. ASSUME NEW c \in Clients, Send(c) PROVE Advances(Stage, Stage')
  <2>1. CallCmd(c, call[c].op).op \notin PollOps
    BY <1>1, <1>7, SendsAnOp, RitualistAssumption DEF CallCmd, PollOps
  <2> QED
    BY <1>1, <1>7, <2>1, OtherKeepsStage DEF Send, Advances
<1>8. ASSUME NEW s \in Slots, SendFinish(s) PROVE Advances(Stage, Stage')
  BY <1>1, <1>8, OtherKeepsStage DEF SendFinish, TaskEnds, FinishCmd, PollOps, Advances
<1>9. \/ UNCHANGED <<mailbox, driver>>
      \/ UNCHANGED mailbox /\ {driver, driver'} \cap {"ticking", "claiming"} = {}
      \/ Poll \/ DriverKilled \/ Stops \/ SendTick \/ SendClaim
      \/ \E c \in Clients : Send(c)
      \/ \E s \in Slots : SendFinish(s)
  BY DEF Next, Call, JoinClone, EndHandle, ActorStops, ActorPanics, Spawn, SpawnTasks,
         Cancelled, GraceExpires, Joined, DriverEnds, HandOut, HandsOut, TaskKilled,
         TaskEnds, Receive, DropReceiver, Answer, Run, Shutdown, JoinDriver, CancelsActor,
         JoinActor, Abort, DropOwner, Becomes, Terminated, vars, ending, Goes
<1> QED
  BY <1>2, <1>3, <1>4, <1>5, <1>6, <1>7, <1>8, <1>9, PostsAdvance

\* A poll goes on with the commands the actor handles.
LEMMA HandleAdvances ==
  ASSUME OrderInv, PollsInTurn, Handle
  PROVE  LET cmd == Head(mailbox)
         IN  /\ cmd.op = "Tick" => Stage = "ticking" /\ Stage' \in {"claiming", "idle"}
             /\ cmd.op = "ClaimDue" => Stage = "claiming" /\ Stage' = "idle"
             /\ cmd.op \notin PollOps => Stage' = Stage
<1> DEFINE cmd == Head(mailbox)
<1>1. mailbox # <<>> /\ mailbox' = Tail(mailbox) /\ TypeOK
  BY DEF Handle, OrderInv
<1>2. /\ 1 \in DOMAIN mailbox /\ cmd = mailbox[1]
      /\ DOMAIN mailbox = 1 .. Len(mailbox) /\ Len(mailbox) \in Nat
      /\ \A i \in DOMAIN mailbox \ {1} : i - 1 \in DOMAIN mailbox' /\ mailbox'[i - 1] = mailbox[i]
      /\ \A i \in DOMAIN mailbox' : i + 1 \in DOMAIN mailbox \ {1} /\ mailbox'[i] = mailbox[i + 1]
  BY <1>1, Shifted
<1>3. \A i \in DOMAIN mailbox \ {1} : 1 < i
  BY <1>2
<1>4. \A op : Queued(op)' <=> \E i \in DOMAIN mailbox \ {1} : mailbox[i].op = op
  BY <1>2 DEF Queued
<1>5. IF cmd.op = "ClaimDue" /\ driver = "awaiting" THEN driver' = "spawning" ELSE UNCHANGED driver
  BY RitualistAssumption DEF Handle, HandleCall, HandleTick, HandleClaim, HandleFinish
<1>6. CASE cmd.op = "Tick"
  <2>1. Queued("Tick") /\ driver # "ticking"
    BY <1>2, <1>6 DEF Queued, PollsInTurn
  <2>2. ~Queued("Tick")'
    BY <1>2, <1>3, <1>4, <1>6 DEF PollsInTurn
  <2> QED
    BY <1>5, <1>6, <2>1, <2>2 DEF Stage, PollOps
<1>7. CASE cmd.op = "ClaimDue"
  <2>1. Queued("ClaimDue") /\ driver \notin {"ticking", "claiming"} /\ driver' \notin {"ticking", "claiming"}
    BY <1>2, <1>5, <1>7 DEF Queued, PollsInTurn
  <2>2. ~Queued("Tick")' /\ ~Queued("ClaimDue")'
    BY <1>2, <1>3, <1>4, <1>7 DEF PollsInTurn
  <2>3. ~Queued("Tick")
    BY <1>2, <1>4, <1>7, <2>2 DEF Queued
  <2> QED
    BY <1>7, <2>1, <2>2, <2>3 DEF Stage, PollOps
<1>8. CASE cmd.op \notin PollOps
  <2>1. \A op \in PollOps : Queued(op)' <=> Queued(op)
    BY <1>2, <1>4, <1>8 DEF Queued
  <2> QED
    BY <1>5, <1>8, <2>1 DEF Stage, PollOps
<1> QED
  BY <1>6, <1>7, <1>8

\* Lifecycle's steps under the name of PollCycle.
LEMMA CycleHasLife ==
  /\ UNCHANGED Cycle!lifeVars <=> UNCHANGED Life!lifeVars
  /\ \A ids, shots : Life!Create(ids, shots) => Cycle!Create(ids, shots)
  /\ \A id, on : Life!SetPaused(id, on) => Cycle!SetPaused(id, on)
  /\ \A id, snoozed : Life!Acknowledge(id, snoozed) => Cycle!Acknowledge(id, snoozed)
  /\ \A ids : Life!Collect(ids) => Cycle!Collect(ids)
  /\ \A ids : Life!Claim(ids) => Cycle!Claim(ids)
  /\ Cycle!Collectable = Life!Collectable /\ Cycle!Claimable = Life!Claimable
  /\ Life!LifeInit => Cycle!LifeInit
<1>1. UNCHANGED Cycle!lifeVars <=> UNCHANGED Life!lifeVars
  BY DEF Life!lifeVars, Cycle!lifeVars
<1>2. \A ids, shots : Life!Create(ids, shots) => Cycle!Create(ids, shots)
  BY DEF Life!Create, Cycle!Create, Life!Insert, Cycle!Insert, Life!Moved, Cycle!Moved
<1>3. \A id, on : Life!SetPaused(id, on) => Cycle!SetPaused(id, on)
  BY DEF Life!SetPaused, Cycle!SetPaused, Life!Pause, Cycle!Pause
<1>4. \A ids : Life!Remove(ids) <=> Cycle!Remove(ids)
  BY DEF Life!Remove, Cycle!Remove, Life!Moved, Cycle!Moved
<1>5. \A id, snoozed : Life!Settle(id, snoozed) => Cycle!Settle(id, snoozed)
  BY <1>4 DEF Life!Settle, Cycle!Settle, Life!Moved, Cycle!Moved
<1>6. \A id, snoozed : Life!Acknowledge(id, snoozed) => Cycle!Acknowledge(id, snoozed)
  BY <1>5 DEF Life!Acknowledge, Cycle!Acknowledge
<1>7. \A ids : Life!Collect(ids) => Cycle!Collect(ids)
  BY <1>4 DEF Life!Collect, Cycle!Collect
<1>8. \A ids : Life!Claim(ids) => Cycle!Claim(ids)
  BY DEF Life!Claim, Cycle!Claim, Life!Start, Cycle!Start, Life!Moved, Cycle!Moved
<1>9. Cycle!Collectable = Life!Collectable /\ Cycle!Claimable = Life!Claimable
  BY DEF Life!Collectable, Cycle!Collectable, Life!Claimable, Cycle!Claimable
<1>10. Life!LifeInit => Cycle!LifeInit
  BY DEF Life!LifeInit, Cycle!LifeInit
<1> QED
  BY <1>1, <1>2, <1>3, <1>6, <1>7, <1>8, <1>9, <1>10

\* Nothing claimed, nothing collected.
LEMMA EmptyEffects ==
  ASSUME SchedulerOK, UNCHANGED scheduler, \A id \in Ids : Owed(id)' = Owed(id)
  PROVE  Life!Collect({}) /\ Life!Claim({}) /\ UNCHANGED Life!lifeVars
  BY DEF Life!Collect, Life!Remove, Life!Claim, Life!Start, Life!Moved, Life!lifeVars, SchedulerOK,
         scheduler, Owed

LEMMA StepCycle ==
  ASSUME OrderInv, PollsInTurn, SchedulerOK, [Next]_vars
  PROVE  [Cycle!CycleNext]_Cycle!cycleVars
<1> USE DEF Cycle!CycleNext, Cycle!cycleVars
<1>0. TypeOK
  BY DEF OrderInv
<1>1. CASE Handle
  <2> DEFINE cmd == Head(mailbox)
  <2>1. CASE HandleCall(cmd)
    <3>1. Stage' = Stage
      BY <1>1, <2>1, HandleAdvances, RitualistAssumption DEF HandleCall, PollOps
    <3> QED
      BY <1>0, <1>1, <2>1, <3>1, CallLife, CycleHasLife DEF Cycle!Others, Stage
  <2>2. CASE HandleTick(cmd)
    <3>1. Stage = "ticking" /\ Stage' \in {"claiming", "idle"}
      BY <1>1, <2>2, HandleAdvances DEF HandleTick
    <3> QED
      BY <1>0, <1>1, <2>2, <3>1, TickLife, CycleHasLife DEF Cycle!Ticks, Stage
  <2>3. CASE HandleClaim(cmd)
    <3>1. Stage = "claiming" /\ Stage' = "idle"
      BY <1>1, <2>3, HandleAdvances DEF HandleClaim
    <3> QED
      BY <1>1, <2>3, <3>1, ClaimLife, CycleHasLife DEF Cycle!Claims, Stage
  <2>4. CASE HandleFinish(cmd)
    <3>1. Stage' = Stage
      BY <1>1, <2>4, HandleAdvances DEF HandleFinish, PollOps
    <3> QED
      BY <1>0, <1>1, <2>4, <3>1, FinishLife, CycleHasLife DEF Cycle!Others, Stage
  <2> QED
    BY <1>1, <2>1, <2>2, <2>3, <2>4 DEF Handle
<1>2. CASE Next /\ ~Handle
  <2>1. Life!Collect({}) /\ Life!Claim({}) /\ UNCHANGED Life!lifeVars
    BY <1>0, <1>2, MovesKeepOwed, OthersKeepScheduler, EmptyEffects
  <2>2. Cycle!Collect({}) /\ Cycle!Claim({}) /\ UNCHANGED Cycle!lifeVars
    BY <2>1, CycleHasLife
  <2>3. Advances(Stage, Stage')
    BY <1>2, MovesAdvance
  <2>4. CASE Stage' = Stage
    BY <2>2, <2>4 DEF Stage
  <2>5. CASE Stage = "idle" /\ Stage' = "ticking"
    BY <2>2, <2>5 DEF Cycle!Begins, Stage
  <2>6. CASE Stage = "ticking" /\ Stage' \in {"claiming", "idle"}
    BY <2>2, <2>6 DEF Cycle!Ticks, Stage
  <2>7. CASE Stage = "claiming" /\ Stage' = "idle"
    BY <2>2, <2>7 DEF Cycle!Claims, Stage
  <2> QED
    BY <2>3, <2>4, <2>5, <2>6, <2>7 DEF Advances
<1>3. CASE UNCHANGED vars
  <2>1. \A id \in Ids : Owed(id)' = Owed(id)
    BY <1>3 DEF vars, Owed, Carried, FreeSlots
  <2>2. UNCHANGED Cycle!lifeVars
    BY <1>3, <2>1 DEF Cycle!lifeVars, Owed, scheduler, vars
  <2>3. Stage' = Stage
    BY <1>3 DEF vars, Stage, Queued
  <2> QED
    BY <2>2, <2>3 DEF Stage
<1> QED
  BY <1>1, <1>2, <1>3

\* What Polling takes for granted of the driver holds of the whole system: a run
\* starts in the ClaimDue of a poll, after the Tick of that poll, and each poll has
\* one of each, however commands, tasks and the ends of both interleave.
THEOREM SystemPolls == Spec => ImplementsPollCycle
<1>1. Init => SchedulerOK
  BY DEF Init, SchedulerOK
<1>2. Init => Cycle!CycleInit
  <2>1. Init => Cycle!LifeInit
    BY InitLife, CycleHasLife
  <2>2. Init => Stage = "idle"
    BY DEF Init, Stage, Queued
  <2> QED
    BY <2>1, <2>2 DEF Cycle!CycleInit, Stage
<1>3. OrderInv /\ SchedulerOK /\ [Next]_vars => SchedulerOK'
  BY SchedulerKept
<1>4. OrderInv /\ PollsInTurn /\ SchedulerOK /\ [Next]_vars => [Cycle!CycleNext]_Cycle!cycleVars
  BY StepCycle
<1> QED
  BY <1>1, <1>2, <1>3, <1>4, OrderAlways, PollsAreInTurn, PTL
  DEF Spec, ImplementsPollCycle, Cycle!CycleSpec

=============================================================================
