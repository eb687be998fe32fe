------------------------------ MODULE Lifecycle ------------------------------
(***************************************************************************)
(* What the scheduler promises about activities, without time: which phase *)
(* each is in, whether it is paused, and how many acknowledgements are     *)
(* owed for the runs that were handed out.  SchedulerActor is shown to     *)
(* implement it, with its single task as the only actor; Ritualist uses    *)
(* its effects as the scheduler behind the mailbox, and is shown to        *)
(* implement it with runs that travel through the driver and the consumer. *)
(***************************************************************************)
EXTENDS Naturals

CONSTANT Ids

VARIABLES
  phase,    \* "absent", "waiting" or "running", for each id
  paused,   \* the disabled ids
  oneshot,  \* the ids of date-scheduled activities
  owed      \* the runs of each id handed out and not acknowledged

lifeVars == <<phase, paused, oneshot, owed>>

LifeInit ==
  /\ phase = [id \in Ids |-> "absent"]
  /\ paused = {}
  /\ oneshot = {}
  /\ owed = [id \in Ids |-> 0]

-----------------------------------------------------------------------------
(* Effects on the activities.                                              *)

Moved(ids, p) == [id \in Ids |-> IF id \in ids THEN p ELSE phase[id]]

\* New activities, of which `shots' are one-shots, replace whatever ids held.
Insert(ids, shots) ==
  /\ phase' = Moved(ids, "waiting")
  /\ paused' = paused \ ids
  /\ oneshot' = (oneshot \ ids) \cup shots

Claimable == {id \in Ids : phase[id] = "waiting"} \ paused

Start(ids) ==
  /\ phase' = Moved(ids, "running")
  /\ UNCHANGED <<paused, oneshot>>

Remove(ids) ==
  /\ phase' = Moved(ids, "absent")
  /\ paused' = paused \ ids
  /\ oneshot' = oneshot \ ids

\* Only a paused one-shot is removed without an acknowledgement.
Collectable == paused \cap oneshot

\* The activity waits again, enabled, or a one-shot not snoozed is gone.
Settle(id, snoozed) ==
  CASE phase[id] = "absent" -> UNCHANGED <<phase, paused, oneshot>>
    [] phase[id] # "absent" /\ id \in oneshot /\ ~snoozed -> Remove({id})
    [] OTHER -> /\ phase' = Moved({id}, "waiting")
                /\ paused' = paused \ {id}
                /\ UNCHANGED oneshot

Pause(id, on) ==
  /\ paused' = IF on THEN paused \cup {id} ELSE paused \ {id}
  /\ UNCHANGED <<phase, oneshot>>

-----------------------------------------------------------------------------
(* Steps.                                                                  *)

Create(ids, shots) == Insert(ids, shots) /\ UNCHANGED owed

Claim(ids) ==
  /\ Start(ids)
  /\ owed' = [id \in Ids |-> IF id \in ids THEN owed[id] + 1 ELSE owed[id]]

Acknowledge(id, snoozed) ==
  /\ owed[id] > 0
  /\ owed' = [owed EXCEPT ![id] = @ - 1]
  /\ Settle(id, snoozed)

SetPaused(id, on) == phase[id] # "absent" /\ Pause(id, on) /\ UNCHANGED owed

Collect(ids) == Remove(ids) /\ UNCHANGED owed

LifeNext ==
  \/ \E ids \in SUBSET Ids : \E shots \in SUBSET ids : Create(ids, shots)
  \/ \E ids \in SUBSET Claimable : Claim(ids)
  \/ \E id \in Ids, snoozed \in BOOLEAN : Acknowledge(id, snoozed)
  \/ \E id \in Ids, on \in BOOLEAN : SetPaused(id, on)
  \/ \E ids \in SUBSET Collectable : Collect(ids)

LifeSpec == LifeInit /\ [][LifeNext]_lifeVars

=============================================================================
