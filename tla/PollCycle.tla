------------------------------ MODULE PollCycle ------------------------------
(***************************************************************************)
(* What a poll of the driver is to the scheduler, without time: its Tick   *)
(* and then its ClaimDue, once each, before the next poll begins.  Both    *)
(* Polling, where the actor handles them as the driver sends them, and     *)
(* Ritualist, where they queue in the mailbox among the commands of        *)
(* others, are shown to implement it.                                      *)
(***************************************************************************)
EXTENDS Lifecycle

VARIABLE stage  \* "idle", or which command of the poll comes next:
                \* "ticking" or "claiming"

cycleVars == <<lifeVars, stage>>

CycleInit == LifeInit /\ stage = "idle"

Begins ==
  /\ stage = "idle" /\ stage' = "ticking"
  /\ UNCHANGED lifeVars

\* The Tick collects.  A poll that was cut short by the end of the driver or of
\* the actor collects nothing, and may have no ClaimDue.
Ticks ==
  /\ stage = "ticking" /\ stage' \in {"claiming", "idle"}
  /\ \E ids \in SUBSET Collectable : Collect(ids)

Claims ==
  /\ stage = "claiming" /\ stage' = "idle"
  /\ \E ids \in SUBSET Claimable : Claim(ids)

\* What tasks and clients may do at any stage: neither start a run nor collect.
Others ==
  /\ \/ \E ids \in SUBSET Ids : \E shots \in SUBSET ids : Create(ids, shots)
     \/ \E id \in Ids, snoozed \in BOOLEAN : Acknowledge(id, snoozed)
     \/ \E id \in Ids, on \in BOOLEAN : SetPaused(id, on)
  /\ UNCHANGED stage

CycleNext == Begins \/ Ticks \/ Claims \/ Others

CycleSpec == CycleInit /\ [][CycleNext]_cycleVars

=============================================================================
