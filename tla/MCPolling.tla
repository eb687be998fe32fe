------------------------------ MODULE MCPolling ------------------------------
(* Instances of Polling for TLC. *)
EXTENDS Polling

Intervals == {FixedInterval(2), RandomInterval(1, 3)}
SomeSchedules == {RandomInterval(1, 4), Scheduled(3)}

=============================================================================
