---------------------------- MODULE MCRunHistory ----------------------------
(* Instances of RunHistory for TLC. *)
EXTENDS RunHistory

\* An interval with a choice, a one-shot, and a range validate refuses.
AllSchedules == {RandomInterval(2, 4), Scheduled(2), RandomInterval(2, 2)}

SomeSchedules == {FixedInterval(2), Scheduled(2)}

=============================================================================
