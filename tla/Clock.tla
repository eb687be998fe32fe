-------------------------------- MODULE Clock --------------------------------
(***************************************************************************)
(* The two views of time behind the Clock trait of clock.rs: `mono', the   *)
(* monotonic Instant, and `utc', the wall clock.  TestClock::advance moves *)
(* both together.  Under SystemClock the operating system may also set the *)
(* wall clock to any time; WallClockJumps says whether it does.            *)
(***************************************************************************)
EXTENDS Naturals

CONSTANTS
  MaxTime,        \* bound on both clocks
  WallClockJumps  \* TRUE for SystemClock, FALSE for TestClock

ASSUME ClockAssumption == MaxTime \in Nat /\ WallClockJumps \in BOOLEAN

VARIABLES mono, utc

clockVars == <<mono, utc>>

ClockInit == mono = 0 /\ utc = 0

Advance ==
  /\ mono < MaxTime
  /\ utc < MaxTime
  /\ mono' = mono + 1
  /\ utc' = utc + 1

AdjustWallClock(t) ==
  /\ WallClockJumps
  /\ utc' = t
  /\ UNCHANGED mono

=============================================================================
