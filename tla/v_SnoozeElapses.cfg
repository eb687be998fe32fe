SPECIFICATION PollSpec
CONSTANTS
  Ids = {a}
  Schedules <- Intervals
  SnoozeDurations = {2}
  MaxBatch = 1
  MaxRuns = 1
  Millisecond = 1
  MaxTime = 6
  WallClockJumps = FALSE
  PollInterval = 2
INVARIANT SnoozeElapses
