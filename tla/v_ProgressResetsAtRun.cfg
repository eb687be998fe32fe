SPECIFICATION RunSpec
CONSTANTS
  Ids = {a}
  Schedules <- SomeSchedules
  SnoozeDurations = {1}
  MaxBatch = 1
  MaxRuns = 2
  Millisecond = 1
  MaxTime = 4
  WallClockJumps = FALSE
PROPERTY ProgressResetsAtRun
