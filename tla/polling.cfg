SPECIFICATION PollSpec
CONSTANTS
  Ids = {a}
  Schedules <- SomeSchedules
  SnoozeDurations = {2}
  MaxBatch = 1
  MaxRuns = 2
  Millisecond = 1
  MaxTime = 6
  WallClockJumps = FALSE
  PollInterval = 2
INVARIANTS EarlyByAtMostOnePoll ClaimedInTime MissedDatesAreDropped NoMoreRunsThanPeriods
PROPERTY ImplementsPollCycle
