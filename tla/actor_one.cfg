SPECIFICATION RunSpec
CONSTANTS
  Ids = {a}
  Schedules <- AllSchedules
  SnoozeDurations = {1}
  MaxBatch = 2
  MaxRuns = 2
  Millisecond = 2
  MaxTime = 4
  WallClockJumps = TRUE
INVARIANTS TypeOK RunningIsOwed TargetFitsState RunsMatchState QuietDispatchIsHonoured
PROPERTIES RegisterManyStopsAtTaken OnlySpentOneShotsLeave OneShotsRunBeforeCompletion ProgressNeverFalls ImplementsLifecycle
