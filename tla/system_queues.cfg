SPECIFICATION Spec
CONSTANTS
  Ids = {a}
  Clients = {c, d}
  Ops = {"Register", "SetEnabled"}
  Ends = {"Shutdown", "Drop"}
  Slots = {s, t}
  BufferSize = 2
SYMMETRY QueueSymmetry
INVARIANTS NoRunLostInService EveryWaitHasItsAck RepliesAreAwaited PollsInTurn OneWaitsForTheActor
PROPERTY ImplementsPollCycle
