SPECIFICATION Spec
CONSTANTS
  Ids = {a, b}
  Clients = {c}
  Ops = {"Register", "UncheckedReset", "Reset", "SetEnabled"}
  Ends = {"Shutdown", "Abort", "Drop"}
  Slots = {s, t}
  BufferSize = 1
SYMMETRY Symmetry
INVARIANTS TypeOK RunningIsCarried ActorOutlivesDriver NothingLeftAfterShutdown
PROPERTIES ImplementsLifecycle DrainIsComplete
