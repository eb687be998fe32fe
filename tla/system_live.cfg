SPECIFICATION FairSpec
CONSTANTS
  Ids = {a}
  Clients = {c}
  Ops = {"Register", "Unchecked", "Reset", "SetEnabled", "Snapshot"}
  Ends = {"Shutdown", "Drop"}
  Slots = {s}
  BufferSize = 1
PROPERTIES ShutdownCompletes AbortReleasesAll DroppedHandlesFreeActor CallsReturn PollingGoesOn
