SPECIFICATION ServedSpec
CONSTANTS
  Ids = {a}
  Clients = {c}
  Ops = {"Reset"}
  Ends = {}
  Slots = {s, t}
  BufferSize = 1
PROPERTY RunsAreSettled
