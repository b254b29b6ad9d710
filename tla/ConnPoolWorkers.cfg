SPECIFICATION Spec
CONSTANTS
  ConnLimit = 2
  WorkerThread = 2
  PipeCap = 1
  Fds = {3, 4, 5}
  Peers = 2
  Jobs = {1}
  NReqs = 0
  MaxPartial = 0
  IsServer = TRUE
  Env = {}
INVARIANTS
  OneHolder
  FreeSlotIsClean
  DriverServes
