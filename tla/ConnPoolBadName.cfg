SPECIFICATION Spec
CONSTANTS
  ConnLimit = 2
  WorkerThread = 1
  PipeCap = 1
  Fds = {3, 4, 5}
  Peers = 1
  Jobs = {1, 2}
  NReqs = 0
  MaxPartial = 0
  IsServer = TRUE
  Env = {"bad_name"}
INVARIANTS
  OneHolder
