SPECIFICATION Spec
CONSTANTS
  ConnLimit = 1
  WorkerThread = 1
  PipeCap = 1
  Fds = {3, 4, 5}
  Peers = 1
  Jobs = {1}
  NReqs = 0
  MaxPartial = 0
  IsServer = TRUE
  Env = {"bad_header"}
INVARIANTS
  NoStrayReport
