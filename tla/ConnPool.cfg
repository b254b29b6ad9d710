SPECIFICATION FairSpec
CONSTANTS
  ConnLimit = 1
  WorkerThread = 2
  PipeCap = 1
  Fds = {3, 4, 5}
  Peers = 2
  Jobs = {1}
  NReqs = 1
  MaxPartial = 1
  IsServer = TRUE
  Env = {"bad_header", "large_body", "literal_ip", "bad_name", "full_socket", "no_socket", "no_block", "sys_error"}
INVARIANTS
  TypeOK
  OneHolder
  FreeSlotIsClean
  DescriptorsOwned
  BuffersFollowSlot
  OneOutcome
PROPERTIES
  ImplementsLease
  SilentIsSwept
  JobEnds
