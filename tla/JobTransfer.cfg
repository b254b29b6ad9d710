SPECIFICATION FairSpec
CONSTANTS
  Cwd <- MCCwd
  BLOCK_SIZE = 2
  Cases <- MCCases
  Threads = {t1, t2}
  MaxNum = 2
  MaxRetry = 0
  MaxFaults = 1
  MaxCrashes = 1
  Env = {"alter", "shrink", "open_error", "send_error", "write_error", "event_error", "short_write"}
INVARIANTS
  TypeOK
  NamedAsAsked
  FetchedIsPlaced
  DoneIsWhole
PROPERTIES
  ResumesInPlace
  ImplementsCopy
  FetchEnds
CHECK_DEADLOCK FALSE
