SPECIFICATION Spec
CONSTANTS
  Cwd <- MCCwd
  BLOCK_SIZE = 2
  Cases <- DigestCases
  Threads = {t1}
  MaxNum = 1
  MaxRetry = 0
  MaxFaults = 0
  MaxCrashes = 0
  Env = {}
INVARIANTS
  DigestOfBlock
CHECK_DEADLOCK FALSE
