SPECIFICATION Spec
CONSTANTS
  CMD_PREFIX_BYTE = 2
  RBUF_SZ = 4
  MAX_ALLOCS = 2
  NCmds = 2
  Lengths = {2}
  Streams <- MCStreams
  MemoryShort = FALSE
INVARIANTS
  ErrorMeansClosed
CHECK_DEADLOCK FALSE
