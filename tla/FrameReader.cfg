SPECIFICATION FairSpec
CONSTANTS
  CMD_PREFIX_BYTE = 2
  RBUF_SZ = 4
  MAX_ALLOCS = 2
  NCmds = 2
  Lengths = {0, 1, 2, 3, 7, 14, 31}
  Streams <- MCStreams
  MemoryShort = TRUE
INVARIANTS
  TypeOK
  ReadInBounds
  InStep
  BlockIsNotGrown
  GivenUpForCause
PROPERTIES
  WholeCommandServed
CHECK_DEADLOCK FALSE
