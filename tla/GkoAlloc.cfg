SPECIFICATION Spec
CONSTANTS
  BUCKET_COUNT = 3
  BUCKET_CAPACITY = 2
  Clients = {c1, c2}
  Regions = {r1, r2, r3}
  NULL = NULL
  MemoryShort = TRUE
SYMMETRY Symmetry
INVARIANTS
  TypeOK
  OneHolder
  UsedCountsBits
  AddressStaysValid
  IdleBucketReturned
PROPERTIES
  ImplementsPool
CHECK_DEADLOCK FALSE
