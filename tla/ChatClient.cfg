SPECIFICATION FairSpec
CONSTANTS
  CmdLen = 2
  BodyLens = {0, 1, 2, 3}
  MaxBody = 2
  MaxPending = 2
  MaxBack = 4
  Env = {"late", "garbled", "close", "no_host", "send_error", "empty_cmd"}
INVARIANTS
  TypeOK
  DescriptorKept
  DeliveredOnce
  InStepReplyIsOwn
PROPERTIES
  Recovers
