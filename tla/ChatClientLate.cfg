SPECIFICATION Spec
CONSTANTS
  CmdLen = 1
  BodyLens = {1}
  MaxBody = 1
  MaxPending = 2
  MaxBack = 4
  Env = {"late"}
INVARIANTS
  ReplyIsOwn
