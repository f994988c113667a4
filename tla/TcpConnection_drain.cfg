CONSTANTS
  User = {}
  LoopOps = {"send"}
  UserOps = {}
  Notify = {}
  HighWaterMark = 1
  MsgLen = 2
  MaxSend = 1
  MaxCalls = 0
SPECIFICATION Spec
INVARIANT OnlyAskedShutdown
CHECK_DEADLOCK FALSE
