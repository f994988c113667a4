CONSTANTS
  User = {}
  LoopOps = {"send"}
  UserOps = {}
  Notify = {}
  HighWaterMark = 1
  MsgLen = 2
  MaxSend = 2
  MaxCalls = 0
SPECIFICATION Spec
INVARIANT AcceptedIsSent
CHECK_DEADLOCK FALSE
