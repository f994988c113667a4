CONSTANTS
  User = {u1}
  LoopOps = {"send", "shutdown", "forceClose", "stopRead", "startRead"}
  UserOps = {"send", "shutdown", "forceClose", "stopRead", "startRead"}
  Notify = {"writeComplete"}
  HighWaterMark = 1
  MsgLen = 2
  MaxSend = 1
  MaxCalls = 2
SPECIFICATION FairSpec
INVARIANTS
  StreamIntact
  WaitsForRoom
  NoFinBeforeData
PROPERTIES
  CloseOnce
  OnlyARaceRevives
  ForceCloseCloses
  PeerEndCloses
  ShutdownHappens
CHECK_DEADLOCK FALSE
