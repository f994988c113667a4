CONSTANTS
  BufferId = {b1, b2, b3, b4, b5, b6, b7, b8}
  Null = Null
  Room = 2
  TooMany = 2
  FlushEvery = 2
  MaxLine = 6
  MaxStart = 2
SPECIFICATION FairSpec
INVARIANTS
  OwnedOnce
  Assertions
  NothingLost
PROPERTIES
  LinesGetOut
  StopReturns
CHECK_DEADLOCK FALSE
