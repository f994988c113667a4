CONSTANTS
  BufferId = {b1, b2, b3, b4}
  Null = Null
  Room = 2
  TooMany = 2
  FlushEvery = 1
  MaxLine = 1
  MaxStart = 1
SPECIFICATION Spec
INVARIANT BeginsRunning
CHECK_DEADLOCK FALSE
