CONSTANTS
  Byte = {0, 1}
  Zero = 0
  CheapPrepend = 1
  InitialSize = 1
  ExtraSize = 2
  MaxLen = 3
  MaxSize = 6
SPECIFICATION Spec
INVARIANTS
  RoomIsMade
PROPERTY IsByteQueue
CHECK_DEADLOCK FALSE
