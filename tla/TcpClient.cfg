CONSTANT MaxFd = 3
SPECIFICATION FairSpec
INVARIANTS
  
  FdOwnedOnce
  
PROPERTY RetriesUntilConnected
CHECK_DEADLOCK FALSE
