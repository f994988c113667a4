CONSTANTS
  ThreadNum = 2
  MaxPeer = 2
  MaxFail = 1
  MaxConn = 2
  MaxCall = 1
  Kept = {1, 3}
SPECIFICATION FairSpec
INVARIANTS
  StartWaitsForLoops
  ServerOutlivesWorkers
  ListedUntilClosed
  ActiveIsAlive
PROPERTIES
  StartReturns
  PeersAreServed
  JoinReturns
CHECK_DEADLOCK FALSE
