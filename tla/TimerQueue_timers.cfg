CONSTANTS
  N = 2
  Delays = {0, 2}
  Intervals = {0, 1}
  MaxTime = 2
  MaxJumps = 1
SPECIFICATION FairSpec
INVARIANTS
  HeldOnce
  TimerfdArmed
  ArmedInTime
  OnSchedule
PROPERTY EveryDeadlineRuns
CHECK_DEADLOCK FALSE
