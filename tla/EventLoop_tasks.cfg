CONSTANTS
  Poster = {p1, p2}
  MaxPost = 1
SPECIFICATION FairSpec
INVARIANTS
  TypeOK
  NoLostWakeup
  QuitWakesLoop
PROPERTIES
  RunsInOrder
  AnnouncedTasksRun
  QuitEndsLoop
CHECK_DEADLOCK FALSE
