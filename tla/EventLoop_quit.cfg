CONSTANTS
  Poster = {p1}
  MaxPost = 1
SPECIFICATION FairSpec
PROPERTY QuitIsHonoured
CHECK_DEADLOCK FALSE
