CONSTANT MaxRequest = 2
SPECIFICATION FairSpec
INVARIANTS
  AnsweredWhole
PROPERTIES
  ParserReturns
  CompleteIsAnswered
CHECK_DEADLOCK FALSE
