SPECIFICATION FairSpec
CONSTANTS
  Calls = {c1, c2, c3, c4}
  Capacity = 2
  NoCall = NoCall
INVARIANTS RunsOnlyWhenReady AnswerIsTrue
PROPERTY EveryCallAnswered
CHECK_DEADLOCK FALSE
