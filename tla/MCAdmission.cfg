SPECIFICATION Spec
CONSTANTS
  Requests = {r1, r2, r3}
  HeavyLimit = 2
  PoolThreads = 2
INVARIANTS
  SlotsAccounted
  ReplyMatchesTask
PROPERTIES
  OverloadIsHonest
  AnswerIsFinal
  WindowCloses
  TasksDrain
CHECK_DEADLOCK FALSE
