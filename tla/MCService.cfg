SPECIFICATION ServiceSpec
CONSTANTS
  Requests = {r1, r2}
  HeavyLimit = 1
  PoolThreads = 1
INVARIANTS
  ServiceTypeOK
  ReadyIsEarned
  DrainLeavesNothing
PROPERTIES
  ShutdownTerminates
CHECK_DEADLOCK FALSE
