SPECIFICATION Spec
CONSTANTS
  w1 = w1
  s1 = s1
  s2 = s2
  s3 = s3
  Workers = {w1}
  Slots = {s1, s2, s3}
  Jobs = {1, 2}
  Interactive = {2}
  Orphans = {2}
  Hanging = {}
  Concurrency = 1
  MaxAttempts = 2
  LockTtl = 2
  StaleWindow = 3
  BaseDelay = 1
  MaxDelay = 2
  HandlersMeetTtl = TRUE
  PromptCalls = FALSE
  MaxFaults = 0
  MaxDrops = 1
  MaxRetries = 1
SYMMETRY Symmetry
INVARIANTS
  CapacityRespected
  AttemptsWithinBudget
  RunningRowHasRunner
