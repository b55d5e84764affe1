SPECIFICATION Spec
CONSTANTS
  w1 = w1
  w2 = w2
  s1 = s1
  Workers = {w1, w2}
  Slots = {s1}
  Jobs = {1, 2}
  Interactive = {2}
  Orphans = {}
  Hanging = {}
  Concurrency = 1
  MaxAttempts = 2
  LockTtl = 2
  StaleWindow = 3
  BaseDelay = 1
  MaxDelay = 1
  HandlersMeetTtl = TRUE
  PromptCalls = FALSE
  MaxFaults = 1
  MaxDrops = 0
  MaxRetries = 1
SYMMETRY Symmetry
INVARIANTS
  TypeOK
  OneRunnerPerJob
  LiveRunKeepsItsRow
  GivesUpOnlyAfterMaxAttempts
