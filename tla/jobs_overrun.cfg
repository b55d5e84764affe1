SPECIFICATION Spec
CONSTANTS
  w1 = w1
  w2 = w2
  s1 = s1
  Workers = {w1, w2}
  Slots = {s1}
  Jobs = {1}
  Interactive = {}
  Orphans = {}
  Hanging = {}
  Concurrency = 1
  MaxAttempts = 2
  LockTtl = 2
  StaleWindow = 3
  BaseDelay = 1
  MaxDelay = 1
  HandlersMeetTtl = FALSE
  PromptCalls = TRUE
  MaxFaults = 0
  MaxDrops = 0
  MaxRetries = 0
INVARIANTS
  OneRunnerPerJob
