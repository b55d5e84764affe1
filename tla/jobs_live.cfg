SPECIFICATION FairSpec
CONSTANTS
  w1 = w1
  w2 = w2
  s1 = s1
  s2 = s2
  Workers = {w1, w2}
  Slots = {s1}
  Jobs = {1}
  Interactive = {}
  Orphans = {}
  Hanging = {}
  Concurrency = 1
  MaxAttempts = 2
  LockTtl = 2
  StaleWindow = 2
  BaseDelay = 1
  MaxDelay = 1
  HandlersMeetTtl = TRUE
  PromptCalls = FALSE
  MaxFaults = 2
  MaxDrops = 0
  MaxRetries = 1
PROPERTIES
  RunningEnds
  EveryJobSettles
  SlotsComeBack
  KeepsContract
