SPECIFICATION FairSpec
CONSTANTS
  Jobs = {j1}
  MaxAttempts = 2
  MaxRetries = 1
  MaxFaults = 2
CHECK_DEADLOCK FALSE
INVARIANTS
  TypeOK
  CompletedJobHasResult
  NoSilentOrphan
  CountedOnce
PROPERTIES
  SystemResultIsFinal
  RecordEnds
