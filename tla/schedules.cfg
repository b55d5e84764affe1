SPECIFICATION FairSpec
CONSTANTS
  s1 = s1
  s2 = s2
  b1 = b1
  b2 = b2
  o1 = o1
  o2 = o2
  Schedules = {s1, s2}
  Beats = {b1, b2}
  Operators = {o1, o2}
  Batch = 1
  MaxRequests = 2
  MaxCrashes = 1
CHECK_DEADLOCK FALSE
INVARIANTS
  TypeOK
PROPERTIES
  OnlyStaleWritesStrand
  DueIsServed
  DisabledStops
