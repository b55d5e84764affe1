SPECIFICATION Spec
CONSTANTS
  Cycles = {c1, c2}
  Operators = {o1, o2}
  LastDay = 1
SYMMETRY Symmetry
CHECK_DEADLOCK FALSE
INVARIANT TypeOK
PROPERTIES
  OverlapNeedsAStaleCheck
  SecondActiveNeedsAnOverlap
  ActiveDeletedOnlyIfStale
