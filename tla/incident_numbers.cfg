SPECIFICATION Spec
CONSTANTS
  p1 = p1
  f1 = f1
  Tables = {"incident"}
  Pad <- CodePad
  Promotable = {"incident"}
  PromotePad = 3
  Erasable = {}
  Issued <- CodeIssued
  Producers = {p1}
  Findings = {f1}
  Base = 10
  MaxNew = 6
CHECK_DEADLOCK FALSE
INVARIANT
  DraftIsFree
