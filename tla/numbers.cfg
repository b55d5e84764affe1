SPECIFICATION Spec
CONSTANTS
  p1 = p1
  p2 = p2
  f1 = f1
  Tables = {"case", "rule", "incident"}
  Pad <- CodePad
  Promotable = {"case", "incident"}
  PromotePad = 3
  Erasable = {"rule"}
  Issued <- CodeIssued
  Producers = {p1, p2}
  Findings = {f1}
  Base = 2
  MaxNew = 2
SYMMETRY Symmetry
CHECK_DEADLOCK FALSE
INVARIANTS
  TypeOK
  RefusedOnlyIfUneven
  
PROPERTIES
  NumbersRise
