SPECIFICATION Spec
CONSTANTS
  r1 = r1
  r2 = r2
  Requests = {r1, r2}
  MaxGen = 1
SYMMETRY Symmetry
INVARIANTS
  TypeOK
  OneCurrentRotation
  SessionEndsWithFamily
  ReplayNeedsTwoPresentations
  LogoutEndsTheFamily
PROPERTIES
  NoAdmissionAfterLogout
  EndedFamilyStaysEnded
CHECK_DEADLOCK FALSE
