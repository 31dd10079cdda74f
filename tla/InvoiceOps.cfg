SPECIFICATION Spec
CONSTANTS
  Runs = {r1, r2}
  NoRun = none
  MaxRows = 2
  MaxMade = 2
SYMMETRY MCSymmetry
CHECK_DEADLOCK FALSE
INVARIANTS
  TypeOK
  MadeIsTraced
  ResolvedIsNotRerun
PROPERTIES
  SuccessIsFinal
  LiveClaimIsKept
  LinkedIsNotRemade
  LifeSpec
