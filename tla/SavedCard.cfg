SPECIFICATION Spec
CONSTANTS
  Callers = {c1, c2}
  MaxRows = 2
  MaxIntents = 2
  MaxCards = 2
SYMMETRY MCSymmetry
INVARIANTS
  TypeOK
  OneIntentPerKey
  PaidIsBacked
  CaptureIsAccounted
PROPERTIES
  CapturedStaysCaptured
  BooksSpec
CHECK_DEADLOCK FALSE
