SPECIFICATION Spec
CONSTANTS
  Workers = {w1, w2}
  MaxRefunds = 3
  MaxAttempts = 2
  Delays = {"key"}
SYMMETRY MCSymmetry
INVARIANTS
  TypeOK
  PaidOnce
  OwedOnce
  RestsWhenSettled
  DebtIsInHand
  RefundInv
PROPERTIES
  ClosedStaysClosed
  DebtSpec
CHECK_DEADLOCK FALSE
