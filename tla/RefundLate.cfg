SPECIFICATION Spec
CONSTANTS
  Workers = {w1}
  MaxRefunds = 2
  MaxAttempts = 2
  Delays = {"sync"}
INVARIANTS
  OwedOnce
CHECK_DEADLOCK FALSE
