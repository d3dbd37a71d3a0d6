CONSTANTS
  Count = 3
  ErrorTolerance = 2
  MaxAge = 5
SPECIFICATION Spec
INVARIANTS
  NeverTooOld
  ToleratesPolls
CHECK_DEADLOCK FALSE
