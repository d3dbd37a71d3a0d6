CONSTANTS
  Count = 2
  ErrorTolerance = 1
  MaxAge = 2
SPECIFICATION Spec
INVARIANT ListExists
CHECK_DEADLOCK FALSE
