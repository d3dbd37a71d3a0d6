CONSTANTS
  Count = 2
  ErrorTolerance = 1
  MaxAge = 2
SPECIFICATION Spec
INVARIANT MisreadTolerated
CHECK_DEADLOCK FALSE
