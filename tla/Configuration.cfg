CONSTANT Files <- SomeFiles
SPECIFICATION Spec
INVARIANTS
  HotterIsFaster
  EndpointsKept
  StaysNearCurve
  LevelsReadBack
  OneDriverPerZone
CHECK_DEADLOCK FALSE
