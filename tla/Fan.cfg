CONSTANTS
  Count = 2
  Temps = {80, 88}
  Unit = 4
  TempCalc = "avg"
  Smoothing = 2
  Sensitivity = 6
  ErrorTolerance = 1
  LevelsLut <- TwoLevels
  DeferredApply = FALSE
  MaxFailures = 3
SPECIFICATION FairSnapSpec
INVARIANTS
  SnapshotHasAllDevices
  SnapshotCountersAgree
  StaleWithinBudget
  FollowsTemperature
  CommandFollowsCurve
PROPERTIES
  SettlesAtTemperature
  StopsOnlyExhausted
CHECK_DEADLOCK FALSE
