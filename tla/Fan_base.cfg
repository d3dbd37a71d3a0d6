CONSTANTS
  Count = 2
  Temps = {80, 88}
  Unit = 4
  TempCalc = "avg"
  Smoothing = 2
  Sensitivity = 6
  ErrorTolerance = 1
  LevelsLut <- TwoLevels
  DeferredApply = FALSE
  MaxFailures = 3
SPECIFICATION SnapSpec
PROPERTY ImplementsBaseController
CHECK_DEADLOCK FALSE
