CONSTANTS
  N = 3
  Zones = {0, 1}
  ZonesOf <- SharedZonesOf
  Repeats <- NoRepeats
  ConstFcs = {3}
  Curve <- SharedCurve
  DriftModes <- Drifted
  BmcLevels = {0}
  MaxDrifts = 1
  MaxFaults = 1
SPECIFICATION FairSpec
PROPERTIES
  FailedRecoveryIsRetried
\* the process ends at exit
CHECK_DEADLOCK FALSE
