CONSTANTS
  N = 3
  Zones = {0, 1, 2, 3}
  ZonesOf <- MixedZonesOf
  Repeats <- MixedRepeats
  ConstFcs = {3}
  Curve <- MixedCurve
  DriftModes <- Drifted
  BmcLevels = {0}
  MaxDrifts = 1
  MaxFaults = 0
SPECIFICATION FairSpec
INVARIANTS
  CacheIsCommand
PROPERTIES
  LevelsRestored
  ServesWanted
\* the process ends at exit
CHECK_DEADLOCK FALSE
