CONSTANTS
  N = 3
  Zones = {0, 1}
  ZonesOf <- SharedZonesOf
  Repeats <- NoRepeats
  ConstFcs = {3}
  Curve <- SharedCurve
  DriftModes <- DriftedAndBack
  BmcLevels = {0, 3}
  MaxDrifts = 2
  MaxFaults = 1
SPECIFICATION FairSpec
INVARIANTS
  HighestDemandWins
  ConstIsFloor
  OneWritePerIteration
PROPERTIES
  ImplementsZoneControl
  ModeRestored
\* the process ends at exit
CHECK_DEADLOCK FALSE
