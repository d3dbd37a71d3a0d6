CONSTANTS
  N = 2
  Zones = {0, 1}
  HwZones = {0, 1}
  ZonesOf <- TwoZonesOf
  HasLatch = FALSE
  HasExitLevel = TRUE
  HasExporter = TRUE
  MaxSignals = 1
SPECIFICATION FairSpec
PROPERTIES
  StopEnds
\* the process ends
CHECK_DEADLOCK FALSE
