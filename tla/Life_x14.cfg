CONSTANTS
  N = 2
  Zones = {0, 1, 2}
  HwZones = {0, 1, 2}
  ZonesOf <- TwoZonesOf
  HasLatch = TRUE
  HasExitLevel = TRUE
  HasExporter = TRUE
  MaxSignals = 2
SPECIFICATION FairSpec
INVARIANTS
  ExitLevelReachesTouched
  ReleasedAfterEnd
  OnlyConfiguredZones
  SnapshotReady
PROPERTIES
  ControlStartsPrepared
  ExitCompletes
\* the process ends
CHECK_DEADLOCK FALSE
