CONSTANTS
  N = 2
  Zones = {0, 1, 2, 3}
  HwZones = {0, 1, 2}
  ZonesOf <- BadZonesOf
  HasLatch = FALSE
  HasExitLevel = TRUE
  HasExporter = FALSE
  MaxSignals = 0
SPECIFICATION Spec
INVARIANTS
  NoZoneLeftRunning
\* the process ends
CHECK_DEADLOCK FALSE
