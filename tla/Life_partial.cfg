CONSTANTS
  N = 2
  Zones = {0, 1, 2}
  HwZones = {0, 1, 2}
  ZonesOf <- TwoZonesOf
  HasLatch = FALSE
  HasExitLevel = TRUE
  HasExporter = FALSE
  MaxSignals = 1
SPECIFICATION Spec
INVARIANTS
  AllZonesAtExitLevel
\* the process ends
CHECK_DEADLOCK FALSE
