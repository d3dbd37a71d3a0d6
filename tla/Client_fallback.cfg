CONSTANTS
  hd = hd  pump = pump
  Controllers = {hd, pump}
  Consts = {pump}
  Zones = {0, 1}
  ZonesOf <- MCZonesOf
  FirstZone <- MCFirstZone
  Levels = {40, 80}
SPECIFICATION FairSpec
INVARIANTS
  AnyFailureFallsBack
CHECK_DEADLOCK FALSE
