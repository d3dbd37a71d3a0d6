CONSTANTS
  Count = 3
  Limit = 2
  MaxMoves = 3
  MaxGlitches = 1
SPECIFICATION FairSpec
INVARIANTS
  ParksOnlySleepingArray
  ShownStandbyIsRecent
PROPERTIES
  ParkedTogether
  WakeNoticed
CHECK_DEADLOCK FALSE
