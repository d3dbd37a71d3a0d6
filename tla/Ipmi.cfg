CONSTANTS
  Zones = {0, 1}
  NamedZones = {0, 1, 7}
  Registers = {16, 23}
  Values = {"low", "high"}
  ServiceBudget = 3
  ClientBudget = 1
SPECIFICATION FairSpec
INVARIANTS
  SettledBeforeControl
  WaitBounded
  ClientChangesNothing
  LevelsLand
PROPERTIES
  GateEnds
