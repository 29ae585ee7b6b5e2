CONSTANTS
  Updaters = 2
  Statements <- MCStatements
  MaxLoads = 3
  MaxFaults = 2
SPECIFICATION PluginSpec
INVARIANTS
  PluginInv
  CleanLoadInstalls
PROPERTIES
  AheadForGood
  Progress
CHECK_DEADLOCK FALSE
