SPECIFICATION FairSpec
CONSTANTS
  Dino = {d}
  Folder = {f, g}
  Faults = {"read", "write"}
  MaxCommands = 4
  MaxSessions = 2
INVARIANTS
  Inv
  TableTrue
PROPERTIES
  Progress
  AwakeExitApplies
