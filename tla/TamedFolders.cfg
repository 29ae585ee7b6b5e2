CONSTANTS
  Bounds <- MCBounds
SPECIFICATION TamedSpec
INVARIANTS
  TamedInv
  
PROPERTIES
  QueueServed
CHECK_DEADLOCK FALSE
