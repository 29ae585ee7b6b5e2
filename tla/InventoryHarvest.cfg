CONSTANTS
  MaxUnits = 3
  MaxDepth = 3
SPECIFICATION Spec
INVARIANTS
  Inv
  ReportsTrue
