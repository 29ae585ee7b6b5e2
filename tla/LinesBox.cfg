CONSTANTS
  limit = 8
  Heights <- MCHeights
SPECIFICATION LinesSpec
INVARIANTS
  LinesInv
  LinesShown

