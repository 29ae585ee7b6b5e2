SPECIFICATION OnlineTimeSpec
CONSTANTS
  Ms = 2
  Interval = 2
  MaxTime = 8
  MaxSetBacks = 1
  MaxMessages = 2
  MaxCalls = 2
  Player = {p}
  W = 6
INVARIANTS
  OnlineTimeInv
  ReportsAddUp
PROPERTIES
  ElapsedPace
