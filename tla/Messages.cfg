CONSTANTS
  Base <- MCBase
  PartSize = 8
  Values <- MCValues
  MaxValues = 3
  Stats <- MCStats
  MaxReq = 2
SPECIFICATION MessagesSpec
INVARIANTS
  MessagesInv
  RoundTrip
