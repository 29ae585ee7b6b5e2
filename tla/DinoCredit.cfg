CONSTANTS
  c1 = c1
  c2 = c2
  c3 = c3
  s1 = s1
  s2 = s2
  Controller = {c1, c2, c3}
  Steam = {s1, s2}
  SteamOf <- MCSteamOf
  MaxPid = 3
  NoInfo = NoInfo
  Place = {here, there}
  Nowhere = Nowhere
  Off = Off
  Unnamed = Unnamed
  Address = {a1, a2}
  Null = Null
  Subjects = {"places", "dinos"}
SPECIFICATION CreditSpec
INVARIANTS
  PlayersInv
  LivePointers
  Tracked
  ReaderTrue
  CreditTrue
SYMMETRY MCSymmetry
VIEW MCView
