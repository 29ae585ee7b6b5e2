CONSTANTS
  t1 = t1
  p1 = p1
  p2 = p2
  p3 = p3
  p4 = p4
  NoPlayer = NoPlayer
  NoTribe = NoTribe
  NoRecord = NoRecord
  Tribe <- MCTribe
  Player <- MCPlayer
  Visitor <- MCVisitor
  Name <- MCName
SPECIFICATION CommandSpec
SYMMETRY Symmetry
INVARIANTS
  Inv
  Replayed
  TeamTrue
