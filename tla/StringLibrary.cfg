SPECIFICATION LibrarySpec
CONSTANTS
  String = {a, b, c}
  IdLimit = 1
  DefaultId = 2
  MaxUses = 2
  MaxSessions = 3
  MaxWrong = 1
SYMMETRY Symmetry
INVARIANTS
  LibraryInv
  DefinedForGood
  
