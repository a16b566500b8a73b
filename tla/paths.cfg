SPECIFICATION Spec
CONSTANTS
  Names = {a, b}
  NoName = none
  File = file
  Dir = dir
  SlotCount = 3
  MaxId = 4
  Paths <- Typed
INVARIANTS ResolveIsWalk PwdLeadsBack
PROPERTIES MadeIsFound
SYMMETRY NameSymmetry
