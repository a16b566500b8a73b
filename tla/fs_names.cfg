SPECIFICATION Spec
CONSTANTS
  Names = {a, b}
  NoName = none
  NumSlots = 3
  NumFrames = 1
  FramesPerSector = 1
  RegionSize = 1
  Sizes = {8}
  ReadLimits = {1}
  OldDisks <- TextDisk
  MaxId = 3
  CrashPoints <- AnyPoint
INVARIANTS IdsOrdered
PROPERTIES NamespaceSpec
SYMMETRY NameSymmetry
