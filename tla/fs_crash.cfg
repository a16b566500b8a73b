SPECIFICATION Spec
CONSTANTS
  Names = {a}
  NoName = none
  NumSlots = 2
  NumFrames = 6
  FramesPerSector = 6
  RegionSize = 2
  Sizes = {}
  ReadLimits = {1}
  OldDisks <- FrameDisk
  MaxId = 3
  CrashPoints <- NotWhileRemoving
INVARIANTS RegionsDisjoint


