SPECIFICATION FairSpec
CONSTANTS
  Names = {a}
  NoName = none
  NumSlots = 2
  NumFrames = 4
  FramesPerSector = 4
  RegionSize = 2
  Sizes = {1017, 2033}
  ReadLimits = {5000}
  OldDisks <- NewAndUsedDisks
  MaxId = 2
  CrashPoints = {}
PROPERTIES NeverWild RegionsInsideSector CallsReturn
