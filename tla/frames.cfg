SPECIFICATION PmmSpec
CONSTANTS
  FrameSize = 2
  MemoryMaps <- Maps
INVARIANTS BitmapSafe FramesAccounted
