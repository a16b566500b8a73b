SPECIFICATION Spec
CONSTANTS
  Names = {a}
  NoName = none
  NumSlots = 2
  NumFrames = 6
  FramesPerSector = 2
  RegionSize = 2
  Sizes = {0, 1016}
  ReadLimits = {2000}
  OldDisks <- FrameDisk
  MaxId = 3
  CrashPoints = {}
INVARIANTS
  TypeOK
  MarksAccounted
  ReadsOwnBytes
CHECK_DEADLOCK TRUE
