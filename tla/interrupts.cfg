SPECIFICATION FairSpec
CONSTANTS
  NumTasks = 2
  Lines = {0, 1, 5, 8, 14}
  Values = {u, v}
  Clobbered = clobbered
INVARIANTS NothingLeft TaskStateKept
PROPERTIES EoiIsOwn Served
CHECK_DEADLOCK FALSE
