SPECIFICATION ChannelSpec
CONSTANTS
  Sectors = {0, 1}
  Values = {a, b}
  NoValue = none
  Callers = {shell}
  Loops = 2
INVARIANTS SuccessIsTrue FoundIsDisk
PROPERTIES OthersKept StoreSpec CallsEnd IdentifyEnds
CHECK_DEADLOCK FALSE
