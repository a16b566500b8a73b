SPECIFICATION FairSpec
CONSTANTS
  MaxTasks = 4
  Names = {shell, counter, job}
  Shell = shell
  Counter = counter
  NoName = none
  BootTasks = 1
  SleepTicks = 1
INVARIANTS TypeOK SlotsWhole
PROPERTIES StoppedStays TaskTableSpec Turns SleepEnds
