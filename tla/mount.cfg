SPECIFICATION FairSpec
CONSTANTS
  Totals = {64, 32832, 70000}
  TableSectors = 2
  Attempts = 2
  IdentifyOutcomes = {TRUE, FALSE}
INVARIANTS AreasMatch NeverHalfFormatted MountedIsOnDisk
PROPERTIES KeptUnlessUnreadable BootEnds
