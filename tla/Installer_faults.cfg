SPECIFICATION Spec
CONSTANTS
  DEVICE_SECTOR_SIZE = 2
  STOCK_PARTITION_COUNT = 3
  ALIGNMENT = 4
  ROOT_NUMBER = 4
  HOME_NUMBER = 5
  MIN_ANDROID = 4
  MIN_ROOT = 4
  MIN_HOME = 2
  Default <- MCDefault
  ReferenceDisk <- MCReferenceDisk
  Tablets = {"t1", "t2"}
  Tables <- MCTables
  Requests <- MCRequests
  MaxRuns = 3
  MaxFaults = 1
  MaxLosses = 2
INVARIANTS TypeOK Recoverable
PROPERTIES OnlyTheChosen HomeSurvives InstalledIsWhole
CHECK_DEADLOCK FALSE
