SPECIFICATION Spec
CONSTANTS
  DEVICE_SECTOR_SIZE = 2
  STOCK_PARTITION_COUNT = 3
  ALIGNMENT = 4
  ROOT_NUMBER = 4
  HOME_NUMBER = 5
  MIN_ANDROID = 4
  MIN_ROOT = 4
  MIN_HOME = 2
  Default <- MCDefault
  ReferenceDisk <- MCReferenceDisk
  Tablets = {"t1"}
  Tables <- CapacityTables
  Requests <- CapacityRequests
  MaxRuns = 1
  MaxFaults = 0
  MaxLosses = 0
INVARIANTS CapacityFollows
CHECK_DEADLOCK FALSE
