SPECIFICATION Spec
CONSTANTS
  LONG_PRESS = 3
  SHORT_PRESS_MIN = 1
  RECONNECT = 2
  ACTION_TIMEOUT = 5
  STALE = 60
  RESTART = 1
  Lag = 1
  BufSize = 2
  MaxTime = 7
  MaxPresses = 3
  MaxFaults = 1
INVARIANTS TypeOK OneActionPerPress ShortWasShort Answered StopsInTime
CHECK_DEADLOCK FALSE
