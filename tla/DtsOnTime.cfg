SPECIFICATION Spec
CONSTANTS
  EventAddr = {e1}
  TimevalAddr = {v1}
  NoNumber = NoNumber
  Secs = {2}
  Usecs = {0}
  NULL = NULL
  Freed = Freed
  MaxId = 1
  MaxTime = 3
INVARIANT FiresOnTime
CHECK_DEADLOCK FALSE
