SPECIFICATION Spec
CONSTANTS
  EventAddr = {e1, e2}
  TimevalAddr = {v1, v2, v3}
  NoNumber = NoNumber
  Secs = {2, NoNumber}
  Usecs = {0, NoNumber}
  NULL = NULL
  Freed = Freed
  MaxId = 3
  MaxTime = 2
SYMMETRY Symmetries
INVARIANTS
  TypeOK
  EachEventOnce
  RegisteredIdFindsEvent
  CancelHonoured
CHECK_DEADLOCK FALSE
