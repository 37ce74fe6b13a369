SPECIFICATION Spec
CONSTANTS
  Chosen <- Programs4
  MaxLines = 1
  MaxAlarms = 2
  Quanta <- OneTick
INVARIANT SchedulerKillsNobody
