SPECIFICATION Spec
CONSTANTS
  Chosen <- ProgramNames
  MaxLines = 2
  MaxAlarms = 3
  Quanta <- MCQuanta
INVARIANTS
  TypeOK
  WaitsForEveryChild
  CountCoversChildren
  CommandsStartTogether
  NoNullProcess
PROPERTIES
  GateOpenedOnce
  MainEnds
  EveryCommandEnds
