SPECIFICATION SmallSpec
CONSTANTS
  Threads = {t1, t2, t3}
  NoThread = nobody
  NTICKETS = 2
  Blocking = {t1, t2}
  MaxSpurious = 1
  MaxItems = 3
  NUMBER = 3
  MaxLine = 5
  MaxArray = 5
  Elements = {e1, e2, e3}
  NoElement = none
  DEFAULT_STACK_CAPACITY = 2
  Capacities = {0, 1}
  MaxCapacity = 4
  InputLines <- MCLines
  InputKeys <- MCKeys
  MaxInt = 127
  Nothing = nothing
INVARIANTS
  TicketsConserved
  NoDangling
  EndsReaped
  WordsAsScanned
  NumbersReadBack
  RowUnderHeader
  SortsStably
PROPERTIES
  ImplementsPool
  ImplementsStack
  ShutdownEnds
  AllItemsFreed
