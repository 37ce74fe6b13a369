SPECIFICATION Spec
CONSTANTS
  x = x
  y = y
  String = {x, y}
  Line <- MCLine
  NoLine = NoLine
  Row = {r1, r2, r3, r4, r5}
  NoRow = NoRow
  DEFAULT_CAPACITY = 1
  MaxCapacity = 4
SYMMETRY Symmetries
INVARIANTS
  TypeOK
  CountsMatchRows
  RowsOwned
PROPERTIES
  ImplementsList
