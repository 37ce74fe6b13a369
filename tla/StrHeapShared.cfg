SPECIFICATION Spec
CONSTANTS
  Thread = {t1, t2}
  NoThread = NoThread
  String = {s1, s2}
  NoString = NoString
  Node = {n1, n2, n3}
  NoNode = NoNode
  NULL = NULL
  Pinned = {s1, s2}
  MaxHeld = 3
SYMMETRY Symmetries
INVARIANTS
  TypeOK
  PointersLive
  CountsExact
PROPERTIES
  ImplementsHeap
