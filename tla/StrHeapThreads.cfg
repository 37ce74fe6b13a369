SPECIFICATION Spec
CONSTANTS
  Thread = {t1, t2}
  NoThread = NoThread
  String = {s1}
  NoString = NoString
  Node = {n1, n2, n3}
  NoNode = NoNode
  NULL = NULL
  Pinned = {}
  MaxHeld = 2
SYMMETRY Symmetries
INVARIANTS
  StoredOnce
