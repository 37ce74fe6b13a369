SPECIFICATION Spec
CONSTANTS
  Thread = {t1}
  NoThread = NoThread
  String = {s1, s2, s3}
  NoString = NoString
  Node = {n1, n2, n3}
  NoNode = NoNode
  NULL = NULL
  Pinned = {}
  MaxHeld = 4
SYMMETRY Symmetries
INVARIANTS
  NothingLeaks
