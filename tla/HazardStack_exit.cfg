SPECIFICATION Spec
CONSTANTS
  Thread = {t1, t2, t3}
  Node = {n1, n2, n3}
  Null = Null
  Value = {v1}
  None = None
  Empty = Empty
  MaxPtr = 2
  NoThread = NoThread
  MaxEnding = 3
SYMMETRY Symmetry
PROPERTIES DeletedUnseen
CHECK_DEADLOCK FALSE
