SPECIFICATION Spec
CONSTANTS
  Thread = {t1, t2, t3}
  Node = {n1, n2, n3}
  Null = Null
  Value = {v1, v2}
  None = None
  Empty = Empty
SYMMETRY Symmetry
INVARIANTS NoUseAfterFree EachNodeOnce
PROPERTIES ImplementsStack
