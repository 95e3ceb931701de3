SPECIFICATION Spec
CONSTANTS
  Thread = {t1, t2, t3}
  Node = {n1, n2, n3}
  Null = Null
  Value = {v1, v2}
  None = None
  Empty = Empty
  MaxPtr = 2
  NoThread = NoThread
  MaxEnding = 2
SYMMETRY Symmetry
INVARIANTS TypeOK NoUseAfterFree EachNodeOnce
PROPERTIES ImplementsStack
\* When all threads have ended nothing more happens.
CHECK_DEADLOCK FALSE
