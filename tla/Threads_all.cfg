SPECIFICATION Spec
CONSTANTS
  Value = {v1, v2}
  None = None
  Raw = Raw
  capacity_ = 3
  MaxPos = 8
  Adder = {a1, a2, a3}
  Remover = {r1, r2, r3}
  Worker = {w1, w2, w3}
  Client = {c1, c2}
  Job = {j1, j2, j3}
  NoJob = NoJob
  Thread = {t1, t2}
  Node = {n1, n2, n3}
  Null = Null
  Empty = Empty
  CopyThrows = TRUE
  Locker = {t1, t2, t3, t4}
  Modulus = 4
  Reader = {r1, r2, r3}
  Writer = {w1, w2}
  Nobody = Nobody
INVARIANTS SlotInv JobsCovered JobsKept OwnNodes Exclusion BoundedWait ServedInOrder
PROPERTIES InOrder EveryoneFinishes EveryJobRuns LockFree EveryoneServed DeadlockFree
\* The destructors and the threads of main come to an end.
CHECK_DEADLOCK FALSE
