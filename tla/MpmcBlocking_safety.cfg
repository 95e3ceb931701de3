SPECIFICATION FairSpec
CONSTANTS
  Producer = {p1, p2}
  Consumer = {c1, c2}
  Value = {v1, v2}
  None = None
  MAXSIZE = 2
  Modulus = 4
  Quota = 5
INVARIANTS TypeOK ConsumersAwake ProducersAwake
PROPERTIES ImplementsFifo Termination
\* The threads stop when they have made their calls.
CHECK_DEADLOCK FALSE
