SPECIFICATION FairSpec
CONSTANTS
  Producer = {p1, p2}
  Consumer = {c1, c2}
  Value = {v1}
  None = None
  MAXSIZE = 2
  Modulus = 4
  Quota = 4
PROPERTIES WaitsEnd
\* The threads stop when they have made their calls.
CHECK_DEADLOCK FALSE
