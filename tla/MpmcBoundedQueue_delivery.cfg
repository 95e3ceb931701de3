SPECIFICATION FairSpec
CONSTANTS
  Producer = {p1, p2}
  Consumer = {c1, c2}
  Value = {v1}
  None = None
  Capacity = 2
  StaleReads = FALSE
  MaxPos = 3
PROPERTIES EnqueueRefusal DequeueRefusal Delivered
