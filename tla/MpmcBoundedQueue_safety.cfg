SPECIFICATION Spec
CONSTANTS
  Producer = {p1, p2}
  Consumer = {c1, c2}
  Value = {v1, v2}
  None = None
  Capacity = 2
  StaleReads = TRUE
  MaxPos = 3
SYMMETRY Symmetry
INVARIANTS CellExclusive IInv
PROPERTIES ImplementsFifo
