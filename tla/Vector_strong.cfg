SPECIFICATION Spec
CONSTANTS
  Vec = {v, w}
  Value = {x, y}
  Null = Null
  Dead = Dead
  Raw = Raw
  Moved = Moved
  Broken = Broken
  MaxSize = 3
  MaxBlock = 3
PROPERTY StrongGuarantee
