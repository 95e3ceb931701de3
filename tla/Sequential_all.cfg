SPECIFICATION Spec
CONSTANTS
  base_ = 4
  max_bytes = 30
  Line = 4
  Type <- Types
  Sizeof <- Sizes
  Alignof <- Alignments
  n = 4
  Null = Null
  Object = Object
  Vec = {v, w}
  Value = {x, y}
  Dead = Dead
  Raw = Raw
  Moved = Moved
  Broken = Broken
  MaxSize = 3
  MaxBlock = 3
  Str = {s, t}
  Char = {c, d}
  Junk = Junk
  SSO_LEN = 2
  MaxLen = 3
  MaxBuffer = 2
  NoBlock = NoBlock
  Unspecified = Unspecified
  Top = 3
  Number = {1, 2, 3}
  MaxLength = 6
  Size = 5
  Byte = {x, y}
INVARIANTS PlacesOfTheirOwn EachChunkOnce SlotsInOrder TextKept Sorts Finds Moves
PROPERTIES ImplementsSequences NothingLost
\* An arena that is full and whose objects are freed does nothing more, nor do
\* strings when there are no more blocks.
CHECK_DEADLOCK FALSE
