SPECIFICATION Spec
CONSTANTS
  FSAmount = 2
  NameAmount = 2
  MaxFlags = 3
  OpenMax = 3
  BufferSize = 2
  HomeFile = {"a", "b"}
  RomFile = {"a", "cut", "empty"}
  EmptyFile = {"empty"}
  CutFile = {"cut"}
  Text <- MCText
  Block = {k1, k2}
  NULL = NULL
SYMMETRY Symmetry
INVARIANTS
  TypeOK
  TableInOrder
  OnlyMisreadsStray
  OneWriteLands
CHECK_DEADLOCK FALSE
