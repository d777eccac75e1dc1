SPECIFICATION Spec
CONSTANTS
  Trees <- MCTrees
  Lists <- MCTrees
  PackAll <- Packed
  Strings <- MCStrings
  Path <- MCPath
  MaxWord = 64
  Junk = {0, 3}
  Extent = 7
INVARIANTS
  TypeOK
  CompleteReads
  
PROPERTIES
  DrivePromise
CHECK_DEADLOCK FALSE
