SPECIFICATION FairSpec
CONSTANTS
  ZoneSize = 16
  HeaderSize = 2
  MinLeftover = 1
  Requests = {1, 2, 3, 5}
INVARIANTS
  TypeOK
  ListTilesZone
  CursorListed
  HeldBlocksUsed
  ReallocKeepsContents
  UsageBalances
PROPERTIES
  NullMeansFull
  HeapPromise
  SearchEnds
\* exit(1), a fault and FreeAllocator end the program
CHECK_DEADLOCK FALSE
