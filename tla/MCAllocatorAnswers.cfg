SPECIFICATION FairSpec
CONSTANTS
  ZoneSize = 10
  HeaderSize = 2
  MinLeftover = 1
  Requests = {1, 3, 5}
PROPERTY AllocAnswers
\* exit(1), a fault and FreeAllocator end the program
CHECK_DEADLOCK FALSE
