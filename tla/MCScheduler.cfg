SPECIFICATION FairSpec
CONSTANT MaxID = 5
INVARIANTS
  TypeOK
  QueueLinked
  CurrentRuns
  NoBadFree
PROPERTIES
  RoundRobin
  EveryoneRuns
\* main returns, exits or faults in the end
CHECK_DEADLOCK FALSE
