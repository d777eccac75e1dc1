SPECIFICATION Spec
CONSTANTS
  NULL = NULL
  Name = {n1}
  File = {f1, f2}
  Buffer = {b1, b2, b3}
  Widths = {2}
  Lengths = {}
  Reserves <- BackIntoAddress
  MaxInt = 15
  WordSize = 2
  Slack = 1
  AreaSize = 2
  MaxBin = 4
  MaxBack = 1
  MaxRewinds = 1
  MaxValues = 1
  MaxRefs = 1
  MaxMacros = 1
  MaxDepth = 3
SYMMETRY Symmetry
INVARIANTS
  OnlyHiddenErrorsStray
  IncludesNest
  RefsInRoom
  RetInRoom
\* exit(1) and stores gone wild end the program
CHECK_DEADLOCK FALSE
