SPECIFICATION Spec
CONSTANTS
  NULL = NULL
  Name = {n1}
  File = {f1}
  Buffer = {b1, b2, b3}
  Widths = {1, 2}
  Lengths = {3}
  Reserves = {}
  MaxInt = 15
  WordSize = 2
  Slack = 1
  AreaSize = 2
  MaxBin = 6
  MaxBack = 1
  MaxRewinds = 1
  MaxValues = 1
  MaxRefs = 1
  MaxMacros = 1
  MaxDepth = 1
SYMMETRY Symmetry
INVARIANT CodeInPlace
\* exit(1) and stores gone wild end the program
CHECK_DEADLOCK FALSE
