SPECIFICATION Spec
CONSTANTS
  NULL = NULL
  Name = {n1, n2}
  File = {}
  Buffer = {b1, b2, b3}
  Widths = {1, 2}
  Lengths = {}
  Reserves <- BackOverAddress
  MaxInt = 15
  WordSize = 2
  Slack = 1
  AreaSize = 2
  MaxBin = 6
  MaxBack = 1
  MaxRewinds = 1
  MaxValues = 2
  MaxRefs = 2
  MaxMacros = 0
  MaxDepth = 0
SYMMETRY Symmetry
INVARIANTS
  TypeOK
  RefsInRoom
  LabelsInRoom
  AddressesCurrent
\* exit(1) and stores gone wild end the program
CHECK_DEADLOCK FALSE
