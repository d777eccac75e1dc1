\* A call takes at most three words and its number: four words are enough.
SPECIFICATION Spec
CONSTANTS W = 2  Depth = 4  RDepth = 1  NumRegs = 1
INVARIANT TypeOK
PROPERTY StackPromise
CHECK_DEADLOCK FALSE
