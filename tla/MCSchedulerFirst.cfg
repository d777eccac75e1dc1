SPECIFICATION Spec
CONSTANT MaxID = 3
INVARIANT FirstFailureReported
\* main returns, exits or faults in the end
CHECK_DEADLOCK FALSE
