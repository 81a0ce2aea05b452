CONSTANTS
  Inputs <- MCInputs
  kInvalidLoopId = kInvalidLoopId

SPECIFICATION Spec

\* Both compiles terminate; the composition stops when both are done.
CHECK_DEADLOCK FALSE

INVARIANT DescriptorsIdentical
