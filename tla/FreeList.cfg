CONSTANTS
  Addr <- MCAddr
  Sizes <- MCSizes
  NoAddr = NoAddr

SPECIFICATION Spec

\* A double free panics and ends the simulation.
CHECK_DEADLOCK FALSE

INVARIANT TypeOK
INVARIANT SizeIsFree
PROPERTY ImplementsAbstract
