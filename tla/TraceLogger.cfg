CONSTANTS
  t1 = t1
  t2 = t2
  NoOwner = NoOwner
  Threads <- MCThreads
  Script <- MCRaceScript
  SignalEvent <- BlockEntry
  MaxSignals = 1
  JoinChoices = {TRUE, FALSE}
  kJsonBufSize = 4096

SPECIFICATION Spec

\* The program exits once its hooks have run and the log is closed.
CHECK_DEADLOCK FALSE

INVARIANT WholeLines
INVARIANT NoEventLost
INVARIANT LoopIterPerThread
PROPERTY TerminatesUnlessSelfDeadlocked
