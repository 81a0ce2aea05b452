CONSTANTS
  t1 = t1
  t2 = t2
  NoOwner = NoOwner
  Threads <- MCThreads
  Script <- MCScript
  SignalEvent <- BlockEntry
  MaxSignals = 1
  JoinChoices = {TRUE}
  kJsonBufSize = 4096

SPECIFICATION Spec

\* The program exits once its threads are joined and the log is closed.
CHECK_DEADLOCK FALSE





PROPERTY Termination
