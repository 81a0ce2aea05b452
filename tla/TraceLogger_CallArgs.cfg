CONSTANTS
  t1 = t1
  t2 = t2
  NoOwner = NoOwner
  Threads = {t1}
  Script <- MCLongCallScript
  SignalEvent <- BlockEntry
  MaxSignals = 0
  JoinChoices = {TRUE}
  kJsonBufSize = 4096

SPECIFICATION Spec

\* The program exits once its thread is joined and the log is closed.
CHECK_DEADLOCK FALSE

INVARIANT CallRecordInBounds
