SPECIFICATION FairSpec
CONSTANTS
  NumofConcurrentSend = 3
  Threads = {t1, t2, t3}
  NoThread = NoThread
INVARIANTS
  TypeOK
  RequestsConserved
  ListIsFree
  CrashOnlyWhenEmpty
PROPERTIES
  ImplementsFifo
  LockReleased
  FinalizeNeverReturns
\* The process ends in the NULL dereference of an empty list.
CHECK_DEADLOCK FALSE
