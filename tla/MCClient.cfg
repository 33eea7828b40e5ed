SPECIFICATION Spec
CONSTANTS
  NumofConcurrentSend = 2
  Threads = {t1, t2}
  Descriptors = {3, 4, 5}
INVARIANTS
  TypeOK
  SendBudget
  DeathIsExplained
  SessionOwnsSocket
  LeaksAreFailedConnects
PROPERTIES
  AppKeepsDescriptors
\* The process ends in a NULL dereference.
CHECK_DEADLOCK FALSE
