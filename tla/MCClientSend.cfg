SPECIFICATION Spec
CONSTANTS
  NumofConcurrentSend = 2
  Threads = {t1}
  Descriptors = {3}
INVARIANTS
  ValidSendAccepted
CHECK_DEADLOCK FALSE
