SPECIFICATION FairSpec
CONSTANT MAX_OF_NODES = 6
INVARIANTS
  ChainIsReachable
  PostConditionHolds
PROPERTIES
  Terminates
  ImplementsStack
\* The run ends when the init process is done.
CHECK_DEADLOCK FALSE
