SPECIFICATION FairSpec
CONSTANT MAX_OF_NODES = 8
INVARIANTS
  MonitorInvariant
  NodesAreIndexed
  DeliveredInOrder
  DeliveredAtMostTwice
PROPERTIES
  EveryNodeDelivered
\* Once the enqueuer is done and the queue dry, only `fire' is left to offer.
CHECK_DEADLOCK FALSE
