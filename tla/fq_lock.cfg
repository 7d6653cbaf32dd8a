SPECIFICATION Spec
CONSTANTS
    QueueOf <- Flows  NumQueues = 2  QueueSize = 2  Batch = 2  RingSize = 3
INVARIANT LockReleased
CHECK_DEADLOCK FALSE
