\* Three calls of one or two events, a buffer of two, batches of two.
CONSTANTS
  Calls = 3
  MaxItems = 2
  Flushes = {f1}
  MaxBatchSize = 2
  MaxQueueSize = 2
  FailureLimits <- Limits
  Poison <- SomePoison
SPECIFICATION Spec
INVARIANTS
  TypeOK
  NothingLost
  NoIdleBacklog
  FlushMeansSent
PROPERTIES
  Serial
  ImplementsOutbox
  FlushReturns
  EnqueueReturns
\* The queue rests when its callers make no more calls.
CHECK_DEADLOCK FALSE
