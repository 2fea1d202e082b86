\* A flush after close(), with one event whose POST fails.
CONSTANTS
  Calls = 2
  MaxItems = 1
  Flushes = {f1}
  MaxBatchSize = 1
  MaxQueueSize = 1
  FailureLimits = {0}
  Poison <- NoPoison
SPECIFICATION Spec
PROPERTIES
  CloseReleasesFlushes
CHECK_DEADLOCK FALSE
