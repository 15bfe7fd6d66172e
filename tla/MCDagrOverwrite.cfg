CONSTANTS
  NumQs = 1
  QueueSize = 2
  BarrierDeps = 5
  Kernel = {k}
  MaxTasks = 3
  MaxBatches = 2
  MaxUnread = 3
SPECIFICATION Spec
INVARIANT NothingLost
CHECK_DEADLOCK FALSE
