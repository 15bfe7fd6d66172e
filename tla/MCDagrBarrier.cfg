CONSTANTS
  NumQs = 2
  QueueSize = 2
  BarrierDeps = 1
  Kernel = {k}
  MaxTasks = 3
  MaxBatches = 2
  MaxUnread = 2
SPECIFICATION Spec
INVARIANT HandleMeansDone
CHECK_DEADLOCK FALSE
