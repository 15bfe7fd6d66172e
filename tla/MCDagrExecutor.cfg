CONSTANTS
  NumQs = 2
  QueueSize = 2
  BarrierDeps = 5
  Kernel = {k}
  MaxTasks = 3
  MaxBatches = 2
  MaxUnread = 2
SPECIFICATION FairSpec
INVARIANTS NothingLost SignalsExact HandleMeansDone DependentBatchWaits InLaunchOrder
PROPERTY LaunchedCompletes
CHECK_DEADLOCK FALSE
