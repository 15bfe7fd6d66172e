CONSTANTS
  n1 = n1
  n2 = n2
  n3 = n3
  n4 = n4
  Node <- NodeSet
  Graphs <- Unlevelled
  NumQs = 2
  QueueSize = 8
  BarrierDeps = 5
  MaxTasks = 6
  MaxBatches = 6
  MaxUnread = 8
SPECIFICATION Spec
INVARIANT RunsAfterPreds
CHECK_DEADLOCK FALSE
