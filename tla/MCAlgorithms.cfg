CONSTANTS
  n1 = n1
  n2 = n2
  n3 = n3
  n4 = n4
  Node <- NodeSet
  Graphs <- Levelled
  NumQs = 3
  QueueSize = 8
  BarrierDeps = 5
  MaxTasks = 8
  MaxBatches = 6
  MaxUnread = 8
  Images <- MCImages
  Address = {a1, a2, a3}
  VarName = {blk1, blk2}
  BlockSize = {1, 2}
  MaxSlots = 2
SPECIFICATION AlgSpec
INVARIANTS
  TypeOK
  BuffersAccounted
  SpeaksHsa
  TestDagsLevelled
  MatricesKeepElements
  ToolsAgree
PROPERTIES
  KeepsPromise
  ExecuteReturns
  KernelsFound
CHECK_DEADLOCK FALSE
