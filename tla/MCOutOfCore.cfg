CONSTANTS
  p1 = p1
  p2 = p2
  p3 = p3
  PartDAG = PartDAG
  NoDag = NoDag
  Partition <- ThreeParts
  Nobody = Nobody
  MaxEdges = 9
  MaxClientEdges = 2
  CounterMax = 7
  NumSlots = 2
  NumBlocks = 2
  NumKernels = 2
  KernelEdges <- TwoInARow
  AnyOrder = FALSE
  MaxTasks = 40
SPECIFICATION FairSpec
INVARIANTS WorksOnOwnData SlotsTakeTurns PartitionsInOrder AllDoneOnReturn
PROPERTY ExecuteReturns
CHECK_DEADLOCK FALSE
