CONSTANTS
  p1 = p1
  p2 = p2
  p3 = p3
  PartDAG = PartDAG
  NoDag = NoDag
  Partition <- TwoParts
  Nobody = Nobody
  MaxEdges = 9
  MaxClientEdges = 2
  CounterMax = 7
  NumSlots = 1
  NumBlocks = 2
  NumKernels = 2
  KernelEdges <- TwoInARow
  AnyOrder = TRUE
  MaxTasks = 40
SPECIFICATION Spec
INVARIANT PartitionsInOrder
CHECK_DEADLOCK FALSE
