\* Two DAGs over two kernels and a copy with up to two edges, executed alone,
\* together or twice in one call, changed and executed again, up to four tasks.
SPECIFICATION FairSpec
CONSTANTS
  d1 = d1
  d2 = d2
  k1 = k1
  k2 = k2
  c1 = c1
  Dag <- TwoDags
  NoDag = NoDag
  Node <- ThreeNodes
  CopyNode <- OneCopy
  MaxEdges = 2
  CounterMax = 255
  MaxList = 2
  MaxTasks = 4
INVARIANTS
  RequiresThisWalk
  RunsAfterPreds
  AllDoneOnReturn
PROPERTY
  KeepsPromise
  ExecuteReturns
