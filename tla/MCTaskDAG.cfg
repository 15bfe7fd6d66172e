\* Two DAGs over four node objects with up to four edges, built and cleared in
\* every order, cyclic graphs and repeated edges included, each traversed any
\* number of times between changes.
SPECIFICATION Spec
CONSTANTS
  d1 = d1
  d2 = d2
  n1 = n1
  n2 = n2
  n3 = n3
  n4 = n4
  Dag <- TwoDags
  NoDag = NoDag
  Node <- FourNodes
  MaxEdges = 4
  CounterMax = 255
SYMMETRY Symmetry
INVARIANTS
  TypeOK
  AdjacencyMirrored
  CounterExact
  QueueReady
  TopologicalOrder
  VisitsAll
  SkipsOnlyBehindCycle
PROPERTY
  TraversalAdvances
