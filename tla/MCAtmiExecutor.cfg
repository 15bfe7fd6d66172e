SPECIFICATION Spec
CONSTANTS
  g = g
  f1 = f1
  f2 = f2
  w = w
  x1 = x1
  x2 = x2
  GpuFunc = {g}
  CpuFunc = {f1, f2}
  Wrapper <- Wrappers
  Copy = {c}
  Signature <- Types
  Arg = {x1, x2}
  ArgLists <- Lists
  SYNCHRONOUS <- Sync
  Slot = {1, 2, 3}
  MaxKernels = 2
  MaxTasks = 1
  MaxDags = 2
SYMMETRY Symm
INVARIANTS
  RunsWhatWasAsked
  KernelsReleasedOnce
  NodeDataOwnedOnce
CHECK_DEADLOCK FALSE
