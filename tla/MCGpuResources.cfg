SPECIFICATION Spec
CONSTANTS
    MIN_ALLOC_SIZE = 4
    MAX_ALLOC_SIZE = 16
    b1 = b1
    b2 = b2
    BigBlocks = {b1, b2}
    Funcs <- MCFuncs
    Name <- MCName
    Kernels <- MCKernels
    mExecutables <- MCExecutables
    e1 = e1
    e2 = e2
    Execs = {e1, e2}
    QBatch = 2
    SBatch = 2
    MAX_ACTIVE_QUEUES = 2
    MaxTasks = 2
    MaxSignals = 3
    MaxQueues = 4
    MaxBlocks = 1
    RequestSizes <- MCSizes
SYMMETRY Symm
INVARIANTS
    BlocksApart
    TasksHaveRoom
    QueuesInOnePlace
    SignalsLentOnce
CHECK_DEADLOCK FALSE
