# A TLA+ model of DAGEE

DAGEE executes graphs of tasks on GPUs and CPUs. Nothing in it is large, but what it promises is about *when* things
run and about *who owns* what: a task after its predecessors, a call returning after all its tasks, a buffer reused
after its last user, an argument block, a queue or a signal in the hands of one. The modules here model the parts of
the library that make those promises and the algorithms they rest on, TLC checks them on small instances, and TLAPS
proves the safety properties of the graph traversal, of the executors built on it, of the queues, and of what is
shared, for graphs, queues and heaps of every size.

Paths below are relative to the root of the repository (`src/` in `PROJECT.json`). `dagee/` stands for
`DAGEE-lib/include/dagee/` and `dagr/` for `DAGEE-lib/include/dagr/`.

## 1. Inventory

The library is single-threaded ("DAGEE classes and functions are not thread-safe", `doc/tutorial.dox:170`); its
concurrency is between the one calling thread and what it has handed to the device or to the ATMI runtime.

| Component | State | Operations | Interacts with | What makes it correct |
|---|---|---|---|---|
| Graph container and traversal, `dagee/TaskDAG.h` | node list of a DAG; per node successor and predecessor lists, predecessor count, working counter | `addNode`, `addEdge`, `addEdgeIfAbsent`, `clear`, `forEachNode`, `forEachNode_TopoOrder` | the callback given to a traversal makes tasks | a traversal visits each node of an acyclic graph once, predecessors first, every time, whatever happened to the graph before |
| DAG memory, `DAGmanager`, `MixedTaskDag` (same file) | node data of three kinds, each node a tagged pointer to its own | `makeDAG`, `addNode`, `clear`, `~MixedTaskDag` | executors | every node's data is its own, of the type its tag says, and freed once |
| ATMI DAG executors, `dagee/ATMIdagExecutor.h`, `ATMImixedDAGexecutor.h` | handle in each node; local vectors of source and sink handles | `execute`, `executeParallel` | traversal; `makeInternalTask` of the GPU, CPU and copy executors; ATMI | tasks run after their predecessors; the call returns when all have run |
| Task executors over ATMI, `ATMIgpuExecutor.h`, `ATMIcpuExecutor.h`, `ATMImemCopyExecutor.h`, `ATMIcoreDef.h` | caches of registered kernels | `registerKernel`, `makeTask`, `launchTask`, `waitOnTask(s)` | ATMI | one ATMI kernel per function; arguments laid out as the kernel reads them |
| Out-of-core executor, `OutOfCoreATMIexecutor.h`, `Partition.h` | device buffers (slots); slot, source and sink task of each partition | `makeDeviceDataBuffers`, `preparePartitionDAG`, `executePartitionDAG` | traversal of two kinds of DAG; ATMI | partitions sharing a slot take turns; results are copied back before the slot is reused |
| User-mode queue, `dagr/queue.h` | HSA queue and the write index cached beside it | `giveOneSlot`, `submitPackets` | the packet processor of the GPU, through memory and a doorbell | a packet is written only over one that has been read |
| dagr executors, `dagr/executor.h`, packets in `dagr/kernel.h` | one or several queues; a round-robin index; the signals of a batch | `launchTask`, `launchAndForget`, `startBatch`, `startBatchWithDep`, `addToBatch`, `launchBatch`, `finishBatch`, `waitOnTask` | queues, signal pool, packet processor | a handle that has fired stands for completed work; a dependent batch waits |
| Level-by-level executor, `dagr/dagExecutor.h` | current and next level | `executeFromHost`, `executeFromCP` | unordered executor | as for the ATMI executors |
| Kernel-argument heap, device memory, `dagr/memory.h`, `cpputils/Heap.h` | heaps by size, each a stack of free blocks and the big blocks they are cut from; regions of each agent | `allocate`, `deallocate`, `heapForSize`, `registerRegion` | `makeTask`, HSA | no byte in two blocks; a task's block as large as promised, in the region meant for arguments |
| Resource pools, `cpputils/Allocator.h`; the vector-based set, `cpputils/Container.h` | objects at hand; elements in a vector | `allocate`, `deallocate`, `replenish`; `insert`, `erase` | signals, queues; `DeviceMemManager` | an object is in one place; an element stays until it is erased |
| GPU resource, `dagr/executor.h`, `dagr/kernel.h` | heap, loaded code, registered kernels by name and pointer, both pools | `registerKernel`, `makeTask`, executors made and destroyed | all of the above | what executors borrow comes back, or stays theirs |
| Code-object and kernel-name discovery, `dagee/ProgInfo.h`, `dagr/binary.h` | code blobs; function pointer to kernel name | walk over loaded objects, parse, look up | ELF reader (vendored elfio), the linker | each function pointer leads to its own kernel's code |
| Buffer managers, `dagee/ATMIalloc.h`, `DeviceAlloc.h`, `Partition.h` | the buffers given out; blocks of a partition; device slots | `makeDeviceCopy`, `makeSharedCopy`, `makeDeviceDataBuffers`, destructors | HIP, ATMI | every allocation is held by what frees it; blocks of a slot do not overlap |
| Facades and leftovers: `SingleDAGexecutor.h`, `Gauge.h`, `DataParFor.h`, `HIPsyncExecutor.h`, `HSAexecutor.h` | | `addTask` | DAG executors | forwarding only, or not compilable |
| `cpputils/`: matrices, sparse matrices, bit operations, command line, timers | values | pure functions | examples | agreement with a definition by element, position or interval |

**How the parts interact.** A DAG executor walks a graph with `forEachNode_TopoOrder`; the callback reads the
handles its node's predecessors got earlier in the same walk and makes a task that requires them. Tasks that require
nothing are activated at the end; the call then waits for the tasks of the sinks. The out-of-core executor does this
on two levels, with copies between. The dagr executors do without ATMI: they write packets into queues the GPU
reads, and learn of completion from signals.

**What is hard here.**

- State left over from an earlier execution: counters and task handles stay in the nodes, and DAGs are reused.
- Tasks that run while the graph is still being turned into tasks. ATMI cannot create a copy without launching it,
  so a copy may have finished before its successors exist.
- Waiting for less than everything: only sinks are waited for, only sources activated, one signal stands for a
  batch.
- Sharing: slots between partitions, queue slots between packets, one signal among the kernels of a queue.
- Limits: a full queue, a barrier packet with five dependences, counters at zero, sizes at the edge of a block.
- Copies and caches: task instances copied into nodes while ATMI is given addresses inside them; kernels shared by
  all functions of a type; stacks of free blocks to which anything may be returned.

The list of hazards, each at its line and with the properties that would catch it, is in `PROJECT.json`.

## 2. Modules

| Module | Models | Extends or instantiates |
|---|---|---|
| `TaskDAG` | `DAGbase` with predecessor and successor lists; `forEachNode_TopoOrder` one loop iteration at a time | |
| `TaskDAGProofs` | theorems about it | `TaskDAG`, `ListLemmas` |
| `ListLemmas` | lemmas on ranges of lists, on counting, on division, and an induction principle | |
| `DagExecutorProofs` | theorems about `DagExecutor` | `DagExecutor`, `ListLemmas`; instance of `TaskDAGProofs` |
| `DagrExecutorProofs` | theorems about `DagrExecutor` | `DagrExecutor`, `ListLemmas` |
| `BfsExecutorProofs` | theorems about `BfsExecutor` | `BfsExecutor`, `ListLemmas`; instance of `DagrExecutorProofs` |
| `OutOfCoreExecutorProofs` | theorems about `OutOfCoreExecutor` | `OutOfCoreExecutor`, `ListLemmas`; instance of `TaskDAGProofs` |
| `AtmiExecutorProofs` | theorems about `AtmiExecutor` and the layout of arguments | `AtmiExecutor`, `ListLemmas` |
| `GpuResourcesProofs` | theorems about `GpuResources`, its heap and its pools; about `Buffers` | `GpuResources`, `Buffers`, `ListLemmas` |
| `TaskExecution` | abstract: what every DAG executor promises | |
| `DagExecutor` | `executeParallel` of both ATMI DAG executors, ATMI around it | instance of `TaskDAG`; implements `TaskExecution` |
| `DagrExecutor` | `DispatchQueueSerial`, packets, both dagr executors, the packet processor around them | |
| `BfsExecutor` | `StaticDAGExecutorBFS` | instance of `DagrExecutor`; implements `TaskExecution` |
| `OutOfCoreExecutor` | `preparePartitionDAG`, `executePartitionDAG` | instance of `TaskDAG` |
| `AtmiExecutor` | the front end over ATMI: `AtmiGpuExecutor`, `AtmiCpuExecutor`, the copy executor, `MixedTaskDag`'s node data | `ArgPacking` |
| `GpuResources` | dagr's `GpuExecutionResource` and what borrows from it | `KernArgHeap`; two instances of `ResourcePool` |
| `KernArgHeap` | `KernArgHeap` over `FixedSizeHeapImpl` | |
| `ResourcePool` | `ResourcePoolImpl` | |
| `ArgPacking` | layout of the arguments of dagee's kernels, and how ATMI reads them back | |
| `ProgInfo` | `KernelSectionParser`, `KernelPtrToNameLookup` | |
| `Buffers` | `AllocManagerAtmi`, `DeviceBufferManager`, `PartHostData`, `PartDeviceData` | |
| `LaunchGrid` | launch dimensions over ATMI and in packets | |
| `HsaBase` | agents, regions, packet headers, `barrierTreeSize` and the packets `makeBarrierTree` writes | |
| `TreeDag` | `cojoinedTreeDag` of `dagrTests/treeDagLaunch.cpp` | |
| `VectorSet` | `VectorBasedSet` | |
| `BitUtil`, `Matrices`, `SparseMatrix`, `CmdLine`, `Timer` | the headers of `cpputils/` of these names (`Matrix.h` and `MatrixHelper.h` in `Matrices`) | |
| `MC...` | values of the constants for TLC | one component each, but `MCAlgorithms`: `BfsExecutor`, `ProgInfo`, `Buffers` and the modules without state |

Definitions whose names begin with `Mut` are not part of the model: each is a wrong version of the definition after
it, used to make sure that a property would notice such a bug.

### TaskDAG

The variables hold the nodes of all DAG objects: `allNodes` is `mAllNodes`, `succs` and `preds` the adjacency lists,
`numPred` and `depCounter` the two counters (`TaskDAG.h:61-130`). `AddEdge` allows a repeated edge: the assertion
against it is compiled out of the default build (`RelWithDebInfo`), as is the one against an edge from a node to
itself, which the model allows too. It also allows longer cycles. A traversal takes one
step per loop iteration (`ScanNode`, `Visit`, `DecrementSucc`), because the callback of `Visit` makes tasks and the
modules above interleave other activity there. `visited` is a history variable; no guard reads it, except that
`Last(visited)` stands for the local variable `p` of the inner loop.

### DagExecutor

`BeginDag`, `Walk`, `MakeTask` and `EndDag` are the traversal's steps with the effect of the callback added;
`MakeTask` makes the task, stores its handle in the node and collects it as a source or sink, as the callback does.
`Activate` and `WaitSink` are the loops of `impl::activateTasks` and `impl::waitOnTasks`. ATMI is `StartTask` and
`FinishTask`: a task starts when what it requires has finished. `status` keeps the tasks of all calls, since nodes
keep their handles; `made` describes those of the current call. A node that has never been executed holds
`NoHandle`; ATMI would take it as a task it does not know, and the model lets it be passed over, the outcome under
which more tasks run too early. `RequiresThisWalk` shows that no task ever requires one.

`TaskExecution` is the promise: jobs are submitted with dependences, each runs once and after those it depends on,
and the call returns when all are done. `KeepsPromise` maps the concrete state to it: a job is a node of an element
of the argument list, because a DAG may be listed twice.

### DagrExecutor

A call of an executor is a list of steps `todo`: find a queue that is not full (`PickNext` is one turn of the loop
in `nextQid`), write a packet (`PutNext`), ring a doorbell (`RingNext`), construct a batch (`BatchNext`). Between
two steps the device moves. `hsaWrite` and `readIndex` are the indices the HSA runtime keeps; `mWriteIndex` is the
copy in `DispatchQueueSerial`, which holds *the index before the last increment*. A packet is written in one step;
what the device could see of a half-written one is listed as a hazard and not modelled. A barrier packet may check
its signals at one moment, because after it has been written they only fall.

Signals are taken from a pool that is never short (it grows) and never returned; a signal is its position in the
sequence `signal`.

### BfsExecutor

`StartLevel`, `AddNode`, `LaunchLevel`, `WaitLevel` and `Return` are the loop of `executeFromHost` and
`executeFromCP`, which differ in what the next level waits for. Each makes one call of `DagrExecutor` and waits for
its steps. The graph is a set of edges, as `LevelBag` is a set of nodes in which the number and order of edges is
lost.

### OutOfCoreExecutor

The DAG of partitions is an instance of `TaskDAG`; `AssignSlot` is the callback that deals out the slots. The tasks
of a partition are made one at a time in the order of `Program`, and `Requires` says what each waits for: the null
tasks between the stages, the copies between host and device, and the kernels of the partition's own DAG. That DAG
is the same for all partitions, a constant, and given in topological order, since what `forEachNode_TopoOrder` does
on it is covered by `TaskDAG`. `slotData` is what the copies leave in the device buffers. `mSinkTask` is not
initialised (`Partition.h:138`): a new partition's is any handle, of a task there is or of none; what holds does not
depend on which.

### AtmiExecutor

The program's view: register a function and get a `KernelInfo`, make an instance with arguments, copy it into a node,
destroy the original, launch it from where it is. A slot is the address of an instance, and ATMI reads what is at the
address when the task is given to it (`Read`, `Called`, `Given`), so a stale address shows as the wrong function or
argument. An instance carries its arguments as `ArgPacking` lays them out: one pass over the types for the offsets and
the size, a second that puts each argument in its place, and a reading at the offsets by the kernel's own types, which
finds garbage where the bytes are not those of one argument. CPU functions of one type share a wrapper and so an ATMI
kernel (`Key`); the function's own address is in the `KernelInfo`. A node's data is `<<type index, address>>`, what
`MultiTypePtr` packs into one word; that the packing can be undone is `TagsAgree` of `BitUtil`.

`clear` of a `MixedTaskDag` leaks the data of its nodes, and the model has the leak: `ClearDAG` forgets the
addresses, and the slots stay taken. `makeDAG` of a DAG executor does not record the DAG, so `DAGmanager` never
destroys one: `DestroyDAG` is the destructor of a DAG the program owns.

### GpuResources

The executors of one GPU and what they share. `Register` looks the kernel up in the code objects in order and makes
the heap for a kernel without arguments, the only kind there is: `ArgBufSize` and `packKernArgs` compile for no
argument (section 5). `MakeTask` of a registered kernel therefore takes no block. But `GpuKernInfo` and its constructor
are public and the heaps are handed out by size, so a caller may make one with a size of its own; `MakeOwnTask` is
`makeTask` on it, and takes a block. `TasksHaveRoom` is the assertion there (`executor.h:55`), for every task made so
far. What is in the block is then the caller's business. A block is the big block it is cut from and two offsets.

`NewExecutor` and `DestroyExecutor` take queues from a pool and return them, `LaunchTask` and `StartBatch` take signals,
which `waitOnTask` does not return. `SignalsLentOnce` is what the lines commented out at that FIXME (`executor.h:131`)
would break, as its mutant does: a handle may be waited on by two holders. It says nothing against the code's own
choice, which is to lose a signal with every launch and batch; the model has that growth, bounded by `MaxSignals`.

### ProgInfo

Two walks over the loaded objects, one bundle or object at a time: code blobs are cut out of `.hip_fatbin`, then the
stub functions of each symbol table are entered under their run-time addresses. A name is a sequence of characters,
as far as the conversion looks at them: the digits. `Found` says that each function pointer of every object leads to
the name its code is under, *except* for names in `Misread`: see the end of the next section.

### Buffers

Every allocation has the allocator it is from. `BuffersAccounted` says each is held once by an object whose
destructor frees it with the matching call, or was made by the constructor of `PartDeviceData`, where a local
variable shadows the member, so that it is never freed. That leak is described, not caught: the property would notice
another one.

### Algorithms

`HsaBase`, `LaunchGrid`, `TreeDag`, `VectorSet`, `BitUtil`, `Matrices`, `SparseMatrix`, `CmdLine` and `Timer` are
functions of their input, a list of calls for `Timer` and `VectorSet`: loops are folds, a word is the set of its
one-bits, a matrix in memory a set of elements at positions. Each ends with what it is compared with: a definition by
position, by element, by line of the file, by what the words of a command line mean, by interval of time, or by how
often an element was inserted and erased. `TreeDag` ends with what the level-by-level executor needs of a DAG, which
is the precondition of `LevelsKeepOrder`: `TestDagsLevelled` says that the DAGs the repository runs on it have it.
`MCAlgorithms` evaluates them in initial states, one input each; in others it runs `BfsExecutor`, `ProgInfo` or
`Buffers`, so that a behaviour is that of one of them.

## 3. What the runs show

| Run | Instance | States | Shows |
|---|---|---|---|
| `task_dag` | 2 DAGs, 4 nodes, 4 edges | 897 526 | all safety properties of the traversal; no step goes back |
| `dag_executor` | 2 DAGs, 2 kernels and a copy, 2 edges, 2 DAGs per call, 4 tasks | 1 135 358 | `KeepsPromise`, the invariants behind it, and the return |
| `dagr_executor` | 2 queues of 2 slots, 3 kernels, 2 batches | 133 378 | handles, dependences, order, completion |
| `dagr_queue_overwrite` | one packet more than the queue holds | violation | a kernel is lost |
| `dagr_barrier_deps` | one queue more than a barrier holds | violation | a batch's handle fires early |
| `bfs_unlevelled` | a graph with a shortcut | violation | a node runs beside its predecessor, and twice |
| `out_of_core` | 3 partitions, 2 slots, 2 blocks, 2 kernels | 327 757 | turns in a slot, own data, order, return |
| `out_of_core_order` | 2 partitions without edges, 1 slot | violation | a partition starts before its predecessor |
| `gpu_resources` | 2 kernels in 2 code objects, 2 executors, 2 big blocks, 2 tasks, 3 signals | 724 580 | blocks, queues and signals are in one place, and tasks have room |
| `atmi_front_end` | a GPU function, 2 CPU functions of one type, 3 instances, 2 DAGs, a task | 2 711 452 | the task runs what its instance was made for, with its arguments |
| `bfs_and_algorithms` | 3 levelled graphs of 4 nodes, 3 queues, 2 calls; processes of up to three objects; 3 allocations; all words of 4 bits, matrices up to 4 by 4, files of 3 edges, command lines of 3 items, machines of 2 agents, grids of 4-bit sizes, test DAGs of up to 3 levels and degree 3, 4 calls of a set of 3 elements | 175 125 | `KeepsPromise`, both calls return, the test DAGs are levelled; kernels found, buffers held, the algorithms right |
| `barrier_tree_size` | 2 to 100 signals | violation | the number of barrier packets is not the one needed |

Whether a traversal returns is split in two, so that it can be proved: no step goes back (`TraversalAdvances`,
proved), each step moves a bounded index or list, and the run `task_dag`, which checks for deadlock, finds a next
step in every state.

### Bounds, and why they are enough

- **Nodes and edges.** Four nodes and four edges hold a diamond, a repeated edge beside others, a cycle with a tail, an
  edge from a node to itself, and two DAGs of two nodes each. Counters go up to four and reach zero from above along
  different edges, which is all the loop distinguishes. The theorems take the bound away.
- **Earlier state.** The graphs change between traversals and calls, in every order, so the leftovers of a traversal
  of one graph meet the next one. Four tasks allow a graph of two nodes to be executed twice, a graph of one and one of
  three to follow each other, and one DAG of two nodes to be listed twice.
- **Queues.** `QueueSize = 2` with three kernels, final barriers and dependence barriers makes every queue wrap
  around. `MaxUnread` says how many unread packets a client lets a queue hold. At `QueueSize` the executor is
  correct; at `QueueSize + 1` the first finding appears. So in the passing runs the loops that wait for a full queue
  never turn: they could only begin to after a packet has been overwritten.
- **Barriers.** `BarrierDeps` is 5, as in the code, where queues are at most three; the run that shows what happens
  beyond it has one dependence and two queues instead of five and six.
- **Partitions.** Three partitions in two slots is the first case where a slot has two users and another partition
  lies between; 40 tasks allow one execution of three partitions or two of two, with edges added and the graph
  prepared again in between.
- **Instances.** Three addresses hold an original, its copy in a node and one more that takes the place of a
  destroyed one; two functions of a type are the fewest that share a kernel, two DAGs the fewest that could share
  data.
- **Heaps and pools.** `MIN_ALLOC_SIZE` 4 and `MAX_ALLOC_SIZE` 16 give blocks that fill a big block and one size,
  12, that leaves a rest; batches of 2 make a pool refill while objects are out. No request rounds up to more than
  the last bucket: the code's assertion (`memory.h:210`) and a build without it, where the vector is read past its
  end.
- **Algorithms.** Words of four bits have masks of every shape: empty, full, one run, two; the leading dimension is
  larger than the columns in half of the matrices, and tiles of 2 and 3 do not divide 4 by 4 evenly. Four calls insert,
  erase and insert again with elements before and behind, and an element twice. Levels up to 3 with degree up to 3 give
  every kind of level, the lone child of degree 1 included.

A run without a symmetry set checks liveness or needs none. `CHECK_DEADLOCK FALSE` is set where the model really may
stop: the client makes no further call when a bound is reached.

### Fairness

`FairSpec` adds weak fairness of the steps of the calling thread, which is a plain loop that blocks nowhere but in
the waits modelled by guards, and of the runtime or device: what may start does, and every kernel ends. Nothing is
assumed about the client. `ProgInfo` is a loop without a wait: weak fairness of its steps is that the thread runs.

### Disagreements between code and documentation

Each of the five violation runs is a finding in `PROJECT.json`:

1. `DispatchQueueSerial::full()` compares an index that lags by one, so a full queue takes one more packet, over an
   unread one.
2. More queues than a barrier packet has dependences (the constructor allows 64) leave signals out of a batch's
   final barrier. The assertions that would stop this are not in the default build: `numPreds <= 5` in
   `PacketFactory::init` (`kernel.h:288`) fails from six queues on, and `numBarrierPkts == 1` in `launchBatch`
   (`executor.h:328`) already with five, where the batch would be right: see 5.
3. `StaticDAGExecutorBFS` takes *all* successors of a level as the next level. On graphs where all paths to a node
   are equally long, as in `dagrTests/treeDagLaunch.cpp`, this is right; on others a node runs several times and too
   early.
4. `executePartitionDAG` makes tasks in insertion order, but the edges that make partitions take turns follow the
   order of `forEachNode_TopoOrder`, which takes the last source first. `out_of_core` shows that the executor is
   right when the two orders agree (`AnyOrder = FALSE`).
5. `barrierTreeSize` is documented as the number of barrier packets a tree reduction needs (`kernel.h:298-302`), and
   `makeBarrierTree` takes arrays of that size (`kernel.h:314-315`). Its loop rounds up the packets of a level but goes
   on with the quotient rounded down, so it gives 2 for five signals, where one packet is enough, 7 for 25 instead of
   6, and one too few for one to four more than a multiple of 25 (26 need 9 and get 8). `launchBatch` calls it
   (`executor.h:327`) for its assertion alone; `makeBarrierTree`, which would write past its arrays, has no caller.

### Where the code does otherwise than it seems

We know of no document that says otherwise, so these are not findings; the properties state them exactly, so that
they are checked too.

- A kernel's name is restored wrongly if its scope ends in digits and either taking 15 off the length borrows a
  digit (lengths 16 to 24 become 1 to 9, 100 to 114 become 85 to 99) or the digits begin with 0: `Misread`,
  `KernelsFound`.
- `Matrix::getSubMat` compares the columns asked for with `cols() - subCols` (`Matrix.h:94`), so it clips where it
  need not and does not where it should; `SubMatShowsParent` holds for what it returns.
- `PartDeviceData` never frees its memory: `BuffersAccounted`.
- The size of a grid is a product of two 32-bit members and wraps, also where it is then stored in a longer field;
  a packet keeps 16 bits of a workgroup's size: `RunsAsAsked`.
- A timer that is stopped twice counts the time between: `CountsUpToStops`.
- `BitUtil<T*>::setBitsByMask` forwards to `setBits`, which takes a list, and does not compile if used.

## 4. What is proved

Each `...Proofs` module proves about the module it is named after, for every value of the constants that the named
assumptions of that module allow: any sets of DAGs, nodes, kernels, functions and addresses, any number of queues,
slots, blocks and edges, and any value of the bounds that only keep TLC's instances small. Every hypothesis beyond
those is in the table, with the run that shows it is needed. Each module first proves `Invariance`, that `IInv` is
an invariant, and then that `IInv` implies each property. `IInv` was checked by TLC on small instances before it was
proved; no configuration lists it, since the theorem says more, but naming it as `INVARIANT` in one repeats that.
The exception is `BufInv` of `Buffers`, which speaks of infinite sets of numbers; TLC checked its conclusion only.

### TaskDAG

| Theorem | Says |
|---|---|
| `TypeCorrect` | `Spec => []TypeOK`; no loop index leaves its list |
| `Invariance` | `Spec => []IInv` |
| `Mirrored` | both ends of an edge agree, repeated edges included |
| `CountersExact` | a counter is the number of edges not yet released, so it never wraps |
| `QueuedNodesAreReady` | the assertion of the main loop (`TaskDAG.h:376`) |
| `VisitsInOrder` | each node at most once, after its predecessors |
| `LeavesOutOnlyBehindCycle` | a node left out has a predecessor left out |
| `ReachesAllNodes` | a traversal of an acyclic graph visits every node |
| `Advances` | no step of a traversal goes back, on any graph |

The properties are not inductive: that a node is visited after its predecessors depends on its
counter having counted exactly the edges still to come, which depends on what the first pass has reset, on both
adjacency lists holding each edge equally often, and on nodes belonging to one DAG. `IInv` says all of this:
`GraphInv` of the graph, `ScanInv` of the first pass, `CounterExact`, `QueueReady` and `MainLoopInv` of the main
loop. The set of pending edges of a node is the heart of it: a step of the inner loop releases one edge, takes it
out of one such set and lowers one counter (a lemma on removing one element from a finite set), and a node is queued
by the step that empties its set. At the end no node has been queued and not visited, so a node left out has a
pending edge, whose source was not visited; if the graph is acyclic the set of nodes left out would have a first
member, and so is empty.

### DagExecutor

| Theorem | Says |
|---|---|
| `WaitsForThisWalk` | `RequiresThisWalk`: a task requires only tasks made earlier in the same walk |
| `PredecessorsFirst` | `RunsAfterPreds` |
| `NothingLeftOnReturn` | `AllDoneOnReturn`: sources activated and sinks waited for are enough |
| `Refinement` | `KeepsPromise`: every behaviour is one of `TaskExecution` |

Every step is a step of `TaskDAG` or leaves the graph alone, so `D!IInv` of `TaskDAGProofs` holds here. `MadeInv`
says which tasks the current walk has made, that the handle of every visited node is one of them and that what a
task requires are the handles of its predecessors *of this walk*; the topological order is what makes those handles
fresh. `AllDoneOnReturn` needs the opposite direction: of the tasks that are not done when all sinks are, take the
last made; it is not a sink, so some later task requires it and is not done either. The refinement has one step for
each action: a task is made without changing the promise's state, started when its requirements are done, and the
call returns when nothing is left.

### OutOfCoreExecutor, under `~AnyOrder`

| Theorem | Says |
|---|---|
| `TurnsInSlots` | `SlotsTakeTurns`: no copy in while another user of the slot is between its own copies |
| `InOrder` | `PartitionsInOrder` |
| `OwnDataInSlot` | `WorksOnOwnData` |
| `NothingLeftOnReturn` | `AllDoneOnReturn` |

Partitions are added in the order of their edges; `out_of_core_order` is what happens otherwise. A partition's tasks
are put in stages, and what a stage requires is the stage before, so "done" spreads backwards. This is stated without
recursion: a set of tasks that holds, with each task, those it requires is *closed*, and `Leads` says of two tasks
that every closed set with the one has the other. Tasks run after all that they lead to (`RunInv`); each task of a
partition leads to its null tasks, those lead to the last task of the slot's previous user, and so the slot's content
(`DataInv`) is what the partition copied.

### AtmiExecutor

| Theorem | Says |
|---|---|
| `TasksRunWhatWasAsked` | `RunsWhatWasAsked`: the function and arguments ATMI runs are those of the instance that was made, for every signature |
| `KernelsAreReleasedOnce` | `KernelsReleasedOnce` |
| `NodesOwnTheirData` | `NodeDataOwnedOnce`: no instance belongs to two nodes, and its type is the one of the tag |

The invariant adds what is registered (`KernelInv`), that a `KernelInfo` keeps pointing to its function's own ATMI
kernel and wrapper (`InfoInv`), and that an address a node holds has an instance of the kind its tag says (`InstInv`),
which every action that moves an instance has to preserve for *all* nodes. That arguments are read back whole
(`PackedIsReadBack`) rests on the layout: the recursive function of the ends exists and moves past each argument, by
induction over the number of arguments in a form that names a set, since the library's theorem with an operator
parameter cannot be used; so the places are apart, aligned and inside the buffer, and each byte is covered once.

### GpuResources

| Theorem | Says |
|---|---|
| `NoBlocksOverlap` | `BlocksApart`: no byte is in two blocks, whether given out or at hand |
| `TasksAlwaysHaveRoom` | `TasksHaveRoom`: every task's block is large enough, aligned, and no other task's |
| `EveryQueueInOnePlace` | `QueuesInOnePlace` |
| `NoSignalLentTwice` | `SignalsLentOnce` |

The heap part is arithmetic: a request is rounded to a multiple of `MIN_ALLOC_SIZE`, a big block is cut from the front
into blocks of its heap's size, and the last cut ends inside it. A block on a free list has the size of its heap,
whatever path it came by, so the one a task gets is the request rounded up and starts at a multiple of
`MIN_ALLOC_SIZE`; and a task never gives its block back, so no later one can have it. The pools' part is that
returning what was taken, and nothing else, keeps an object in one place.

### Buffers

| Theorem | Says |
|---|---|
| `BuffersStayAccounted` | `BuffersAccounted`: every allocation in use is held once, from its allocator; the blocks of the slots are apart and inside their slot's memory |

`BufferAssumption` is the types of the code: sizes are `size_t`, and the runtimes return null only for no memory.
The proof is at the end of `GpuResourcesProofs`. `BufInv` adds that the lists of the three
managers and the constructors' memory have no address in common, for what one destructor frees to be on no other
list; that no `PartDeviceData` has a pointer to free; and where the blocks of a slot lie. A block begins at the sum of
the sizes before it, a fold over a set. That sum is shown to be the number of cells of as many columns as the set has
elements (`SumIsCells`), by set-form induction on the size of the set, whatever element the fold takes first; then
"behind each other" and "inside" are inclusions of finite sets. The slots have addresses of their own unless there is
not one byte to lay out, and then no block has a byte.

### DagrExecutor

| Theorem | Under | Says |
|---|---|---|
| `KeepsEveryKernel` | `MaxUnread <= QueueSize` | `NothingLost` |
| `SignalsCount` | the same | `SignalsExact`: a signal is as high as what will still lower it |
| `BatchesWait` | the same | `DependentBatchWaits` |
| `OrderedRunsInOrder` | the same | `InLaunchOrder` |
| `HandlesMeanDone` | the same, `NumQs <= BarrierDeps` | `HandleMeansDone` |

`dagr_queue_overwrite` and `dagr_barrier_deps` show that both hypotheses are needed. `RingInv` says that the slots with
packets are those of the indexes not read yet, from which, with the room `TodoInv` finds for each packet still to be
written, no packet is overwritten. `OnceInv` keeps a packet that lowers a signal in one place, so that the sets
`SignalsExact` counts lose one element when the signal falls by one; `LinkInv` and `OwnerInv` say whose signal it is.
`DepInv` finds in each queue a barrier before any kernel of a dependent batch; `ClosedInv` finds the barrier that
still has to lower a batch's final signal, or its kernels done. `OrderInv` is about the ordered executor alone: the
n-th kernel is written at index n - 1, and a barrier bit lets at most one run.

### BfsExecutor

| Theorem | Under | Says |
|---|---|---|
| `TypeCorrect` | `MaxUnread <= QueueSize` | `Spec => []TypeOK`, on any graph |
| `EachKernelOnce` | the same | `KernelsOnce`: a kernel has one packet, and none once it is complete, on any graph |
| `LevelsKeepOrder` | the same, `NumQs <= BarrierDeps`, graphs with `Depths(g) # {}` | `RunsAfterPreds` |
| `Refinement` | the same | `KeepsPromise`: every behaviour is one of `TaskExecution` |

`Depths(g) # {}` says that the nodes can be numbered so that each edge goes from one number to the next: all paths
to a node are equally long. `bfs_unlevelled` shows that it is needed, `dagr_queue_overwrite` and `dagr_barrier_deps`
that the other two are. Every step is a step of `DagrExecutor` or leaves it alone, so `IInv` of `DagrExecutorProofs`
holds here; the two instances of that module have the same definitions, which is the first lemma. `ExecInv` holds on
any graph: besides the types, which batch a call is filling and on which handle that batch depends. `LevelInv` holds
on levelled ones: the level in progress is the set of nodes at some depth `k`, exactly the nodes before it have been
handed over, each once, and the batch of a node depends on the batch of its predecessors (`executeFromCP`) or its
predecessors are done (`executeFromHost`). A kernel starts only if what its batch depends on is at zero
(`BatchesWait`), and a final signal at zero means that all kernels of its batch are done (`HandlesMeanDone`). That
`executeFromCP` may return when the last level is done goes back from level to level: each has a kernel, which has
run, so the level before it is done.

### Left to TLC

Liveness and whatever depends on fairness (`ExecuteReturns`, `LaunchedCompletes`, `KernelsFound`), which is beyond the
prover; and the algorithms (`SpeaksHsa`, `MatricesKeepElements`, `ToolsAgree`, `TestDagsLevelled`), which are folds
and recursive functions over words, matrices and command lines. Induction over data is in the library only in a form
the installed provers cannot instantiate. Where a theorem rests on one, a set-form induction stands in for it (layout
of arguments, sums of block sizes); each algorithm would need one of its own.

## 5. What is not modelled

- Arguments of dagr's kernels, because a kernel with arguments cannot be compiled: the end of the recursion in
  `ArgBufSize` is specialized for `<CURR_SZ, void, void>` (`kernel.h:31-34`), which the recursion never reaches, so
  `ArgBufSize<T...>` has no value for any argument, and `packKernArgs` expands an array of expressions without a value
  (`kernel.h:66`). All of the repository's programs register and launch dagr kernels without arguments.
- The build of `makeBarrierTree`: nothing calls it, and its call of `init` has the arguments in another order than
  any overload. `HsaBase` has only the number of packets it is written to make. Were it to compile, `i - numPreds` at
  `kernel.h:329` would wrap, and the last packet of a level would read past its predecessors.
- The argument types of dagee's `makeTask` against those of `registerKernel`: nothing compares them, and the model
  passes arguments of the registered types, as every example does.
- `DAGmanager::withID`: its constructor call fits no DAG class here. `destroyDAG` without IDs takes an element off
  an empty vector, and nothing calls it.
- The eager order of tasks launched with predecessors through `launchTask`: `AtmiExecutor` passes them to ATMI
  unchanged, and what ATMI makes of them is `DagExecutor`'s subject.
- The contents of buffers, and copies between them, but for the partitions' data in `OutOfCoreExecutor`.
- A packet half written; the functions that wait for a signal by spinning or by blocking, which differ in nothing
  but time.
- `OutOfCoreSynchronousExecutor`, `HSAexecutor.h`, `HIPsyncExecutor.h`: instantiated nowhere; they include headers
  that are not there or do not compile. `Gauge.h` uses members DAGs do not have, `DataParFor.h` has an operator
  without a return type, `hsaMemPool.h` uses types declared nowhere, `AlignedAllocator.h` overrides nothing,
  `Stat.h`'s `stdDev` calls a function that is not there, `DeviceMemManager` (`dagr/memory.h`) does not compile
  beyond its constructor and destructor (which erases from the set it iterates over, `memory.h:272-276`, harmless
  while nothing can be put into it), `BLASwrap.h` wraps calls.
- Error returns of ATMI and HSA calls. The library prints or exits and has no recovery.
- elfio (vendored), examples, scripts, build files and printing.

## 6. Plan

Done: every module of section 2 and the theorems of section 4. What would come next, by weight:

1. Writing a packet in two steps, with what the device may see of it.
2. Partitions without blocks in `OutOfCoreExecutor`, where the null task after no copies is activated by nobody.

## 7. Running it

    tlc -workers 2 -config MCDagExecutor.cfg MCDagExecutor
    tlapm DagExecutorProofs.tla

and likewise for the other modules. `DagrExecutorProofs` and `OutOfCoreExecutorProofs` take some minutes each,
`BfsExecutorProofs` about two.
