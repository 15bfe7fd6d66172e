---------------------------- MODULE GpuResources ----------------------------
(***************************************************************************)
(* dagr's GpuExecutionResource: what the executors of one GPU share.  It    *)
(* holds the kernel-argument heap, the code loaded on the device, the table *)
(* of registered kernels, and the pools of queues and signals.  Executors   *)
(* come and go and borrow queues; every launch borrows a signal; a task     *)
(* takes a block of argument memory if its kernel's information says so.    *)
(* The information of a registered kernel never does: registerKernel and    *)
(* makeTask compile for kernels without arguments only (kernel.h:11-67).    *)
(* But GpuKernInfo is public, and a caller may make one with a size.        *)
(*                                                                         *)
(* What is borrowed comes back only where the code gives it back: queues in *)
(* the destructors of the executors, blocks that callers took from the heap *)
(* themselves.  Signals and the blocks of tasks never do (executor.h:81).   *)
(***************************************************************************)
EXTENDS KernArgHeap, FiniteSets

CONSTANTS
    Funcs,              \* kernel functions of the program
    Name,               \* function |-> its kernel's name in the code object
    Kernels,            \* names of kernels the program may register
    mExecutables,       \* for each code object loaded, the kernels in it
    Execs,              \* executors the program may have
    QBatch, SBatch,     \* batch sizes of the two pools
    MAX_ACTIVE_QUEUES,  \* 64 in the code
    MaxTasks,           \* bound: tasks made
    MaxSignals,         \* bound: signals borrowed
    MaxQueues,          \* bound: queues made
    MaxBlocks,          \* bound: argument blocks callers hold themselves
    RequestSizes        \* bound: what they ask the heap for, and the sizes of
                        \* the GpuKernInfos they make

(* The template arguments of the pools are positive.  A request fits in a    *)
(* big block: heapForSize asserts a little more (memory.h:210).              *)
ASSUME PoolAssumption ==
    /\ QBatch \in Nat \ {0}
    /\ SBatch \in Nat \ {0}
    /\ MAX_ACTIVE_QUEUES \in Nat
ASSUME RequestAssumption ==
    /\ \A f \in Funcs : Name[f] \in Kernels
    /\ RequestSizes \subseteq 0 .. MAX_ALLOC_SIZE

VARIABLES
    mKernInfoByName,    \* kernel name |-> its information
    mKernInfoByPtr,     \* function |-> the name its information is under
    tasks,              \* the tasks made: size of the arguments, and the block
    queuePool, queuesMade,
    sigPool, sigsMade,
    mQueues,            \* executor |-> the queues it holds; <<>> if it is not there
    signals             \* the signals borrowed, in order

regVars == <<mKernInfoByName, mKernInfoByPtr>>
queueVars == <<queuePool, queuesMade, mQueues>>
sigVars == <<sigPool, sigsMade, signals>>
gpuVars == <<heapVars, regVars, tasks, queueVars, sigVars>>

Queues == INSTANCE ResourcePool
              WITH BATCH_SIZE <- QBatch, mResPool <- queuePool, created <- queuesMade
Signals == INSTANCE ResourcePool
              WITH BATCH_SIZE <- SBatch, mResPool <- sigPool, created <- sigsMade

(* The resource has been constructed and not yet destroyed.                 *)
Up == DOMAIN mHeapsForSz # {}

Init ==
    /\ HeapInit
    /\ mKernInfoByName = <<>> /\ mKernInfoByPtr = <<>>
    /\ tasks = <<>>
    /\ Queues!PoolInit
    /\ Signals!PoolInit
    /\ mQueues = [e \in Execs |-> <<>>]
    /\ signals = <<>>

-----------------------------------------------------------------------------
(* kernelObjtectByName: the first code object that has the kernel.  The
   program aborts if none has.                                              *)
Having(k) == {i \in DOMAIN mExecutables : k \in mExecutables[i]}
FirstHaving(k) == CHOOSE i \in Having(k) : \A j \in Having(k) : i <= j

(* ArgBufSize<>: the only one there is.                                     *)
ArgBufSize == 0

KernInfo(k) ==
    [mKernArgBufSz |-> ArgBufSize,
     bucket |-> BucketOf(ArgBufSize),
     mKernObj |-> <<FirstHaving(k), k>>]

(* registerKernel(name): found, or looked up and given the heap of its size,
   which is made now though the kernel has no arguments.                    *)
Register(k) ==
    /\ Up
    /\ IF k \in DOMAIN mKernInfoByName
       THEN UNCHANGED <<mKernInfoByName, mHeapsForSz>>
       ELSE /\ Having(k) # {}
            /\ mHeapsForSz' = HeapForSize(ArgBufSize)
            /\ mKernInfoByName' = [n \in DOMAIN mKernInfoByName \cup {k} |->
                   IF n = k THEN KernInfo(k) ELSE mKernInfoByName[n]]

RegisterByName(k) ==
    /\ Register(k)
    /\ UNCHANGED <<hsaBlocks, given, mKernInfoByPtr, tasks, queueVars, sigVars>>

(* registerKernel(function pointer): the name is looked up once.            *)
RegisterByPtr(f) ==
    /\ f \notin DOMAIN mKernInfoByPtr
    /\ Register(Name[f])
    /\ mKernInfoByPtr' = [g \in DOMAIN mKernInfoByPtr \cup {f} |->
                             IF g = f THEN Name[f] ELSE mKernInfoByPtr[g]]
    /\ UNCHANGED <<hsaBlocks, given, tasks, queueVars, sigVars>>

(* makeTask of a registered kernel: no block.                               *)
MakeTask(k) ==
    /\ Len(tasks) < MaxTasks
    /\ k \in DOMAIN mKernInfoByName
    /\ mKernInfoByName[k].mKernArgBufSz = 0
    /\ tasks' = Append(tasks, [mKernArgBufSz |-> 0, mKernArgBuf |-> NullBlock])
    /\ UNCHANGED <<heapVars, regVars, queueVars, sigVars>>

(* makeTask of a GpuKernInfo(n, heapForSize(n), ...) of the caller's own: a
   block from that heap.                                                    *)
MakeOwnTask(n) ==
    /\ Up
    /\ Len(tasks) < MaxTasks
    /\ n # 0
    /\ \E blk \in Offered(HeapForSize(n), BucketOf(n)) :
          /\ HeapAllocate(HeapForSize(n), BucketOf(n), blk)
          /\ tasks' = Append(tasks, [mKernArgBufSz |-> n, mKernArgBuf |-> blk])
    /\ UNCHANGED <<regVars, queueVars, sigVars>>

(* Callers may use the heap themselves, and free what they took.            *)
TakenByTasks == {t.mKernArgBuf : t \in Range(tasks)}

TakeBlock(n) ==
    /\ Up
    /\ Cardinality(given \ TakenByTasks) < MaxBlocks
    /\ Allocate(n)
    /\ UNCHANGED <<regVars, tasks, queueVars, sigVars>>

FreeBlock(blk) ==
    /\ blk \notin TakenByTasks
    /\ Deallocate(blk)
    /\ UNCHANGED <<regVars, tasks, queueVars, sigVars>>

-----------------------------------------------------------------------------
(* The constructors of SerialOrderedExecutor, with one queue, and of
   SerialUnorderedExecutor, with as many as asked for and no more than
   MAX_ACTIVE_QUEUES.  The lower bound of one queue is lost (executor.h:242);
   an executor without a queue cannot launch anything.                      *)
NewExecutor(e, numQs) ==
    /\ Up
    /\ mQueues[e] = <<>>
    /\ LET n == IF numQs <= MAX_ACTIVE_QUEUES THEN numQs ELSE MAX_ACTIVE_QUEUES
           qs == Queues!Taken(n).got
       IN  /\ Queues!PoolAllocate(n, qs)
           /\ mQueues' = [mQueues EXCEPT ![e] = qs]
    /\ queuesMade' <= MaxQueues
    /\ UNCHANGED <<heapVars, regVars, tasks, sigVars>>

(* Their destructors give the queues back in the order they took them.      *)
DestroyExecutor(e) ==
    /\ mQueues[e] # <<>>
    /\ Queues!PoolDeallocate(mQueues[e])
    /\ mQueues' = [mQueues EXCEPT ![e] = <<>>]
    /\ UNCHANGED <<heapVars, regVars, tasks, sigVars>>

Borrow(n) ==
    LET sigs == Signals!Taken(n).got
    IN  /\ Len(signals) + n <= MaxSignals
        /\ Signals!PoolAllocate(n, sigs)
        /\ signals' = signals \o sigs

(* launchTask borrows the completion signal, startBatch one for every queue
   and the final one; the ordered executor only the final one.              *)
LaunchTask(e) ==
    /\ mQueues[e] # <<>>
    /\ Borrow(1)
    /\ UNCHANGED <<heapVars, regVars, tasks, queueVars>>

StartBatch(e) ==
    /\ Len(mQueues[e]) > 1
    /\ Borrow(Len(mQueues[e]) + 1)
    /\ UNCHANGED <<heapVars, regVars, tasks, queueVars>>

(* waitOnTask waits for the signal and leaves it with the handle: whoever
   has a copy may wait again.                                               *)
MutWaitOnTask(s) ==
    /\ s \in Range(signals)
    /\ Signals!PoolDeallocate(<<s>>)
    /\ UNCHANGED <<heapVars, regVars, tasks, queueVars, signals>>
WaitOnTask(s) ==
    /\ s \in Range(signals)
    /\ UNCHANGED gpuVars

(* The members are destroyed in the reverse order of their construction: the
   pools destroy what they hold, the heap returns its big blocks.           *)
DestroyResource ==
    /\ Up
    /\ \A e \in Execs : mQueues[e] = <<>>
    /\ Signals!PoolDestroy
    /\ Queues!PoolDestroy
    /\ mKernInfoByName' = <<>> /\ mKernInfoByPtr' = <<>>
    /\ DestroyHeaps
    /\ UNCHANGED <<tasks, mQueues, signals>>

Next ==
    \/ \E k \in Kernels : RegisterByName(k)
    \/ \E f \in Funcs : RegisterByPtr(f)
    \/ \E k \in Kernels : MakeTask(k)
    \/ \E n \in RequestSizes : MakeOwnTask(n)
    \/ \E n \in RequestSizes : TakeBlock(n)
    \/ \E blk \in given : FreeBlock(blk)
    \/ \E e \in Execs, n \in 1 .. MAX_ACTIVE_QUEUES + 1 : NewExecutor(e, n)
    \/ \E e \in Execs : DestroyExecutor(e)
    \/ \E e \in Execs : LaunchTask(e)
    \/ \E e \in Execs : StartBatch(e)
    \/ \E s \in Range(signals) : WaitOnTask(s)
    \/ DestroyResource

Spec == Init /\ [][Next]_gpuVars

-----------------------------------------------------------------------------
(* The assertion of makeTask (executor.h:55), for every task ever made: its
   block is at least as large as its kernel's information says, begins at a
   multiple of MIN_ALLOC_SIZE, and shares no byte with the block of another
   task.  The heap knows a block that comes back by its size alone
   (memory.h:207-245), so a block on the stack of a larger size would be
   handed to a task it is too small for.                                    *)
TasksHaveRoom ==
    /\ \A i \in DOMAIN tasks :
          LET blk == tasks[i].mKernArgBuf
          IN  /\ SizeOf(blk) >= tasks[i].mKernArgBufSz
              /\ blk.beg % MIN_ALLOC_SIZE = 0
    /\ \A i, j \in DOMAIN tasks :
          i # j => Bytes(tasks[i].mKernArgBuf) \cap Bytes(tasks[j].mKernArgBuf) = {}

(* A queue is in one place: in the pool or with one executor; none is lost.
   Two executors writing packets to one queue of a single producer would
   overwrite each other's.  At the end every queue made was destroyed
   (queue.h:57, executor.h:152-156, 244-253).                               *)
Holders == {e \in Execs : mQueues[e] # <<>>}
QueuesInOnePlace ==
    /\ IsInjective(queuePool)
    /\ \A e \in Holders : IsInjective(mQueues[e]) /\ Range(mQueues[e]) \cap Range(queuePool) = {}
    /\ \A e, f \in Holders : e # f => Range(mQueues[e]) \cap Range(mQueues[f]) = {}
    /\ Range(queuePool) \cup UNION {Range(mQueues[e]) : e \in Holders} = 1 .. queuesMade

(* No signal is lent twice, even after its task was waited for: a handle may
   be waited on again, and a signal that had gone back to the pool would
   then stand for another task (executor.h:81-87, 127-134).                 *)
SignalsLentOnce ==
    /\ IsInjective(signals)
    /\ Range(signals) \cap Range(sigPool) = {}

-----------------------------------------------------------------------------
(* The inductive invariant.  Nothing that is borrowed from the resource, and *)
(* no registration, outlives it; while it is up                              *)
(*   - a kernel's information is that of no arguments, and its heap is made, *)
(*   - a task with a size holds a block of its own, large enough,            *)
(*   - the signals at hand and the signals lent are among those made.        *)
TypeOK ==
    /\ DOMAIN mKernInfoByName \subseteq Kernels
    /\ tasks \in Seq([mKernArgBufSz: 0 .. MAX_ALLOC_SIZE, mKernArgBuf: Blocks \cup {NullBlock}])
    /\ queuePool \in Seq(Nat) /\ queuesMade \in Nat
    /\ sigPool \in Seq(Nat) /\ sigsMade \in Nat
    /\ mQueues \in [Execs -> Seq(Nat)]
    /\ signals \in Seq(Nat)

DownInv ==
    ~Up => /\ DOMAIN mKernInfoByName = {}
           /\ given = {}
           /\ Holders = {}

InfoInv ==
    \A k \in DOMAIN mKernInfoByName :
        LET info == mKernInfoByName[k]
        IN  /\ info.mKernArgBufSz = ArgBufSize
            /\ info.bucket = BucketOf(info.mKernArgBufSz)
            /\ info.bucket \in DOMAIN mHeapsForSz
            /\ mHeapsForSz[info.bucket].made

RoomFor(n, blk) ==
    IF n = 0
    THEN blk = NullBlock
    ELSE /\ blk \in Blocks
         /\ blk.beg % MIN_ALLOC_SIZE = 0
         /\ blk.end = blk.beg + RoundUp(n)

TasksInv ==
    /\ \A i \in DOMAIN tasks : RoomFor(tasks[i].mKernArgBufSz, tasks[i].mKernArgBuf)
    /\ \A i, j \in DOMAIN tasks :
          i # j => Bytes(tasks[i].mKernArgBuf) \cap Bytes(tasks[j].mKernArgBuf) = {}
    /\ Up => TakenByTasks \subseteq given \cup {NullBlock}

SignalInv ==
    /\ SignalsLentOnce
    /\ IsInjective(sigPool)
    /\ Up => Range(signals) \cup Range(sigPool) \subseteq 1 .. sigsMade

IInv == /\ TypeOK
        /\ DownInv
        /\ HeapInv
        /\ InfoInv
        /\ TasksInv
        /\ QueuesInOnePlace
        /\ SignalInv
=============================================================================
