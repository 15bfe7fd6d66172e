----------------------------- MODULE BfsExecutor -----------------------------
(***************************************************************************)
(* StaticDAGExecutorBFS (dagr/dagExecutor.h) over SerialUnorderedExecutor: *)
(* a DAG is executed level by level, each level as one batch.              *)
(* executeFromHost waits for a level before it starts the next one;        *)
(* executeFromCP makes the device wait, each batch depending on the batch  *)
(* before, and itself waits for the last one only.                         *)
(***************************************************************************)
EXTENDS Integers, Sequences, SequencesExt, Functions, FiniteSets

CONSTANTS
  NumQs, QueueSize, BarrierDeps, MaxTasks, MaxBatches, MaxUnread, \* as in DagrExecutor
  Node,    \* nodes; each holds one kernel instance
  Graphs   \* the DAGs to execute: sets of edges <<a, b>> between nodes

ASSUME GraphAssumption    == Graphs \subseteq SUBSET (Node \X Node)
ASSUME ExecutorAssumption ==
  /\ NumQs \in 1..64
  /\ {QueueSize, BarrierDeps} \subseteq Nat \ {0}
  /\ {MaxTasks, MaxBatches, MaxUnread} \subseteq Nat

VARIABLES
  kind, ring, hsaWrite, readIndex, doorbell, signal, running,
  mWriteIndex, mCurrQid, todo, task, done, batch,   \* as in DagrExecutor
  call,    \* "idle", or which call is in progress: "host" or "cp"
  edges,   \* the DAG being executed
  loop,    \* where that call is: "level", "add" or "wait"
  level,   \* the set currPtr points to
  left,    \* nodes of the level not yet added to its batch
  prev,    \* the signal of the last batch of the call (prevBatchSig, th)
  before   \* history: the kernels handed over by earlier calls

X == INSTANCE DagrExecutor WITH Kernel <- Node

execVars == <<kind, ring, hsaWrite, readIndex, doorbell, signal, running,
              mWriteIndex, mCurrQid, todo, task, done, batch>>
callVars == <<call, edges, loop, level, left, prev, before>>
vars == <<kind, ring, hsaWrite, readIndex, doorbell, signal, running,
          mWriteIndex, mCurrQid, todo, task, done, batch,
          call, edges, loop, level, left, prev, before>>

Preds(n) == {e[1] : e \in {f \in edges : f[2] = n}}
Succs(n) == {e[2] : e \in {f \in edges : f[1] = n}}

-----------------------------------------------------------------------------
(* executeFromHost(dag) and executeFromCP(dag).                            *)

Execute(c, g) ==
  /\ call = "idle"
  /\ Len(task) + Cardinality(Node) <= MaxTasks
  /\ call' = c
  /\ edges' = g
  /\ loop' = "level"
  /\ level' = {n \in Node : \A e \in g : e[2] # n}
  /\ UNCHANGED <<execVars, left, prev, before>>

(* Mutant: the batches of executeFromCP do not depend on one another.      *)
MutDependsOnPrev == FALSE

(* prevBatchSig is not used for the first batch.                           *)
DependsOnPrev == call = "cp" /\ prev # X!NullSignal

StartLevel ==
  /\ loop = "level"
  /\ level # {}
  /\ IF DependsOnPrev THEN X!StartBatchWithDep(prev) ELSE X!StartBatch
  /\ left' = level
  /\ loop' = "add"
  /\ UNCHANGED <<call, edges, level, prev, before>>

(* The level is an unordered_set: its nodes come in any order.             *)
AddNode(n) ==
  /\ loop = "add"
  /\ n \in left
  /\ X!AddToBatch(Len(batch), n)
  /\ left' = left \ {n}
  /\ UNCHANGED <<call, edges, loop, level, prev, before>>

NextLevel == UNION {Succs(n) : n \in level}

(* The next level is prepared before the host waits for this one.          *)
LaunchLevel ==
  /\ loop = "add"
  /\ left = {}
  /\ X!LaunchBatch(Len(batch))
  /\ prev' = batch[Len(batch)].final
  /\ level' = NextLevel
  /\ loop' = IF call = "host" THEN "wait" ELSE "level"
  /\ UNCHANGED <<call, edges, left, before>>

(* executeFromHost waits for each batch.                                   *)
WaitLevel ==
  /\ call = "host"
  /\ loop = "wait"
  /\ todo = <<>>
  /\ signal[prev] = 0
  /\ loop' = "level"
  /\ UNCHANGED <<execVars, call, edges, level, left, prev, before>>

(* executeFromCP waits for the last batch, if there was any.               *)
Return ==
  /\ loop = "level"
  /\ todo = <<>>
  /\ level = {}
  /\ DependsOnPrev => signal[prev] = 0
  /\ call' = "idle"
  /\ edges' = {}
  /\ loop' = "idle"
  /\ prev' = X!NullSignal
  /\ before' = Len(task)
  /\ UNCHANGED <<execVars, level, left>>

Host == \/ StartLevel \/ (\E n \in Node : AddNode(n)) \/ LaunchLevel \/ WaitLevel \/ Return
        \/ X!Host /\ UNCHANGED callVars

Device == X!Device /\ UNCHANGED callVars

Init ==
  /\ X!Init
  /\ kind = "unordered"
  /\ call = "idle"
  /\ edges = {}
  /\ loop = "idle"
  /\ level = {}
  /\ left = {}
  /\ prev = X!NullSignal
  /\ before = 0

Next == (\E c \in {"host", "cp"}, g \in Graphs : Execute(c, g)) \/ Host \/ Device

Spec == Init /\ [][Next]_vars

(* As in DagrExecutor.                                                     *)
FairSpec == Spec /\ WF_vars(Host) /\ WF_vars(Device)

-----------------------------------------------------------------------------
TypeOK ==
  /\ X!TypeOK
  /\ call \in {"idle", "host", "cp"}
  /\ edges \subseteq Node \X Node
  /\ loop \in {"idle", "level", "add", "wait"}
  /\ loop = "idle" <=> call = "idle"
  /\ level \subseteq Node
  /\ left \subseteq level
  /\ prev \in 0..Len(signal)
  /\ before \in 0..Len(task)

(* The kernels handed over for a node by the call in progress.             *)
TasksOf(n) == {t \in DOMAIN task : t > before /\ task[t].kernel = n}

(* A node's kernel is started once, and when those of all its predecessors *)
(* have completed.                                                         *)
RunsAfterPreds ==
  \A n \in Node : \A t \in TasksOf(n) \cap (X!Running \cup done) :
    \A p \in Preds(n) : TasksOf(p) # {} /\ TasksOf(p) \subseteq done

(* The promise of every executor, with a job for each node.                *)
JobState(n) ==
  IF call = "idle" THEN "none"
  ELSE IF TasksOf(n) \cap X!Running # {} THEN "running"
  ELSE IF TasksOf(n) \cap done # {} THEN "done"
  ELSE "waiting"

Promise == INSTANCE TaskExecution WITH
  Job <- Node,
  busy <- call # "idle",
  state <- [n \in Node |-> JobState(n)],
  deps <- edges

KeepsPromise == Promise!Spec

(* Both calls return.                                                      *)
ExecuteReturns == call # "idle" ~> call = "idle"
-----------------------------------------------------------------------------
(* The inductive invariant.  First what holds on any graph.                *)

(* A kernel handed over is in one packet, and in none when it is complete. *)
KernelsOnce ==
  /\ \A p, r \in X!PacketsOf :
       p.type = "kernel" /\ r.type = "kernel" /\ p.task = r.task => p = r
  /\ \A p \in X!PacketsOf : p.type = "kernel" => p.task \notin done
  /\ \A i \in DOMAIN todo : todo[i].do = "pick" => todo[i].task \notin done

(* The batch of the level is being started, with no node in it yet, or is  *)
(* the last one and open; the one before was launched.                     *)
WantedDep == IF DependsOnPrev THEN prev ELSE X!NullSignal

Starting == \E i \in DOMAIN todo : todo[i].do = "batch"

BatchInv ==
  /\ \A t \in DOMAIN task : task[t].batch # 0
  /\ prev # X!NullSignal => \E b \in DOMAIN batch : ~batch[b].open /\ batch[b].final = prev
  /\ Starting => loop = "add" /\ left = level
  /\ \A i \in DOMAIN todo : todo[i].do = "batch" => todo[i].dep = WantedDep
  /\ loop = "add" /\ ~Starting =>
       /\ batch # <<>>
       /\ batch[Len(batch)].open
       /\ batch[Len(batch)].dep = WantedDep

CallInv ==
  /\ loop # "add" => left = {}
  /\ loop = "wait" => call = "host" /\ prev # X!NullSignal
  /\ call = "idle" => level = {} /\ prev = X!NullSignal /\ before = Len(task) /\ edges = {}
  /\ call # "idle" => edges \in Graphs

ExecInv ==
  /\ X!IInv
  /\ kind = "unordered"
  /\ TypeOK
  /\ KernelsOnce
  /\ BatchInv
  /\ CallInv

(* Then what holds when all paths to a node are equally long.              *)
Depths(g) ==
  {f \in [Node -> 0..Cardinality(Node)] :
     /\ \A n \in Node : (\A e \in g : e[2] # n) => f[n] = 0
     /\ \A e \in g : f[e[2]] = f[e[1]] + 1}

Depth == CHOOSE f \in Depths(edges) : TRUE

Levels == {0} \cup {Depth[n] + 1 : n \in Node}

(* The nodes handed over by the time level k is the next or in progress.   *)
HandedOver(k) ==
  {n \in Node : Depth[n] < k \/ (loop = "add" /\ Depth[n] = k /\ n \notin left)}

FinalOf(t) == batch[task[t].batch].final
DepOf(t)   == batch[task[t].batch].dep

(* Each node of the levels before k, and those of level k no longer left,  *)
(* have been handed over once: a level is a batch, which depends on the    *)
(* batch of the level before, or begins when that one is complete.         *)
AtLevel(k) ==
  /\ level = {n \in Node : Depth[n] = k}
  /\ \A d \in 0..(k - 1) : \E n \in Node : Depth[n] = d
  /\ loop = "add" => level # {}
  /\ prev = X!NullSignal <=> k = 0
  /\ \A n \in Node : TasksOf(n) # {} <=> n \in HandedOver(k)
  /\ \A n \in Node : \A t \in TasksOf(n) :
       /\ Depth[n] = k - 1 => FinalOf(t) = prev
       /\ Depth[n] = k => task[t].batch = Len(batch) /\ ~Starting
       /\ call = "host" /\ Depth[n] < (IF loop = "wait" THEN k - 1 ELSE k) => t \in done

LevelInv ==
  call # "idle" =>
    /\ Depths(edges) # {}
    /\ \E k \in Levels : AtLevel(k)
    /\ \A n \in Node : \A t, u \in TasksOf(n) : t = u
    /\ \A m, n \in Node : \A u \in TasksOf(m), t \in TasksOf(n) :
         Depth[n] = Depth[m] + 1 =>
           IF call = "host" THEN u \in done ELSE DepOf(t) = FinalOf(u)

IInv == ExecInv /\ LevelInv
=============================================================================
