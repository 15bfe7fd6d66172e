-------------------------- MODULE OutOfCoreExecutor --------------------------
(***************************************************************************)
(* OutOfCoreATMIexecutor (dagee/OutOfCoreATMIexecutor.h) over Partition    *)
(* (dagee/Partition.h): data too large for the device is processed in      *)
(* partitions, which take turns in a few device buffers (slots).  A        *)
(* partition copies its blocks into its slot, runs its own DAG of kernels  *)
(* on them and copies them back; partitions form a DAG themselves.         *)
(*                                                                         *)
(* preparePartitionDAG deals out the slots in the order of                 *)
(* forEachNode_TopoOrder (module TaskDAG) and adds an edge from each       *)
(* partition to the next user of its slot.  executePartitionDAG makes the  *)
(* ATMI tasks of the partitions in the order they were added to the DAG.   *)
(* ATMI is external, as in DagExecutor.                                    *)
(***************************************************************************)
EXTENDS Naturals, Sequences, SequencesExt, Functions, FiniteSets

CONSTANTS
  PartDAG, NoDag, Partition, MaxEdges, CounterMax, \* as in TaskDAG
  Nobody,      \* no partition
  NumSlots,    \* mDeviceDataSlots.size()
  NumBlocks,   \* data blocks of each partition
  NumKernels,  \* nodes of each partition's own DAG, 1..NumKernels, and
  KernelEdges, \*   its edges <<i, j>>, i < j
  AnyOrder,    \* FALSE: partitions are added in the order they depend on
               \*   one another, the edges between users of a slot included
  MaxClientEdges, \* bound: edges after which the client adds none
  MaxTasks     \* bound: tasks made by all calls together

ASSUME GraphAssumption ==
  NoDag # PartDAG /\ MaxEdges \in Nat /\ CounterMax \in Nat \ {0}
ASSUME NobodyAssumption == Nobody \notin Partition
ASSUME SlotsAssumption  == NumSlots \in Nat \ {0}
ASSUME BlocksAssumption == {NumBlocks, NumKernels, MaxClientEdges, MaxTasks} \subseteq Nat
ASSUME EdgesAssumption  ==
  \A e \in KernelEdges : e \in (1..NumKernels) \X (1..NumKernels) /\ e[1] < e[2]
ASSUME OrderAssumption  == AnyOrder \in BOOLEAN

VARIABLES
  allNodes, succs, preds, numPred,                 \* the DAG of partitions,
  depCounter, travDag, phase, pos, nodeQ, visited, \* as in TaskDAG
  deviceData,  \* the slot of each partition; 0 before it is prepared
  sinkTask,    \* mSinkTask of each partition
  host,        \* "idle", or what the calling thread is doing
  prevUser,    \* locals of assignDeviceDataSlots: the last user of each slot,
  newEdges,    \*   and the edges to add
  prepared,    \* the DAG is as preparePartitionDAG left it
  cur,         \* which partition, source or sink the loop is at
  sources, sinks,  \* locals of executePartitionDAG
  status,      \* ATMI: the status of every task ever made
  made,        \* ATMI: what the tasks of the current call, the last ones, are
  slotData     \* the partition whose data is in each block of each slot

D == INSTANCE TaskDAG WITH Dag <- {PartDAG}, Node <- Partition

dagVars == <<allNodes, succs, preds, numPred,
             depCounter, travDag, phase, pos, nodeQ, visited>>
vars == <<allNodes, succs, preds, numPred,
          depCounter, travDag, phase, pos, nodeQ, visited,
          deviceData, sinkTask, host, prevUser, newEdges, prepared, cur,
          sources, sinks, status, made, slotData>>

Slot   == 1..NumSlots
Block  == 1..NumBlocks
NoSlot == 0
NoHandle == 0

Parts == allNodes[PartDAG]

Old     == Len(status) - Len(made)
Current == (Old + 1)..Len(status)
Task(h) == made[h - Old]

-----------------------------------------------------------------------------
(* The client builds the DAG of partitions.  The constructor of a Partition *)
(* leaves mSinkTask uninitialised: it may hold the handle of a task of an  *)
(* earlier call, for which the last one stands, or what is no task's.      *)

buildSame == <<deviceData, host, prevUser, newEdges, cur, sources, sinks, status, made, slotData>>

AddPartition(p) ==
  /\ host = "idle"
  /\ D!AddNode(PartDAG, p)
  /\ \E h \in {NoHandle, Len(status)} : sinkTask' = [sinkTask EXCEPT ![p] = h]
  /\ prepared' = FALSE
  /\ UNCHANGED buildSame

AddEdge(p, q) ==
  /\ host = "idle"
  /\ Cardinality(D!Edges) < MaxClientEdges
  /\ D!AddEdge(PartDAG, p, q)
  /\ prepared' = FALSE
  /\ UNCHANGED <<sinkTask, buildSame>>

-----------------------------------------------------------------------------
(* preparePartitionDAG.                                                    *)

prepSame == <<sinkTask, cur, sources, sinks, status, made, slotData>>

Prepare ==
  /\ host = "idle"
  /\ Parts # <<>>
  /\ D!Acyclic(PartDAG)
  /\ D!TopoBegin(PartDAG)
  /\ host' = "slots"
  /\ UNCHANGED <<deviceData, prevUser, newEdges, prepared, prepSame>>

Walk ==
  /\ host = "slots"
  /\ D!ScanNode \/ D!DecrementSucc
  /\ UNCHANGED <<deviceData, host, prevUser, newEdges, prepared, prepSame>>

NextSlot == (Len(visited) % NumSlots) + 1

(* Mutant: the partition's previous user is not remembered.                *)
MutSlotEdges(p) == newEdges

(* The edge from the slot's previous user, if it had one.                  *)
SlotEdges(p) ==
  IF prevUser[NextSlot] = Nobody THEN newEdges
  ELSE Append(newEdges, <<prevUser[NextSlot], p>>)

AssignSlot ==
  LET p == Last(nodeQ)
  IN /\ host = "slots"
     /\ D!Visit
     /\ deviceData' = [deviceData EXCEPT ![p] = NextSlot]
     /\ newEdges' = SlotEdges(p)
     /\ prevUser' = [prevUser EXCEPT ![NextSlot] = p]
     /\ UNCHANGED <<host, prepared, prepSame>>

AssignedAll ==
  /\ host = "slots"
  /\ D!TopoEnd
  /\ host' = "edges"
  /\ UNCHANGED <<deviceData, prevUser, newEdges, prepared, prepSame>>

AddNewEdge ==
  LET e == Head(newEdges)
  IN /\ host = "edges"
     /\ newEdges # <<>>
     /\ \/ D!AddEdgeIfAbsent(PartDAG, e[1], e[2])
        \/ D!HasEdge(e[1], e[2]) /\ UNCHANGED dagVars
     /\ newEdges' = Tail(newEdges)
     /\ UNCHANGED <<deviceData, host, prevUser, prepared, prepSame>>

(* Every partition is then given a new DAG and fills it.                   *)
Prepared ==
  /\ host = "edges"
  /\ newEdges = <<>>
  /\ host' = "idle"
  /\ prepared' = TRUE
  /\ prevUser' = [s \in Slot |-> Nobody]
  /\ UNCHANGED <<dagVars, deviceData, newEdges, prepSame>>

-----------------------------------------------------------------------------
(* executePartitionDAG.                                                    *)

execSame == <<dagVars, deviceData, prevUser, newEdges, prepared>>

(* The tasks of a partition in the order they are made: <<role, number>>.  *)
(* A null task ends each stage.                                            *)
Numbered(role, n) == [i \in 1..n |-> <<role, i>>]

Program ==
  <<<<"src", 1>>>> \o Numbered("in", NumBlocks) \o <<<<"inEnd", 1>>>>
    \o Numbered("kernel", NumKernels) \o <<<<"kernelEnd", 1>>>>
    \o Numbered("out", NumBlocks) \o <<<<"outEnd", 1>>>>

IndexOf(p) == CHOOSE i \in DOMAIN Parts : Parts[i] = p

(* The predecessors of a partition come before it in the DAG's list.       *)
DependsBackwards ==
  \A p \in Range(Parts) : \A q \in Range(preds[p]) : IndexOf(q) < IndexOf(p)

Execute ==
  /\ host = "idle"
  /\ prepared
  /\ AnyOrder \/ DependsBackwards
  /\ Len(status) + Len(Parts) * Len(Program) <= MaxTasks
  /\ host' = "make"
  /\ UNCHANGED <<execSame, sinkTask, cur, sources, sinks, status, made, slotData>>

(* The task made of a step of a partition's program in this call, and all  *)
(* those of a stage.                                                       *)
Handles(p, roles) == {h \in Current : Task(h).part = p /\ Task(h).role \in roles}
Stage(p, role)    == {h \in Current : Task(h).part = p /\ Task(h).role[1] = role}

KernelPreds(j)  == {e[1] : e \in {f \in KernelEdges : f[2] = j}}
KernelSinks     == {i \in 1..NumKernels : \A e \in KernelEdges : e[1] # i}

(* Mutant: the copies back wait for the copies in only.                    *)
MutBeforeOut(p) == Stage(p, "inEnd")
BeforeOut(p)    == Stage(p, "kernelEnd")

(* Mutant: only the last of the partitions before is waited for.           *)
MutPredTasks(p) == IF D!IsSrc(p) THEN {} ELSE {sinkTask[Last(preds[p])]}

(* collectPredHandles.                                                     *)
PredTasks(p) == {sinkTask[q] : q \in Range(preds[p])}

(* What the next task of partition p requires.                             *)
Requires(p, step) ==
  CASE step[1] = "src"       -> PredTasks(p)
    [] step[1] = "in"        -> Stage(p, "src")
    [] step[1] = "inEnd"     -> Stage(p, "in")
    [] step[1] = "kernel"    -> IF KernelPreds(step[2]) = {} THEN Stage(p, "inEnd")
                                ELSE Handles(p, {<<"kernel", i>> : i \in KernelPreds(step[2])})
    [] step[1] = "kernelEnd" -> Handles(p, {<<"kernel", i>> : i \in KernelSinks})
    [] step[1] = "out"       -> BeforeOut(p)
    [] step[1] = "outEnd"    -> Stage(p, "out")

(* Mutant: the first task of a partition always has to be activated.       *)
MutNewStatus(step, requires) == IF step[1] = "src" THEN "lazy" ELSE "waiting"

(* A copy is launched; any other task that requires nothing must be        *)
(* activated.                                                              *)
NewStatus(step, requires) ==
  IF requires = {} /\ step[1] \notin {"in", "out"} THEN "lazy" ELSE "waiting"

(* Mutant: the sinks are collected by isSrc.                               *)
MutCollected(step, p) ==
  /\ sources' = IF step[1] = "src" /\ D!IsSrc(p) THEN Append(sources, Len(status) + 1) ELSE sources
  /\ sinks' = IF step[1] = "outEnd" /\ D!IsSrc(p) THEN Append(sinks, Len(status) + 1) ELSE sinks

(* allSources and allSinks.                                                *)
Collected(step, p) ==
  /\ sources' = IF step[1] = "src" /\ D!IsSrc(p) THEN Append(sources, Len(status) + 1) ELSE sources
  /\ sinks' = IF step[1] = "outEnd" /\ D!IsSink(p) THEN Append(sinks, Len(status) + 1) ELSE sinks

(* One step of makeTasksForPartition.                                      *)
MakeTask ==
  LET p == Parts[cur]
      step == Program[Cardinality({h \in Current : Task(h).part = p}) + 1]
      requires == Requires(p, step)
  IN /\ host = "make"
     /\ cur <= Len(Parts)
     /\ status' = Append(status, NewStatus(step, requires))
     /\ made' = Append(made, [part |-> p, role |-> step, requires |-> requires])
     /\ Collected(step, p)
     /\ sinkTask' = IF step[1] = "outEnd" THEN [sinkTask EXCEPT ![p] = Len(status) + 1] ELSE sinkTask
     /\ cur' = IF step[1] = "outEnd" THEN cur + 1 ELSE cur
     /\ UNCHANGED <<execSame, host, slotData>>

MadeAll ==
  /\ host = "make"
  /\ cur > Len(Parts)
  /\ host' = "activate"
  /\ cur' = 1
  /\ UNCHANGED <<execSame, sinkTask, sources, sinks, status, made, slotData>>

Activate ==
  /\ host = "activate"
  /\ cur <= Len(sources)
  /\ status' = [status EXCEPT ![sources[cur]] = IF @ = "lazy" THEN "waiting" ELSE @]
  /\ cur' = cur + 1
  /\ UNCHANGED <<execSame, sinkTask, host, sources, sinks, made, slotData>>

ActivatedAll ==
  /\ host = "activate"
  /\ cur > Len(sources)
  /\ host' = "wait"
  /\ cur' = 1
  /\ UNCHANGED <<execSame, sinkTask, sources, sinks, status, made, slotData>>

WaitSink ==
  /\ host = "wait"
  /\ cur <= Len(sinks)
  /\ status[sinks[cur]] = "done"
  /\ cur' = cur + 1
  /\ UNCHANGED <<execSame, sinkTask, host, sources, sinks, status, made, slotData>>

Return ==
  /\ host = "wait"
  /\ cur > Len(sinks)
  /\ host' = "idle"
  /\ cur' = 1
  /\ sources' = <<>>
  /\ sinks' = <<>>
  /\ made' = <<>>
  /\ UNCHANGED <<execSame, sinkTask, status, slotData>>

-----------------------------------------------------------------------------
(* The ATMI runtime.  A copy in leaves the partition's data in its slot.   *)

runSame == <<execSame, sinkTask, host, cur, sources, sinks, made>>

IsDone(h) == status[h] = "done"

StartTask(h) ==
  /\ status[h] = "waiting"
  /\ \A r \in Task(h).requires \ {NoHandle} : IsDone(r)
  /\ status' = [status EXCEPT ![h] = "running"]
  /\ UNCHANGED <<runSame, slotData>>

FinishTask(h) ==
  LET t == Task(h)
  IN /\ status[h] = "running"
     /\ status' = [status EXCEPT ![h] = "done"]
     /\ slotData' = IF t.role[1] = "in"
                    THEN [slotData EXCEPT ![deviceData[t.part]][t.role[2]] = t.part]
                    ELSE slotData
     /\ UNCHANGED runSame

-----------------------------------------------------------------------------
Init ==
  /\ D!Init
  /\ deviceData = [p \in Partition |-> NoSlot]
  /\ sinkTask = [p \in Partition |-> NoHandle]
  /\ host = "idle"
  /\ prevUser = [s \in Slot |-> Nobody]
  /\ newEdges = <<>>
  /\ prepared = FALSE
  /\ cur = 1
  /\ sources = <<>>
  /\ sinks = <<>>
  /\ status = <<>>
  /\ made = <<>>
  /\ slotData = [s \in Slot |-> [b \in Block |-> Nobody]]

Client ==
  \/ \E p \in Partition : AddPartition(p) \/ \E q \in Partition : AddEdge(p, q)
  \/ Prepare
  \/ Execute

Host == Walk \/ AssignSlot \/ AssignedAll \/ AddNewEdge \/ Prepared
          \/ MakeTask \/ MadeAll \/ Activate \/ ActivatedAll \/ WaitSink \/ Return

Runtime == \E h \in Current : StartTask(h) \/ FinishTask(h)

Next == Client \/ Host \/ Runtime

Spec == Init /\ [][Next]_vars

(* As in DagExecutor.                                                      *)
FairSpec == Spec /\ WF_vars(Host) /\ WF_vars(Runtime)

-----------------------------------------------------------------------------
(* Slots are shared, but kernels, and copies back, find their own          *)
(* partition's data in every block; and no block is copied back before all *)
(* of the partition's kernels have run on it.                              *)
WorksOnOwnData ==
  \A h \in Current :
    LET t == Task(h)
    IN status[h] = "running" /\ t.role[1] \in {"kernel", "out"} =>
         /\ \A b \in Block : slotData[deviceData[t.part]][b] = t.part
         /\ t.role[1] = "out" => \A k \in Stage(t.part, "kernel") : IsDone(k)

(* A partition's data is not overwritten before its results are copied     *)
(* back: no copy in is executing while another user of the slot is between *)
(* its own copies.                                                         *)
Begun(p) == \E h \in Stage(p, "in") : status[h] \in {"running", "done"}
Over(p)  == Stage(p, "outEnd") # {} /\ \A h \in Stage(p, "out") : IsDone(h)

SlotsTakeTurns ==
  \A p, q \in Range(Parts) :
    p # q /\ deviceData[p] = deviceData[q] /\ Begun(p) /\ Begun(q) => Over(p) \/ Over(q)

(* A partition begins when the partitions it depends on have copied their  *)
(* results back.                                                           *)
PartitionsInOrder ==
  \A p \in Range(Parts) : Begun(p) => \A q \in Range(preds[p]) : Over(q)

(* Every partition is done when executePartitionDAG returns.               *)
AllDoneOnReturn == host = "idle" => \A h \in DOMAIN status : IsDone(h)

(* executePartitionDAG returns.                                            *)
ExecuteReturns == host # "idle" ~> host = "idle"

-----------------------------------------------------------------------------
(* The inductive invariant behind the safety properties, when partitions   *)
(* are added in the order they depend on one another.                      *)

TypeOK ==
  /\ deviceData \in [Partition -> Nat]
  /\ sinkTask \in [Partition -> Nat]
  /\ host \in {"idle", "slots", "edges", "make", "activate", "wait"}
  /\ prevUser \in [Slot -> Partition \cup {Nobody}]
  /\ newEdges \in Seq(Partition \X Partition)
  /\ prepared \in BOOLEAN
  /\ cur \in Nat \ {0}
  /\ status \in Seq({"lazy", "waiting", "running", "done"})
  /\ made \in Seq([part : Partition, role : Range(Program), requires : SUBSET Nat])
  /\ Len(made) <= Len(status)
  /\ sources \in Seq(Nat) /\ Range(sources) \subseteq Current
  /\ sinks \in Seq(Nat) /\ Range(sinks) \subseteq Current
  /\ slotData \in [Slot -> [Block -> Partition \cup {Nobody}]]

(* The DAG of partitions is walked to deal out the slots only; nothing is  *)
(* left of a call that has returned.                                       *)
Executing == host \in {"make", "activate", "wait"}

HostInv ==
  /\ host = "slots" <=> travDag # NoDag
  /\ host = "slots" => D!Acyclic(PartDAG)
  /\ host \notin {"slots", "edges"} => newEdges = <<>> /\ \A s \in Slot : prevUser[s] = Nobody
  /\ ~Executing => made = <<>> /\ sources = <<>> /\ sinks = <<>> /\ cur = 1
  /\ Executing => prepared /\ DependsBackwards

(* One partition leads to another by edges of the DAG and those still to   *)
(* be added: every set closed under these has the one only with the other. *)
Linked == Range(newEdges) \cup {e \in Partition \X Partition : e[2] \in Range(succs[e[1]])}

Leads(p, q) ==
  \A S \in SUBSET Partition :
    p \in S /\ (\A e \in Linked : e[1] \in S => e[2] \in S) => q \in S

(* The partitions that have a slot for the next execution: of two that     *)
(* share one, one leads to the other.                                      *)
Settled ==
  IF host = "slots" THEN Range(visited)
  ELSE IF host = "edges" \/ prepared THEN Range(Parts)
  ELSE {}

SlotInv ==
  /\ \A p \in Settled : deviceData[p] \in Slot
  /\ \A p, q \in Settled : deviceData[p] = deviceData[q] => Leads(p, q) \/ Leads(q, p)
  /\ host = "slots" =>
       \A p \in Range(visited) :
         prevUser[deviceData[p]] # Nobody /\ Leads(p, prevUser[deviceData[p]])

(* The tasks of a partition are the first ones of its program, each once;  *)
(* all of them for the partitions the loop has passed, none for those to   *)
(* come.  What a task requires is what it required when it was made.       *)
TasksOf(p) == {h \in Current : Task(h).part = p}

Passed(i) == Executing /\ (host = "make" => i < cur)

MadeInv ==
  /\ \A h \in Current : Task(h).part \in Range(Parts)
  /\ \A g, h \in Current : Task(g).part = Task(h).part /\ Task(g).role = Task(h).role => g = h
  /\ \A p \in Range(Parts) :
       LET n == Cardinality(TasksOf(p))
       IN n <= Len(Program) /\ {Task(h).role : h \in TasksOf(p)} = {Program[i] : i \in 1..n}
  /\ \A i \in DOMAIN Parts :
       /\ host = "make" /\ i > cur => TasksOf(Parts[i]) = {}
       /\ host = "make" /\ i = cur => Stage(Parts[i], "outEnd") = {}
       /\ Passed(i) => sinkTask[Parts[i]] \in Stage(Parts[i], "outEnd")
  /\ \A h \in Current : Task(h).requires = Requires(Task(h).part, Task(h).role)

(* A task runs after those it requires, and, but for the first of a        *)
(* partition, only if there are any: no other is ever activated.  The      *)
(* tasks of earlier calls are done, and the sinks waited for.              *)
RunInv ==
  /\ \A h \in 1..Old : IsDone(h)
  /\ \A h \in Current :
       /\ status[h] # "lazy" => Task(h).requires # {} \/ Task(h).role[1] = "src"
       /\ status[h] \in {"running", "done"} => \A r \in Task(h).requires : IsDone(r)
       /\ Task(h).role[1] = "outEnd" /\ D!IsSink(Task(h).part) => h \in Range(sinks)
  /\ \A h \in Range(sources) : Task(h).role[1] = "src"
  /\ host = "wait" => \A i \in DOMAIN sinks : i < cur => IsDone(sinks[i])

(* A block copied in stays until the partition's results are copied back.  *)
DataInv ==
  \A h \in Current :
    LET t == Task(h)
    IN t.role[1] = "in" /\ IsDone(h) /\ ~Over(t.part) =>
         slotData[deviceData[t.part]][t.role[2]] = t.part

IInv == D!IInv /\ TypeOK /\ HostInv /\ SlotInv /\ MadeInv /\ RunInv /\ DataInv
=============================================================================
