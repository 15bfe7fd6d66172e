---------------------------- MODULE DagExecutor ----------------------------
(***************************************************************************)
(* ATMIdagExecutor and AtmiMixedDagExecutor (dagee/ATMIdagExecutor.h,      *)
(* dagee/ATMImixedDAGexecutor.h): executeParallel makes an ATMI task of    *)
(* every node of every DAG it is given, walking each with                  *)
(* forEachNode_TopoOrder (module TaskDAG, whose steps these are), then     *)
(* activates the tasks of the sources and waits for those of the sinks.    *)
(*                                                                         *)
(* ATMI itself is external.  It starts a task when all tasks the task      *)
(* requires have finished; a task created (not launched) without required  *)
(* tasks waits to be activated first.  A memory copy is launched when it   *)
(* is made, because ATMI cannot create one: copies, and what depends only  *)
(* on copies, may run while the rest of the graph is still being made.     *)
(***************************************************************************)
EXTENDS Naturals, Sequences, SequencesExt, Functions, FiniteSets

CONSTANTS
  Dag, NoDag, Node, MaxEdges, CounterMax, \* as in TaskDAG
  CopyNode,  \* the nodes holding a MemCopyInstanceAtmi, the others a kernel
  MaxList,   \* bound: DAGs given to one call of executeParallel
  MaxTasks   \* bound: tasks made by all calls together

ASSUME GraphAssumption ==
  NoDag \notin Dag /\ MaxEdges \in Nat /\ CounterMax \in Nat \ {0}
ASSUME CopyAssumption  == CopyNode \subseteq Node
ASSUME ListAssumption  == MaxList \in Nat
ASSUME TasksAssumption == MaxTasks \in Nat

VARIABLES
  allNodes, succs, preds, numPred,                    \* the DAGs,
  depCounter, travDag, phase, pos, nodeQ, visited,    \* as in TaskDAG
  handleOf,    \* mATMItaskHandle of each node; NoHandle before the first run
  host,        \* where the calling thread is in executeParallel
  list,        \* its argument, the DAGs to execute
  cur,         \* the element its loop over DAGs, sources or sinks is at
  srcHandles, sinkHandles,  \* its local vectors
  status,      \* ATMI: the status of every task ever made; a handle is an index
  made         \* ATMI: what the tasks of the current call, the last ones, are

D == INSTANCE TaskDAG

dagVars  == <<allNodes, succs, preds, numPred,
              depCounter, travDag, phase, pos, nodeQ, visited>>
execVars == <<handleOf, host, list, cur, srcHandles, sinkHandles, status, made>>
vars     == <<allNodes, succs, preds, numPred,
              depCounter, travDag, phase, pos, nodeQ, visited,
              handleOf, host, list, cur, srcHandles, sinkHandles, status, made>>

NoHandle == 0

(* The tasks made by earlier calls, and those of the current call.         *)
Old     == Len(status) - Len(made)
Current == (Old + 1)..Len(status)
Task(h) == made[h - Old]

-----------------------------------------------------------------------------
(* Between calls the client changes its DAGs.                              *)

AddNode(d, n) ==
  /\ host = "idle"
  /\ D!AddNode(d, n)
  /\ handleOf' = [handleOf EXCEPT ![n] = NoHandle]
  /\ UNCHANGED <<host, list, cur, srcHandles, sinkHandles, status, made>>

AddEdge(d, a, b) == host = "idle" /\ D!AddEdge(d, a, b) /\ UNCHANGED execVars

Clear(d) == host = "idle" /\ D!Clear(d) /\ UNCHANGED execVars

(* SingleDAGexecutor::addTask(preds, ...): a new node, and an edge from     *)
(* each predecessor that is not null, as often as it is given.             *)
AddTask(d, n, ps) ==
  /\ host = "idle"
  /\ n \notin D!LiveNodes
  /\ Range(ps) \subseteq D!NodesOf(d)
  /\ Cardinality(D!Edges) + Len(ps) <= MaxEdges
  /\ allNodes' = [allNodes EXCEPT ![d] = Append(@, n)]
  /\ succs' = [a \in Node |-> IF a = n THEN <<>>
                              ELSE succs[a] \o [i \in 1..D!Occurrences(ps, a) |-> n]]
  /\ preds' = [preds EXCEPT ![n] = ps]
  /\ numPred' = [numPred EXCEPT ![n] = Len(ps)]
  /\ depCounter' = [depCounter EXCEPT ![n] = 0]
  /\ handleOf' = [handleOf EXCEPT ![n] = NoHandle]
  /\ UNCHANGED <<travDag, phase, pos, nodeQ, visited>>
  /\ UNCHANGED <<host, list, cur, srcHandles, sinkHandles, status, made>>

(* executeParallel(l).  That its graphs are acyclic is the client's duty.  *)
JobsOf(l) == UNION {{i} \X D!NodesOf(l[i]) : i \in DOMAIN l}

Execute(l) ==
  /\ host = "idle"
  /\ Range(l) \subseteq {d \in Dag : D!Acyclic(d)}
  /\ Len(status) + Cardinality(JobsOf(l)) <= MaxTasks
  /\ host' = "make"
  /\ list' = l
  /\ UNCHANGED <<dagVars, handleOf, cur, srcHandles, sinkHandles, status, made>>

-----------------------------------------------------------------------------
(* makeLazyTasks, for one DAG after the other.                             *)

BeginDag ==
  /\ host = "make"
  /\ cur <= Len(list)
  /\ D!TopoBegin(list[cur])
  /\ UNCHANGED execVars

Walk == host = "make" /\ (D!ScanNode \/ D!DecrementSucc) /\ UNCHANGED execVars

(* Mutants: predHandles is not cleared between two nodes; only the last    *)
(* predecessor is passed on.                                               *)
MutPredHandlesKept(n) ==
  {handleOf[p] : p \in Range(preds[n]) \cup UNION {Range(preds[m]) : m \in Range(visited)}}
MutPredHandlesLast(n) == IF preds[n] = <<>> THEN {} ELSE {handleOf[Last(preds[n])]}

PredHandles(n) == {handleOf[p] : p \in Range(preds[n])}

(* atmi_task_create or, for a copy, atmi_memcpy_async.                     *)
NewStatus(n) ==
  IF n \notin CopyNode /\ PredHandles(n) = {} THEN "lazy" ELSE "waiting"

MutMakeTask(stores, isSink(_)) ==
  LET n == Last(nodeQ)
      h == Len(status) + 1
  IN /\ host = "make"
     /\ D!Visit
     /\ status' = Append(status, NewStatus(n))
     /\ made' = Append(made, [node |-> n, elem |-> cur, requires |-> PredHandles(n)])
     /\ handleOf' = IF stores THEN [handleOf EXCEPT ![n] = h] ELSE handleOf
     /\ srcHandles' = IF D!IsSrc(n) THEN Append(srcHandles, h) ELSE srcHandles
     /\ sinkHandles' = IF isSink(n) THEN Append(sinkHandles, h) ELSE sinkHandles
     /\ UNCHANGED <<host, list, cur>>

(* Mutants: the new handle is not stored in the node; the sources are      *)
(* taken for the sinks.                                                    *)
MutMakeTaskNoStore == host = "make" /\ MutMakeTask(FALSE, D!IsSink)
MutMakeTaskNoSinks == host = "make" /\ MutMakeTask(TRUE, D!IsSrc)

MakeTask ==
  LET n == Last(nodeQ)
      h == Len(status) + 1
  IN /\ host = "make"
     /\ D!Visit
     /\ status' = Append(status, NewStatus(n))
     /\ made' = Append(made, [node |-> n, elem |-> cur, requires |-> PredHandles(n)])
     /\ handleOf' = [handleOf EXCEPT ![n] = h]
     /\ srcHandles' = IF D!IsSrc(n) THEN Append(srcHandles, h) ELSE srcHandles
     /\ sinkHandles' = IF D!IsSink(n) THEN Append(sinkHandles, h) ELSE sinkHandles
     /\ UNCHANGED <<host, list, cur>>

EndDag ==
  /\ host = "make"
  /\ D!TopoEnd
  /\ cur' = cur + 1
  /\ UNCHANGED <<handleOf, host, list, srcHandles, sinkHandles, status, made>>

MadeAll ==
  /\ host = "make"
  /\ travDag = NoDag
  /\ cur > Len(list)
  /\ host' = "activate"
  /\ cur' = 1
  /\ UNCHANGED <<dagVars, handleOf, list, srcHandles, sinkHandles, status, made>>

(* atmi_task_activate; nothing happens to a copy, which is launched.       *)
Activate ==
  /\ host = "activate"
  /\ cur <= Len(srcHandles)
  /\ status' = [status EXCEPT ![srcHandles[cur]] = IF @ = "lazy" THEN "waiting" ELSE @]
  /\ cur' = cur + 1
  /\ UNCHANGED <<dagVars, handleOf, host, list, srcHandles, sinkHandles, made>>

(* Mutant: the last source is not activated.                               *)
MutActivatedButLast ==
  /\ host = "activate"
  /\ cur >= Len(srcHandles)
  /\ host' = "wait"
  /\ cur' = 1
  /\ UNCHANGED <<dagVars, handleOf, list, srcHandles, sinkHandles, status, made>>

ActivatedAll ==
  /\ host = "activate"
  /\ cur > Len(srcHandles)
  /\ host' = "wait"
  /\ cur' = 1
  /\ UNCHANGED <<dagVars, handleOf, list, srcHandles, sinkHandles, status, made>>

(* atmi_task_wait returns.                                                 *)
WaitSink ==
  /\ host = "wait"
  /\ cur <= Len(sinkHandles)
  /\ status[sinkHandles[cur]] = "done"
  /\ cur' = cur + 1
  /\ UNCHANGED <<dagVars, handleOf, host, list, srcHandles, sinkHandles, status, made>>

Return ==
  /\ host = "wait"
  /\ cur > Len(sinkHandles)
  /\ host' = "idle"
  /\ list' = <<>>
  /\ cur' = 1
  /\ srcHandles' = <<>>
  /\ sinkHandles' = <<>>
  /\ made' = <<>>
  /\ UNCHANGED <<dagVars, handleOf, status>>

-----------------------------------------------------------------------------
(* The ATMI runtime.                                                       *)

IsDone(h) == status[h] = "done"

StartTask(h) ==
  /\ status[h] = "waiting"
  /\ \A r \in Task(h).requires \ {NoHandle} : IsDone(r)
  /\ status' = [status EXCEPT ![h] = "running"]
  /\ UNCHANGED <<dagVars, handleOf, host, list, cur, srcHandles, sinkHandles, made>>

FinishTask(h) ==
  /\ status[h] = "running"
  /\ status' = [status EXCEPT ![h] = "done"]
  /\ UNCHANGED <<dagVars, handleOf, host, list, cur, srcHandles, sinkHandles, made>>

-----------------------------------------------------------------------------
Init ==
  /\ D!Init
  /\ handleOf = [n \in Node |-> NoHandle]
  /\ host = "idle"
  /\ list = <<>>
  /\ cur = 1
  /\ srcHandles = <<>>
  /\ sinkHandles = <<>>
  /\ status = <<>>
  /\ made = <<>>

Client ==
  \/ \E d \in Dag : \/ \E n \in Node : AddNode(d, n)
                    \/ \E a, b \in Node : AddEdge(d, a, b)
                    \/ \E n \in Node, k \in 0..MaxEdges :
                         \E ps \in [1..k -> D!NodesOf(d)] : AddTask(d, n, ps)
                    \/ Clear(d)
  \/ \E k \in 0..MaxList : \E l \in [1..k -> Dag] : Execute(l)

Host == BeginDag \/ Walk \/ MakeTask \/ EndDag \/ MadeAll
          \/ Activate \/ ActivatedAll \/ WaitSink \/ Return

Runtime == \E h \in Current : StartTask(h) \/ FinishTask(h)

Next == Client \/ Host \/ Runtime

Spec == Init /\ [][Next]_vars

(* The calling thread keeps running and is blocked in atmi_task_wait only; *)
(* ATMI starts every task that may start and every kernel ends.            *)
FairSpec == Spec /\ WF_vars(Host) /\ WF_vars(Runtime)

-----------------------------------------------------------------------------
(* The tasks made in the same walk of the same DAG as task h.              *)
SameWalk(h) == {i \in Current : Task(i).elem = Task(h).elem}

(* A node executed by an earlier call, or by an earlier element of the     *)
(* list, still holds the handle of its old task, and a node not visited    *)
(* yet may hold none.  No task is ever made to wait for such a handle: it  *)
(* waits for the tasks made of its node's predecessors in the same walk.   *)
RequiresThisWalk ==
  \A h \in Current :
    LET before == Range(preds[Task(h).node])
    IN /\ Task(h).requires = {r \in SameWalk(h) : Task(r).node \in before}
       /\ before \subseteq {Task(r).node : r \in Task(h).requires}

(* A task runs after the tasks of all its node's predecessors.             *)
RunsAfterPreds ==
  \A h \in Current :
    status[h] \in {"running", "done"} =>
      \A a \in Range(preds[Task(h).node]) :
        \E r \in SameWalk(h) : Task(r).node = a /\ IsDone(r)

(* Waiting for the sinks is enough: when executeParallel has returned no   *)
(* task is left, so the client may change the graph and reuse the buffers. *)
AllDoneOnReturn == host = "idle" => \A h \in DOMAIN status : IsDone(h)

(* The promise, with a job for each node of each element of the list.      *)
Job == (1..MaxList) \X Node

JobState(j) ==
  LET ofJob == {status[h] : h \in {i \in Current : <<Task(i).elem, Task(i).node>> = j}}
  IN IF j \notin JobsOf(list) THEN "none"
     ELSE IF "running" \in ofJob THEN "running"
     ELSE IF "done" \in ofJob THEN "done"
     ELSE "waiting"

JobDeps ==
  UNION {{<<<<j[1], a>>, j>> : a \in Range(preds[j[2]])} : j \in JobsOf(list)}

Promise == INSTANCE TaskExecution WITH
  busy <- host # "idle",
  state <- [j \in Job |-> JobState(j)],
  deps <- JobDeps

KeepsPromise == Promise!Spec

(* executeParallel returns.                                                *)
ExecuteReturns == host # "idle" ~> host = "idle"

-----------------------------------------------------------------------------
(* The inductive invariant behind the safety properties and the promise.   *)

TypeOK ==
  /\ handleOf \in [Node -> Nat]
  /\ host \in {"idle", "make", "activate", "wait"}
  /\ list \in Seq(Dag) /\ Len(list) <= MaxList
  /\ cur \in Nat \ {0}
  /\ status \in Seq({"lazy", "waiting", "running", "done"})
  /\ made \in Seq([node : Node, elem : Nat, requires : SUBSET Nat])
  /\ Len(made) <= Len(status)
  /\ srcHandles \in Seq(Nat) /\ Range(srcHandles) \subseteq Current
  /\ sinkHandles \in Seq(Nat) /\ Range(sinkHandles) \subseteq Current

(* Graphs are walked only in the loop that makes the tasks, the one the     *)
(* loop is at; nothing is left of a call that has returned.                *)
HostInv ==
  /\ host # "make" => travDag = NoDag
  /\ travDag # NoDag => cur \in DOMAIN list /\ travDag = list[cur]
  /\ host = "idle" => /\ list = <<>> /\ made = <<>> /\ cur = 1
                      /\ srcHandles = <<>> /\ sinkHandles = <<>>
  /\ \A e \in DOMAIN list : D!Acyclic(list[e])

(* The loop has finished with element e of the list.                       *)
WalkedAll(e) == host = "make" => e < cur

(* Each node of a walked element has one task; of the element being walked *)
(* those visited have, and hold its handle.                                *)
MadeInv ==
  /\ \A h \in Current : /\ Task(h).elem \in DOMAIN list
                        /\ Task(h).node \in D!NodesOf(list[Task(h).elem])
  /\ \A h, i \in Current :
       Task(h).elem = Task(i).elem /\ Task(h).node = Task(i).node => h = i
  /\ \A e \in DOMAIN list : WalkedAll(e) =>
       \A n \in D!NodesOf(list[e]) :
         \E h \in Current : Task(h).elem = e /\ Task(h).node = n
  /\ host = "make" =>
       /\ \A h \in Current : Task(h).elem <= cur
       /\ \A n \in Node :
            n \in Range(visited) <=>
              \E h \in Current : Task(h).elem = cur /\ Task(h).node = n
       /\ \A h \in Current : Task(h).elem = cur => handleOf[Task(h).node] = h
  /\ RequiresThisWalk

(* The tasks of earlier calls are done, a task runs only after those it    *)
(* requires, the sinks are among those waited for.                         *)
StatusInv ==
  /\ \A h \in 1..Old : IsDone(h)
  /\ \A h \in Current :
       status[h] \in {"running", "done"} => \A r \in Task(h).requires : IsDone(r)
  /\ \A h \in Current : D!IsSink(Task(h).node) => h \in Range(sinkHandles)
  /\ host = "wait" =>
       \A i \in DOMAIN sinkHandles : i < cur => IsDone(sinkHandles[i])

IInv == D!IInv /\ TypeOK /\ HostInv /\ MadeInv /\ StatusInv
=============================================================================
