------------------------------ MODULE TaskDAG ------------------------------
(***************************************************************************)
(* The graph container of DAGEE-lib (dagee/TaskDAG.h): DAGbase in its      *)
(* WithPredSucc form, whose nodes are NodeInOut objects, and the           *)
(* traversal forEachNode_TopoOrder every executor builds on.               *)
(*                                                                         *)
(* The variables hold all the DAG objects of a process.  The library is    *)
(* single-threaded ("DAGEE classes are not thread-safe"), so at most one   *)
(* traversal is in progress and no DAG is changed during it.  A traversal  *)
(* takes one step per iteration of each of its loops, because the callback *)
(* it makes on a node lets asynchronous tasks run in between.              *)
(***************************************************************************)
EXTENDS Naturals, Sequences, SequencesExt, Functions, FiniteSets

CONSTANTS
  Dag,        \* DAG objects
  NoDag,      \* "no traversal in progress"
  Node,       \* addresses of NodeInOut objects
  MaxEdges,   \* bound: edges of all DAGs together
  CounterMax  \* largest value of AtomicCounterValue, an unsigned int

ASSUME NoDagAssumption   == NoDag \notin Dag
ASSUME BoundAssumption   == MaxEdges \in Nat
ASSUME CounterAssumption == CounterMax \in Nat \ {0}

VARIABLES
  allNodes,   \* mAllNodes of each DAG, in insertion order
  succs,      \* mSuccList of each node
  preds,      \* mPredList of each node
  numPred,    \* mNumPred of each node
  depCounter, \* mDepCounter of each node
  travDag,    \* the DAG being traversed, or NoDag
  phase,      \* the loop forEachNode_TopoOrder is in
  pos,        \* index into the list that loop walks
  nodeQ,      \* its local deque
  visited     \* history: the nodes func was called on, in that order

graphVars == <<allNodes, succs, preds, numPred>>
travVars  == <<depCounter, travDag, phase, pos, nodeQ, visited>>
vars      == <<allNodes, succs, preds, numPred,
               depCounter, travDag, phase, pos, nodeQ, visited>>

NodesOf(d) == Range(allNodes[d])
LiveNodes  == UNION {NodesOf(d) : d \in Dag}

(* Mutants: the counter of the last traversal tells a source; a node       *)
(* without edges is none; only a node without edges is a sink.             *)
MutIsSrcByCounter(n) == depCounter[n] = 0
MutIsSrcWithEdges(n) == numPred[n] = 0 /\ succs[n] # <<>>
MutIsSinkIsolated(n) == succs[n] = <<>> /\ preds[n] = <<>>

IsSrc(n)  == numPred[n] = 0
IsSink(n) == succs[n] = <<>>

hasSucc(a, b) == b \in Range(succs[a])
hasPred(b, a) == a \in Range(preds[b])
HasEdge(a, b) == hasSucc(a, b) /\ hasPred(b, a)

(* The positions of all successor lists, one per edge, duplicates included. *)
Edges == UNION {{<<a, i>> : i \in DOMAIN succs[a]} : a \in Node}

InEdges(n) == {e \in Edges : succs[e[1]][e[2]] = n}

-----------------------------------------------------------------------------
(* Building a graph.                                                       *)

AddNode(d, n) ==
  /\ travDag = NoDag
  /\ n \notin LiveNodes
  /\ allNodes'   = [allNodes EXCEPT ![d] = Append(@, n)]
  /\ succs'      = [succs EXCEPT ![n] = <<>>]
  /\ preds'      = [preds EXCEPT ![n] = <<>>]
  /\ numPred'    = [numPred EXCEPT ![n] = 0]
  /\ depCounter' = [depCounter EXCEPT ![n] = 0]
  /\ UNCHANGED <<travDag, phase, pos, nodeQ, visited>>

(* Mutant: addPred ignores a predecessor it has already.                   *)
MutLinkEdgeOncePerPred(a, b) ==
  /\ succs'   = [succs EXCEPT ![a] = Append(@, b)]
  /\ preds'   = [preds EXCEPT ![b] = IF a \in Range(@) THEN @ ELSE Append(@, a)]
  /\ numPred' = [numPred EXCEPT ![b] = @ + 1]

(* The two halves of an edge: a->addSucc(b), then b->addPred(a), which also *)
(* counts.  A repeated edge and one from a node to itself are asserted     *)
(* against in debug builds only; the default build adds them.              *)
LinkEdge(a, b) ==
  /\ succs'   = [succs EXCEPT ![a] = Append(@, b)]
  /\ preds'   = [preds EXCEPT ![b] = Append(@, a)]
  /\ numPred' = [numPred EXCEPT ![b] = @ + 1]

AddEdge(d, a, b) ==
  /\ travDag = NoDag
  /\ {a, b} \subseteq NodesOf(d)
  /\ Cardinality(Edges) < MaxEdges
  /\ LinkEdge(a, b)
  /\ UNCHANGED <<allNodes, travVars>>

AddEdgeIfAbsent(d, a, b) == ~HasEdge(a, b) /\ AddEdge(d, a, b)

(* clear(): every node of the DAG is destroyed.                            *)
Clear(d) ==
  /\ travDag = NoDag
  /\ allNodes' = [allNodes EXCEPT ![d] = <<>>]
  /\ succs'    = [n \in Node |-> IF n \in NodesOf(d) THEN <<>> ELSE succs[n]]
  /\ preds'    = [n \in Node |-> IF n \in NodesOf(d) THEN <<>> ELSE preds[n]]
  /\ numPred'  = [n \in Node |-> IF n \in NodesOf(d) THEN 0 ELSE numPred[n]]
  /\ UNCHANGED travVars

-----------------------------------------------------------------------------
(* forEachNode_TopoOrder.                                                  *)

Decremented(c) == IF c = 0 THEN CounterMax ELSE c - 1

(* Mutants: the counter is never reset; the value from before the          *)
(* decrement is compared; none is.                                         *)
MutNoReset(p)     == depCounter
MutOldCounter(d)  == depCounter[d] = 0
MutUncompared(d)  == TRUE

(* resetDepCounter, and the test that the edge released is the last one.   *)
ResetDepCounter(p) == [depCounter EXCEPT ![p] = numPred[p]]
LastEdge(d)        == Decremented(depCounter[d]) = 0

TopoBegin(d) ==
  /\ travDag = NoDag
  /\ travDag' = d
  /\ phase' = IF allNodes[d] = <<>> THEN "pop" ELSE "scan"
  /\ pos' = 1
  /\ nodeQ' = <<>>
  /\ visited' = <<>>
  /\ UNCHANGED <<graphVars, depCounter>>

(* The forEachNode pass: queue the sources, reset every counter.           *)
ScanNode ==
  LET p == allNodes[travDag][pos]
      last == pos = Len(allNodes[travDag])
  IN /\ phase = "scan"
     /\ nodeQ' = IF IsSrc(p) THEN Append(nodeQ, p) ELSE nodeQ
     /\ depCounter' = ResetDepCounter(p)
     /\ phase' = IF last THEN "pop" ELSE "scan"
     /\ pos' = IF last THEN 1 ELSE pos + 1
     /\ UNCHANGED <<graphVars, travDag, visited>>

(* Take the node at the back of the deque and call func on it.             *)
Visit ==
  LET p == Last(nodeQ)
  IN /\ phase = "pop"
     /\ nodeQ # <<>>
     /\ nodeQ' = Front(nodeQ)
     /\ visited' = Append(visited, p)
     /\ phase' = IF IsSink(p) THEN "pop" ELSE "succ"
     /\ pos' = 1
     /\ UNCHANGED <<graphVars, depCounter, travDag>>

(* The node whose successors are being walked is the one visited last.     *)
DecrementSucc ==
  LET p == Last(visited)
      d == succs[p][pos]
      last == pos = Len(succs[p])
  IN /\ phase = "succ"
     /\ depCounter' = [depCounter EXCEPT ![d] = Decremented(@)]
     /\ nodeQ' = IF LastEdge(d) THEN Append(nodeQ, d) ELSE nodeQ
     /\ phase' = IF last THEN "pop" ELSE "succ"
     /\ pos' = IF last THEN 1 ELSE pos + 1
     /\ UNCHANGED <<graphVars, travDag, visited>>

TopoEnd ==
  /\ phase = "pop"
  /\ nodeQ = <<>>
  /\ travDag' = NoDag
  /\ phase' = "idle"
  /\ visited' = <<>>
  /\ UNCHANGED <<graphVars, depCounter, pos, nodeQ>>

-----------------------------------------------------------------------------
Init ==
  /\ allNodes = [d \in Dag |-> <<>>]
  /\ succs = [n \in Node |-> <<>>]
  /\ preds = [n \in Node |-> <<>>]
  /\ numPred = [n \in Node |-> 0]
  /\ depCounter = [n \in Node |-> 0]
  /\ travDag = NoDag
  /\ phase = "idle"
  /\ pos = 1
  /\ nodeQ = <<>>
  /\ visited = <<>>

Build ==
  \E d \in Dag :
    \/ \E n \in Node : AddNode(d, n)
    \/ \E a, b \in Node : AddEdge(d, a, b)
    \/ \E a, b \in Node : AddEdgeIfAbsent(d, a, b)
    \/ Clear(d)

Traverse == ScanNode \/ Visit \/ DecrementSucc \/ TopoEnd

Next == Build \/ (\E d \in Dag : TopoBegin(d)) \/ Traverse

Spec == Init /\ [][Next]_vars

-----------------------------------------------------------------------------
TypeOK ==
  /\ allNodes \in [Dag -> Seq(Node)]
  /\ succs \in [Node -> Seq(Node)]
  /\ preds \in [Node -> Seq(Node)]
  /\ numPred \in [Node -> Nat]
  /\ depCounter \in [Node -> Nat]
  /\ travDag \in Dag \cup {NoDag}
  /\ phase \in {"idle", "scan", "pop", "succ"}
  /\ (phase = "idle") <=> (travDag = NoDag)
  /\ pos \in Nat \ {0}
  /\ nodeQ \in Seq(Node)
  /\ visited \in Seq(Node)
  /\ phase = "scan" => pos \in DOMAIN allNodes[travDag]
  /\ phase = "succ" => visited # <<>> /\ pos \in DOMAIN succs[Last(visited)]

(* A node is an element of one DAG, once: addNode and clear never leave a  *)
(* node object in two containers.                                          *)
NodesOnce ==
  /\ \A d \in Dag : IsInjective(allNodes[d])
  /\ \A c, d \in Dag : c # d => NodesOf(c) \cap NodesOf(d) = {}

(* Both ends of an edge agree, repeated edges included: b occurs in a's    *)
(* successor list as often as a occurs in b's predecessor list, and        *)
(* mNumPred counts the predecessor list.                                   *)
Occurrences(s, x) == Cardinality({i \in DOMAIN s : s[i] = x})

AdjacencyMirrored ==
  /\ \A a, b \in Node : Occurrences(succs[a], b) = Occurrences(preds[b], a)
  /\ \A b \in Node : numPred[b] = Len(preds[b])

(* No edge leads to, or comes from, a destroyed node or another DAG.       *)
EdgesWithinDag ==
  \A a, b \in Node :
    b \in Range(succs[a]) => \E d \in Dag : {a, b} \subseteq NodesOf(d)

(* An edge of the traversed DAG is released once its source's successor    *)
(* loop has passed it.                                                     *)
Released(e) ==
  /\ e[1] \in Range(visited)
  /\ ~(phase = "succ" /\ e[1] = Last(visited) /\ e[2] >= pos)

Pending(n) == {e \in InEdges(n) : ~Released(e)}

(* During the main loop the counter of a node is the number of its edges   *)
(* not yet released; in particular no decrement ever wraps.                *)
CounterExact ==
  phase \in {"pop", "succ"} =>
    \A n \in NodesOf(travDag) : depCounter[n] = Cardinality(Pending(n))

(* The assertion of the main loop, "invariant violation every node in      *)
(* nodeQ must be a source", with what makes it useful: a queued node has   *)
(* no edge left, is queued once and has not been visited.                  *)
QueueReady ==
  phase \in {"pop", "succ"} =>
    /\ IsInjective(nodeQ)
    /\ \A n \in Range(nodeQ) :
         /\ n \in NodesOf(travDag) \ Range(visited)
         /\ depCounter[n] = 0

(* forEachNode_TopoOrder calls func on a node at most once and only after  *)
(* it was called on all of the node's predecessors.                        *)
TopologicalOrder ==
  /\ IsInjective(visited)
  /\ \A i \in DOMAIN visited : \A a \in Range(preds[visited[i]]) :
       \E j \in 1..(i - 1) : visited[j] = a

EndOfTraversal == phase = "pop" /\ nodeQ = <<>>

Unvisited == NodesOf(travDag) \ Range(visited)

(* Every nonempty set of nodes has a first and a last member: one with no  *)
(* predecessor, and one with no successor, in the set.                     *)
Acyclic(d) ==
  \A S \in SUBSET NodesOf(d) : S # {} =>
    /\ \E n \in S : \A a \in S : n \notin Range(succs[a])
    /\ \E n \in S : \A b \in S : b \notin Range(succs[n])

(* A traversal of an acyclic DAG reaches every node, the first time and    *)
(* every later time, with repeated edges or without.                       *)
VisitsAll ==
  EndOfTraversal /\ Acyclic(travDag) => Unvisited = {}

(* What it leaves out of a graph with a cycle, silently, is behind the     *)
(* cycle: every node left out has a predecessor left out.                  *)
SkipsOnlyBehindCycle ==
  EndOfTraversal =>
    \A n \in Unvisited : \E a \in Unvisited : n \in Range(succs[a])

(* What a traversal has left to do: its passes, the nodes of the pass, the *)
(* edges of the node.                                                      *)
StagesLeft == CASE phase = "scan" -> 2 [] phase \in {"pop", "succ"} -> 1 [] OTHER -> 0
NodesLeft ==
  CASE phase = "scan" -> Len(allNodes[travDag]) - pos
    [] phase \in {"pop", "succ"} -> Cardinality(Unvisited)
    [] OTHER -> 0
EdgesLeft == IF phase = "succ" THEN Len(succs[Last(visited)]) - pos + 1 ELSE 0

LessLeft ==
  \/ StagesLeft' < StagesLeft
  \/ StagesLeft' = StagesLeft /\ NodesLeft' < NodesLeft
  \/ StagesLeft' = StagesLeft /\ NodesLeft' = NodesLeft /\ EdgesLeft' < EdgesLeft

(* Every step of a traversal leaves less to do, whatever the graph, also   *)
(* one with a cycle: since a traversal never gets stuck, it returns.       *)
TraversalAdvances == [][phase # "idle" => LessLeft]_vars

-----------------------------------------------------------------------------
(* The inductive invariant behind the safety properties.                   *)

(* Of the graph: the two lists of an edge's ends and the predecessor count *)
(* describe the same set of edges.                                         *)
GraphInv ==
  /\ NodesOnce
  /\ EdgesWithinDag
  /\ AdjacencyMirrored
  /\ \A a, b \in Node : b \in Range(succs[a]) <=> a \in Range(preds[b])
  /\ \A b \in Node : IsFiniteSet(InEdges(b)) /\ numPred[b] = Cardinality(InEdges(b))

(* Of the first pass: the sources among the nodes it has passed are        *)
(* queued, and the counters of all of those are reset.                     *)
ScanInv ==
  phase = "scan" =>
    LET passed == {allNodes[travDag][i] : i \in 1..(pos - 1)}
    IN /\ IsInjective(nodeQ)
       /\ Range(nodeQ) = {n \in passed : IsSrc(n)}
       /\ \A n \in passed : depCounter[n] = numPred[n]

(* Of the main loop: the nodes with no pending edge are those visited and  *)
(* those queued.                                                           *)
MainLoopInv ==
  phase \in {"pop", "succ"} =>
    /\ Range(visited) \subseteq NodesOf(travDag)
    /\ \A n \in NodesOf(travDag) :
         depCounter[n] = 0 <=> n \in Range(visited) \cup Range(nodeQ)

IInv ==
  /\ TypeOK
  /\ GraphInv
  /\ phase \in {"idle", "scan"} => visited = <<>>
  /\ ScanInv
  /\ CounterExact
  /\ QueueReady
  /\ MainLoopInv
  /\ TopologicalOrder
=============================================================================
