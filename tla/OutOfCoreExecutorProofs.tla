---------------------- MODULE OutOfCoreExecutorProofs ----------------------
(***************************************************************************)
(* Proofs about OutOfCoreExecutor, for every DAG of partitions, every      *)
(* number of slots, blocks and kernels and every DAG of kernels, when      *)
(* partitions are added in the order they depend on one another.  What a   *)
(* traversal does is taken from TaskDAGProofs.                             *)
(***************************************************************************)
EXTENDS OutOfCoreExecutor, ListLemmas, FiniteSetTheorems

P == INSTANCE TaskDAGProofs WITH Dag <- {PartDAG}, Node <- Partition

-----------------------------------------------------------------------------
(* D and P are instances of the same definitions.                          *)

LEMMA SameLists ==
  ASSUME NEW s
  PROVE  /\ P!Range(s) = Range(s) /\ D!Range(s) = Range(s)
         /\ P!Last(s) = Last(s) /\ D!Last(s) = Last(s)
         /\ P!Front(s) = Front(s) /\ D!Front(s) = Front(s)
         /\ (P!IsInjective(s) <=> IsInjective(s)) /\ (D!IsInjective(s) <=> IsInjective(s))
BY DEF P!Range, D!Range, Range, P!Last, D!Last, Last, P!Front, D!Front, Front,
       P!IsInjective, D!IsInjective, IsInjective

LEMMA SameCardinality ==
  ASSUME NEW S
  PROVE  P!Cardinality(S) = Cardinality(S) /\ D!Cardinality(S) = Cardinality(S)
BY DEF P!Cardinality, D!Cardinality, Cardinality, P!IsFiniteSet, D!IsFiniteSet, IsFiniteSet

LEMMA SameFinite ==
  ASSUME NEW S
  PROVE  P!IsFiniteSet(S) = IsFiniteSet(S) /\ D!IsFiniteSet(S) = IsFiniteSet(S)
BY DEF P!IsFiniteSet, D!IsFiniteSet, IsFiniteSet

LEMMA SameNodes ==
  ASSUME NEW d
  PROVE  P!NodesOf(d) = D!NodesOf(d) /\ D!NodesOf(d) = Range(allNodes[d])
BY DEF P!NodesOf, D!NodesOf, P!Range, D!Range, Range

LEMMA SameInit == D!Init <=> P!Init
BY DEF D!Init, P!Init

LEMMA SameEdges ==
  ASSUME NEW n
  PROVE  D!InEdges(n) = P!InEdges(n) /\ D!Pending(n) = P!Pending(n)
<1>1. D!InEdges(n) = P!InEdges(n)
  BY DEF D!InEdges, P!InEdges, D!Edges, P!Edges
<1>2. \A e : D!Released(e) <=> P!Released(e)
  BY SameLists DEF D!Released, P!Released
<1> QED
  BY <1>1, <1>2 DEF D!Pending, P!Pending

LEMMA SameGraph == (D!TypeOK <=> P!TypeOK) /\ (D!GraphInv <=> P!GraphInv)
<1>1. D!TypeOK <=> P!TypeOK
  BY DEF D!TypeOK, P!TypeOK, D!Last, P!Last
<1>2. \A s, x : D!Occurrences(s, x) = P!Occurrences(s, x)
  BY SameCardinality DEF D!Occurrences, P!Occurrences
<1>3. D!AdjacencyMirrored <=> P!AdjacencyMirrored
  BY <1>2 DEF D!AdjacencyMirrored, P!AdjacencyMirrored
<1>4. D!NodesOnce <=> P!NodesOnce
  BY SameLists, SameNodes DEF D!NodesOnce, P!NodesOnce
<1>5. D!EdgesWithinDag <=> P!EdgesWithinDag
  BY SameLists, SameNodes DEF D!EdgesWithinDag, P!EdgesWithinDag
<1> QED
  BY <1>1, <1>3, <1>4, <1>5, SameLists, SameEdges, SameCardinality, SameFinite
  DEF D!GraphInv, P!GraphInv

LEMMA SameInv == D!IInv <=> P!IInv
<1>1. D!ScanInv <=> P!ScanInv
  BY SameLists DEF D!ScanInv, P!ScanInv, D!IsSrc, P!IsSrc
<1>2. D!CounterExact <=> P!CounterExact
  BY SameEdges, SameCardinality, SameNodes DEF D!CounterExact, P!CounterExact
<1>3. D!QueueReady <=> P!QueueReady
  BY SameLists, SameNodes DEF D!QueueReady, P!QueueReady
<1>4. D!MainLoopInv <=> P!MainLoopInv
  BY SameLists, SameNodes DEF D!MainLoopInv, P!MainLoopInv
<1>5. D!TopologicalOrder <=> P!TopologicalOrder
  BY SameLists DEF D!TopologicalOrder, P!TopologicalOrder
<1> QED
  BY SameGraph, <1>1, <1>2, <1>3, <1>4, <1>5 DEF D!IInv, P!IInv

LEMMA SameGraphNext == (D!TypeOK' <=> P!TypeOK') /\ (D!GraphInv' <=> P!GraphInv')
BY SameGraph, PTL

LEMMA SameInvNext == D!IInv' <=> P!IInv'
BY SameInv, PTL

LEMMA SameSteps ==
  /\ \A d \in {PartDAG} : D!TopoBegin(d) <=> P!TopoBegin(d)
  /\ D!ScanNode <=> P!ScanNode
  /\ D!Visit <=> P!Visit
  /\ D!DecrementSucc <=> P!DecrementSucc
  /\ D!TopoEnd <=> P!TopoEnd
<1>1. \A d \in {PartDAG} : D!TopoBegin(d) <=> P!TopoBegin(d)
  BY DEF D!TopoBegin, P!TopoBegin, D!graphVars, P!graphVars
<1>2. D!ScanNode <=> P!ScanNode
  BY DEF D!ScanNode, P!ScanNode, D!graphVars, P!graphVars, D!IsSrc, P!IsSrc,
         D!ResetDepCounter, P!ResetDepCounter
<1>3. D!Visit <=> P!Visit
  BY SameLists DEF D!Visit, P!Visit, D!graphVars, P!graphVars, D!IsSink, P!IsSink
<1>4. D!DecrementSucc <=> P!DecrementSucc
  BY SameLists DEF D!DecrementSucc, P!DecrementSucc, D!graphVars, P!graphVars,
         D!LastEdge, P!LastEdge, D!Decremented, P!Decremented
<1>5. D!TopoEnd <=> P!TopoEnd
  BY DEF D!TopoEnd, P!TopoEnd, D!graphVars, P!graphVars
<1> QED
  BY <1>1, <1>2, <1>3, <1>4, <1>5

LEMMA SameBuild ==
  ASSUME NEW d \in {PartDAG}
  PROVE  /\ \A n \in Partition : D!AddNode(d, n) <=> P!AddNode(d, n)
         /\ \A a, b \in Partition : D!AddEdge(d, a, b) <=> P!AddEdge(d, a, b)
         /\ D!Clear(d) <=> P!Clear(d)
<1>1. D!LiveNodes = P!LiveNodes
  BY SameNodes DEF D!LiveNodes, P!LiveNodes
<1>2. \A n \in Partition : D!AddNode(d, n) <=> P!AddNode(d, n)
  BY <1>1 DEF D!AddNode, P!AddNode
<1>3. \A a, b \in Partition : D!AddEdge(d, a, b) <=> P!AddEdge(d, a, b)
  BY SameNodes, SameCardinality
  DEF D!AddEdge, P!AddEdge, D!LinkEdge, P!LinkEdge, D!travVars, P!travVars, D!Edges, P!Edges
<1>4. D!Clear(d) <=> P!Clear(d)
  BY SameNodes DEF D!Clear, P!Clear, D!travVars, P!travVars
<1> QED
  BY <1>2, <1>3, <1>4

-----------------------------------------------------------------------------
(* What the executor needs of a traversal.                                 *)

(* The neighbours of a node are nodes of the same DAG.                     *)
LEMMA Neighbours ==
  ASSUME D!IInv, NEW d \in {PartDAG}, NEW n \in D!NodesOf(d)
  PROVE  /\ n \in Partition
         /\ \A b \in Range(succs[n]) : b \in D!NodesOf(d) /\ n \in Range(preds[b])
         /\ \A a \in Range(preds[n]) : a \in D!NodesOf(d) /\ n \in Range(succs[a])
<1>1. /\ allNodes \in [{PartDAG} -> Seq(Partition)]
      /\ succs \in [Partition -> Seq(Partition)]
      /\ preds \in [Partition -> Seq(Partition)]
  BY DEF D!IInv, D!TypeOK
<1>2. D!NodesOnce /\ D!EdgesWithinDag
      /\ \A a, b \in Partition : b \in Range(succs[a]) <=> a \in Range(preds[b])
  BY SameLists DEF D!IInv, D!GraphInv
<1>3. n \in Partition
  BY <1>1, SameNodes DEF Range
<1>4. \A m \in Partition : Range(succs[m]) \subseteq Partition /\ Range(preds[m]) \subseteq Partition
  BY <1>1 DEF Range
<1>5. ASSUME NEW a \in Partition, NEW b \in Partition, b \in Range(succs[a])
      PROVE  a \in D!NodesOf(d) <=> b \in D!NodesOf(d)
  <2>1. PICK c \in {PartDAG} : {a, b} \subseteq D!NodesOf(c)
    BY <1>2, <1>5, SameLists DEF D!EdgesWithinDag
  <2> QED
    BY <1>2, <2>1 DEF D!NodesOnce
<1> QED
  BY <1>2, <1>3, <1>4, <1>5

LEMMA BeginStep ==
  ASSUME D!IInv, NEW d \in {PartDAG}, D!TopoBegin(d)
  PROVE  /\ D!IInv'
         /\ UNCHANGED <<allNodes, succs, preds, numPred>>
         /\ travDag = NoDag /\ travDag' = d
         /\ Range(visited) = {} /\ Range(visited') = {}
<1>1. D!IInv'
  BY SameInv, SameInvNext, SameSteps, P!TopoBeginInv, GraphAssumption
<1>2. visited = <<>> /\ visited' = <<>> /\ travDag = NoDag /\ travDag' = d
  BY DEF D!TopoBegin, D!IInv, D!TypeOK
<1> QED
  BY <1>1, <1>2 DEF D!TopoBegin, D!graphVars, Range

LEMMA WalkStep ==
  ASSUME D!IInv, D!ScanNode \/ D!DecrementSucc
  PROVE  /\ D!IInv'
         /\ UNCHANGED <<allNodes, succs, preds, numPred, travDag, visited>>
<1>1. D!IInv'
  BY SameInv, SameInvNext, SameSteps, P!ScanNodeInv, P!DecrementSuccInv, GraphAssumption
<1> QED
  BY <1>1 DEF D!ScanNode, D!DecrementSucc, D!graphVars

(* The node visited has not been visited in this walk, its predecessors    *)
(* have.                                                                   *)
LEMMA VisitStep ==
  ASSUME D!IInv, D!Visit
  PROVE  /\ D!IInv'
         /\ UNCHANGED <<allNodes, succs, preds, numPred, travDag>>
         /\ travDag \in {PartDAG}
         /\ Last(nodeQ) \in D!NodesOf(travDag)
         /\ Last(nodeQ) \in Partition
         /\ Last(nodeQ) \notin Range(visited)
         /\ Range(visited') = Range(visited) \cup {Last(nodeQ)}
         /\ Range(preds[Last(nodeQ)]) \subseteq Range(visited)
<1> DEFINE n == Last(nodeQ)
<1>1. D!IInv'
  BY SameInv, SameInvNext, SameSteps, P!VisitInv, GraphAssumption
<1>2. /\ UNCHANGED <<allNodes, succs, preds, numPred, travDag>>
      /\ phase = "pop" /\ nodeQ # <<>>
      /\ visited' = Append(visited, n)
  BY SameLists DEF D!Visit, D!graphVars
<1>3. /\ nodeQ \in Seq(Partition) /\ visited \in Seq(Partition)
      /\ travDag \in {PartDAG}
  BY <1>2 DEF D!IInv, D!TypeOK
<1>4. n \in Partition /\ n \in Range(nodeQ)
  <2> HIDE DEF n
  <2>1. Last(nodeQ) \in Partition /\ Range(nodeQ) = Range(Front(nodeQ)) \cup {Last(nodeQ)}
    BY <1>2, <1>3, FrontProperties
  <2> QED
    BY <2>1 DEF n
<1>5. n \in D!NodesOf(travDag) /\ n \notin Range(visited)
  BY <1>2, <1>4, SameLists DEF D!IInv, D!QueueReady
<1> HIDE DEF n
<1>6. /\ Range(visited') = Range(visited) \cup {n}
      /\ Len(visited') = Len(visited) + 1
      /\ \A i \in 1..Len(visited) : visited'[i] = visited[i]
      /\ visited'[Len(visited) + 1] = n
  BY <1>2, <1>3, <1>4, AppendLastRange
<1>7. Range(preds[n]) \subseteq Range(visited)
  <2> SUFFICES ASSUME NEW a \in Range(preds[n]) PROVE a \in Range(visited)
    OBVIOUS
  <2> DEFINE k == Len(visited) + 1
  <2>1. k \in DOMAIN visited' /\ visited'[k] = n /\ Len(visited) \in Nat
    BY <1>2, <1>3, <1>6
  <2>2. PICK j \in 1..(k - 1) : visited'[j] = a
    <3>1. a \in D!Range(preds'[visited'[k]])
      BY <1>2, <2>1, SameLists
    <3> QED
      BY <1>1, <2>1, <3>1 DEF D!IInv, D!TopologicalOrder
  <2>3. j \in 1..Len(visited) /\ visited[j] = a
    BY <1>6, <2>1, <2>2
  <2> QED
    BY <1>3, <2>3 DEF Range
<1> QED
  BY <1>1, <1>2, <1>3, <1>4, <1>5, <1>6, <1>7 DEF n

(* A walk that ends has visited every node of an acyclic DAG.              *)
LEMMA EndStep ==
  ASSUME D!IInv, D!TopoEnd, D!Acyclic(travDag)
  PROVE  /\ D!IInv'
         /\ UNCHANGED <<allNodes, succs, preds, numPred>>
         /\ travDag \in {PartDAG} /\ travDag' = NoDag
         /\ Range(visited) = D!NodesOf(travDag)
         /\ Range(visited') = {}
<1>1. D!IInv'
  BY SameInv, SameInvNext, SameSteps, P!TopoEndInv, GraphAssumption
<1>2. /\ UNCHANGED <<allNodes, succs, preds, numPred>>
      /\ travDag' = NoDag /\ visited' = <<>> /\ phase = "pop"
      /\ P!EndOfTraversal
  BY DEF D!TopoEnd, D!graphVars, P!EndOfTraversal
<1>3. travDag \in {PartDAG}
  BY <1>2 DEF D!IInv, D!TypeOK
<1>4. P!Unvisited = {}
  <2> SUFFICES ASSUME P!Unvisited # {} PROVE FALSE
    OBVIOUS
  <2>1. P!SkipsOnlyBehindCycle
    BY SameInv, SameInvNext, P!LeftOutBehindLeftOut, GraphAssumption
  <2>2. P!Unvisited \subseteq D!NodesOf(travDag)
    BY SameNodes DEF P!Unvisited
  <2>3. PICK n \in P!Unvisited : \A a \in P!Unvisited : n \notin D!Range(succs[a])
    BY <2>2 DEF D!Acyclic
  <2> QED
    BY <1>2, <2>1, <2>3, SameLists DEF P!SkipsOnlyBehindCycle
<1>5. Range(visited) \subseteq D!NodesOf(travDag)
  BY <1>2, SameLists DEF D!IInv, D!MainLoopInv
<1> QED
  BY <1>1, <1>2, <1>3, <1>4, <1>5, SameLists, SameNodes DEF P!Unvisited, Range

LEMMA BuildStep ==
  ASSUME D!IInv, NEW d \in {PartDAG},
         \/ \E n \in Partition : D!AddNode(d, n)
         \/ \E a, b \in Partition : D!AddEdge(d, a, b)
         \/ D!Clear(d)
  PROVE  D!IInv' /\ travDag' = travDag
<1>1. P!Build
  BY SameBuild DEF P!Build
<1> QED
  BY <1>1, SameInv, SameInvNext, P!BuildInv, GraphAssumption
  DEF D!AddNode, D!AddEdge, D!Clear, D!travVars

LEMMA NoWalkStep ==
  ASSUME D!IInv, UNCHANGED dagVars
  PROVE  D!IInv'
<1>1. UNCHANGED P!vars
  BY DEF dagVars, P!vars
<1> QED
  BY <1>1, SameInv, SameInvNext, P!StutterInv, GraphAssumption

-----------------------------------------------------------------------------
(* A list is its first element and the rest.                               *)

LEMMA HeadTailRange ==
  ASSUME NEW S, NEW s \in Seq(S), s # <<>>
  PROVE  Head(s) \in S /\ Tail(s) \in Seq(S) /\ Range(s) = {Head(s)} \cup Range(Tail(s))
<1>1. /\ Len(s) \in Nat \ {0} /\ DOMAIN s = 1..Len(s) /\ Head(s) = s[1] /\ s[1] \in S
      /\ Tail(s) \in Seq(S) /\ DOMAIN Tail(s) = 1..(Len(s) - 1)
      /\ \A i \in 1..(Len(s) - 1) : Tail(s)[i] = s[i + 1]
  OBVIOUS
<1>2. \A x : x \in Range(s) <=> \E i \in 1..Len(s) : s[i] = x
  BY <1>1 DEF Range
<1>3. \A x : x \in Range(Tail(s)) <=> \E i \in 1..(Len(s) - 1) : s[i + 1] = x
  BY <1>1 DEF Range
<1>4. ASSUME NEW x \in Range(s), x # Head(s)
      PROVE  x \in Range(Tail(s))
  <2>1. PICK i \in 1..Len(s) : s[i] = x
    BY <1>2
  <2>2. i - 1 \in 1..(Len(s) - 1) /\ (i - 1) + 1 = i
    BY <1>1, <1>4, <2>1
  <2> QED
    BY <1>3, <2>1, <2>2
<1>5. ASSUME NEW x \in Range(Tail(s))
      PROVE  x \in Range(s)
  <2>1. PICK i \in 1..(Len(s) - 1) : s[i + 1] = x
    BY <1>3
  <2>2. i + 1 \in 1..Len(s)
    BY <1>1, <2>1
  <2> QED
    BY <1>2, <2>1, <2>2
<1>6. Head(s) \in Range(s)
  <2>1. 1 \in 1..Len(s)
    BY <1>1
  <2> QED
    BY <1>1, <1>2, <2>1
<1> QED
  BY <1>1, <1>4, <1>5, <1>6

-----------------------------------------------------------------------------
(* Numbers: a nonempty set has a smallest and, if bounded, a largest one.  *)

LEMMA SmallestNumber ==
  ASSUME NEW S \in SUBSET Nat, S # {}
  PROVE  \E x \in S : \A y \in S : x <= y
<1> DEFINE Less == {ss \in Nat \X Nat : ss[1] < ss[2]}
<1>1. IsWellFoundedOn(Less, Nat)
  BY NatLessThanWellFounded DEF OpToRel
<1>2. S \subseteq Nat
  OBVIOUS
<1> HIDE DEF Less
<1>3. PICK x \in S : \A y \in S : ~ (<<y, x>> \in Less)
  BY <1>1, <1>2, WFMin
<1>4. \A y \in S : ~ (y < x)
  BY <1>3 DEF Less
<1> QED
  BY <1>4

LEMMA LargestNumber ==
  ASSUME NEW n \in Nat, NEW S \in SUBSET (1..n), S # {}
  PROVE  \E x \in S : \A y \in S : y <= x
<1> DEFINE T == {n - y : y \in S}
<1>1. T \in SUBSET Nat /\ T # {}
  <2>1. \A y \in S : n - y \in Nat
    OBVIOUS
  <2>2. PICK y \in S : TRUE
    OBVIOUS
  <2>3. n - y \in T
    OBVIOUS
  <2> QED
    BY <2>1, <2>3
<1> HIDE DEF T
<1>2. PICK t \in T : \A u \in T : t <= u
  BY <1>1, SmallestNumber
<1>3. PICK x \in S : t = n - x
  BY <1>2 DEF T
<1>4. ASSUME NEW y \in S PROVE y <= x
  <2>1. n - y \in T
    BY DEF T
  <2>2. n - x <= n - y
    BY <1>2, <1>3, <2>1
  <2> QED
    BY <2>2
<1> QED
  BY <1>4

-----------------------------------------------------------------------------
(* The program of a partition.                                             *)

Rank(stage) ==
  CASE stage = "src"       -> 1
    [] stage = "in"        -> 2
    [] stage = "inEnd"     -> 3
    [] stage = "kernel"    -> 4
    [] stage = "kernelEnd" -> 5
    [] stage = "out"       -> 6
    [] stage = "outEnd"    -> 7

Before(r, s) == Rank(r[1]) < Rank(s[1]) \/ (r[1] = s[1] /\ r[2] < s[2])

Role == ({"src", "inEnd", "kernelEnd", "outEnd"} \X {1})
          \cup ({"in", "out"} \X Block) \cup ({"kernel"} \X (1..NumKernels))

LEMMA RoleTypes ==
  ASSUME NEW r \in Role
  PROVE  /\ r[1] \in {"src", "in", "inEnd", "kernel", "kernelEnd", "out", "outEnd"}
         /\ r[2] \in Nat
         /\ r = <<r[1], r[2]>>
         /\ Rank(r[1]) \in 1..7
<1>1. NumBlocks \in Nat /\ NumKernels \in Nat
  BY BlocksAssumption
<1>2. r[1] \in {"src", "in", "inEnd", "kernel", "kernelEnd", "out", "outEnd"}
  BY DEF Role
<1>3. r[2] \in Nat /\ r = <<r[1], r[2]>>
  BY <1>1 DEF Role, Block
<1>4. Rank(r[1]) \in 1..7
  BY <1>2 DEF Rank
<1> QED
  BY <1>2, <1>3, <1>4

Sorted(s) == \A i, j \in DOMAIN s : i < j => Before(s[i], s[j])

LEMMA NumberedStage ==
  ASSUME NEW role, NEW n \in Nat, {role} \X (1..n) \subseteq Role
  PROVE  /\ Numbered(role, n) \in Seq(Role)
         /\ Sorted(Numbered(role, n))
         /\ Range(Numbered(role, n)) = {role} \X (1..n)
         /\ \A x \in Range(Numbered(role, n)) : x[1] = role
<1> DEFINE s == Numbered(role, n)
<1>1. /\ DOMAIN s = 1..n
      /\ \A i \in 1..n : s[i] = <<role, i>> /\ s[i] \in Role
  BY DEF Numbered
<1>2. s \in Seq(Role)
  BY <1>1 DEF Numbered
<1>3. Sorted(s)
  BY <1>1 DEF Sorted, Before
<1>4. Range(s) = {role} \X (1..n)
  <2>1. \A x : x \in Range(s) <=> \E i \in 1..n : x = <<role, i>>
    BY <1>1 DEF Range
  <2>2. \A x : x \in {role} \X (1..n) <=> \E i \in 1..n : x = <<role, i>>
    OBVIOUS
  <2> QED
    BY <2>1, <2>2
<1> QED
  BY <1>2, <1>3, <1>4

LEMMA SingleStage ==
  ASSUME NEW role, <<role, 1>> \in Role
  PROVE  /\ <<<<role, 1>>>> \in Seq(Role)
         /\ Sorted(<<<<role, 1>>>>)
         /\ Range(<<<<role, 1>>>>) = {<<role, 1>>}
         /\ Len(<<<<role, 1>>>>) = 1
         /\ <<<<role, 1>>>>[1] = <<role, 1>>
         /\ \A x \in Range(<<<<role, 1>>>>) : x[1] = role
<1> DEFINE s == <<<<role, 1>>>>
<1>1. /\ DOMAIN s = {1} /\ s[1] = <<role, 1>> /\ s \in Seq(Role) /\ Len(s) = 1
  OBVIOUS
<1>2. Range(s) = {<<role, 1>>}
  BY <1>1 DEF Range
<1> QED
  BY <1>1, <1>2 DEF Sorted

(* A stage added to a program whose stages all have a lower rank.          *)
LEMMA AddStage ==
  ASSUME NEW s \in Seq(Role), NEW t \in Seq(Role), NEW stage,
         Sorted(s), Sorted(t),
         \A x \in Range(s) : Rank(x[1]) < Rank(stage),
         \A x \in Range(t) : x[1] = stage
  PROVE  /\ s \o t \in Seq(Role)
         /\ Sorted(s \o t)
         /\ Range(s \o t) = Range(s) \cup Range(t)
         /\ Len(s \o t) = Len(s) + Len(t)
         /\ \A i \in 1..Len(t) : (s \o t)[Len(s) + i] = t[i]
<1> DEFINE u == s \o t
           m == Len(s)
           n == Len(t)
<1>1. /\ u \in Seq(Role) /\ Len(u) = m + n
      /\ \A i \in 1..m : u[i] = s[i]
      /\ \A i \in 1..n : u[m + i] = t[i]
      /\ \A k \in 1..(m + n) : k \in 1..m \/ \E i \in 1..n : k = m + i
      /\ Range(u) = Range(s) \cup Range(t)
  BY ConcatenateLists
<1>2. /\ m \in Nat /\ n \in Nat
      /\ DOMAIN s = 1..m /\ DOMAIN t = 1..n
  OBVIOUS
<1>3. DOMAIN u = 1..(m + n)
  BY <1>1, <1>2
<1> HIDE DEF u, m, n
<1>4. ASSUME NEW i \in 1..(m + n), NEW j \in 1..(m + n), i < j
      PROVE  Before(u[i], u[j])
  <2>1. CASE j \in 1..m
    <3>1. i \in 1..m
      BY <1>2, <1>4, <2>1
    <3> QED
      BY <1>1, <1>2, <1>4, <2>1, <3>1 DEF Sorted
  <2>2. CASE i \in 1..m /\ j \notin 1..m
    <3>1. PICK b \in 1..n : j = m + b
      BY <1>1, <2>2
    <3>2. u[i] = s[i] /\ u[j] = t[b]
      BY <1>1, <2>2, <3>1
    <3>3. s[i] \in Range(s) /\ t[b] \in Range(t)
      BY <1>2, <2>2 DEF Range
    <3> QED
      BY <3>2, <3>3 DEF Before
  <2>3. CASE i \notin 1..m
    <3>1. PICK a \in 1..n : i = m + a
      BY <1>1, <2>3
    <3>2. j \notin 1..m
      BY <1>2, <1>4, <2>3
    <3>3. PICK b \in 1..n : j = m + b
      BY <1>1, <3>2
    <3>4. a < b
      BY <1>2, <1>4, <3>1, <3>3
    <3>5. u[i] = t[a] /\ u[j] = t[b]
      BY <1>1, <3>1, <3>3
    <3> QED
      BY <1>2, <3>4, <3>5 DEF Sorted
  <2> QED
    BY <2>1, <2>2, <2>3
<1>5. Sorted(u)
  BY <1>3, <1>4 DEF Sorted
<1> QED
  BY <1>1, <1>5 DEF u, m, n

LEMMA ProgramStages ==
  /\ Program \in Seq(Role)
  /\ Sorted(Program)
  /\ Range(Program) = Role
  /\ Len(Program) \in Nat \ {0}
  /\ Program[Len(Program)] = <<"outEnd", 1>>
<1> DEFINE s1 == <<<<"src", 1>>>>
           t2 == Numbered("in", NumBlocks)
           t3 == <<<<"inEnd", 1>>>>
           t4 == Numbered("kernel", NumKernels)
           t5 == <<<<"kernelEnd", 1>>>>
           t6 == Numbered("out", NumBlocks)
           t7 == <<<<"outEnd", 1>>>>
           s2 == s1 \o t2
           s3 == s2 \o t3
           s4 == s3 \o t4
           s5 == s4 \o t5
           s6 == s5 \o t6
           s7 == s6 \o t7
           R1 == {<<"src", 1>>}
           R2 == R1 \cup ({"in"} \X (1..NumBlocks))
           R3 == R2 \cup {<<"inEnd", 1>>}
           R4 == R3 \cup ({"kernel"} \X (1..NumKernels))
           R5 == R4 \cup {<<"kernelEnd", 1>>}
           R6 == R5 \cup ({"out"} \X (1..NumBlocks))
           R7 == R6 \cup {<<"outEnd", 1>>}
<1>1. NumBlocks \in Nat /\ NumKernels \in Nat
  BY BlocksAssumption
<1>2. /\ {"in"} \X (1..NumBlocks) \subseteq Role
      /\ {"out"} \X (1..NumBlocks) \subseteq Role
      /\ {"kernel"} \X (1..NumKernels) \subseteq Role
      /\ <<"src", 1>> \in Role /\ <<"inEnd", 1>> \in Role
      /\ <<"kernelEnd", 1>> \in Role /\ <<"outEnd", 1>> \in Role
  BY DEF Role, Block
<1>3. Program = s7
  BY DEF Program
<1>4. Role = R7
  BY DEF Role, Block
<1>5. /\ \A x \in R1 : Rank(x[1]) < Rank("in")
      /\ \A x \in R2 : Rank(x[1]) < Rank("inEnd")
      /\ \A x \in R3 : Rank(x[1]) < Rank("kernel")
      /\ \A x \in R4 : Rank(x[1]) < Rank("kernelEnd")
      /\ \A x \in R5 : Rank(x[1]) < Rank("out")
      /\ \A x \in R6 : Rank(x[1]) < Rank("outEnd")
  BY DEF Rank
<1>6. /\ s1 \in Seq(Role) /\ Sorted(s1) /\ Range(s1) = R1
  BY <1>2, SingleStage
<1>7. /\ t2 \in Seq(Role) /\ Sorted(t2) /\ Range(t2) = {"in"} \X (1..NumBlocks)
      /\ \A x \in Range(t2) : x[1] = "in"
  BY <1>1, <1>2, NumberedStage
<1>8. /\ t3 \in Seq(Role) /\ Sorted(t3) /\ Range(t3) = {<<"inEnd", 1>>}
      /\ \A x \in Range(t3) : x[1] = "inEnd"
  BY <1>2, SingleStage
<1>9. /\ t4 \in Seq(Role) /\ Sorted(t4) /\ Range(t4) = {"kernel"} \X (1..NumKernels)
      /\ \A x \in Range(t4) : x[1] = "kernel"
  BY <1>1, <1>2, NumberedStage
<1>10. /\ t5 \in Seq(Role) /\ Sorted(t5) /\ Range(t5) = {<<"kernelEnd", 1>>}
       /\ \A x \in Range(t5) : x[1] = "kernelEnd"
  BY <1>2, SingleStage
<1>11. /\ t6 \in Seq(Role) /\ Sorted(t6) /\ Range(t6) = {"out"} \X (1..NumBlocks)
       /\ \A x \in Range(t6) : x[1] = "out"
  BY <1>1, <1>2, NumberedStage
<1>12. /\ t7 \in Seq(Role) /\ Sorted(t7) /\ Range(t7) = {<<"outEnd", 1>>}
       /\ \A x \in Range(t7) : x[1] = "outEnd"
       /\ Len(t7) = 1 /\ t7[1] = <<"outEnd", 1>>
  BY <1>2, SingleStage
<1> HIDE DEF s1, t2, t3, t4, t5, t6, t7, R1, R2, R3, R4, R5, R6, R7
<1>13. s2 \in Seq(Role) /\ Sorted(s2) /\ Range(s2) = R2
  BY <1>5, <1>6, <1>7, AddStage DEF R2
<1> HIDE DEF s2
<1>14. s3 \in Seq(Role) /\ Sorted(s3) /\ Range(s3) = R3
  BY <1>5, <1>8, <1>13, AddStage DEF R3
<1> HIDE DEF s3
<1>15. s4 \in Seq(Role) /\ Sorted(s4) /\ Range(s4) = R4
  BY <1>5, <1>9, <1>14, AddStage DEF R4
<1> HIDE DEF s4
<1>16. s5 \in Seq(Role) /\ Sorted(s5) /\ Range(s5) = R5
  BY <1>5, <1>10, <1>15, AddStage DEF R5
<1> HIDE DEF s5
<1>17. s6 \in Seq(Role) /\ Sorted(s6) /\ Range(s6) = R6
  BY <1>5, <1>11, <1>16, AddStage, SMTT(30) DEF R6
<1> HIDE DEF s6
<1>18. /\ s7 \in Seq(Role) /\ Sorted(s7) /\ Range(s7) = R7
       /\ Len(s7) = Len(s6) + 1 /\ s7[Len(s6) + 1] = <<"outEnd", 1>>
  <2>1. /\ s7 \in Seq(Role) /\ Sorted(s7) /\ Range(s7) = Range(s6) \cup Range(t7)
        /\ Len(s7) = Len(s6) + Len(t7)
        /\ \A i \in 1..Len(t7) : s7[Len(s6) + i] = t7[i]
    BY <1>5, <1>12, <1>17, AddStage
  <2>2. 1 \in 1..Len(t7)
    BY <1>12
  <2> QED
    BY <1>12, <1>17, <2>1, <2>2 DEF R7
<1>19. Len(s6) \in Nat
  BY <1>17
<1> QED
  BY <1>3, <1>4, <1>18, <1>19

(* A step is at one place of the program, and what comes before it in the  *)
(* order of steps comes before it in the program.                          *)
LEMMA ProgramOrder ==
  /\ \A i, j \in 1..Len(Program) : Program[i] = Program[j] => i = j
  /\ \A i, j \in 1..Len(Program) : Before(Program[i], Program[j]) => i < j
  /\ \A r \in Role : \E i \in 1..Len(Program) : Program[i] = r
  /\ \A i \in 1..Len(Program) : Program[i] \in Role
  /\ \A i \in 1..Len(Program) : Program[i][1] = "outEnd" <=> i = Len(Program)
<1>1. /\ DOMAIN Program = 1..Len(Program) /\ Len(Program) \in Nat \ {0}
      /\ Sorted(Program) /\ Range(Program) = Role
      /\ Program[Len(Program)] = <<"outEnd", 1>>
  BY ProgramStages
<1>2. \A i \in 1..Len(Program) : Program[i] \in Role
  BY ProgramStages
<1>3. \A r \in Role : ~Before(r, r)
  BY RoleTypes DEF Before
<1>4. \A r, s \in Role : ~(Before(r, s) /\ Before(s, r))
  BY RoleTypes DEF Before
<1>5. ASSUME NEW i \in 1..Len(Program), NEW j \in 1..Len(Program), i < j
      PROVE  Before(Program[i], Program[j])
  BY <1>1, <1>5 DEF Sorted
<1>6. ASSUME NEW i \in 1..Len(Program), NEW j \in 1..Len(Program), Program[i] = Program[j]
      PROVE  i = j
  BY <1>2, <1>3, <1>5, <1>6
<1>7. ASSUME NEW i \in 1..Len(Program), NEW j \in 1..Len(Program),
             Before(Program[i], Program[j])
      PROVE  i < j
  BY <1>2, <1>3, <1>4, <1>5, <1>7
<1>8. \A r \in Role : \E i \in 1..Len(Program) : Program[i] = r
  BY <1>1 DEF Range
<1>9. ASSUME NEW i \in 1..Len(Program)
      PROVE  Program[i][1] = "outEnd" <=> i = Len(Program)
  <2>1. \A r \in Role : r[1] = "outEnd" => r = <<"outEnd", 1>>
    BY DEF Role
  <2>2. Len(Program) \in 1..Len(Program)
    BY <1>1
  <2>3. ASSUME Program[i][1] = "outEnd" PROVE i = Len(Program)
    <3>1. Program[i] = Program[Len(Program)]
      BY <1>1, <1>2, <2>1, <2>3
    <3> QED
      BY <1>6, <2>2, <3>1
  <2>4. ASSUME i = Len(Program) PROVE Program[i][1] = "outEnd"
    <3>1. Program[i] = <<"outEnd", 1>>
      BY <1>1, <2>4
    <3> QED
      BY <3>1
  <2> QED
    BY <2>3, <2>4
<1> QED
  BY <1>2, <1>6, <1>7, <1>8, <1>9

(* The steps whose tasks a step requires, of the same partition.           *)
Needs(r) ==
  CASE r[1] = "src"       -> {}
    [] r[1] = "in"        -> {<<"src", 1>>}
    [] r[1] = "inEnd"     -> {"in"} \X Block
    [] r[1] = "kernel"    -> IF KernelPreds(r[2]) = {} THEN {<<"inEnd", 1>>}
                             ELSE {"kernel"} \X KernelPreds(r[2])
    [] r[1] = "kernelEnd" -> {"kernel"} \X KernelSinks
    [] r[1] = "out"       -> {<<"kernelEnd", 1>>}
    [] r[1] = "outEnd"    -> {"out"} \X Block

LEMMA KernelOrder ==
  ASSUME NEW j
  PROVE  /\ \A i \in KernelPreds(j) : i \in 1..NumKernels /\ j \in 1..NumKernels /\ i < j
         /\ KernelSinks \subseteq 1..NumKernels
<1>1. ASSUME NEW i \in KernelPreds(j)
      PROVE  i \in 1..NumKernels /\ j \in 1..NumKernels /\ i < j
  <2>1. PICK e \in KernelEdges : e[2] = j /\ i = e[1]
    BY DEF KernelPreds
  <2>2. e \in (1..NumKernels) \X (1..NumKernels) /\ e[1] < e[2]
    BY EdgesAssumption
  <2> QED
    BY <2>1, <2>2
<1> QED
  BY <1>1 DEF KernelSinks

LEMMA NeedsBefore ==
  ASSUME NEW r \in Role
  PROVE  /\ Needs(r) \subseteq Role
         /\ \A s \in Needs(r) : Before(s, r)
<1>1. r[1] \in {"src", "in", "inEnd", "kernel", "kernelEnd", "out", "outEnd"}
  BY RoleTypes
<1>2. CASE r[1] = "kernel"
  <2>1. Needs(r) = IF KernelPreds(r[2]) = {} THEN {<<"inEnd", 1>>}
                   ELSE {"kernel"} \X KernelPreds(r[2])
    BY <1>2 DEF Needs
  <2>2. ASSUME NEW s \in {"kernel"} \X KernelPreds(r[2])
        PROVE  s \in Role /\ Before(s, r)
    <3>1. s[1] = "kernel" /\ s[2] \in KernelPreds(r[2]) /\ s = <<s[1], s[2]>>
      OBVIOUS
    <3>2. s[2] \in 1..NumKernels /\ s[2] < r[2]
      BY <3>1, KernelOrder
    <3> QED
      BY <1>2, <3>1, <3>2 DEF Role, Before
  <2>3. <<"inEnd", 1>> \in Role /\ Before(<<"inEnd", 1>>, r)
    BY <1>2 DEF Role, Before, Rank
  <2> QED
    BY <2>1, <2>2, <2>3
<1>3. CASE r[1] = "kernelEnd"
  <2>1. Needs(r) = {"kernel"} \X KernelSinks
    BY <1>3 DEF Needs
  <2>2. KernelSinks \subseteq 1..NumKernels
    BY DEF KernelSinks
  <2> QED
    BY <1>3, <2>1, <2>2 DEF Role, Before, Rank
<1>4. CASE r[1] \in {"src", "in", "inEnd", "out", "outEnd"}
  BY <1>4 DEF Needs, Role, Before, Rank
<1> QED
  BY <1>1, <1>2, <1>3, <1>4

(* A set of steps that has with each step what that step needs; only the   *)
(* first step needs none.                                                  *)
Founded(X) ==
  /\ X \subseteq Role
  /\ \A r \in X : Needs(r) \subseteq X /\ (r[1] = "src" \/ Needs(r) # {})

(* Such a set has with a step all steps of the stages before it.           *)
LEMMA StagesBefore ==
  ASSUME NEW X, Founded(X), NEW r \in X, NEW s \in Role, Rank(s[1]) < Rank(r[1])
  PROVE  s \in X
<1>1. /\ NumKernels \in Nat
      /\ r \in Role
      /\ \A x \in X : x \in Role /\ Needs(x) \subseteq X /\ (x[1] = "src" \/ Needs(x) # {})
  BY BlocksAssumption DEF Founded
<1> DEFINE All(stage) == \A x \in Role : x[1] = stage => x \in X
           Some(stage) == \E x \in X : x[1] = stage
<1>2. Some("in") => All("src")
  <2> SUFFICES ASSUME NEW x \in X, x[1] = "in" PROVE All("src")
    OBVIOUS
  <2>1. <<"src", 1>> \in X
    BY <1>1 DEF Needs
  <2> QED
    BY <2>1 DEF Role
<1>3. Some("inEnd") => All("in") /\ Some("in")
  <2> SUFFICES ASSUME NEW x \in X, x[1] = "inEnd" PROVE All("in") /\ Some("in")
    OBVIOUS
  <2>1. Needs(x) = {"in"} \X Block
    BY DEF Needs
  <2>2. {"in"} \X Block \subseteq X /\ {"in"} \X Block # {}
    BY <1>1, <2>1
  <2>3. PICK y \in {"in"} \X Block : y \in X
    BY <2>2
  <2>4. All("in")
    BY <2>2 DEF Role
  <2> QED
    BY <2>3, <2>4
<1>4. Some("kernel") => All("inEnd")
  <2> SUFFICES ASSUME Some("kernel") PROVE All("inEnd")
    OBVIOUS
  <2> DEFINE K == {k \in 1..NumKernels : <<"kernel", k>> \in X}
  <2>1. K \in SUBSET Nat /\ K # {}
    <3>1. PICK x \in X : x[1] = "kernel"
      OBVIOUS
    <3>2. x[2] \in 1..NumKernels /\ x = <<"kernel", x[2]>>
      BY <1>1, <3>1 DEF Role
    <3> QED
      BY <1>1, <3>2
  <2> HIDE DEF K
  <2>2. PICK k \in K : \A i \in K : k <= i
    BY <2>1, SmallestNumber
  <2>3. k \in Nat /\ <<"kernel", k>> \in X
    BY <2>1, <2>2 DEF K
  <2>4. KernelPreds(k) = {}
    <3> SUFFICES ASSUME NEW i \in KernelPreds(k) PROVE FALSE
      OBVIOUS
    <3>1. i \in 1..NumKernels /\ i < k
      BY KernelOrder
    <3>2. Needs(<<"kernel", k>>) = {"kernel"} \X KernelPreds(k)
      BY DEF Needs
    <3>3. <<"kernel", i>> \in X
      BY <1>1, <2>3, <3>2
    <3>4. i \in K
      BY <3>1, <3>3 DEF K
    <3> QED
      BY <1>1, <2>2, <2>3, <3>1, <3>4
  <2>5. Needs(<<"kernel", k>>) = {<<"inEnd", 1>>}
    BY <2>4 DEF Needs
  <2>6. <<"inEnd", 1>> \in X
    BY <1>1, <2>3, <2>5
  <2> QED
    BY <2>6 DEF Role
<1>5. Some("kernelEnd") => All("kernel") /\ Some("kernel")
  <2> SUFFICES ASSUME NEW x \in X, x[1] = "kernelEnd" PROVE All("kernel") /\ Some("kernel")
    OBVIOUS
  <2>1. Needs(x) = {"kernel"} \X KernelSinks
    BY DEF Needs
  <2>2. {"kernel"} \X KernelSinks \subseteq X /\ {"kernel"} \X KernelSinks # {}
    BY <1>1, <2>1
  <2>3. PICK y \in {"kernel"} \X KernelSinks : y \in X
    BY <2>2
  <2> DEFINE L == {k \in 1..NumKernels : <<"kernel", k>> \notin X}
  <2>4. L \in SUBSET (1..NumKernels)
    OBVIOUS
  <2>5. L = {}
    <3> SUFFICES ASSUME L # {} PROVE FALSE
      OBVIOUS
    <3> HIDE DEF L
    <3>1. PICK k \in L : \A i \in L : i <= k
      BY <1>1, <2>4, LargestNumber
    <3>2. k \in 1..NumKernels /\ <<"kernel", k>> \notin X
      BY <3>1 DEF L
    <3>3. k \notin KernelSinks
      BY <2>2, <3>2
    <3>4. PICK e \in KernelEdges : e[1] = k
      BY <3>2, <3>3 DEF KernelSinks
    <3>5. k \in KernelPreds(e[2])
      BY <3>4 DEF KernelPreds
    <3>6. e[2] \in 1..NumKernels /\ k < e[2]
      BY <3>5, KernelOrder
    <3>7. <<"kernel", e[2]>> \in X
      BY <1>1, <3>1, <3>6 DEF L
    <3>8. Needs(<<"kernel", e[2]>>) = {"kernel"} \X KernelPreds(e[2])
      BY <3>5 DEF Needs
    <3> QED
      BY <1>1, <3>2, <3>5, <3>7, <3>8
  <2>6. All("kernel")
    BY <2>5 DEF Role
  <2> QED
    BY <2>3, <2>6
<1>6. Some("out") => All("kernelEnd") /\ Some("kernelEnd")
  <2> SUFFICES ASSUME NEW x \in X, x[1] = "out" PROVE All("kernelEnd") /\ Some("kernelEnd")
    OBVIOUS
  <2>1. <<"kernelEnd", 1>> \in X
    BY <1>1 DEF Needs
  <2> QED
    BY <2>1 DEF Role
<1>7. Some("outEnd") => All("out") /\ Some("out")
  <2> SUFFICES ASSUME NEW x \in X, x[1] = "outEnd" PROVE All("out") /\ Some("out")
    OBVIOUS
  <2>1. Needs(x) = {"out"} \X Block
    BY DEF Needs
  <2>2. {"out"} \X Block \subseteq X /\ {"out"} \X Block # {}
    BY <1>1, <2>1
  <2>3. PICK y \in {"out"} \X Block : y \in X
    BY <2>2
  <2>4. All("out")
    BY <2>2 DEF Role
  <2> QED
    BY <2>3, <2>4
<1>8. All("inEnd") => Some("inEnd")
  <2>1. <<"inEnd", 1>> \in Role
    BY DEF Role
  <2> QED
    BY <2>1
<1>9. Some(r[1])
  OBVIOUS
<1>10. /\ r[1] \in {"src", "in", "inEnd", "kernel", "kernelEnd", "out", "outEnd"}
       /\ s[1] \in {"src", "in", "inEnd", "kernel", "kernelEnd", "out", "outEnd"}
  BY <1>1, RoleTypes
<1> HIDE DEF All, Some
<1>11. All(s[1])
  BY <1>2, <1>3, <1>4, <1>5, <1>6, <1>7, <1>8, <1>9, <1>10 DEF Rank
<1> QED
  BY <1>11 DEF All

-----------------------------------------------------------------------------
(* The tasks of a call.                                                    *)

LEMMA TaskTypes ==
  ASSUME TypeOK
  PROVE  /\ Old \in Nat /\ Len(status) = Old + Len(made)
         /\ Len(status) \in Nat /\ Len(made) \in Nat
         /\ DOMAIN status = 1..Len(status)
         /\ \A h : h \in Current <=> h \in (Old + 1)..Len(status)
         /\ \A h \in Current :
              /\ h \in Nat \ {0} /\ h \in DOMAIN status /\ h \notin 1..Old
              /\ Task(h) \in [part : Partition, role : Role, requires : SUBSET Nat]
              /\ Task(h).part \in Partition /\ Task(h).role \in Role
<1>1. Len(made) \in Nat /\ Len(status) \in Nat /\ Len(made) <= Len(status)
      /\ DOMAIN status = 1..Len(status)
  BY DEF TypeOK
<1>2. Old \in Nat /\ Len(status) = Old + Len(made)
  BY <1>1 DEF Old
<1>3. ASSUME NEW h \in Current
      PROVE  /\ h \in Nat \ {0} /\ h \in DOMAIN status /\ h \notin 1..Old
             /\ Task(h) \in [part : Partition, role : Role, requires : SUBSET Nat]
  <2>1. h \in (Old + 1)..Len(status)
    BY DEF Current
  <2>2. h - Old \in 1..Len(made)
    BY <1>1, <1>2, <2>1
  <2>3. Task(h) = made[h - Old]
    BY DEF Task
  <2>4. made[h - Old] \in [part : Partition, role : Role, requires : SUBSET Nat]
    <3> DEFINE R == [part : Partition, role : Role, requires : SUBSET Nat]
    <3>1. made \in Seq(R)
      BY ProgramStages DEF TypeOK
    <3> HIDE DEF R
    <3>2. \A i \in 1..Len(made) : made[i] \in R
      BY <3>1
    <3> QED
      BY <2>2, <3>2 DEF R
  <2> QED
    BY <1>1, <1>2, <2>1, <2>3, <2>4
<1>4. \A h \in Current : Task(h).part \in Partition /\ Task(h).role \in Role
  BY <1>3
<1> QED
  BY <1>1, <1>2, <1>3, <1>4 DEF Current

LEMMA SameTasks ==
  ASSUME Len(status') = Len(status), made' = made
  PROVE  /\ Old' = Old /\ Current' = Current
         /\ \A h : Task(h)' = Task(h)
         /\ \A p : TasksOf(p)' = TasksOf(p)
         /\ \A p, r : Stage(p, r)' = Stage(p, r)
         /\ \A p, R : Handles(p, R)' = Handles(p, R)
BY DEF Old, Current, Task, TasksOf, Stage, Handles

LEMMA NoTasks ==
  ASSUME TypeOK, made = <<>>
  PROVE  Current = {} /\ Old = Len(status)
<1>1. Old = Len(status) /\ \A h : h \notin Current
  BY TaskTypes
<1> QED
  BY <1>1

(* What a task requires, by the steps of the program.                      *)
RequiresNeeds ==
  \A h \in Current :
    Task(h).requires =
      IF Task(h).role[1] = "src" THEN PredTasks(Task(h).part)
      ELSE {g \in TasksOf(Task(h).part) : Task(g).role \in Needs(Task(h).role)}

LEMMA RequiresByNeeds ==
  ASSUME TypeOK, NEW p, NEW r \in Role
  PROVE  Requires(p, r) =
           IF r[1] = "src" THEN PredTasks(p)
           ELSE {g \in TasksOf(p) : Task(g).role \in Needs(r)}
<1> DEFINE Have(R) == {g \in TasksOf(p) : Task(g).role \in R}
<1>1. ASSUME NEW g \in Current
      PROVE  /\ Task(g).role[1] = "src" <=> Task(g).role \in {<<"src", 1>>}
             /\ Task(g).role[1] = "inEnd" <=> Task(g).role \in {<<"inEnd", 1>>}
             /\ Task(g).role[1] = "kernelEnd" <=> Task(g).role \in {<<"kernelEnd", 1>>}
             /\ Task(g).role[1] = "in" <=> Task(g).role \in {"in"} \X Block
             /\ Task(g).role[1] = "out" <=> Task(g).role \in {"out"} \X Block
  <2>1. Task(g).role \in Role
    BY TaskTypes
  <2> QED
    BY <2>1 DEF Role
<1>2. /\ Stage(p, "src") = Have({<<"src", 1>>})
      /\ Stage(p, "inEnd") = Have({<<"inEnd", 1>>})
      /\ Stage(p, "kernelEnd") = Have({<<"kernelEnd", 1>>})
      /\ Stage(p, "in") = Have({"in"} \X Block)
      /\ Stage(p, "out") = Have({"out"} \X Block)
  BY <1>1, Zenon DEF Stage, TasksOf
<1>3. \A R : Handles(p, R) = Have(R)
  BY DEF Handles, TasksOf
<1>4. \A J : {<<"kernel", i>> : i \in J} = {"kernel"} \X J
  OBVIOUS
<1> HIDE DEF Have
<1>5. r[1] \in {"src", "in", "inEnd", "kernel", "kernelEnd", "out", "outEnd"}
  BY RoleTypes
<1>6. CASE r[1] = "src"
  BY <1>6 DEF Requires
<1>7. CASE r[1] \in {"in", "inEnd", "out", "outEnd"}
  <2>1. Requires(p, r) = Have(Needs(r))
    BY <1>2, <1>7 DEF Requires, Needs, BeforeOut
  <2> QED
    BY <1>7, <2>1 DEF Have
<1>8. CASE r[1] = "kernel"
  <2>1. Requires(p, r) = IF KernelPreds(r[2]) = {} THEN Stage(p, "inEnd")
                ELSE Handles(p, {<<"kernel", i>> : i \in KernelPreds(r[2])})
    BY <1>8 DEF Requires
  <2>2. Needs(r) = IF KernelPreds(r[2]) = {} THEN {<<"inEnd", 1>>}
                   ELSE {"kernel"} \X KernelPreds(r[2])
    BY <1>8 DEF Needs
  <2>3. Requires(p, r) = Have(Needs(r))
    BY <1>2, <1>3, <1>4, <2>1, <2>2
  <2> QED
    BY <1>8, <2>3 DEF Have
<1>9. CASE r[1] = "kernelEnd"
  <2>1. Requires(p, r) = Handles(p, {<<"kernel", i>> : i \in KernelSinks})
    BY <1>9 DEF Requires
  <2>2. Needs(r) = {"kernel"} \X KernelSinks
    BY <1>9 DEF Needs
  <2>3. Requires(p, r) = Have(Needs(r))
    BY <1>3, <1>4, <2>1, <2>2
  <2> QED
    BY <1>9, <2>3 DEF Have
<1> QED
  BY <1>5, <1>6, <1>7, <1>8, <1>9

LEMMA RequiresForm ==
  TypeOK => ((\A h \in Current : Task(h).requires = Requires(Task(h).part, Task(h).role))
               <=> RequiresNeeds)
<1> SUFFICES ASSUME TypeOK
             PROVE  (\A h \in Current : Task(h).requires = Requires(Task(h).part, Task(h).role))
                       <=> RequiresNeeds
  OBVIOUS
<1>1. ASSUME NEW h \in Current
      PROVE  Requires(Task(h).part, Task(h).role) =
               IF Task(h).role[1] = "src" THEN PredTasks(Task(h).part)
               ELSE {g \in TasksOf(Task(h).part) : Task(g).role \in Needs(Task(h).role)}
  BY TaskTypes, RequiresByNeeds
<1> QED
  BY <1>1, Zenon DEF RequiresNeeds

LEMMA RequiresFormNext ==
  ASSUME TypeOK'
  PROVE  (\A h \in Current : Task(h).requires = Requires(Task(h).part, Task(h).role))'
            <=> RequiresNeeds'
BY RequiresForm, PTL

(* The tasks a partition has for the steps that one needs.                 *)
Needed(p, r) == {g \in TasksOf(p) : Task(g).role \in Needs(r)}

RequiresNeeded ==
  \A h \in Current : \A p, r :
    Task(h).part = p /\ Task(h).role = r =>
      Task(h).requires = IF r[1] = "src" THEN PredTasks(p) ELSE Needed(p, r)

LEMMA RequiresNeededForm == RequiresNeeds <=> RequiresNeeded
BY DEF RequiresNeeds, RequiresNeeded, Needed

LEMMA RequiresNeededNext == RequiresNeeds' <=> RequiresNeeded'
BY RequiresNeededForm, PTL

(* The steps before a task's step have tasks.                              *)
LEMMA EarlierMade ==
  ASSUME TypeOK, MadeInv, NEW h \in Current, NEW s \in Role, Before(s, Task(h).role)
  PROVE  \E g \in TasksOf(Task(h).part) : Task(g).role = s
<1> DEFINE p == Task(h).part
           n == Cardinality(TasksOf(p))
<1>1. p \in Range(Parts) /\ h \in TasksOf(p)
  BY DEF MadeInv, TasksOf
<1>2. n <= Len(Program) /\ {Task(g).role : g \in TasksOf(p)} = {Program[i] : i \in 1..n}
  BY <1>1 DEF MadeInv
<1>3. Task(h).role \in {Task(g).role : g \in TasksOf(p)}
  BY <1>1
<1> HIDE DEF p, n
<1>4. PICK i \in 1..n : Task(h).role = Program[i]
  BY <1>2, <1>3
<1>5. PICK j \in 1..Len(Program) : Program[j] = s
  BY ProgramOrder
<1>6. i \in Nat /\ Len(Program) \in Nat
  BY <1>4, ProgramStages
<1>7. TasksOf(p) \subseteq Current
  BY DEF TasksOf
<1>8. n \in Nat
  <2>1. IsFiniteSet(Current)
    <3>1. Current \subseteq 1..Len(status) /\ Len(status) \in Nat
      BY TaskTypes
    <3>2. IsFiniteSet(1..Len(status))
      BY <3>1, FS_Interval
    <3> QED
      BY <3>1, <3>2, FS_Subset
  <2> QED
    BY <1>7, <2>1, FS_Subset, FS_CardinalityType DEF n
<1>9. i \in 1..Len(Program)
  BY <1>2, <1>4, <1>6, <1>8
<1>10. j < i
  BY <1>4, <1>5, <1>9, ProgramOrder
<1>11. j \in 1..n
  BY <1>4, <1>5, <1>8, <1>10
<1>12. s \in {Task(g).role : g \in TasksOf(p)}
  BY <1>2, <1>5, <1>11
<1> QED
  BY <1>12 DEF p

-----------------------------------------------------------------------------
(* What has run when a task runs.                                          *)

Started(h) == status[h] \in {"running", "done"}

(* The steps of a partition whose tasks are done.                          *)
StepsDone(p) == {Task(g).role : g \in {x \in TasksOf(p) : IsDone(x)}}

LEMMA RequiredDone ==
  ASSUME TypeOK, MadeInv, RunInv, NEW h \in Current, Started(h)
  PROVE  /\ Needs(Task(h).role) \subseteq StepsDone(Task(h).part)
         /\ Task(h).role[1] = "src" \/ Needs(Task(h).role) # {}
<1> DEFINE p == Task(h).part
           r == Task(h).role
<1>1. RequiresNeeds /\ r \in Role
  BY RequiresForm, TaskTypes DEF MadeInv
<1>2. CASE r[1] = "src"
  BY <1>2 DEF Needs
<1>3. CASE r[1] # "src"
  <2>1. Task(h).requires = {g \in TasksOf(p) : Task(g).role \in Needs(r)}
    BY <1>1, <1>3 DEF RequiresNeeds
  <2>2. Task(h).requires # {}
    BY <1>3 DEF RunInv, Started
  <2>3. \A g \in Task(h).requires : IsDone(g)
    BY DEF RunInv, Started
  <2>4. ASSUME NEW s \in Needs(r)
        PROVE  s \in StepsDone(p)
    <3>1. s \in Role /\ Before(s, r)
      BY <1>1, NeedsBefore
    <3> HIDE DEF p, r
    <3>2. PICK g \in TasksOf(p) : Task(g).role = s
      BY <3>1, EarlierMade DEF p, r
    <3>3. IsDone(g)
      BY <2>1, <2>3, <3>2
    <3> QED
      BY <3>2, <3>3 DEF StepsDone
  <2> QED
    BY <2>1, <2>2, <2>4
<1> QED
  BY <1>2, <1>3

(* When a task runs, or has run, the tasks of the stages before its own    *)
(* are made and done.                                                      *)
LEMMA EarlierStagesDone ==
  ASSUME TypeOK, MadeInv, RunInv, NEW h \in Current, Started(h),
         NEW s \in Role, Rank(s[1]) < Rank(Task(h).role[1])
  PROVE  /\ \E g \in TasksOf(Task(h).part) : Task(g).role = s /\ IsDone(g)
         /\ \A g \in TasksOf(Task(h).part) : Task(g).role = s => IsDone(g)
<1> DEFINE p == Task(h).part
           r == Task(h).role
           X == StepsDone(p) \cup {r}
<1>1. r \in Role
  BY TaskTypes
<1>2. ASSUME NEW x \in StepsDone(p)
      PROVE  x \in Role /\ Needs(x) \subseteq StepsDone(p) /\ (x[1] = "src" \/ Needs(x) # {})
  <2>1. PICK g \in TasksOf(p) : IsDone(g) /\ Task(g).role = x
    BY DEF StepsDone
  <2>2. g \in Current /\ Task(g).part = p /\ Started(g)
    BY <2>1 DEF TasksOf, Started, IsDone
  <2> QED
    BY <2>1, <2>2, RequiredDone, TaskTypes
<1>3. Needs(r) \subseteq StepsDone(p) /\ (r[1] = "src" \/ Needs(r) # {})
  BY RequiredDone
<1> HIDE DEF p, r
<1>4. Founded(X)
  BY <1>1, <1>2, <1>3 DEF Founded
<1>5. s \in X
  <2> HIDE DEF X
  <2>1. r \in X
    BY DEF X
  <2> QED
    BY <1>4, <2>1, StagesBefore DEF r
<1>6. s # r
  BY <1>1, RoleTypes DEF r
<1>7. PICK g \in TasksOf(p) : Task(g).role = s /\ IsDone(g)
  BY <1>5, <1>6 DEF StepsDone
<1>8. ASSUME NEW i \in TasksOf(p), Task(i).role = s
      PROVE  IsDone(i)
  <2>1. i \in Current /\ g \in Current /\ Task(i).part = Task(g).part
    BY <1>7, <1>8 DEF TasksOf
  <2>2. i = g
    BY <1>7, <1>8, <2>1 DEF MadeInv
  <2> QED
    BY <1>7, <2>2
<1> QED
  BY <1>7, <1>8 DEF p

(* The results of a partition are copied back when its last task runs.     *)
SinkDone(p) == \E g \in Stage(p, "outEnd") : IsDone(g)

LEMMA SinkDoneOver ==
  ASSUME TypeOK, MadeInv, RunInv, NEW p, SinkDone(p)
  PROVE  /\ Over(p)
         /\ \A g \in TasksOf(p) : IsDone(g)
<1>1. PICK h \in Stage(p, "outEnd") : IsDone(h)
  BY DEF SinkDone
<1>2. h \in Current /\ Task(h).part = p /\ Task(h).role[1] = "outEnd" /\ Started(h)
  BY <1>1 DEF Stage, Started, IsDone
<1>3. ASSUME NEW g \in TasksOf(p)
      PROVE  IsDone(g)
  <2>1. g \in Current /\ Task(g).part = p /\ Task(g).role \in Role
    BY TaskTypes DEF TasksOf
  <2>2. CASE Task(g).role[1] = "outEnd"
    <3>1. Task(g).role = Task(h).role
      <4>1. \A r \in Role : r[1] = "outEnd" => r = <<"outEnd", 1>>
        BY DEF Role
      <4> QED
        BY <1>2, <2>1, <2>2, <4>1, TaskTypes
    <3>2. g = h
      BY <1>2, <2>1, <3>1 DEF MadeInv
    <3> QED
      BY <1>1, <3>2
  <2>3. CASE Task(g).role[1] # "outEnd"
    <3>1. Rank(Task(g).role[1]) < Rank(Task(h).role[1])
      BY <1>2, <2>1, <2>3, RoleTypes DEF Rank
    <3> QED
      BY <1>2, <2>1, <3>1, EarlierStagesDone
  <2> QED
    BY <2>2, <2>3
<1>4. \A g \in Stage(p, "out") : g \in TasksOf(p)
  BY DEF Stage, TasksOf
<1> QED
  BY <1>1, <1>3, <1>4 DEF Over

(* A partition runs when the last tasks of those it depends on are done.   *)
LEMMA PredsDone ==
  ASSUME D!IInv, TypeOK, HostInv, MadeInv, RunInv,
         NEW h \in Current, Started(h), NEW q \in Range(preds[Task(h).part])
  PROVE  SinkDone(q)
<1> DEFINE p == Task(h).part
<1>1. Executing /\ DependsBackwards
  <2>1. made # <<>>
    BY NoTasks
  <2> QED
    BY <2>1 DEF HostInv
<1>2. p \in Range(Parts) /\ q \in Range(preds[p])
  BY DEF MadeInv
<1>3. q \in Range(Parts)
  <2>1. p \in D!NodesOf(PartDAG)
    BY <1>2, SameNodes DEF Parts
  <2>2. q \in D!NodesOf(PartDAG)
    BY <1>2, <2>1, Neighbours
  <2> QED
    BY <2>2, SameNodes DEF Parts
<1> HIDE DEF p
<1> DEFINE i == IndexOf(p)
           j == IndexOf(q)
<1>4. i \in DOMAIN Parts /\ Parts[i] = p /\ j \in DOMAIN Parts /\ Parts[j] = q
  BY <1>2, <1>3 DEF IndexOf, Range
<1>5. j < i
  BY <1>1, <1>2 DEF DependsBackwards
<1> HIDE DEF i, j
<1>6. DOMAIN Parts \subseteq Nat
  <2>1. Parts \in Seq(Partition)
    BY DEF D!IInv, D!TypeOK, Parts
  <2> QED
    BY <2>1
<1>7. host = "make" => i <= cur
  <2>1. h \in TasksOf(p)
    BY DEF p, TasksOf
  <2>2. host = "make" => ~(i > cur)
    BY <1>4, <2>1 DEF MadeInv
  <2> QED
    BY <1>4, <1>6, <2>2 DEF TypeOK
<1>8. Passed(j)
  BY <1>1, <1>4, <1>5, <1>6, <1>7 DEF Passed, TypeOK
<1>9. sinkTask[q] \in Stage(q, "outEnd")
  BY <1>4, <1>8 DEF MadeInv
<1>10. PICK g \in TasksOf(p) : Task(g).role[1] = "src" /\ Started(g)
  <2>1. CASE Task(h).role[1] = "src"
    BY <2>1 DEF TasksOf, p
  <2>2. CASE Task(h).role[1] # "src"
    <3>1. <<"src", 1>> \in Role
      BY DEF Role
    <3>2. Rank("src") < Rank(Task(h).role[1])
      BY <2>2, TaskTypes, RoleTypes DEF Rank
    <3>3. PICK g \in TasksOf(p) : Task(g).role = <<"src", 1>> /\ IsDone(g)
      BY <3>1, <3>2, EarlierStagesDone DEF p
    <3> QED
      BY <3>3 DEF Started, IsDone
  <2> QED
    BY <2>1, <2>2
<1>11. g \in Current /\ Task(g).part = p
  BY DEF TasksOf
<1>12. Task(g).requires = PredTasks(p)
  <2>1. RequiresNeeds
    BY RequiresForm DEF MadeInv
  <2> QED
    BY <1>10, <1>11, <2>1 DEF RequiresNeeds
<1>13. sinkTask[q] \in Task(g).requires
  BY <1>2, <1>12 DEF PredTasks
<1>14. IsDone(sinkTask[q])
  BY <1>10, <1>11, <1>13 DEF RunInv, Started
<1> QED
  BY <1>9, <1>14 DEF SinkDone

(* Where one partition leads to another, the one is over before the other  *)
(* starts: the partitions that do not start before it are closed under     *)
(* the edges.                                                              *)
LEMMA LeadsInTurn ==
  ASSUME D!IInv, TypeOK, HostInv, MadeInv, RunInv,
         NEW p \in Partition, NEW h \in Current, Started(h),
         Leads(p, Task(h).part), Task(h).part # p
  PROVE  SinkDone(p)
<1> DEFINE After(q) == (\E g \in TasksOf(q) : Started(g)) => SinkDone(p)
           S == {p} \cup {q \in Partition : After(q)}
<1>1. newEdges = <<>>
  <2>1. made # <<>>
    BY NoTasks
  <2> QED
    BY <2>1 DEF HostInv, Executing
<1>2. ASSUME NEW e \in Linked, e[1] \in S
      PROVE  e[2] \in S
  <2>1. e \in Partition \X Partition /\ e[2] \in Range(succs[e[1]])
    BY <1>1, EmptyList DEF Linked
  <2>2. e[1] \in Range(preds[e[2]])
    BY <2>1, SameLists DEF D!IInv, D!GraphInv
  <2> SUFFICES ASSUME NEW g \in TasksOf(e[2]), Started(g)
               PROVE  SinkDone(p)
    BY <2>1
  <2>3. g \in Current /\ Task(g).part = e[2]
    BY DEF TasksOf
  <2>4. SinkDone(e[1])
    BY <2>2, <2>3, PredsDone
  <2>5. \E x \in TasksOf(e[1]) : Started(x)
    BY <2>4 DEF SinkDone, Stage, TasksOf, Started, IsDone
  <2> QED
    BY <1>2, <2>4, <2>5
<1>3. S \in SUBSET Partition /\ p \in S
  OBVIOUS
<1>4. Task(h).part \in S
  <2> HIDE DEF S
  <2> QED
    BY <1>2, <1>3 DEF Leads
<1>5. After(Task(h).part)
  BY <1>4
<1> QED
  BY <1>5 DEF TasksOf


-----------------------------------------------------------------------------
(* The safety properties follow.                                           *)

(* The list of partitions, each of which has its place in it.              *)
LEMMA Places ==
  ASSUME D!IInv
  PROVE  /\ Parts \in Seq(Partition)
         /\ Range(Parts) = D!NodesOf(PartDAG)
         /\ Range(Parts) \subseteq Partition
         /\ \A i, j \in DOMAIN Parts : Parts[i] = Parts[j] => i = j
         /\ \A i \in DOMAIN Parts : i \in Nat /\ IndexOf(Parts[i]) = i
         /\ \A p \in Range(Parts) : IndexOf(p) \in DOMAIN Parts /\ Parts[IndexOf(p)] = p
<1>1. Parts \in Seq(Partition)
  BY DEF D!IInv, D!TypeOK, Parts
<1>2. Range(Parts) = D!NodesOf(PartDAG)
  BY SameNodes DEF Parts
<1>3. \A i, j \in DOMAIN Parts : Parts[i] = Parts[j] => i = j
  BY SameLists DEF D!IInv, D!GraphInv, D!NodesOnce, Parts, IsInjective
<1>4. Range(Parts) \subseteq Partition
  BY <1>1 DEF Range
<1>5. \A p \in Range(Parts) : IndexOf(p) \in DOMAIN Parts /\ Parts[IndexOf(p)] = p
  BY DEF IndexOf, Range
<1>6. \A i \in DOMAIN Parts : Parts[i] \in Range(Parts)
  BY DEF Range
<1>7. DOMAIN Parts \subseteq Nat
  BY <1>1
<1>8. \A i \in DOMAIN Parts : i \in Nat /\ IndexOf(Parts[i]) = i
  BY <1>3, <1>5, <1>6, <1>7
<1> QED
  BY <1>1, <1>2, <1>3, <1>4, <1>5, <1>8

(* Where there is a task there is an execution.                            *)
LEMMA TasksExecute ==
  ASSUME TypeOK, HostInv, NEW h \in Current
  PROVE  Executing /\ prepared /\ DependsBackwards /\ Settled = Range(Parts)
<1>1. made # <<>>
  BY NoTasks
<1> QED
  BY <1>1 DEF HostInv, Executing, Settled

(* Of two partitions that share a slot and have started, one is over.      *)
LEMMA SharedSlot ==
  ASSUME D!IInv, TypeOK, HostInv, SlotInv, MadeInv, RunInv,
         NEW g \in Current, NEW h \in Current, Started(g), Started(h),
         Task(g).part # Task(h).part,
         deviceData[Task(g).part] = deviceData[Task(h).part]
  PROVE  SinkDone(Task(g).part) \/ SinkDone(Task(h).part)
<1>1. Task(g).part \in Settled /\ Task(h).part \in Settled
  BY TasksExecute DEF MadeInv
<1>2. Leads(Task(g).part, Task(h).part) \/ Leads(Task(h).part, Task(g).part)
  BY <1>1 DEF SlotInv
<1>3. Task(g).part \in Partition /\ Task(h).part \in Partition
  BY TaskTypes
<1> QED
  BY <1>2, <1>3, LeadsInTurn

LEMMA TurnsTaken ==
  IInv => SlotsTakeTurns
<1> SUFFICES ASSUME IInv, NEW p \in Range(Parts), NEW q \in Range(Parts),
                    p # q, deviceData[p] = deviceData[q], Begun(p), Begun(q)
             PROVE  Over(p) \/ Over(q)
  BY DEF SlotsTakeTurns
<1>1. PICK g \in Stage(p, "in") : status[g] \in {"running", "done"}
  BY DEF Begun
<1>2. PICK h \in Stage(q, "in") : status[h] \in {"running", "done"}
  BY DEF Begun
<1>3. /\ g \in Current /\ Task(g).part = p /\ Started(g)
      /\ h \in Current /\ Task(h).part = q /\ Started(h)
  BY <1>1, <1>2 DEF Stage, Started
<1>4. SinkDone(p) \/ SinkDone(q)
  BY <1>3, SharedSlot DEF IInv
<1> QED
  BY <1>4, SinkDoneOver DEF IInv

LEMMA DependsInOrder ==
  IInv => PartitionsInOrder
<1> SUFFICES ASSUME IInv, NEW p \in Range(Parts), Begun(p), NEW q \in Range(preds[p])
             PROVE  Over(q)
  BY DEF PartitionsInOrder
<1>1. PICK h \in Stage(p, "in") : status[h] \in {"running", "done"}
  BY DEF Begun
<1>2. h \in Current /\ Task(h).part = p /\ Started(h)
  BY <1>1 DEF Stage, Started
<1>3. SinkDone(q)
  BY <1>2, PredsDone DEF IInv
<1> QED
  BY <1>3, SinkDoneOver DEF IInv

(* A partition with a kernel or a copy back that runs is not over.         *)
LEMMA NotOver ==
  ASSUME TypeOK, MadeInv, RunInv, NEW h \in Current,
         status[h] = "running", Task(h).role[1] \in {"kernel", "out"}, NEW b \in Block
  PROVE  ~Over(Task(h).part)
<1> DEFINE p == Task(h).part
<1> SUFFICES ASSUME Over(p) PROVE FALSE
  OBVIOUS
<1>1. ~IsDone(h)
  BY DEF IsDone
<1>2. CASE Task(h).role[1] = "out"
  BY <1>1, <1>2 DEF Over, Stage
<1>3. CASE Task(h).role[1] = "kernel"
  <2>1. PICK g \in Current : Task(g).part = p /\ Task(g).role[1] = "outEnd"
    BY DEF Over, Stage
  <2>2. <<"out", b>> \in Role /\ Before(<<"out", b>>, Task(g).role)
    BY <2>1 DEF Role, Before, Rank
  <2>3. PICK i \in TasksOf(p) : Task(i).role = <<"out", b>>
    BY <2>1, <2>2, EarlierMade
  <2>4. i \in Current /\ Task(i).part = p /\ IsDone(i)
    BY <2>3 DEF TasksOf, Over, Stage
  <2>5. Rank(Task(h).role[1]) < Rank(Task(i).role[1])
    BY <1>3, <2>3 DEF Rank
  <2>6. h \in TasksOf(Task(i).part) /\ Task(h).role \in Role
    BY <2>4, TaskTypes DEF TasksOf
  <2>7. Started(i)
    BY <2>4 DEF Started, IsDone
  <2> QED
    BY <1>1, <2>4, <2>5, <2>6, <2>7, EarlierStagesDone
<1> QED
  BY <1>2, <1>3

LEMMA OwnDataFound ==
  IInv => WorksOnOwnData
<1> SUFFICES ASSUME IInv, NEW h \in Current, status[h] = "running",
                    Task(h).role[1] \in {"kernel", "out"}
             PROVE  /\ \A b \in Block : slotData[deviceData[Task(h).part]][b] = Task(h).part
                    /\ Task(h).role[1] = "out" => \A k \in Stage(Task(h).part, "kernel") : IsDone(k)
  BY DEF WorksOnOwnData
<1>1. TypeOK /\ MadeInv /\ RunInv /\ DataInv /\ Started(h)
  BY DEF IInv, Started
<1>2. ASSUME NEW b \in Block
      PROVE  slotData[deviceData[Task(h).part]][b] = Task(h).part
  <2>1. <<"in", b>> \in Role /\ Rank("in") < Rank(Task(h).role[1])
    BY DEF Role, Rank
  <2>2. PICK g \in TasksOf(Task(h).part) : Task(g).role = <<"in", b>> /\ IsDone(g)
    BY <1>1, <2>1, EarlierStagesDone
  <2>3. g \in Current /\ Task(g).part = Task(h).part
    BY <2>2 DEF TasksOf
  <2>4. ~Over(Task(h).part)
    BY <1>1, NotOver
  <2> QED
    BY <1>1, <2>2, <2>3, <2>4 DEF DataInv
<1>3. ASSUME Task(h).role[1] = "out", NEW k \in Stage(Task(h).part, "kernel")
      PROVE  IsDone(k)
  <2>1. k \in TasksOf(Task(h).part) /\ Task(k).role[1] = "kernel" /\ Task(k).role \in Role
    BY TaskTypes, <1>1 DEF Stage, TasksOf
  <2>2. Rank(Task(k).role[1]) < Rank(Task(h).role[1])
    BY <1>3, <2>1 DEF Rank
  <2> QED
    BY <1>1, <2>1, <2>2, EarlierStagesDone
<1> QED
  BY <1>2, <1>3

(* When the sinks are done everything is: of the partitions with a task    *)
(* not done take the last; if it is no sink, one that depends on it is     *)
(* done, and has waited for it.                                            *)
LEMMA AllDone ==
  ASSUME IInv, host = "wait", cur > Len(sinks)
  PROVE  \A h \in DOMAIN status : IsDone(h)
<1>1. D!IInv /\ TypeOK /\ HostInv /\ MadeInv /\ RunInv
  BY DEF IInv
<1>2. Executing /\ DependsBackwards
  BY <1>1 DEF Executing, HostInv
<1>3. \A i \in DOMAIN Parts : sinkTask[Parts[i]] \in Stage(Parts[i], "outEnd")
  BY <1>1, <1>2 DEF MadeInv, Passed
<1>4. \A i \in DOMAIN sinks : IsDone(sinks[i])
  <2>1. sinks \in Seq(Nat) /\ cur \in Nat
    BY <1>1 DEF TypeOK
  <2> QED
    BY <1>1, <2>1 DEF RunInv
<1> DEFINE S == {i \in DOMAIN Parts : \E h \in TasksOf(Parts[i]) : ~IsDone(h)}
<1>5. S = {}
  <2> SUFFICES ASSUME S # {} PROVE FALSE
    OBVIOUS
  <2>1. Parts \in Seq(Partition)
    BY <1>1, Places
  <2>2. Len(Parts) \in Nat /\ DOMAIN Parts = 1..Len(Parts) /\ S \in SUBSET (1..Len(Parts))
    BY <2>1
  <2> HIDE DEF S
  <2>3. PICK x \in S : \A y \in S : y <= x
    BY <2>2, LargestNumber
  <2> DEFINE p == Parts[x]
  <2>4. x \in DOMAIN Parts /\ IndexOf(p) = x /\ p \in Range(Parts) /\ p \in Partition
    <3>1. x \in DOMAIN Parts
      BY <2>2, <2>3
    <3>2. Parts[x] \in Range(Parts)
      BY <3>1 DEF Range
    <3> QED
      BY <1>1, <3>1, <3>2, Places
  <2>5. PICK h \in TasksOf(p) : ~IsDone(h)
    BY <2>3 DEF S
  <2> HIDE DEF p
  <2>6. ~SinkDone(p)
    BY <1>1, <2>5, SinkDoneOver
  <2>7. sinkTask[p] \in Stage(p, "outEnd")
    BY <1>3, <2>4 DEF p
  <2>8. CASE D!IsSink(p)
    <3>1. sinkTask[p] \in Range(sinks)
      BY <1>1, <2>7, <2>8 DEF RunInv, Stage
    <3>2. IsDone(sinkTask[p])
      BY <1>4, <3>1 DEF Range
    <3> QED
      BY <2>6, <2>7, <3>2 DEF SinkDone
  <2>9. CASE ~D!IsSink(p)
    <3>1. succs \in [Partition -> Seq(Partition)]
      BY <1>1 DEF D!IInv, D!TypeOK
    <3>2. PICK q : q \in Range(succs[p])
      BY <2>4, <2>9, <3>1 DEF D!IsSink, Range
    <3>3. q \in Range(Parts) /\ p \in Range(preds[q])
      BY <1>1, <2>4, <3>2, Neighbours, Places
    <3>4. IndexOf(q) \in DOMAIN Parts /\ Parts[IndexOf(q)] = q /\ x < IndexOf(q)
      BY <1>1, <1>2, <2>4, <3>3, Places DEF DependsBackwards
    <3>5. IndexOf(q) \notin S
      BY <2>2, <2>3, <2>4, <3>4
    <3>6. \A g \in TasksOf(q) : IsDone(g)
      BY <3>4, <3>5 DEF S
    <3>7. sinkTask[q] \in Stage(q, "outEnd")
      BY <1>3, <3>4
    <3>8. sinkTask[q] \in Current /\ Task(sinkTask[q]).part = q /\ sinkTask[q] \in TasksOf(q)
      BY <3>7 DEF Stage, TasksOf
    <3>9. Started(sinkTask[q])
      BY <3>6, <3>8 DEF Started, IsDone
    <3>10. SinkDone(p)
      BY <1>1, <3>3, <3>8, <3>9, PredsDone
    <3> QED
      BY <2>6, <3>10
  <2> QED
    BY <2>8, <2>9
<1>6. ASSUME NEW h \in Current
      PROVE  IsDone(h)
  <2>1. Task(h).part \in Range(Parts) /\ h \in TasksOf(Task(h).part)
    BY <1>1 DEF MadeInv, TasksOf
  <2>2. PICK i \in DOMAIN Parts : Parts[i] = Task(h).part
    BY <2>1 DEF Range
  <2> QED
    BY <1>5, <2>1, <2>2
<1> QED
  <2> SUFFICES ASSUME NEW h \in DOMAIN status PROVE IsDone(h)
    OBVIOUS
  <2>1. h \in 1..Old \/ h \in Current
    BY <1>1, TaskTypes
  <2> QED
    BY <1>1, <1>6, <2>1 DEF RunInv

LEMMA DoneWhenIdle ==
  IInv => AllDoneOnReturn
<1> SUFFICES ASSUME IInv, host = "idle", NEW h \in DOMAIN status
             PROVE  IsDone(h)
  BY DEF AllDoneOnReturn
<1>1. TypeOK /\ RunInv /\ made = <<>>
  BY DEF IInv, HostInv, Executing
<1>2. h \in 1..Old
  BY <1>1, NoTasks, TaskTypes
<1> QED
  BY <1>1, <1>2 DEF RunInv


-----------------------------------------------------------------------------
(* The invariant is inductive.  Before there are tasks, and after.         *)

NoTasksYet ==
  /\ TypeOK
  /\ made = <<>> /\ sources = <<>>
  /\ host # "wait"
  /\ \A i \in DOMAIN Parts : ~Passed(i)
  /\ \A h \in DOMAIN status : IsDone(h)

LEMMA NoTasksYetInv == NoTasksYet => MadeInv /\ RunInv /\ DataInv
<1> SUFFICES ASSUME NoTasksYet
             PROVE  MadeInv /\ RunInv /\ DataInv
  OBVIOUS
<1>1. /\ TypeOK /\ Current = {} /\ Old = Len(status)
      /\ Range(sources) = {} /\ DOMAIN status = 1..Len(status)
  BY NoTasks, TaskTypes, EmptyList DEF NoTasksYet
<1>2. \A p : TasksOf(p) = {} /\ \A r : Stage(p, r) = {}
  BY <1>1 DEF TasksOf, Stage
<1>3. \A p : Cardinality(TasksOf(p)) = 0
  BY <1>2, FS_EmptySet
<1>4. MadeInv
  <2>1. Len(Program) \in Nat
    BY ProgramStages
  <2>2. ASSUME NEW p \in Range(Parts), NEW n, n = Cardinality(TasksOf(p))
        PROVE  n <= Len(Program) /\ {Task(h).role : h \in TasksOf(p)} = {Program[i] : i \in 1..n}
    <3>1. n = 0
      BY <1>3, <2>2
    <3>2. {Task(h).role : h \in TasksOf(p)} = {}
      BY <1>2
    <3>3. 1..0 = {}
      OBVIOUS
    <3>4. {Program[i] : i \in 1..n} = {}
      BY <3>1, <3>3
    <3> QED
      BY <2>1, <3>1, <3>2, <3>4
  <2>3. \A i \in DOMAIN Parts : ~Passed(i)
    BY DEF NoTasksYet
  <2> QED
    BY <1>1, <1>2, <2>2, <2>3 DEF MadeInv
<1>5. RunInv
  BY <1>1 DEF RunInv, NoTasksYet
<1>6. DataInv
  BY <1>1 DEF DataInv
<1> QED
  BY <1>4, <1>5, <1>6

LEMMA NoTasksYetNext == NoTasksYet' => MadeInv' /\ RunInv' /\ DataInv'
BY NoTasksYetInv, PTL

LEMMA InitInv == Init => IInv
<1> SUFFICES ASSUME Init PROVE IInv
  OBVIOUS
<1>1. D!IInv
  BY SameInit, SameInv, P!InitInv, GraphAssumption DEF Init
<1>2. Range(<<>>) = {} /\ Len(<<>>) = 0 /\ (\A S : <<>> \in Seq(S)) /\ DOMAIN <<>> = {}
  BY DEF Range
<1>3. TypeOK
  <2>1. /\ deviceData \in [Partition -> Nat] /\ sinkTask \in [Partition -> Nat]
        /\ prevUser \in [Slot -> Partition \cup {Nobody}]
        /\ slotData \in [Slot -> [Block -> Partition \cup {Nobody}]]
        /\ host \in {"idle", "slots", "edges", "make", "activate", "wait"}
        /\ cur \in Nat \ {0} /\ prepared \in BOOLEAN
    <3>1. prepared = FALSE /\ cur = 1 /\ host = "idle"
      BY DEF Init
    <3>2. /\ deviceData \in [Partition -> Nat] /\ sinkTask \in [Partition -> Nat]
          /\ prevUser \in [Slot -> Partition \cup {Nobody}]
      BY DEF Init, NoSlot, NoHandle
    <3>3. slotData \in [Slot -> [Block -> Partition \cup {Nobody}]]
      BY DEF Init
    <3>4. prepared \in BOOLEAN
      BY <3>1, Zenon
    <3>5. cur \in Nat \ {0}
      BY <3>1
    <3> QED
      BY <3>1, <3>2, <3>3, <3>4, <3>5, Zenon
  <2>2. newEdges = <<>> /\ status = <<>> /\ made = <<>> /\ sources = <<>> /\ sinks = <<>>
    BY DEF Init
  <2>3. \A S : /\ newEdges \in Seq(S) /\ status \in Seq(S) /\ made \in Seq(S)
               /\ sources \in Seq(S) /\ sinks \in Seq(S)
    BY <1>2, <2>2
  <2>4. Len(made) <= Len(status) /\ Range(sources) \subseteq Current /\ Range(sinks) \subseteq Current
    BY <1>2, <2>2
  <2> QED
    BY <2>1, <2>3, <2>4, Zenon DEF TypeOK
<1>4. HostInv
  BY DEF Init, HostInv, Executing, D!Init
<1>5. SlotInv
  <2>1. Settled = {} /\ host # "slots"
    BY DEF Init, Settled
  <2> QED
    BY <2>1 DEF SlotInv
<1>6. NoTasksYet
  BY <1>2, <1>3 DEF Init, NoTasksYet, Passed, Executing
<1> QED
  BY <1>1, <1>3, <1>4, <1>5, <1>6, NoTasksYetInv DEF IInv

(* Outside executePartitionDAG no task is left.                            *)
LEMMA Outside ==
  ASSUME IInv, ~Executing
  PROVE  /\ made = <<>> /\ sources = <<>> /\ sinks = <<>> /\ cur = 1
         /\ \A h \in DOMAIN status : IsDone(h)
<1>1. TypeOK /\ RunInv /\ made = <<>> /\ sources = <<>> /\ sinks = <<>> /\ cur = 1
  BY DEF IInv, HostInv
<1>2. \A h \in DOMAIN status : h \in 1..Old
  BY <1>1, NoTasks, TaskTypes
<1> QED
  BY <1>1, <1>2 DEF RunInv

(* A step outside it leaves nothing to show but for the DAG and the slots. *)
LEMMA OutsideStep ==
  ASSUME IInv, ~Executing, ~Executing',
         UNCHANGED <<cur, sources, sinks, status, made>>,
         D!IInv', TypeOK', HostInv', SlotInv'
  PROVE  IInv'
<1>1. NoTasksYet'
  BY Outside DEF NoTasksYet, Passed, Executing, IsDone
<1> QED
  BY <1>1, NoTasksYetNext DEF IInv

-----------------------------------------------------------------------------
(* Which partition leads to which.                                         *)

LEMMA LeadsMore ==
  ASSUME Linked \subseteq Linked', NEW p, NEW q, Leads(p, q)
  PROVE  Leads(p, q)'
<1> SUFFICES ASSUME NEW S \in SUBSET Partition, p \in S,
                    \A e \in Linked' : e[1] \in S => e[2] \in S
             PROVE  q \in S
  BY DEF Leads
<1>1. \A e \in Linked : e[1] \in S => e[2] \in S
  OBVIOUS
<1> QED
  BY <1>1 DEF Leads

LEMMA LeadsOn ==
  ASSUME Linked \subseteq Linked', NEW p, NEW q, NEW r, Leads(p, q), <<q, r>> \in Linked'
  PROVE  Leads(p, r)'
<1> SUFFICES ASSUME NEW S \in SUBSET Partition, p \in S,
                    \A e \in Linked' : e[1] \in S => e[2] \in S
             PROVE  r \in S
  BY DEF Leads
<1>1. q \in S
  BY DEF Leads
<1>2. <<q, r>>[1] \in S => <<q, r>>[2] \in S
  OBVIOUS
<1> QED
  BY <1>1, <1>2

LEMMA LeadsSelf ==
  ASSUME NEW p
  PROVE  Leads(p, p) /\ Leads(p, p)'
BY DEF Leads

(* The slots stay settled while the edges only grow.                       *)
LEMMA SettledKept ==
  ASSUME SlotInv, Linked \subseteq Linked', deviceData' = deviceData,
         Settled' \subseteq Settled, host' = "slots" => host = "slots",
         host' = "slots" => prevUser' = prevUser /\ Range(visited') = Range(visited)
  PROVE  SlotInv'
<1>1. \A p, q : Leads(p, q) => Leads(p, q)'
  BY LeadsMore
<1> QED
  BY <1>1 DEF SlotInv

LEMMA SameLinked ==
  ASSUME UNCHANGED <<succs, newEdges>>
  PROVE  Linked' = Linked
BY DEF Linked

LEMMA SameAcyclic ==
  ASSUME UNCHANGED <<allNodes, succs>>, NEW d
  PROVE  D!Acyclic(d)' = D!Acyclic(d)
BY DEF D!Acyclic, D!NodesOf, D!Range


-----------------------------------------------------------------------------
(* The client's steps, and preparePartitionDAG.                            *)

HostState == {"idle", "slots", "edges", "make", "activate", "wait"}

LEMMA OutsideTypes ==
  ASSUME TypeOK, UNCHANGED <<cur, sources, sinks, status, made, slotData>>,
         deviceData' \in [Partition -> Nat], sinkTask' \in [Partition -> Nat],
         host' \in HostState,
         prevUser' \in [Slot -> Partition \cup {Nobody}],
         newEdges' \in Seq(Partition \X Partition),
         prepared' \in BOOLEAN
  PROVE  TypeOK'
<1>1. Current' = Current
  BY SameTasks
<1> QED
  BY <1>1, Zenon DEF TypeOK, HostState

LEMMA TypesKept ==
  ASSUME TypeOK
  PROVE  /\ deviceData \in [Partition -> Nat] /\ sinkTask \in [Partition -> Nat]
         /\ host \in HostState
         /\ prevUser \in [Slot -> Partition \cup {Nobody}]
         /\ newEdges \in Seq(Partition \X Partition)
         /\ prepared \in BOOLEAN
BY DEF TypeOK, HostState

LEMMA ChangeDagInv ==
  ASSUME IInv, (\E p \in Partition : AddPartition(p)) \/ (\E p, q \in Partition : AddEdge(p, q))
  PROVE  IInv'
<1>1. /\ host = "idle" /\ host' = "idle" /\ prepared' = FALSE
      /\ UNCHANGED <<deviceData, prevUser, newEdges, cur, sources, sinks, status, made, slotData>>
      /\ D!IInv' /\ travDag' = travDag
  <2>1. CASE \E p \in Partition : AddPartition(p)
    BY <2>1, BuildStep DEF AddPartition, buildSame, IInv
  <2>2. CASE \E p, q \in Partition : AddEdge(p, q)
    BY <2>2, BuildStep DEF AddEdge, buildSame, IInv
  <2> QED
    BY <2>1, <2>2
<1>2. TypeOK /\ HostInv
  BY DEF IInv
<1>3. sinkTask' \in [Partition -> Nat]
  <2>1. sinkTask \in [Partition -> Nat] /\ {NoHandle, Len(status)} \subseteq Nat
    BY <1>2, TypesKept DEF TypeOK, NoHandle
  <2>2. \/ sinkTask' = sinkTask
        \/ \E p \in Partition : \E h \in {NoHandle, Len(status)} :
             sinkTask' = [sinkTask EXCEPT ![p] = h]
    BY DEF AddPartition, AddEdge
  <2> QED
    BY <2>1, <2>2
<1>4. prepared' \in BOOLEAN
  BY <1>1, Zenon
<1>5. TypeOK'
  BY <1>1, <1>2, <1>3, <1>4, TypesKept, OutsideTypes
<1>6. ~Executing /\ ~Executing'
  BY <1>1 DEF Executing
<1>7. HostInv'
  <2>1. host' = "slots" <=> travDag' # NoDag
    BY <1>1, <1>2 DEF HostInv
  <2>2. /\ newEdges' = <<>> /\ \A s \in Slot : prevUser'[s] = Nobody
        /\ made' = <<>> /\ sources' = <<>> /\ sinks' = <<>> /\ cur' = 1
    BY <1>1, <1>2, <1>6 DEF HostInv
  <2> QED
    BY <1>1, <1>6, <2>1, <2>2 DEF HostInv
<1>8. SlotInv'
  <2>1. Settled' = {} /\ host' # "slots"
    BY <1>1 DEF Settled
  <2> QED
    BY <2>1 DEF SlotInv
<1> QED
  BY <1>1, <1>5, <1>6, <1>7, <1>8, OutsideStep

LEMMA PrepareInv ==
  ASSUME IInv, Prepare
  PROVE  IInv'
<1>1. /\ host = "idle" /\ host' = "slots" /\ D!Acyclic(PartDAG)
      /\ UNCHANGED <<deviceData, prevUser, newEdges, prepared, sinkTask, cur, sources, sinks,
                     status, made, slotData>>
      /\ D!IInv' /\ travDag' = PartDAG
      /\ UNCHANGED <<allNodes, succs, preds>>
      /\ Range(visited') = {}
  BY BeginStep DEF Prepare, prepSame, IInv
<1>2. TypeOK /\ HostInv
  BY DEF IInv
<1>3. TypeOK'
  BY <1>1, <1>2, TypesKept, OutsideTypes DEF HostState
<1>4. ~Executing /\ ~Executing'
  BY <1>1 DEF Executing
<1>5. HostInv'
  <2>1. D!Acyclic(PartDAG)' /\ PartDAG # NoDag
    BY <1>1, SameAcyclic, GraphAssumption
  <2>2. made' = <<>> /\ sources' = <<>> /\ sinks' = <<>> /\ cur' = 1
    BY <1>1, <1>2, <1>4 DEF HostInv
  <2> QED
    BY <1>1, <1>4, <2>1, <2>2 DEF HostInv
<1>6. SlotInv'
  <2>1. Settled' = {}
    BY <1>1 DEF Settled
  <2> QED
    BY <1>1, <2>1 DEF SlotInv
<1> QED
  BY <1>1, <1>3, <1>4, <1>5, <1>6, OutsideStep

LEMMA WalkInv ==
  ASSUME IInv, Walk
  PROVE  IInv'
<1>1. /\ host = "slots" /\ host' = "slots"
      /\ UNCHANGED <<deviceData, prevUser, newEdges, prepared, sinkTask, cur, sources, sinks,
                     status, made, slotData>>
      /\ D!IInv'
      /\ UNCHANGED <<allNodes, succs, preds, travDag, visited>>
  BY WalkStep DEF Walk, prepSame, IInv
<1>2. TypeOK /\ HostInv /\ SlotInv
  BY DEF IInv
<1>3. TypeOK'
  BY <1>1, <1>2, TypesKept, OutsideTypes
<1>4. ~Executing /\ ~Executing'
  BY <1>1 DEF Executing
<1>5. HostInv'
  <2>1. D!Acyclic(PartDAG)'
    BY <1>1, <1>2, SameAcyclic DEF HostInv
  <2>2. made' = <<>> /\ sources' = <<>> /\ sinks' = <<>> /\ cur' = 1
    BY <1>1, <1>2, <1>4 DEF HostInv
  <2>3. travDag' # NoDag
    BY <1>1, <1>2 DEF HostInv
  <2> QED
    BY <1>1, <1>4, <2>1, <2>2, <2>3 DEF HostInv
<1>6. SlotInv'
  <2>1. Settled' = Settled
    BY <1>1 DEF Settled
  <2> QED
    BY <1>1, <1>2, <2>1, SameLinked, SettledKept
<1> QED
  BY <1>1, <1>3, <1>4, <1>5, <1>6, OutsideStep

(* A partition is given a slot: the slot's previous user leads to it, and  *)
(* with it all earlier ones.                                               *)
LEMMA AssignSlotInv ==
  ASSUME IInv, AssignSlot
  PROVE  IInv'
<1> SUFFICES ASSUME NEW p, p = Last(nodeQ), NEW s, s = NextSlot
             PROVE  IInv'
  OBVIOUS
<1>1. /\ host = "slots" /\ host' = "slots"
      /\ deviceData' = [deviceData EXCEPT ![p] = s]
      /\ newEdges' = IF prevUser[s] = Nobody THEN newEdges ELSE Append(newEdges, <<prevUser[s], p>>)
      /\ prevUser' = [prevUser EXCEPT ![s] = p]
      /\ UNCHANGED <<prepared, sinkTask, cur, sources, sinks, status, made, slotData>>
  BY DEF AssignSlot, prepSame, SlotEdges
<1>2. /\ D!IInv'
      /\ UNCHANGED <<allNodes, succs, preds, travDag>>
      /\ p \in Partition /\ p \notin Range(visited)
      /\ Range(visited') = Range(visited) \cup {p}
  BY VisitStep DEF AssignSlot, IInv
<1>3. /\ TypeOK /\ HostInv /\ SlotInv
      /\ deviceData \in [Partition -> Nat] /\ newEdges \in Seq(Partition \X Partition)
      /\ prevUser \in [Slot -> Partition \cup {Nobody}]
  BY DEF IInv, TypeOK
<1>4. s \in Slot /\ s \in Nat
  <2>1. Len(visited) \in Nat
    <3>1. visited \in Seq(Partition)
      BY DEF IInv, D!IInv, D!TypeOK
    <3> QED
      BY <3>1
  <2>2. NumSlots \in Nat \ {0}
    BY SlotsAssumption
  <2> QED
    BY <2>1, <2>2 DEF NextSlot, Slot
<1>5. /\ newEdges' \in Seq(Partition \X Partition)
      /\ Range(newEdges) \subseteq Range(newEdges')
      /\ prevUser[s] # Nobody => prevUser[s] \in Partition /\ <<prevUser[s], p>> \in Range(newEdges')
  <2>1. CASE prevUser[s] = Nobody
    BY <1>1, <1>3, <2>1
  <2>2. CASE prevUser[s] # Nobody
    <3> DEFINE e == <<prevUser[s], p>>
               E == Partition \X Partition
    <3>1. prevUser[s] \in Partition /\ e \in E /\ newEdges \in Seq(E)
      BY <1>2, <1>3, <1>4, <2>2
    <3>2. newEdges' = Append(newEdges, e)
      BY <1>1, <2>2
    <3> HIDE DEF e, E
    <3>3. newEdges' \in Seq(E) /\ Range(newEdges') = Range(newEdges) \cup {e}
      BY <3>1, <3>2, AppendLastRange
    <3> QED
      BY <3>1, <3>3 DEF e, E
  <2> QED
    BY <2>1, <2>2
<1>6. TypeOK'
  <2>1. deviceData' \in [Partition -> Nat] /\ prevUser' \in [Slot -> Partition \cup {Nobody}]
    BY <1>1, <1>2, <1>3, <1>4
  <2> QED
    BY <1>1, <1>3, <1>5, <2>1, TypesKept, OutsideTypes
<1>7. ~Executing /\ ~Executing'
  BY <1>1 DEF Executing
<1>8. HostInv'
  <2>1. D!Acyclic(PartDAG)'
    BY <1>1, <1>2, <1>3, SameAcyclic DEF HostInv
  <2>2. made' = <<>> /\ sources' = <<>> /\ sinks' = <<>> /\ cur' = 1
    BY <1>1, <1>3, <1>7 DEF HostInv
  <2>3. travDag' # NoDag
    BY <1>1, <1>2, <1>3 DEF HostInv
  <2> QED
    BY <1>1, <1>7, <2>1, <2>2, <2>3 DEF HostInv
<1>9. Linked \subseteq Linked'
  BY <1>2, <1>5 DEF Linked
<1>10. /\ Settled = Range(visited) /\ Settled' = Range(visited) \cup {p}
  BY <1>1, <1>2 DEF Settled
<1>11. ASSUME NEW q \in Range(visited)
       PROVE  /\ q # p /\ q \in Partition /\ deviceData'[q] = deviceData[q] /\ deviceData[q] \in Slot
              /\ deviceData[q] = s => Leads(q, p)'
  <2>1. q # p /\ q \in Partition
    <3>1. visited \in Seq(Partition)
      BY DEF IInv, D!IInv, D!TypeOK
    <3> QED
      BY <1>2, <3>1 DEF Range
  <2>2. deviceData'[q] = deviceData[q] /\ deviceData[q] \in Slot
    BY <1>1, <1>3, <1>10, <2>1 DEF SlotInv
  <2>3. ASSUME deviceData[q] = s
        PROVE  Leads(q, p)'
    <3>1. prevUser[s] # Nobody /\ Leads(q, prevUser[s])
      BY <1>1, <1>3, <2>3 DEF SlotInv
    <3>2. <<prevUser[s], p>> \in Linked'
      BY <1>5, <3>1 DEF Linked
    <3> QED
      BY <1>9, <3>1, <3>2, LeadsOn
  <2> QED
    BY <2>1, <2>2, <2>3
<1>12. deviceData'[p] = s /\ prevUser'[s] = p
       /\ \A r \in Slot : r # s => prevUser'[r] = prevUser[r]
  BY <1>1, <1>2, <1>3, <1>4
<1>13. \A q, r : Leads(q, r) => Leads(q, r)'
  BY <1>9, LeadsMore
<1>14. SlotInv'
  <2>1. \A q \in Settled' : deviceData'[q] \in Slot
    BY <1>4, <1>10, <1>11, <1>12
  <2>2. ASSUME NEW q \in Settled', NEW r \in Settled', deviceData'[q] = deviceData'[r]
        PROVE  Leads(q, r)' \/ Leads(r, q)'
    <3>1. CASE q \in Range(visited) /\ r \in Range(visited)
      BY <1>3, <1>10, <1>11, <1>13, <2>2, <3>1 DEF SlotInv
    <3>2. CASE q = p /\ r = p
      BY <3>2, LeadsSelf
    <3>3. CASE q = p /\ r \in Range(visited)
      BY <1>11, <1>12, <2>2, <3>3
    <3>4. CASE r = p /\ q \in Range(visited)
      BY <1>11, <1>12, <2>2, <3>4
    <3> QED
      BY <1>10, <3>1, <3>2, <3>3, <3>4
  <2>3. ASSUME NEW q \in Range(visited')
        PROVE  (prevUser[deviceData[q]] # Nobody /\ Leads(q, prevUser[deviceData[q]]))'
    <3> SUFFICES ASSUME NEW u, u = prevUser'[deviceData'[q]]
                 PROVE  u # Nobody /\ Leads(q, u)'
      BY DEF Leads
    <3>1. p # Nobody
      BY <1>2, NobodyAssumption
    <3>2. CASE q = p
      <4>1. u = p
        BY <1>12, <3>2
      <4> QED
        BY <3>1, <3>2, <4>1, LeadsSelf
    <3>3. CASE q \in Range(visited) /\ deviceData[q] = s
      <4>1. u = p
        BY <1>11, <1>12, <3>3
      <4>2. Leads(q, p)'
        BY <1>11, <3>3
      <4> QED
        BY <3>1, <4>1, <4>2
    <3>4. CASE q \in Range(visited) /\ deviceData[q] # s
      <4>1. u = prevUser[deviceData[q]]
        BY <1>11, <1>12, <3>4
      <4>2. u # Nobody /\ Leads(q, u)
        BY <1>1, <1>3, <3>4, <4>1 DEF SlotInv
      <4> QED
        BY <1>13, <4>2
    <3> QED
      BY <1>2, <3>2, <3>3, <3>4
  <2> QED
    BY <2>1, <2>2, <2>3 DEF SlotInv
<1> QED
  BY <1>1, <1>2, <1>6, <1>7, <1>8, <1>14, OutsideStep


LEMMA AssignedAllInv ==
  ASSUME IInv, AssignedAll
  PROVE  IInv'
<1>1. /\ host = "slots" /\ host' = "edges"
      /\ UNCHANGED <<deviceData, prevUser, newEdges, prepared, sinkTask, cur, sources, sinks,
                     status, made, slotData>>
  BY DEF AssignedAll, prepSame
<1>2. D!IInv /\ TypeOK /\ HostInv /\ SlotInv
  BY DEF IInv
<1>3. travDag = PartDAG
  BY <1>1, <1>2 DEF HostInv, D!IInv, D!TypeOK
<1>4. /\ D!IInv' /\ travDag' = NoDag
      /\ UNCHANGED <<allNodes, succs, preds>>
      /\ Range(visited) = Range(Parts)
  <2>1. D!Acyclic(travDag)
    BY <1>1, <1>2, <1>3 DEF HostInv
  <2> QED
    BY <1>2, <1>3, <2>1, EndStep, Places DEF AssignedAll
<1>5. TypeOK'
  BY <1>1, <1>2, TypesKept, OutsideTypes DEF HostState
<1>6. ~Executing /\ ~Executing'
  BY <1>1 DEF Executing
<1>7. HostInv'
  <2>1. made' = <<>> /\ sources' = <<>> /\ sinks' = <<>> /\ cur' = 1
    BY <1>1, <1>2, <1>6 DEF HostInv
  <2> QED
    BY <1>1, <1>4, <1>6, <2>1 DEF HostInv
<1>8. SlotInv'
  <2>1. Settled' = Settled
    BY <1>1, <1>4 DEF Settled, Parts
  <2> QED
    BY <1>1, <1>2, <1>4, <2>1, SameLinked, SettledKept
<1> QED
  BY <1>1, <1>4, <1>5, <1>6, <1>7, <1>8, OutsideStep

(* An edge to add becomes one of the DAG.                                  *)
LEMMA AddNewEdgeInv ==
  ASSUME IInv, AddNewEdge
  PROVE  IInv'
<1> SUFFICES ASSUME NEW e, e = Head(newEdges)
             PROVE  IInv'
  OBVIOUS
<1>1. /\ host = "edges" /\ host' = "edges" /\ newEdges # <<>>
      /\ newEdges' = Tail(newEdges)
      /\ D!AddEdgeIfAbsent(PartDAG, e[1], e[2]) \/ (D!HasEdge(e[1], e[2]) /\ UNCHANGED dagVars)
      /\ UNCHANGED <<deviceData, prevUser, prepared, sinkTask, cur, sources, sinks,
                     status, made, slotData>>
  BY DEF AddNewEdge, prepSame
<1>2. D!IInv /\ TypeOK /\ HostInv /\ SlotInv
  BY DEF IInv
<1>3. succs \in [Partition -> Seq(Partition)]
  BY <1>2 DEF D!IInv, D!TypeOK
<1>4. /\ e \in Partition \X Partition
      /\ newEdges' \in Seq(Partition \X Partition)
      /\ Range(newEdges) = {e} \cup Range(newEdges')
  <2> DEFINE E == Partition \X Partition
  <2>1. newEdges \in Seq(E)
    BY <1>2, TypesKept
  <2> HIDE DEF E
  <2>2. e \in E /\ newEdges' \in Seq(E) /\ Range(newEdges) = {e} \cup Range(newEdges')
    BY <1>1, <2>1, HeadTailRange
  <2> QED
    BY <2>2 DEF E
<1>5. /\ D!IInv' /\ travDag' = travDag /\ allNodes' = allNodes
      /\ \A a \in Partition : Range(succs[a]) \subseteq Range(succs'[a])
      /\ e[2] \in Range(succs'[e[1]])
  <2>1. CASE D!AddEdgeIfAbsent(PartDAG, e[1], e[2])
    <3>1. D!AddEdge(PartDAG, e[1], e[2])
      BY <2>1 DEF D!AddEdgeIfAbsent
    <3>2. D!IInv' /\ travDag' = travDag
      BY <1>2, <1>4, <3>1, BuildStep
    <3>3. succs' = [succs EXCEPT ![e[1]] = Append(succs[e[1]], e[2])] /\ allNodes' = allNodes
      BY <3>1 DEF D!AddEdge, D!LinkEdge
    <3>4. succs[e[1]] \in Seq(Partition) /\ e[1] \in Partition /\ e[2] \in Partition
      BY <1>3, <1>4
    <3>5. Range(Append(succs[e[1]], e[2])) = Range(succs[e[1]]) \cup {e[2]}
      BY <3>4, AppendLastRange
    <3>6. succs'[e[1]] = Append(succs[e[1]], e[2])
          /\ \A a \in Partition : a # e[1] => succs'[a] = succs[a]
      BY <1>3, <3>3, <3>4
    <3> QED
      BY <3>2, <3>3, <3>4, <3>5, <3>6
  <2>2. CASE D!HasEdge(e[1], e[2]) /\ UNCHANGED dagVars
    <3>1. e[2] \in Range(succs[e[1]])
      BY <2>2, SameLists DEF D!HasEdge, D!hasSucc, D!hasPred
    <3>2. D!IInv'
      BY <1>2, <2>2, NoWalkStep
    <3> QED
      BY <2>2, <3>1, <3>2 DEF dagVars
  <2> QED
    BY <1>1, <2>1, <2>2
<1>6. TypeOK'
  BY <1>1, <1>2, <1>4, TypesKept, OutsideTypes
<1>7. ~Executing /\ ~Executing'
  BY <1>1 DEF Executing
<1>8. HostInv'
  <2>1. made' = <<>> /\ sources' = <<>> /\ sinks' = <<>> /\ cur' = 1
    BY <1>1, <1>2, <1>7 DEF HostInv
  <2>2. travDag' = NoDag
    BY <1>1, <1>2, <1>5 DEF HostInv
  <2> QED
    BY <1>1, <1>7, <2>1, <2>2 DEF HostInv
<1>9. Linked \subseteq Linked'
  <2> SUFFICES ASSUME NEW f \in Linked PROVE f \in Linked'
    OBVIOUS
  <2>1. CASE f \in Range(newEdges')
    BY <2>1 DEF Linked
  <2>2. CASE f = e
    BY <1>4, <1>5, <2>2 DEF Linked
  <2>3. CASE f \in Partition \X Partition /\ f[2] \in Range(succs[f[1]])
    BY <1>5, <2>3 DEF Linked
  <2> QED
    BY <1>4, <2>1, <2>2, <2>3 DEF Linked
<1>10. SlotInv'
  <2>1. Settled' = Settled
    BY <1>1, <1>5 DEF Settled, Parts
  <2> QED
    BY <1>1, <1>2, <1>9, <2>1, SettledKept
<1> QED
  BY <1>1, <1>5, <1>6, <1>7, <1>8, <1>10, OutsideStep

LEMMA PreparedInv ==
  ASSUME IInv, Prepared
  PROVE  IInv'
<1>1. /\ host = "edges" /\ host' = "idle" /\ newEdges = <<>> /\ prepared' = TRUE
      /\ prevUser' = [s \in Slot |-> Nobody]
      /\ UNCHANGED dagVars
      /\ UNCHANGED <<deviceData, newEdges, sinkTask, cur, sources, sinks, status, made, slotData>>
  BY DEF Prepared, prepSame
<1>2. D!IInv /\ TypeOK /\ HostInv /\ SlotInv
  BY DEF IInv
<1>3. D!IInv' /\ UNCHANGED <<allNodes, succs, preds, travDag>>
  BY <1>1, <1>2, NoWalkStep DEF dagVars
<1>4. prevUser' \in [Slot -> Partition \cup {Nobody}] /\ \A s \in Slot : prevUser'[s] = Nobody
  BY <1>1
<1>5. prepared' \in BOOLEAN
  BY <1>1, Zenon
<1>6. TypeOK'
  BY <1>1, <1>2, <1>4, <1>5, TypesKept, OutsideTypes DEF HostState
<1>7. ~Executing /\ ~Executing'
  BY <1>1 DEF Executing
<1>8. HostInv'
  <2>1. made' = <<>> /\ sources' = <<>> /\ sinks' = <<>> /\ cur' = 1
    BY <1>1, <1>2, <1>7 DEF HostInv
  <2>2. travDag' = NoDag
    BY <1>1, <1>2, <1>3 DEF HostInv
  <2> QED
    BY <1>1, <1>4, <1>7, <2>1, <2>2 DEF HostInv
<1>9. SlotInv'
  <2>1. Settled' = Settled
    BY <1>1, <1>3 DEF Settled, Parts
  <2> QED
    BY <1>1, <1>2, <1>3, <2>1, SameLinked, SettledKept
<1> QED
  BY <1>1, <1>3, <1>6, <1>7, <1>8, <1>9, OutsideStep

-----------------------------------------------------------------------------
(* executePartitionDAG: the DAG and the slots stay as they are.            *)

LEMMA DuringExecution ==
  ASSUME IInv, UNCHANGED execSame, host = "idle" \/ Executing, Executing', prepared,
         DependsBackwards
  PROVE  D!IInv' /\ HostInv' /\ SlotInv'
<1>1. D!IInv /\ HostInv /\ SlotInv
  BY DEF IInv
<1>2. /\ D!IInv' /\ UNCHANGED <<allNodes, succs, preds, travDag, visited>>
      /\ UNCHANGED <<deviceData, prevUser, newEdges, prepared>>
  BY <1>1, NoWalkStep DEF execSame, dagVars
<1>3. host \notin {"slots", "edges"} /\ host' \notin {"idle", "slots", "edges"}
  BY DEF Executing
<1>4. DependsBackwards' = DependsBackwards
  BY <1>2 DEF DependsBackwards, Parts, IndexOf
<1>5. HostInv'
  BY <1>1, <1>2, <1>3, <1>4 DEF HostInv
<1>6. SlotInv'
  <2>1. Settled' = Settled
    BY <1>2, <1>3 DEF Settled, Parts
  <2> QED
    BY <1>1, <1>2, <1>3, <2>1, SameLinked, SettledKept
<1> QED
  BY <1>2, <1>5, <1>6

LEMMA ExecuteInv ==
  ASSUME ~AnyOrder, IInv, Execute
  PROVE  IInv'
<1>1. /\ host = "idle" /\ host' = "make" /\ prepared /\ DependsBackwards
      /\ UNCHANGED execSame
      /\ UNCHANGED <<deviceData, prevUser, newEdges, prepared>>
      /\ UNCHANGED <<sinkTask, cur, sources, sinks, status, made, slotData>>
  BY DEF Execute, execSame
<1>2. ~Executing /\ Executing'
  BY <1>1 DEF Executing
<1>3. D!IInv' /\ HostInv' /\ SlotInv'
  BY <1>1, <1>2, DuringExecution
<1>4. TypeOK'
  BY <1>1, TypesKept, OutsideTypes DEF IInv, HostState
<1>5. NoTasksYet'
  <2>1. made = <<>> /\ sources = <<>> /\ cur = 1 /\ \A h \in DOMAIN status : IsDone(h)
    BY <1>2, Outside
  <2>2. ASSUME NEW i \in DOMAIN Parts' PROVE ~Passed(i)'
    <3>1. i \in Nat \ {0}
      <4>1. Parts' \in Seq(Partition)
        BY <1>3 DEF D!IInv, D!TypeOK, Parts
      <4> QED
        BY <4>1
    <3> QED
      BY <1>1, <2>1, <3>1 DEF Passed
  <2> QED
    BY <1>1, <1>4, <2>1, <2>2 DEF NoTasksYet, IsDone
<1> QED
  BY <1>3, <1>4, <1>5, NoTasksYetNext DEF IInv


(* The tasks required are tasks of the current call: the partitions before *)
(* one have their last tasks when its first is made.                       *)
LEMMA PassedBefore ==
  ASSUME D!IInv, TypeOK, HostInv, MadeInv,
         NEW i \in DOMAIN Parts, host = "make" => i <= cur, Executing,
         NEW q \in Range(preds[Parts[i]])
  PROVE  /\ q \in Range(Parts) /\ IndexOf(q) < i
         /\ sinkTask[q] \in Stage(q, "outEnd")
<1>1. Parts[i] \in Range(Parts)
  BY DEF Range
<1>2. q \in Range(Parts)
  BY <1>1, Neighbours, Places
<1>3. IndexOf(q) < i
  BY <1>1, Places DEF HostInv, DependsBackwards
<1>4. IndexOf(q) \in DOMAIN Parts /\ IndexOf(q) \in Nat /\ i \in Nat /\ Parts[IndexOf(q)] = q
  BY <1>2, Places
<1>5. Passed(IndexOf(q))
  BY <1>3, <1>4 DEF Passed, TypeOK
<1> QED
  BY <1>2, <1>3, <1>4, <1>5 DEF MadeInv

(* The partition of a task, by its place.                                  *)
LEMMA PlaceOfTask ==
  ASSUME D!IInv, TypeOK, HostInv, MadeInv, NEW h \in Current
  PROVE  /\ Executing
         /\ IndexOf(Task(h).part) \in DOMAIN Parts
         /\ Parts[IndexOf(Task(h).part)] = Task(h).part
         /\ host = "make" => IndexOf(Task(h).part) <= cur
<1> SUFFICES ASSUME NEW i, i = IndexOf(Task(h).part)
             PROVE  /\ Executing
                    /\ i \in DOMAIN Parts /\ Parts[i] = Task(h).part
                    /\ host = "make" => i <= cur
  OBVIOUS
<1>1. Executing /\ Task(h).part \in Range(Parts)
  BY TasksExecute DEF MadeInv
<1>2. i \in DOMAIN Parts /\ i \in Nat /\ Parts[i] = Task(h).part
  BY <1>1, Places
<1>3. h \in TasksOf(Parts[i])
  BY <1>2 DEF TasksOf
<1>4. host = "make" => ~(i > cur)
  BY <1>2, <1>3 DEF MadeInv
<1> QED
  BY <1>1, <1>2, <1>4 DEF TypeOK

LEMMA RequiresCurrent ==
  ASSUME D!IInv, TypeOK, HostInv, MadeInv, NEW h \in Current, NEW r \in Task(h).requires
  PROVE  r \in Current /\ r \in DOMAIN status /\ r # NoHandle
<1>1. RequiresNeeds
  BY RequiresForm DEF MadeInv
<1>2. r \in Current
  <2>1. CASE Task(h).role[1] = "src"
    <3>1. PICK q \in Range(preds[Task(h).part]) : r = sinkTask[q]
      BY <1>1, <2>1 DEF RequiresNeeds, PredTasks
    <3>2. r \in Stage(q, "outEnd")
      BY <3>1, PlaceOfTask, PassedBefore
    <3> QED
      BY <3>2 DEF Stage
  <2>2. CASE Task(h).role[1] # "src"
    BY <1>1, <2>2 DEF RequiresNeeds, TasksOf
  <2> QED
    BY <2>1, <2>2
<1> QED
  BY <1>2, TaskTypes DEF NoHandle

(* A step that makes no task and finishes none changes where the calling   *)
(* thread is, or starts a task.                                            *)
LEMMA MadeKept ==
  ASSUME TypeOK, MadeInv, TypeOK',
         UNCHANGED <<allNodes, preds, sinkTask, made>>, Len(status') = Len(status),
         host' = "make" => host = "make" /\ cur' = cur,
         \A i \in DOMAIN Parts : Passed(i)' => Passed(i)
  PROVE  MadeInv'
<1>1. /\ Current' = Current
      /\ \A h : Task(h)' = Task(h)
      /\ \A p : TasksOf(p)' = TasksOf(p)
      /\ \A p, r : Stage(p, r)' = Stage(p, r)
  BY SameTasks
<1>2. RequiresNeeds
  BY RequiresForm DEF MadeInv
<1>3. RequiresNeeds'
  BY <1>1, <1>2 DEF RequiresNeeds, PredTasks
<1>4. (\A h \in Current : Task(h).requires = Requires(Task(h).part, Task(h).role))'
  BY <1>3, RequiresFormNext
<1>5. Parts' = Parts
  BY DEF Parts
<1>6. /\ \A h \in Current : Task(h).part \in Range(Parts)
      /\ \A g, h \in Current : Task(g).part = Task(h).part /\ Task(g).role = Task(h).role => g = h
      /\ \A p \in Range(Parts) :
           LET n == Cardinality(TasksOf(p))
           IN n <= Len(Program) /\ {Task(h).role : h \in TasksOf(p)} = {Program[i] : i \in 1..n}
      /\ \A i \in DOMAIN Parts :
           /\ host = "make" /\ i > cur => TasksOf(Parts[i]) = {}
           /\ host = "make" /\ i = cur => Stage(Parts[i], "outEnd") = {}
           /\ Passed(i) => sinkTask[Parts[i]] \in Stage(Parts[i], "outEnd")
  BY DEF MadeInv
<1> QED
  BY <1>1, <1>4, <1>5, <1>6 DEF MadeInv

LEMMA RunMoves ==
  ASSUME D!IInv, TypeOK, HostInv, MadeInv, RunInv,
         UNCHANGED <<succs, sources, sinks, made>>, Len(status') = Len(status),
         \A h \in DOMAIN status : IsDone(h) => IsDone(h)',
         \A h \in Current : status'[h] # "lazy" =>
           status[h] # "lazy" \/ Task(h).role[1] = "src",
         \A h \in Current : status'[h] \in {"running", "done"} =>
           \A r \in Task(h).requires : IsDone(r),
         host' = "wait" => \A i \in DOMAIN sinks : i < cur' => IsDone(sinks[i])
  PROVE  RunInv'
<1>1. /\ Old' = Old /\ Current' = Current
      /\ \A h : Task(h)' = Task(h)
  BY SameTasks
<1>2. \A h \in 1..Old : IsDone(h)'
  BY TaskTypes DEF RunInv
<1>3. ASSUME NEW h \in Current
      PROVE  /\ status'[h] # "lazy" => Task(h).requires # {} \/ Task(h).role[1] = "src"
             /\ status'[h] \in {"running", "done"} => \A r \in Task(h).requires : IsDone(r)'
             /\ Task(h).role[1] = "outEnd" /\ D!IsSink(Task(h).part)' => h \in Range(sinks)
  <2>1. status'[h] # "lazy" => Task(h).requires # {} \/ Task(h).role[1] = "src"
    BY DEF RunInv
  <2>2. status'[h] \in {"running", "done"} => \A r \in Task(h).requires : IsDone(r)'
    BY RequiresCurrent
  <2>3. D!IsSink(Task(h).part)' <=> D!IsSink(Task(h).part)
    BY <1>1 DEF D!IsSink
  <2> QED
    BY <2>1, <2>2, <2>3 DEF RunInv
<1>4. \A i \in DOMAIN sinks : IsDone(sinks[i]) => IsDone(sinks[i])'
  <2>1. \A i \in DOMAIN sinks : sinks[i] \in Range(sinks)
    BY DEF Range
  <2> QED
    BY <2>1, TaskTypes DEF TypeOK
<1>5. \A h \in Range(sources) : Task(h).role[1] = "src"
  BY DEF RunInv
<1> QED
  BY <1>1, <1>2, <1>3, <1>4, <1>5 DEF RunInv

(* No task finishes.                                                       *)
LEMMA DataKept ==
  ASSUME DataInv, UNCHANGED <<made, slotData, deviceData>>, Len(status') = Len(status),
         \A h \in Current : IsDone(h)' <=> IsDone(h)
  PROVE  DataInv'
<1>1. /\ Current' = Current
      /\ \A h : Task(h)' = Task(h)
      /\ \A p, r : Stage(p, r)' = Stage(p, r)
  BY SameTasks
<1>2. \A p : Over(p)' <=> Over(p)
  <2>1. \A p : \A h \in Stage(p, "out") : h \in Current
    BY DEF Stage
  <2> QED
    BY <1>1, <2>1 DEF Over
<1> QED
  BY <1>1, <1>2 DEF DataInv

LEMMA ExecutionTypes ==
  ASSUME TypeOK, UNCHANGED execSame, UNCHANGED <<sinkTask, sources, sinks, made>>,
         host' \in HostState, cur' \in Nat \ {0},
         status' \in Seq({"lazy", "waiting", "running", "done"}), Len(status') = Len(status),
         slotData' \in [Slot -> [Block -> Partition \cup {Nobody}]]
  PROVE  TypeOK'
<1>1. Current' = Current
  BY SameTasks
<1>2. UNCHANGED <<deviceData, prevUser, newEdges, prepared>>
  BY DEF execSame
<1> QED
  BY <1>1, <1>2, Zenon DEF TypeOK, HostState

(* The calling thread moves on.                                            *)
LEMMA HostMovesInv ==
  ASSUME IInv, Executing, UNCHANGED execSame,
         UNCHANGED <<sinkTask, sources, sinks, status, made, slotData>>,
         host' \in {"activate", "wait"}, cur' \in Nat \ {0},
         host = "make" => cur > Len(Parts),
         host' = "wait" => \A i \in DOMAIN sinks : i < cur' => IsDone(sinks[i])
  PROVE  IInv'
<1>1. D!IInv /\ TypeOK /\ HostInv /\ MadeInv /\ RunInv /\ DataInv
  BY DEF IInv
<1>2. Executing' /\ prepared /\ DependsBackwards
  BY <1>1 DEF Executing, HostInv
<1>3. D!IInv' /\ HostInv' /\ SlotInv'
  BY <1>2, DuringExecution
<1>4. UNCHANGED <<allNodes, succs, preds, deviceData>>
  BY DEF execSame, dagVars
<1>5. TypeOK'
  BY <1>1, ExecutionTypes DEF HostState, TypeOK
<1>6. MadeInv'
  <2>1. ASSUME NEW i \in DOMAIN Parts PROVE Passed(i)
    <3>1. i \in 1..Len(Parts) /\ Len(Parts) \in Nat
      <4>1. Parts \in Seq(Partition)
        BY <1>1, Places
      <4> QED
        BY <4>1
    <3> QED
      BY <1>1, <3>1 DEF Passed, TypeOK
  <2> QED
    BY <1>1, <1>4, <1>5, <2>1, MadeKept
<1>7. RunInv'
  <2>1. \A h \in Current : status[h] \in {"running", "done"} => \A r \in Task(h).requires : IsDone(r)
    BY <1>1 DEF RunInv
  <2> QED
    BY <1>1, <1>4, <2>1, RunMoves DEF IsDone
<1>8. DataInv'
  BY <1>1, <1>4, DataKept DEF IsDone
<1> QED
  BY <1>3, <1>5, <1>6, <1>7, <1>8 DEF IInv

LEMMA HostStepInv ==
  ASSUME IInv, MadeAll \/ ActivatedAll \/ WaitSink
  PROVE  IInv'
<1>1. /\ UNCHANGED execSame
      /\ UNCHANGED <<sinkTask, sources, sinks, status, made, slotData>>
  BY DEF MadeAll, ActivatedAll, WaitSink
<1>2. Executing
  BY DEF MadeAll, ActivatedAll, WaitSink, Executing
<1>3. cur \in Nat \ {0} /\ sinks \in Seq(Nat)
  BY DEF IInv, TypeOK
<1>4. /\ host' \in {"activate", "wait"} /\ cur' \in Nat \ {0}
      /\ host = "make" => cur > Len(Parts)
  BY <1>3 DEF MadeAll, ActivatedAll, WaitSink
<1>5. host' = "wait" => \A i \in DOMAIN sinks : i < cur' => IsDone(sinks[i])
  <2>1. CASE MadeAll
    BY <2>1 DEF MadeAll
  <2>2. CASE ActivatedAll
    BY <1>3, <2>2 DEF ActivatedAll
  <2>3. CASE WaitSink
    <3>1. host = "wait" /\ cur' = cur + 1 /\ IsDone(sinks[cur])
      BY <2>3 DEF WaitSink, IsDone
    <3>2. \A i \in DOMAIN sinks : i < cur => IsDone(sinks[i])
      BY <3>1 DEF IInv, RunInv
    <3>3. \A i \in DOMAIN sinks : i < cur + 1 => i < cur \/ i = cur
      BY <1>3
    <3> QED
      BY <3>1, <3>2, <3>3
  <2> QED
    BY <2>1, <2>2, <2>3
<1> QED
  BY <1>1, <1>2, <1>4, <1>5, HostMovesInv

(* A task of the current call changes its status.                          *)
LEMMA StatusStep ==
  ASSUME TypeOK, NEW h \in Current, NEW s \in {"lazy", "waiting", "running", "done"},
         status' = [status EXCEPT ![h] = s]
  PROVE  /\ status' \in Seq({"lazy", "waiting", "running", "done"})
         /\ Len(status') = Len(status)
         /\ status'[h] = s
         /\ \A i \in DOMAIN status : i # h => status'[i] = status[i]
<1> DEFINE V == {"lazy", "waiting", "running", "done"}
<1>1. status \in Seq(V) /\ h \in DOMAIN status
  BY TaskTypes DEF TypeOK
<1> SUFFICES /\ status' \in Seq(V) /\ Len(status') = Len(status)
             /\ status'[h] = s
             /\ \A i \in DOMAIN status : i # h => status'[i] = status[i]
  OBVIOUS
<1>2. s \in V
  OBVIOUS
<1> HIDE DEF V
<1>3. DOMAIN status' = DOMAIN status /\ DOMAIN status = 1..Len(status) /\ Len(status) \in Nat
  BY <1>1
<1>4. Len(status') = Len(status) /\ status' \in Seq(V)
  BY <1>1, <1>2, <1>3
<1> QED
  BY <1>1, <1>4


LEMMA TaskMoves ==
  ASSUME IInv, NEW h \in Current, NEW s \in {"waiting", "running", "done"},
         status' = [status EXCEPT ![h] = s],
         UNCHANGED execSame, UNCHANGED <<sinkTask, host, sources, sinks, made>>,
         IsDone(h) => s = "done",
         status[h] # "lazy" \/ Task(h).role[1] = "src",
         s \in {"running", "done"} => \A r \in Task(h).requires : IsDone(r),
         cur' = cur \/ (host = "activate" /\ cur' \in Nat \ {0}),
         slotData' \in [Slot -> [Block -> Partition \cup {Nobody}]]
  PROVE  /\ D!IInv' /\ TypeOK' /\ HostInv' /\ SlotInv' /\ MadeInv' /\ RunInv'
         /\ \A i \in DOMAIN status : i # h => status'[i] = status[i]
         /\ status'[h] = s
<1>1. D!IInv /\ TypeOK /\ HostInv /\ MadeInv /\ RunInv
  BY DEF IInv
<1>2. Executing /\ Executing' /\ prepared /\ DependsBackwards
  BY <1>1, TasksExecute DEF Executing
<1>3. D!IInv' /\ HostInv' /\ SlotInv'
  BY <1>2, DuringExecution
<1>4. UNCHANGED <<allNodes, succs, preds, deviceData>>
  BY DEF execSame, dagVars
<1>5. /\ status' \in Seq({"lazy", "waiting", "running", "done"})
      /\ Len(status') = Len(status)
      /\ status'[h] = s
      /\ \A i \in DOMAIN status : i # h => status'[i] = status[i]
  BY <1>1, StatusStep
<1>6. TypeOK'
  BY <1>1, <1>5, ExecutionTypes, TypesKept DEF TypeOK
<1>7. MadeInv'
  <2>1. host' = "make" => cur' = cur
    OBVIOUS
  <2>2. \A i : Passed(i)' => Passed(i)
    BY <1>2, <2>1 DEF Passed
  <2> QED
    BY <1>1, <1>4, <1>5, <1>6, <2>1, <2>2, MadeKept
<1>8. RunInv'
  <2>1. \A i \in DOMAIN status : IsDone(i) => IsDone(i)'
    BY <1>5 DEF IsDone
  <2>2. \A i \in Current : i \in DOMAIN status
    BY <1>1, TaskTypes
  <2>3. \A i \in Current : status'[i] # "lazy" => status[i] # "lazy" \/ Task(i).role[1] = "src"
    BY <1>5, <2>2
  <2>4. \A i \in Current : status'[i] \in {"running", "done"} =>
          \A r \in Task(i).requires : IsDone(r)
    BY <1>1, <1>5, <2>2 DEF RunInv
  <2>5. host' = "wait" => \A i \in DOMAIN sinks : i < cur' => IsDone(sinks[i])
    BY <1>1 DEF RunInv
  <2> QED
    BY <1>1, <1>4, <1>5, <2>1, <2>3, <2>4, <2>5, RunMoves
<1> QED
  BY <1>3, <1>5, <1>6, <1>7, <1>8

LEMMA ActivateInv ==
  ASSUME IInv, Activate
  PROVE  IInv'
<1>1. /\ host = "activate" /\ cur <= Len(sources) /\ cur' = cur + 1
      /\ UNCHANGED execSame
      /\ UNCHANGED <<sinkTask, host, sources, sinks, made, slotData>>
  BY DEF Activate
<1>2. /\ TypeOK /\ RunInv /\ DataInv
      /\ cur \in Nat \ {0} /\ status \in Seq({"lazy", "waiting", "running", "done"})
      /\ sources \in Seq(Nat) /\ Range(sources) \subseteq Current
      /\ slotData \in [Slot -> [Block -> Partition \cup {Nobody}]]
  BY DEF IInv, TypeOK
<1> SUFFICES ASSUME NEW h, h = sources[cur],
                    NEW s, s = IF status[h] = "lazy" THEN "waiting" ELSE status[h]
             PROVE  IInv'
  OBVIOUS
<1>3. cur \in DOMAIN sources /\ h \in Range(sources)
  BY <1>1, <1>2 DEF Range
<1>4. h \in Current /\ h \in DOMAIN status /\ Task(h).role[1] = "src"
  BY <1>2, <1>3, TaskTypes DEF RunInv
<1>5. s \in {"waiting", "running", "done"}
  <2>1. status[h] \in {"lazy", "waiting", "running", "done"}
    BY <1>2, <1>4
  <2> QED
    BY <2>1
<1>6. status' = [status EXCEPT ![h] = s]
  BY DEF Activate
<1>7. /\ IsDone(h) <=> s = "done"
      /\ s \in {"running", "done"} => \A r \in Task(h).requires : IsDone(r)
  BY <1>2, <1>4 DEF IsDone, RunInv
<1>8. cur' \in Nat \ {0}
  BY <1>1, <1>2
<1>9. /\ D!IInv' /\ TypeOK' /\ HostInv' /\ SlotInv' /\ MadeInv' /\ RunInv'
      /\ \A i \in DOMAIN status : i # h => status'[i] = status[i]
      /\ status'[h] = s
  BY <1>1, <1>2, <1>4, <1>5, <1>6, <1>7, <1>8, TaskMoves
<1>10. DataInv'
  <2>1. \A i \in Current : i \in DOMAIN status
    BY <1>2, TaskTypes
  <2>2. \A i \in Current : IsDone(i)' <=> IsDone(i)
    BY <1>7, <1>9, <2>1 DEF IsDone
  <2>3. Len(status') = Len(status) /\ deviceData' = deviceData
    BY <1>1, <1>2, <1>4, <1>5, <1>6, StatusStep DEF execSame
  <2> QED
    BY <1>1, <1>2, <2>2, <2>3, DataKept
<1> QED
  BY <1>9, <1>10 DEF IInv

LEMMA StartTaskInv ==
  ASSUME IInv, NEW h \in Current, StartTask(h)
  PROVE  IInv'
<1>1. /\ status[h] = "waiting" /\ status' = [status EXCEPT ![h] = "running"]
      /\ \A r \in Task(h).requires \ {NoHandle} : IsDone(r)
      /\ UNCHANGED execSame
      /\ UNCHANGED <<sinkTask, host, cur, sources, sinks, made, slotData>>
  BY DEF StartTask, runSame
<1>2. /\ D!IInv /\ TypeOK /\ HostInv /\ MadeInv /\ DataInv
      /\ slotData \in [Slot -> [Block -> Partition \cup {Nobody}]]
  BY DEF IInv, TypeOK
<1>3. \A r \in Task(h).requires : IsDone(r)
  BY <1>1, <1>2, RequiresCurrent
<1>4. /\ D!IInv' /\ TypeOK' /\ HostInv' /\ SlotInv' /\ MadeInv' /\ RunInv'
      /\ \A i \in DOMAIN status : i # h => status'[i] = status[i]
      /\ status'[h] = "running"
  BY <1>1, <1>2, <1>3, TaskMoves DEF IsDone
<1>5. DataInv'
  <2>1. \A i \in Current : i \in DOMAIN status
    BY <1>2, TaskTypes
  <2>2. \A i \in Current : IsDone(i)' <=> IsDone(i)
    BY <1>1, <1>4, <2>1 DEF IsDone
  <2>3. Len(status') = Len(status) /\ deviceData' = deviceData
    BY <1>1, <1>2, StatusStep DEF execSame
  <2> QED
    BY <1>1, <1>2, <2>2, <2>3, DataKept
<1> QED
  BY <1>4, <1>5 DEF IInv

(* A copy in that finishes overwrites no block still needed: of two        *)
(* partitions that have started and share the slot, one is over, and it is *)
(* not the one still copying in.                                           *)
LEMMA FinishTaskInv ==
  ASSUME IInv, NEW h \in Current, FinishTask(h)
  PROVE  IInv'
<1> SUFFICES ASSUME NEW p, p = Task(h).part, NEW role, role = Task(h).role
             PROVE  IInv'
  OBVIOUS
<1>1. /\ status[h] = "running" /\ status' = [status EXCEPT ![h] = "done"]
      /\ slotData' = IF role[1] = "in" THEN [slotData EXCEPT ![deviceData[p]][role[2]] = p]
                     ELSE slotData
      /\ UNCHANGED execSame
      /\ UNCHANGED <<sinkTask, host, cur, sources, sinks, made>>
  BY DEF FinishTask, runSame
<1>2. /\ D!IInv /\ TypeOK /\ HostInv /\ SlotInv /\ MadeInv /\ RunInv /\ DataInv
      /\ slotData \in [Slot -> [Block -> Partition \cup {Nobody}]]
      /\ deviceData' = deviceData
  BY <1>1 DEF IInv, TypeOK, execSame
<1>3. \A r \in Task(h).requires : IsDone(r)
  BY <1>1, <1>2 DEF RunInv
<1>4. /\ p \in Partition /\ role \in Role /\ p \in Range(Parts)
      /\ deviceData[p] \in Slot
  <2>1. p \in Range(Parts) /\ Settled = Range(Parts)
    BY <1>2, TasksExecute DEF MadeInv
  <2> QED
    BY <1>2, <2>1, TaskTypes DEF SlotInv
<1>5. \A r \in Role : r[1] = "in" => r[2] \in Block
  BY DEF Role
<1>6. slotData' \in [Slot -> [Block -> Partition \cup {Nobody}]]
  <2>1. CASE role[1] = "in"
    <3>1. role[2] \in Block
      BY <1>4, <1>5, <2>1
    <3>2. slotData' = [slotData EXCEPT ![deviceData[p]] = [slotData[deviceData[p]] EXCEPT ![role[2]] = p]]
      BY <1>1, <2>1
    <3>3. slotData[deviceData[p]] \in [Block -> Partition \cup {Nobody}]
      BY <1>2, <1>4
    <3>4. [slotData[deviceData[p]] EXCEPT ![role[2]] = p] \in [Block -> Partition \cup {Nobody}]
      BY <1>4, <3>1, <3>3
    <3> QED
      BY <1>2, <1>4, <3>2, <3>4
  <2>2. CASE role[1] # "in"
    BY <1>1, <1>2, <2>2
  <2> QED
    BY <2>1, <2>2
<1>7. /\ D!IInv' /\ TypeOK' /\ HostInv' /\ SlotInv' /\ MadeInv' /\ RunInv'
      /\ \A i \in DOMAIN status : i # h => status'[i] = status[i]
      /\ status'[h] = "done"
  BY <1>1, <1>3, <1>6, TaskMoves
<1>8. Len(status') = Len(status)
  BY <1>1, <1>2, StatusStep
<1>9. /\ Current' = Current
      /\ \A i : Task(i)' = Task(i)
      /\ \A q, r : Stage(q, r)' = Stage(q, r)
  BY <1>1, <1>8, SameTasks
<1>10. \A i \in Current : i \in DOMAIN status /\ (IsDone(i)' <=> IsDone(i) \/ i = h)
  BY <1>1, <1>2, <1>7, TaskTypes DEF IsDone
<1>11. \A q : Over(q) => Over(q)'
  <2>1. \A q : \A i \in Stage(q, "out") : i \in Current
    BY DEF Stage
  <2> QED
    BY <1>9, <1>10, <2>1 DEF Over
<1>12. DataInv'
  <2> SUFFICES ASSUME NEW g \in Current, NEW q, q = Task(g).part, NEW b, b = Task(g).role[2],
                      Task(g).role[1] = "in", IsDone(g)', ~Over(q)'
               PROVE  slotData'[deviceData[q]][b] = q
    BY <1>2, <1>9 DEF DataInv
  <2>1. /\ q \in Partition /\ b \in Block /\ Task(g).role = <<"in", b>>
        /\ deviceData[q] \in Slot
    <3>1. q \in Range(Parts) /\ Settled = Range(Parts)
      BY <1>2, TasksExecute DEF MadeInv
    <3>2. Task(g).role \in Role
      BY <1>2, TaskTypes
    <3> QED
      BY <1>2, <1>5, <3>1, <3>2, TaskTypes, RoleTypes DEF SlotInv
  <2>2. slotData[deviceData[q]] \in [Block -> Partition \cup {Nobody}]
    BY <1>2, <2>1
  <2>3. CASE g = h
    BY <1>1, <1>2, <2>1, <2>2, <2>3
  <2>4. CASE g # h
    <3>1. IsDone(g) /\ ~Over(q)
      BY <1>10, <1>11, <2>4
    <3>2. slotData[deviceData[q]][b] = q
      BY <1>2, <3>1 DEF DataInv
    <3>3. CASE role[1] = "in" /\ deviceData[p] = deviceData[q] /\ role[2] = b
      <4>1. role = <<"in", b>>
        BY <1>4, <3>3, RoleTypes
      <4>2. p # q
        BY <1>2, <2>1, <2>4, <4>1 DEF MadeInv
      <4>3. SinkDone(p) \/ SinkDone(q)
        <5>1. Started(g) /\ Started(h)
          BY <1>1, <3>1 DEF Started, IsDone
        <5> QED
          BY <1>2, <3>3, <4>2, <5>1, SharedSlot
      <4>4. ~SinkDone(q)
        BY <1>2, <3>1, SinkDoneOver
      <4>5. ~SinkDone(p)
        <5>1. h \in TasksOf(p) /\ ~IsDone(h)
          BY <1>1 DEF TasksOf, IsDone
        <5> QED
          BY <1>2, <5>1, SinkDoneOver
      <4> QED
        BY <4>3, <4>4, <4>5
    <3>4. CASE ~(role[1] = "in" /\ deviceData[p] = deviceData[q] /\ role[2] = b)
      BY <1>1, <1>2, <1>4, <2>1, <2>2, <3>2, <3>4
    <3> QED
      BY <3>3, <3>4
  <2> QED
    BY <2>3, <2>4
<1> QED
  BY <1>7, <1>12 DEF IInv

LEMMA ReturnInv ==
  ASSUME IInv, Return
  PROVE  IInv'
<1>1. /\ host = "wait" /\ cur > Len(sinks)
      /\ host' = "idle" /\ cur' = 1 /\ sources' = <<>> /\ sinks' = <<>> /\ made' = <<>>
      /\ UNCHANGED execSame
      /\ UNCHANGED <<sinkTask, status, slotData>>
  BY DEF Return
<1>2. D!IInv /\ TypeOK /\ HostInv /\ SlotInv
  BY DEF IInv
<1>3. /\ D!IInv'
      /\ UNCHANGED <<allNodes, succs, preds, travDag, deviceData, prevUser, newEdges, prepared>>
  BY <1>1, <1>2, NoWalkStep DEF execSame, dagVars
<1>4. \A h \in DOMAIN status : IsDone(h)'
  BY <1>1, AllDone DEF IsDone
<1>5. TypeOK'
  <2>1. /\ \A S : sources' \in Seq(S) /\ sinks' \in Seq(S) /\ made' \in Seq(S)
        /\ Range(sources') = {} /\ Range(sinks') = {} /\ Len(made') = 0
    BY <1>1, EmptyList
  <2>2. 0 <= Len(status) /\ 1 \in Nat \ {0} /\ status \in Seq({"lazy", "waiting", "running", "done"})
    BY <1>2 DEF TypeOK
  <2>3. /\ host' \in {"idle", "slots", "edges", "make", "activate", "wait"}
        /\ cur' \in Nat \ {0} /\ Len(made') <= Len(status')
        /\ Range(sources') \subseteq Current' /\ Range(sinks') \subseteq Current'
    BY <1>1, <2>1, <2>2
  <2>4. /\ slotData' \in [Slot -> [Block -> Partition \cup {Nobody}]]
        /\ status' \in Seq({"lazy", "waiting", "running", "done"})
    BY <1>1, <1>2 DEF TypeOK
  <2>5. /\ deviceData' \in [Partition -> Nat] /\ sinkTask' \in [Partition -> Nat]
        /\ prevUser' \in [Slot -> Partition \cup {Nobody}]
        /\ newEdges' \in Seq(Partition \X Partition)
        /\ prepared' \in BOOLEAN
    BY <1>1, <1>2, <1>3, TypesKept, Zenon
  <2> QED
    BY <2>1, <2>3, <2>4, <2>5, Zenon DEF TypeOK
<1>6. prepared /\ ~Executing'
  BY <1>1, <1>2 DEF HostInv, Executing
<1>7. HostInv'
  <2>1. travDag' = NoDag /\ newEdges' = <<>> /\ \A s \in Slot : prevUser'[s] = Nobody
    BY <1>1, <1>2, <1>3 DEF HostInv
  <2> QED
    BY <1>1, <1>6, <2>1 DEF HostInv
<1>8. SlotInv'
  <2>1. Settled' = Settled
    BY <1>1, <1>3, <1>6 DEF Settled, Parts
  <2> QED
    BY <1>1, <1>2, <1>3, <2>1, SameLinked, SettledKept
<1>9. NoTasksYet'
  BY <1>1, <1>4, <1>5, <1>6 DEF NoTasksYet, Passed
<1> QED
  BY <1>3, <1>5, <1>7, <1>8, <1>9, NoTasksYetNext DEF IInv


LEMMA StutterInv ==
  ASSUME IInv, UNCHANGED vars
  PROVE  IInv'
<1>1. /\ UNCHANGED dagVars /\ UNCHANGED execSame
      /\ UNCHANGED <<allNodes, succs, preds, travDag, visited>>
      /\ UNCHANGED <<deviceData, sinkTask, host, prevUser, newEdges, prepared, cur,
                     sources, sinks, status, made, slotData>>
  BY DEF vars, dagVars, execSame
<1>2. /\ D!IInv /\ TypeOK /\ HostInv /\ SlotInv /\ MadeInv /\ RunInv /\ DataInv
  BY DEF IInv
<1>3. D!IInv' /\ TypeOK'
  BY <1>1, <1>2, NoWalkStep, TypesKept, OutsideTypes
<1>4. HostInv'
  <2>1. DependsBackwards' = DependsBackwards /\ D!Acyclic(PartDAG)' = D!Acyclic(PartDAG)
    BY <1>1, SameAcyclic DEF DependsBackwards, Parts, IndexOf
  <2> QED
    BY <1>1, <1>2, <2>1 DEF HostInv, Executing
<1>5. SlotInv'
  <2>1. Settled' = Settled
    BY <1>1 DEF Settled, Parts
  <2> QED
    BY <1>1, <1>2, <2>1, SameLinked, SettledKept
<1>6. CASE Executing
  <2>1. \A i : Passed(i)' => Passed(i)
    BY <1>1 DEF Passed, Executing
  <2>2. MadeInv'
    BY <1>1, <1>2, <1>3, <2>1, MadeKept
  <2>3. RunInv'
    <3>1. \A h \in Current : status[h] \in {"running", "done"} => \A r \in Task(h).requires : IsDone(r)
      BY <1>2 DEF RunInv
    <3>2. host = "wait" => \A i \in DOMAIN sinks : i < cur => IsDone(sinks[i])
      BY <1>2 DEF RunInv
    <3> QED
      BY <1>1, <1>2, <3>1, <3>2, RunMoves DEF IsDone
  <2>4. DataInv'
    BY <1>1, <1>2, DataKept DEF IsDone
  <2> QED
    BY <1>3, <1>4, <1>5, <2>2, <2>3, <2>4 DEF IInv
<1>7. CASE ~Executing
  <2>1. ~Executing'
    BY <1>1, <1>7 DEF Executing
  <2> QED
    BY <1>1, <1>3, <1>4, <1>5, <1>7, <2>1, OutsideStep
<1> QED
  BY <1>6, <1>7

-----------------------------------------------------------------------------
(* makeTasksForPartition.                                                  *)

(* Creating a task t with status s gives it the next handle h and leaves   *)
(* the tasks that were there as they were.                                 *)
TaskAppended(s, h, t) ==
  /\ h \in Nat
  /\ Old' = Old /\ Len(status') = h
  /\ h \notin Current /\ h \notin DOMAIN status /\ Current' = Current \cup {h}
  /\ \A i \in Current : Task(i)' = Task(i)
  /\ Task(h)' = t
  /\ \A i \in DOMAIN status : status'[i] = status[i]
  /\ status'[h] = s
  /\ status' \in Seq({"lazy", "waiting", "running", "done"})
  /\ made' \in Seq([part : Partition, role : Range(Program), requires : SUBSET Nat])
  /\ Len(made') <= Len(status')

(* A task of the types the executor uses is such a task.                   *)
LEMMA NewTask ==
  ASSUME TypeOK, NEW s \in {"lazy", "waiting"}, NEW h, h = Len(status) + 1,
         NEW t \in [part : Partition, role : Role, requires : SUBSET Nat],
         status' = Append(status, s), made' = Append(made, t)
  PROVE  TaskAppended(s, h, t)
<1> DEFINE R == [part : Partition, role : Role, requires : SUBSET Nat]
           V == {"lazy", "waiting", "running", "done"}
<1>1. status \in Seq(V) /\ made \in Seq(R)
  BY ProgramStages DEF TypeOK
<1>2. s \in V /\ t \in R
  OBVIOUS
<1> HIDE DEF R
<1>3. /\ status' \in Seq(V) /\ Len(status') = h /\ status'[h] = s
      /\ \A i \in 1..Len(status) : status'[i] = status[i]
  BY <1>1, <1>2, AppendLastRange
<1>4. /\ made' \in Seq(R) /\ Len(made') = Len(made) + 1 /\ made'[Len(made) + 1] = t
      /\ \A i \in 1..Len(made) : made'[i] = made[i]
  BY <1>1, <1>2, AppendLastRange
<1>5. /\ Old \in Nat /\ Len(status) = Old + Len(made)
      /\ Len(status) \in Nat /\ Len(made) \in Nat
      /\ DOMAIN status = 1..Len(status)
  BY TaskTypes
<1>6. Old' = Old
  BY <1>3, <1>4, <1>5 DEF Old
<1>7. h \notin Current /\ Current' = Current \cup {h} /\ h \notin DOMAIN status /\ h \in Nat
  BY <1>3, <1>5, <1>6 DEF Current
<1>8. ASSUME NEW i \in Current
      PROVE  Task(i)' = Task(i)
  <2>1. i - Old \in 1..Len(made)
    BY <1>5 DEF Current
  <2>2. Task(i)' = made'[i - Old]
    BY <1>6 DEF Task
  <2>3. Task(i) = made[i - Old]
    BY DEF Task
  <2> QED
    BY <1>4, <2>1, <2>2, <2>3
<1>9. Task(h)' = t
  <2>1. h - Old = Len(made) + 1
    BY <1>5
  <2>2. Task(h)' = made'[h - Old]
    BY <1>6 DEF Task
  <2> QED
    BY <1>4, <2>1, <2>2
<1>10. made' \in Seq([part : Partition, role : Range(Program), requires : SUBSET Nat])
  BY <1>4, ProgramStages DEF R
<1>11. Len(made') <= Len(status')
  BY <1>3, <1>4, <1>5
<1> QED
  BY <1>3, <1>5, <1>6, <1>7, <1>8, <1>9, <1>10, <1>11 DEF TaskAppended

(* The partition the loop is at has tasks for the first steps of its       *)
(* program, and is about to be given one for the next.                     *)
LEMMA NextStep ==
  ASSUME D!IInv, TypeOK, HostInv, MadeInv, host = "make", cur <= Len(Parts),
         NEW p, p = Parts[cur], NEW c, c = Cardinality(TasksOf(p))
  PROVE  /\ cur \in DOMAIN Parts /\ IndexOf(p) = cur /\ p \in Range(Parts) /\ p \in Partition
         /\ c \in Nat /\ c + 1 \in 1..Len(Program)
         /\ IsFiniteSet(TasksOf(p))
         /\ Program[c + 1] \in Role
         /\ {Task(g).role : g \in TasksOf(p)} = {Program[i] : i \in 1..c}
         /\ Stage(p, "outEnd") = {}
<1>1. cur \in DOMAIN Parts
  <2>1. Parts \in Seq(Partition) /\ cur \in Nat \ {0}
    BY Places DEF TypeOK
  <2> QED
    BY <2>1
<1>2. p \in Range(Parts)
  BY <1>1 DEF Range
<1>3. IndexOf(p) = cur /\ p \in Partition
  BY <1>1, <1>2, Places
<1>4. /\ c <= Len(Program)
      /\ {Task(g).role : g \in TasksOf(p)} = {Program[i] : i \in 1..c}
      /\ Stage(p, "outEnd") = {}
  BY <1>1, <1>2 DEF MadeInv
<1>5. IsFiniteSet(TasksOf(p))
  <2>1. TasksOf(p) \subseteq 1..Len(status) /\ Len(status) \in Nat
    BY TaskTypes DEF TasksOf
  <2> QED
    <3>1. IsFiniteSet(1..Len(status))
      BY <2>1, FS_Interval
    <3> QED
      BY <2>1, <3>1, FS_Subset
<1>6. c \in Nat
  BY <1>5, FS_CardinalityType
<1>7. Len(Program) \in Nat \ {0} /\ Program[Len(Program)] = <<"outEnd", 1>>
  BY ProgramStages
<1>8. c # Len(Program)
  <2> SUFFICES ASSUME c = Len(Program) PROVE FALSE
    OBVIOUS
  <2>1. <<"outEnd", 1>> \in {Program[i] : i \in 1..c}
    BY <1>6, <1>7
  <2>2. PICK g \in TasksOf(p) : Task(g).role = <<"outEnd", 1>>
    BY <1>4, <2>1
  <2>3. g \in Stage(p, "outEnd")
    BY <2>2 DEF TasksOf, Stage
  <2> QED
    BY <1>4, <2>3
<1>9. c + 1 \in 1..Len(Program)
  BY <1>4, <1>6, <1>7, <1>8
<1>10. Program[c + 1] \in Role
  BY <1>9, ProgramOrder
<1> QED
  BY <1>1, <1>2, <1>3, <1>4, <1>5, <1>6, <1>9, <1>10

(* What the next task of a partition requires, after the c already made.    *)
RequiresNext(p, c, step) ==
  /\ Requires(p, step) = IF step[1] = "src" THEN PredTasks(p) ELSE Needed(p, step)
  /\ Requires(p, step) \subseteq Nat
  /\ step[1] \in {"in", "out"} => Requires(p, step) # {}
  /\ \A i \in 1..c : ~Before(step, Program[i]) /\ Program[i] # step
  /\ \A s \in Needs(step) : Before(s, step)

LEMMA NextRequires ==
  ASSUME D!IInv, TypeOK, HostInv, MadeInv, host = "make", cur <= Len(Parts),
         NEW p, p = Parts[cur], NEW c, c = Cardinality(TasksOf(p)),
         NEW step, step = Program[c + 1]
  PROVE  RequiresNext(p, c, step)
<1>1. /\ p \in Partition /\ c \in Nat /\ c + 1 \in 1..Len(Program) /\ step \in Role
      /\ {Task(g).role : g \in TasksOf(p)} = {Program[i] : i \in 1..c}
  BY NextStep
<1>2. Requires(p, step) = IF step[1] = "src" THEN PredTasks(p) ELSE Needed(p, step)
  BY <1>1, RequiresByNeeds DEF Needed
<1>3. Len(Program) \in Nat
  BY ProgramStages
<1>4. \A i \in 1..c : i \in 1..Len(Program) /\ i < c + 1
  BY <1>1, <1>3
<1>5. ASSUME NEW i \in 1..c
      PROVE  ~Before(step, Program[i]) /\ Program[i] # step
  <2>1. ~(c + 1 < i) /\ i # c + 1
    BY <1>1, <1>4
  <2> QED
    BY <1>1, <1>4, <2>1, ProgramOrder
<1>6. ASSUME NEW s \in Role, Before(s, step)
      PROVE  \E g \in TasksOf(p) : Task(g).role = s
  <2>1. PICK j \in 1..Len(Program) : Program[j] = s
    BY ProgramOrder
  <2>2. j < c + 1
    BY <1>1, <1>6, <2>1, ProgramOrder
  <2>3. j \in 1..c
    BY <1>1, <1>3, <2>2
  <2>4. s \in {Task(g).role : g \in TasksOf(p)}
    BY <1>1, <2>1, <2>3
  <2> QED
    BY <2>4
<1>7. step[1] \in {"in", "out"} => Requires(p, step) # {}
  <2> SUFFICES ASSUME step[1] \in {"in", "out"} PROVE Requires(p, step) # {}
    OBVIOUS
  <2>1. PICK s \in Needs(step) : TRUE
    BY DEF Needs
  <2>2. s \in Role /\ Before(s, step)
    BY <1>1, NeedsBefore
  <2>3. PICK g \in TasksOf(p) : Task(g).role = s
    BY <1>6, <2>2
  <2>4. step[1] # "src" /\ g \in Needed(p, step)
    BY <2>1, <2>3 DEF Needed
  <2> QED
    BY <1>2, <2>4
<1>8. Requires(p, step) \subseteq Nat
  <2>1. \A g \in TasksOf(p) : g \in Nat
    BY TaskTypes DEF TasksOf
  <2>2. PredTasks(p) \subseteq Nat
    <3>1. preds \in [Partition -> Seq(Partition)] /\ sinkTask \in [Partition -> Nat]
      BY TypesKept DEF D!IInv, D!TypeOK
    <3>2. Range(preds[p]) \subseteq Partition
      BY <1>1, <3>1 DEF Range
    <3> QED
      BY <3>1, <3>2 DEF PredTasks
  <2>3. Needed(p, step) \subseteq Nat
    BY <2>1 DEF Needed
  <2> QED
    BY <1>2, <2>2, <2>3
<1>9. \A s \in Needs(step) : Before(s, step)
  BY <1>1, NeedsBefore
<1> QED
  BY <1>2, <1>5, <1>7, <1>8, <1>9 DEF RequiresNext

(* What one step of makeTasksForPartition does.                            *)
LEMMA MakeTaskInv ==
  ASSUME IInv, MakeTask
  PROVE  IInv'
<1> SUFFICES ASSUME NEW p, p = Parts[cur],
                    NEW c, c = Cardinality(TasksOf(p)),
                    NEW step, step = Program[c + 1],
                    NEW R, R = Requires(p, step),
                    NEW s, s = NewStatus(step, R),
                    NEW h, h = Len(status) + 1,
                    NEW t, t = [part |-> p, role |-> step, requires |-> R]
             PROVE  IInv'
  OBVIOUS
<1>1. D!IInv /\ TypeOK /\ HostInv /\ MadeInv /\ RunInv /\ DataInv
  BY DEF IInv
<1>2. /\ host = "make" /\ cur <= Len(Parts)
      /\ status' = Append(status, s)
      /\ made' = Append(made, t)
      /\ sources' = IF step[1] = "src" /\ D!IsSrc(p) THEN Append(sources, h) ELSE sources
      /\ sinks' = IF step[1] = "outEnd" /\ D!IsSink(p) THEN Append(sinks, h) ELSE sinks
      /\ sinkTask' = IF step[1] = "outEnd" THEN [sinkTask EXCEPT ![p] = h] ELSE sinkTask
      /\ cur' = IF step[1] = "outEnd" THEN cur + 1 ELSE cur
      /\ UNCHANGED execSame /\ UNCHANGED <<host, slotData>>
  BY DEF MakeTask, Collected, TasksOf
<1>3. /\ cur \in DOMAIN Parts /\ IndexOf(p) = cur /\ p \in Range(Parts) /\ p \in Partition
      /\ c \in Nat /\ c + 1 \in 1..Len(Program)
      /\ IsFiniteSet(TasksOf(p))
      /\ step \in Role
      /\ {Task(g).role : g \in TasksOf(p)} = {Program[i] : i \in 1..c}
      /\ Stage(p, "outEnd") = {}
  BY <1>1, <1>2, NextStep
<1>4. /\ R = IF step[1] = "src" THEN PredTasks(p) ELSE Needed(p, step)
      /\ R \subseteq Nat
      /\ step[1] \in {"in", "out"} => R # {}
      /\ \A i \in 1..c : ~Before(step, Program[i]) /\ Program[i] # step
      /\ \A r \in Needs(step) : Before(r, step)
  <2>1. RequiresNext(p, c, step)
    BY <1>1, <1>2, NextRequires
  <2> QED
    BY <2>1 DEF RequiresNext
<1>5. s \in {"lazy", "waiting"} /\ (s # "lazy" => R # {} \/ step[1] = "src")
  <2>1. R = {} /\ step[1] \notin {"in", "out"} => s = "lazy"
    BY DEF NewStatus
  <2>2. s \in {"lazy", "waiting"}
    BY DEF NewStatus
  <2> QED
    BY <1>4, <2>1, <2>2
<1>6. /\ h \in Nat
      /\ Old' = Old /\ Len(status') = h
      /\ h \notin Current /\ h \notin DOMAIN status /\ Current' = Current \cup {h}
      /\ \A i \in Current : Task(i)' = Task(i)
      /\ Task(h)' = t
      /\ \A i \in DOMAIN status : status'[i] = status[i]
      /\ status'[h] = s
      /\ status' \in Seq({"lazy", "waiting", "running", "done"})
      /\ made' \in Seq([part : Partition, role : Range(Program), requires : SUBSET Nat])
      /\ Len(made') <= Len(status')
  <2>1. t \in [part : Partition, role : Role, requires : SUBSET Nat]
    BY <1>3, <1>4
  <2>2. TypeOK /\ h = Len(status) + 1 /\ status' = Append(status, s) /\ made' = Append(made, t)
    BY <1>1, <1>2
  <2>3. TaskAppended(s, h, t)
    BY <1>5, <2>1, <2>2, NewTask
  <2> QED
    BY <2>3 DEF TaskAppended
<1>7. Executing /\ Executing' /\ prepared /\ DependsBackwards
  BY <1>1, <1>2 DEF Executing, HostInv
<1>8. D!IInv' /\ HostInv' /\ SlotInv'
  BY <1>2, <1>7, DuringExecution
<1>9. /\ UNCHANGED <<allNodes, succs, preds, deviceData, prevUser, newEdges, prepared>>
      /\ Parts' = Parts
  BY <1>2 DEF execSame, dagVars, Parts
<1>10. /\ sources' \in Seq(Nat) /\ Range(sources') \subseteq Range(sources) \cup {h}
       /\ h \in Range(sources') => step[1] = "src" \/ h \in Range(sources)
       /\ sinks' \in Seq(Nat) /\ Range(sinks') \subseteq Range(sinks) \cup {h}
       /\ Range(sinks) \subseteq Range(sinks')
       /\ step[1] = "outEnd" /\ D!IsSink(p) => h \in Range(sinks')
  <2>1. sources \in Seq(Nat) /\ sinks \in Seq(Nat) /\ h \in Nat
    BY <1>1, <1>6 DEF TypeOK
  <2>2. Append(sources, h) \in Seq(Nat) /\ Range(Append(sources, h)) = Range(sources) \cup {h}
    BY <2>1, AppendLastRange
  <2>3. Append(sinks, h) \in Seq(Nat) /\ Range(Append(sinks, h)) = Range(sinks) \cup {h}
    BY <2>1, AppendLastRange
  <2> QED
    BY <1>2, <2>1, <2>2, <2>3
<1>11. /\ sinkTask' \in [Partition -> Nat]
       /\ \A q \in Partition : q # p => sinkTask'[q] = sinkTask[q]
       /\ step[1] = "outEnd" => sinkTask'[p] = h
       /\ step[1] # "outEnd" => sinkTask' = sinkTask
  BY <1>1, <1>2, <1>3, <1>6, TypesKept
<1>12. TypeOK'
  <2>1. /\ deviceData' \in [Partition -> Nat] /\ host' \in HostState
        /\ prevUser' \in [Slot -> Partition \cup {Nobody}]
        /\ newEdges' \in Seq(Partition \X Partition)
        /\ prepared' \in BOOLEAN
    BY <1>1, <1>2, <1>9, TypesKept, Zenon
  <2>2. cur' \in Nat \ {0} /\ slotData' \in [Slot -> [Block -> Partition \cup {Nobody}]]
    <3>1. cur \in Nat \ {0} /\ slotData \in [Slot -> [Block -> Partition \cup {Nobody}]]
      BY <1>1 DEF TypeOK
    <3> QED
      BY <1>2, <3>1
  <2>3. Range(sources') \subseteq Current' /\ Range(sinks') \subseteq Current'
    BY <1>1, <1>6, <1>10 DEF TypeOK
  <2> QED
    BY <1>6, <1>10, <1>11, <2>1, <2>2, <2>3, Zenon DEF TypeOK, HostState
<1>13. /\ \A i \in Current : /\ Task(i)'.part = Task(i).part /\ Task(i)'.role = Task(i).role
                             /\ Task(i)'.requires = Task(i).requires
       /\ Task(h)'.part = p /\ Task(h)'.role = step /\ Task(h)'.requires = R
  BY <1>6
<1>14. /\ TasksOf(p)' = TasksOf(p) \cup {h} /\ h \notin TasksOf(p)
       /\ \A q : q # p => TasksOf(q)' = TasksOf(q)
       /\ \A q, r : Stage(q, r) \subseteq Stage(q, r)'
       /\ \A q, r : q # p \/ r # step[1] => Stage(q, r)' = Stage(q, r)
       /\ h \in Stage(p, step[1])'
  <2>1. /\ TasksOf(p)' = TasksOf(p) \cup {h} /\ h \notin TasksOf(p)
        /\ \A q : q # p => TasksOf(q)' = TasksOf(q)
    BY <1>6, <1>13 DEF TasksOf
  <2>2. \A q, r : Stage(q, r) \subseteq Stage(q, r)'
    BY <1>6, <1>13 DEF Stage
  <2>3. ASSUME NEW q, NEW r, q # p \/ r # step[1]
        PROVE  Stage(q, r)' = Stage(q, r)
    BY <1>6, <1>13, <2>3 DEF Stage
  <2>4. h \in Stage(p, step[1])'
    BY <1>6, <1>13 DEF Stage
  <2> QED
    BY <2>1, <2>2, <2>3, <2>4
<1>15. \A g \in TasksOf(p) : \E i \in 1..c : Task(g).role = Program[i]
  BY <1>3
<1>16. RequiresNeeds'
  <2>1. RequiresNeeded
    BY <1>1, RequiresForm, RequiresNeededForm DEF MadeInv
  <2> SUFFICES ASSUME NEW i \in Current', NEW q, q = Task(i)'.part, NEW r, r = Task(i)'.role
               PROVE  Task(i)'.requires =
                        IF r[1] = "src" THEN {sinkTask'[x] : x \in Range(preds[q])}
                        ELSE {g \in TasksOf(q)' : Task(g)'.role \in Needs(r)}
    <3>1. SUFFICES RequiresNeeded'
      BY RequiresNeededNext
    <3>2. \A q : PredTasks(q)' = {sinkTask'[x] : x \in Range(preds[q])}
      BY <1>9 DEF PredTasks
    <3>3. \A q, r : Needed(q, r)' = {g \in TasksOf(q)' : Task(g)'.role \in Needs(r)}
      BY DEF Needed
    <3> QED
      BY <3>2, <3>3 DEF RequiresNeeded
  <2>2. ASSUME NEW x \in Range(preds[q]), r[1] = "src"
        PROVE  sinkTask'[x] = sinkTask[x]
    <3>1. CASE i = h
      BY <1>11, <1>13, <2>2, <3>1
    <3>2. CASE i \in Current
      <4>1. Task(i).part = q
        BY <1>13, <3>2
      <4>2. /\ IndexOf(q) \in DOMAIN Parts /\ Parts[IndexOf(q)] = q /\ IndexOf(q) <= cur
        BY <1>1, <1>2, <3>2, <4>1, PlaceOfTask
      <4>3. x \in Range(Parts) /\ IndexOf(x) < IndexOf(q)
        BY <1>1, <1>2, <1>7, <4>2, PassedBefore
      <4>4. x # p
        <5>1. IndexOf(q) \in Nat /\ cur \in Nat
          BY <1>1, <1>3, <4>2, Places
        <5> QED
          BY <1>3, <4>2, <4>3, <5>1
      <4>5. x \in Partition
        BY <1>1, <4>3, Places
      <4> QED
        BY <1>11, <4>4, <4>5
    <3> QED
      BY <1>6, <3>1, <3>2
  <2>3. CASE r[1] = "src"
    <3>1. Task(i)'.requires = {sinkTask[x] : x \in Range(preds[q])}
      <4>1. CASE i = h
        BY <1>4, <1>13, <2>3, <4>1 DEF PredTasks
      <4>2. CASE i \in Current
        <5>1. Task(i).part = q /\ Task(i).role = r /\ Task(i)'.requires = Task(i).requires
          BY <1>13, <4>2
        <5>2. Task(i).requires = PredTasks(q)
          BY <2>1, <2>3, <4>2, <5>1 DEF RequiresNeeded
        <5> QED
          BY <5>1, <5>2 DEF PredTasks
      <4> QED
        BY <1>6, <4>1, <4>2
    <3> QED
      BY <2>2, <2>3, <3>1
  <2>4. CASE r[1] # "src"
    <3>1. Task(i)'.requires = {g \in TasksOf(q) : Task(g).role \in Needs(r)}
      <4>1. CASE i = h
        BY <1>4, <1>13, <2>4, <4>1 DEF Needed
      <4>2. CASE i \in Current
        <5>1. Task(i).part = q /\ Task(i).role = r /\ Task(i)'.requires = Task(i).requires
          BY <1>13, <4>2
        <5>2. Task(i).requires = Needed(q, r)
          BY <2>1, <2>4, <4>2, <5>1 DEF RequiresNeeded
        <5> QED
          BY <5>1, <5>2 DEF Needed
      <4> QED
        BY <1>6, <4>1, <4>2
    <3>2. q = p => step \notin Needs(r)
      <4> SUFFICES ASSUME q = p, step \in Needs(r) PROVE FALSE
        OBVIOUS
      <4>1. CASE i = h
        <5>1. Before(step, step)
          BY <1>4, <1>13, <4>1
        <5> QED
          BY <1>3, <5>1, RoleTypes DEF Before
      <4>2. CASE i \in Current
        <5>1. i \in TasksOf(p) /\ Task(i).role = r /\ r \in Role
          BY <1>1, <1>13, <4>2, TaskTypes DEF TasksOf
        <5>2. Before(step, r)
          BY <5>1, NeedsBefore
        <5> QED
          BY <1>4, <1>15, <5>1, <5>2
      <4> QED
        BY <1>6, <4>1, <4>2
    <3>3. \A g \in TasksOf(q) : g \in Current
      BY DEF TasksOf
    <3>4. TasksOf(q)' = TasksOf(q) \/ (q = p /\ TasksOf(q)' = TasksOf(q) \cup {h})
      BY <1>14
    <3>5. {g \in TasksOf(q)' : Task(g)'.role \in Needs(r)} = {g \in TasksOf(q) : Task(g).role \in Needs(r)}
      BY <1>13, <3>2, <3>3, <3>4
    <3> QED
      BY <2>4, <3>1, <3>5
  <2> QED
    BY <2>3, <2>4
<1>17. MadeInv'
  <2>1. ASSUME NEW i \in Current'
        PROVE  Task(i)'.part \in Range(Parts)
    BY <1>1, <1>3, <1>6, <1>13 DEF MadeInv
  <2>2. ASSUME NEW i \in Current', NEW j \in Current',
               Task(i)'.part = Task(j)'.part, Task(i)'.role = Task(j)'.role
        PROVE  i = j
    <3>1. \A g \in Current : Task(g).part = p => Task(g).role # step
      <4> SUFFICES ASSUME NEW g \in Current, Task(g).part = p PROVE Task(g).role # step
        OBVIOUS
      <4>1. g \in TasksOf(p)
        BY DEF TasksOf
      <4> QED
        BY <1>4, <1>15, <4>1
    <3>2. i \in Current /\ j \in Current => i = j
      BY <1>1, <1>13, <2>2 DEF MadeInv
    <3> QED
      BY <1>6, <1>13, <2>2, <3>1, <3>2
  <2>3. ASSUME NEW q \in Range(Parts)
        PROVE  (LET n == Cardinality(TasksOf(q))
                IN n <= Len(Program) /\ {Task(g).role : g \in TasksOf(q)} = {Program[i] : i \in 1..n})'
    <3>1. CASE q = p
      <4>1. Cardinality(TasksOf(q)') = c + 1
        BY <1>3, <1>14, <3>1, FS_AddElement
      <4>2. {Task(g)'.role : g \in TasksOf(q)'} = {Program[i] : i \in 1..(c + 1)}
        <5>1. \A g \in TasksOf(p) : g \in Current /\ Task(g)'.role = Task(g).role
          BY <1>13 DEF TasksOf
        <5>2. {Task(g)'.role : g \in TasksOf(q)'} = {Task(g).role : g \in TasksOf(p)} \cup {step}
          BY <1>13, <1>14, <3>1, <5>1
        <5>3. {Program[i] : i \in 1..(c + 1)} = {Program[i] : i \in 1..c} \cup {Program[c + 1]}
          <6>1. 1..(c + 1) = (1..c) \cup {c + 1}
            BY <1>3
          <6> QED
            BY <6>1
        <5> QED
          BY <1>3, <5>2, <5>3
      <4>3. c + 1 <= Len(Program)
        BY <1>3
      <4> QED
        BY <4>1, <4>2, <4>3
    <3>2. CASE q # p
      <4>1. TasksOf(q)' = TasksOf(q)
        BY <1>14, <3>2
      <4>2. \A g \in TasksOf(q) : Task(g)'.role = Task(g).role
        BY <1>13 DEF TasksOf
      <4>3. LET n == Cardinality(TasksOf(q))
            IN n <= Len(Program) /\ {Task(g).role : g \in TasksOf(q)} = {Program[i] : i \in 1..n}
        BY <1>1 DEF MadeInv
      <4>4. {Task(g)'.role : g \in TasksOf(q)} = {Task(g).role : g \in TasksOf(q)}
        BY <4>2
      <4> QED
        BY <4>1, <4>3, <4>4
    <3> QED
      BY <3>1, <3>2
  <2>4. ASSUME NEW i \in DOMAIN Parts
        PROVE  /\ i > cur' => TasksOf(Parts[i])' = {}
               /\ i = cur' => Stage(Parts[i], "outEnd")' = {}
               /\ i < cur' => sinkTask'[Parts[i]] \in Stage(Parts[i], "outEnd")'
    <3>1. i \in Nat /\ cur \in Nat /\ IndexOf(Parts[i]) = i /\ Parts[i] \in Partition
      <4>1. Parts[i] \in Range(Parts)
        BY DEF Range
      <4> QED
        BY <1>1, <1>3, <4>1, Places
    <3>2. /\ i > cur => TasksOf(Parts[i]) = {}
          /\ i < cur => sinkTask[Parts[i]] \in Stage(Parts[i], "outEnd")
      BY <1>1, <1>2, <1>7 DEF MadeInv, Passed
    <3>3. CASE i > cur
      <4>1. Parts[i] # p
        BY <1>3, <3>1, <3>3
      <4>2. TasksOf(Parts[i])' = {}
        <5> SUFFICES ASSUME NEW g \in TasksOf(Parts[i])' PROVE FALSE
          OBVIOUS
        <5>1. g \in Current' /\ Task(g)'.part = Parts[i]
          BY <1>9 DEF TasksOf
        <5>2. g \in TasksOf(Parts[i])
          BY <1>6, <1>13, <4>1, <5>1 DEF TasksOf
        <5> QED
          BY <3>2, <3>3, <5>2
      <4>3. Stage(Parts[i], "outEnd")' = {}
        BY <4>2 DEF TasksOf, Stage
      <4>4. ~(i < cur')
        BY <1>2, <3>1, <3>3
      <4> QED
        BY <4>2, <4>3, <4>4
    <3>4. CASE i = cur
      <4>1. CASE step[1] = "outEnd"
        <5>1. sinkTask'[Parts[i]] = h /\ h \in Stage(p, "outEnd")' /\ Parts[i] = p
          BY <1>11, <1>14, <3>4, <4>1
        <5>2. sinkTask'[Parts[i]] \in Stage(Parts[i], "outEnd")'
          BY <1>6, <1>9, <1>13, <3>4, <4>1, <5>1 DEF Stage
        <5>3. i < cur' /\ ~(i > cur') /\ i # cur'
          BY <1>2, <3>1, <3>4, <4>1
        <5> QED
          BY <5>2, <5>3
      <4>2. CASE step[1] # "outEnd"
        <5>1. cur' = cur
          BY <1>2, <4>2
        <5>2. Stage(p, "outEnd")' = {}
          BY <1>3, <1>14, <4>2
        <5>3. Stage(Parts[i], "outEnd")' = {}
          BY <5>2, <1>9, <3>4 DEF Stage
        <5> QED
          BY <3>1, <3>4, <5>1, <5>3
      <4> QED
        BY <4>1, <4>2
    <3>5. CASE i < cur
      <4>1. Parts[i] # p
        BY <1>3, <3>1, <3>5
      <4>2. sinkTask'[Parts[i]] = sinkTask[Parts[i]]
        BY <1>11, <3>1, <4>1
      <4>3. sinkTask[Parts[i]] \in Stage(Parts[i], "outEnd")
        BY <3>2, <3>5
      <4>4. sinkTask'[Parts[i]] \in Stage(Parts[i], "outEnd")'
        BY <1>6, <1>9, <1>13, <4>2, <4>3 DEF Stage
      <4>5. ~(i > cur') /\ i # cur'
        BY <1>2, <3>1, <3>5
      <4> QED
        BY <4>4, <4>5
    <3> QED
      BY <3>1, <3>3, <3>4, <3>5
  <2>5. (\A i \in Current : Task(i).requires = Requires(Task(i).part, Task(i).role))'
    BY <1>12, <1>16, RequiresFormNext
  <2>6. \A i \in DOMAIN Parts : Passed(i)' => i < cur'
    BY <1>2 DEF Passed
  <2> QED
    BY <1>2, <1>9, <2>1, <2>2, <2>3, <2>4, <2>5, <2>6 DEF MadeInv
<1>18. RunInv'
  <2>1. ASSUME NEW i \in 1..Old'
        PROVE  IsDone(i)'
    <3>1. i \in 1..Old /\ i \in DOMAIN status
      BY <1>1, <1>6, TaskTypes
    <3> QED
      BY <1>1, <1>6, <3>1 DEF RunInv, IsDone
  <2>2. ASSUME NEW i \in Current'
        PROVE  /\ status'[i] # "lazy" => Task(i)'.requires # {} \/ Task(i)'.role[1] = "src"
               /\ status'[i] \in {"running", "done"} => \A r \in Task(i)'.requires : IsDone(r)'
               /\ Task(i)'.role[1] = "outEnd" /\ D!IsSink(Task(i)'.part) => i \in Range(sinks')
    <3>1. CASE i = h
      BY <1>5, <1>6, <1>10, <1>13, <3>1
    <3>2. CASE i \in Current
      <4>1. i \in DOMAIN status /\ status'[i] = status[i]
        BY <1>1, <1>6, <3>2, TaskTypes
      <4>2. \A r \in Task(i).requires : r \in DOMAIN status
        BY <1>1, <3>2, RequiresCurrent
      <4>3. \A r \in Task(i).requires : IsDone(r) => IsDone(r)'
        BY <1>6, <4>2 DEF IsDone
      <4> QED
        BY <1>1, <1>10, <1>13, <3>2, <4>1, <4>3 DEF RunInv
    <3> QED
      BY <1>6, <3>1, <3>2
  <2>3. \A q : D!IsSink(q)' <=> D!IsSink(q)
    BY <1>9 DEF D!IsSink
  <2>4. ASSUME NEW i \in Range(sources')
        PROVE  Task(i)'.role[1] = "src"
    <3>1. CASE i \in Range(sources)
      BY <1>1, <1>13, <3>1 DEF RunInv, TypeOK
    <3>2. CASE i \notin Range(sources)
      BY <1>10, <1>13, <2>4, <3>2
    <3> QED
      BY <3>1, <3>2
  <2>5. host' # "wait"
    BY <1>2
  <2> QED
    BY <2>1, <2>2, <2>3, <2>4, <2>5 DEF RunInv
<1>19. DataInv'
  <2>1. ~IsDone(h)'
    BY <1>5, <1>6 DEF IsDone
  <2>2. \A i \in Current : IsDone(i)' <=> IsDone(i)
    BY <1>1, <1>6, TaskTypes DEF IsDone
  <2>3. \A q : Over(q) => Over(q)'
    <3> SUFFICES ASSUME NEW q, Over(q) PROVE Over(q)'
      OBVIOUS
    <3>1. q # p
      BY <1>3 DEF Over
    <3>2. \A r : Stage(q, r)' = Stage(q, r)
      BY <1>14, <3>1
    <3>3. \A i \in Stage(q, "out") : i \in Current
      BY DEF Stage
    <3> QED
      BY <2>2, <3>2, <3>3 DEF Over
  <2> SUFFICES ASSUME NEW i \in Current', NEW q, q = Task(i)'.part, NEW b, b = Task(i)'.role[2],
                      Task(i)'.role[1] = "in", IsDone(i)', ~Over(q)'
               PROVE  slotData[deviceData[q]][b] = q
    BY <1>2, <1>9 DEF DataInv
  <2>4. i \in Current /\ IsDone(i) /\ ~Over(q)
    BY <1>6, <2>1, <2>2, <2>3
  <2> QED
    BY <1>1, <1>13, <2>4 DEF DataInv
<1> QED
  BY <1>8, <1>12, <1>17, <1>18, <1>19 DEF IInv

-----------------------------------------------------------------------------
(* The theorems.                                                           *)

(* Every step of the executor, its client and its runtime.                 *)
LEMMA NextInv ==
  ASSUME ~AnyOrder, IInv, [Next]_vars
  PROVE  IInv'
<1>1. CASE Client
  BY <1>1, ChangeDagInv, PrepareInv, ExecuteInv DEF Client
<1>2. CASE Host
  BY <1>2, WalkInv, AssignSlotInv, AssignedAllInv, AddNewEdgeInv, PreparedInv, MakeTaskInv,
     HostStepInv, ActivateInv, ReturnInv
  DEF Host
<1>3. CASE Runtime
  BY <1>3, StartTaskInv, FinishTaskInv DEF Runtime
<1>4. CASE UNCHANGED vars
  BY <1>4, StutterInv
<1> QED
  BY <1>1, <1>2, <1>3, <1>4 DEF Next

(* Whatever DAGs of partitions the client builds, as long as it adds       *)
(* partitions in the order they depend on one another, the tasks of        *)
(* executePartitionDAG agree with the partitions, and the partitions with  *)
(* the slots dealt out by preparePartitionDAG, as IInv says.  Without that *)
(* order collectPredHandles finds no handle in a predecessor, and a run    *)
(* shows the consequence.                                                  *)
THEOREM Invariance == ~AnyOrder => (Spec => []IInv)
<1> SUFFICES ASSUME ~AnyOrder PROVE Spec => []IInv
  OBVIOUS
<1>1. Init => IInv
  BY InitInv
<1>2. IInv /\ [Next]_vars => IInv'
  BY NextInv
<1> QED
  BY <1>1, <1>2, PTL DEF Spec

(* Of two partitions that share a device slot and have begun to copy in,   *)
(* one has copied all its results back: preparePartitionDAG's edges make   *)
(* the users of a slot take turns.                                         *)
THEOREM TurnsInSlots == ~AnyOrder => (Spec => []SlotsTakeTurns)
<1> SUFFICES ASSUME ~AnyOrder PROVE Spec => []SlotsTakeTurns
  OBVIOUS
<1>1. IInv => SlotsTakeTurns
  BY TurnsTaken
<1> QED
  BY <1>1, Invariance, PTL

(* A partition begins to copy in when the partitions it depends on have    *)
(* copied their results back.                                              *)
THEOREM InOrder == ~AnyOrder => (Spec => []PartitionsInOrder)
<1> SUFFICES ASSUME ~AnyOrder PROVE Spec => []PartitionsInOrder
  OBVIOUS
<1>1. IInv => PartitionsInOrder
  BY DependsInOrder
<1> QED
  BY <1>1, Invariance, PTL

(* A kernel, and a copy back, that runs finds in its slot the blocks of    *)
(* its own partition; a copy back runs after all the partition's kernels.  *)
THEOREM OwnDataInSlot == ~AnyOrder => (Spec => []WorksOnOwnData)
<1> SUFFICES ASSUME ~AnyOrder PROVE Spec => []WorksOnOwnData
  OBVIOUS
<1>1. IInv => WorksOnOwnData
  BY OwnDataFound
<1> QED
  BY <1>1, Invariance, PTL

(* When executePartitionDAG has returned, waiting for the last tasks of    *)
(* the sinks only, no task is left.                                        *)
THEOREM NothingLeftOnReturn == ~AnyOrder => (Spec => []AllDoneOnReturn)
<1> SUFFICES ASSUME ~AnyOrder PROVE Spec => []AllDoneOnReturn
  OBVIOUS
<1>1. IInv => AllDoneOnReturn
  BY DoneWhenIdle
<1> QED
  BY <1>1, Invariance, PTL
=============================================================================
