------------------------- MODULE DagExecutorProofs -------------------------
(***************************************************************************)
(* Proofs about DagExecutor, for every set of DAGs, nodes and copies and   *)
(* every bound.  What a traversal does is taken from TaskDAGProofs.        *)
(***************************************************************************)
EXTENDS DagExecutor, ListLemmas, FiniteSetTheorems, FunctionTheorems

P == INSTANCE TaskDAGProofs

-----------------------------------------------------------------------------
(* D and P are instances of the same definitions.                          *)

LEMMA SameLists ==
  ASSUME NEW s
  PROVE  /\ P!Range(s) = Range(s) /\ D!Range(s) = Range(s)
         /\ P!Last(s) = Last(s) /\ D!Last(s) = Last(s)
         /\ P!Front(s) = Front(s) /\ D!Front(s) = Front(s)
         /\ (P!IsInjective(s) <=> IsInjective(s)) /\ (D!IsInjective(s) <=> IsInjective(s))
BY DEF P!Range, D!Range, Range, P!Last, D!Last, Last, P!Front, D!Front, Front,
       P!IsInjective, D!IsInjective, IsInjective

LEMMA SameCardinality ==
  ASSUME NEW S
  PROVE  P!Cardinality(S) = Cardinality(S) /\ D!Cardinality(S) = Cardinality(S)
BY DEF P!Cardinality, D!Cardinality, Cardinality, P!IsFiniteSet, D!IsFiniteSet, IsFiniteSet

LEMMA SameFinite ==
  ASSUME NEW S
  PROVE  P!IsFiniteSet(S) = IsFiniteSet(S) /\ D!IsFiniteSet(S) = IsFiniteSet(S)
BY DEF P!IsFiniteSet, D!IsFiniteSet, IsFiniteSet

LEMMA SameNodes ==
  ASSUME NEW d
  PROVE  P!NodesOf(d) = D!NodesOf(d) /\ D!NodesOf(d) = Range(allNodes[d])
BY DEF P!NodesOf, D!NodesOf, P!Range, D!Range, Range

LEMMA SameInit == D!Init <=> P!Init
BY DEF D!Init, P!Init

LEMMA SameEdges ==
  ASSUME NEW n
  PROVE  D!InEdges(n) = P!InEdges(n) /\ D!Pending(n) = P!Pending(n)
<1>1. D!InEdges(n) = P!InEdges(n)
  BY DEF D!InEdges, P!InEdges, D!Edges, P!Edges
<1>2. \A e : D!Released(e) <=> P!Released(e)
  BY SameLists DEF D!Released, P!Released
<1> QED
  BY <1>1, <1>2 DEF D!Pending, P!Pending

LEMMA SameGraph == (D!TypeOK <=> P!TypeOK) /\ (D!GraphInv <=> P!GraphInv)
<1>1. D!TypeOK <=> P!TypeOK
  BY DEF D!TypeOK, P!TypeOK, D!Last, P!Last
<1>2. \A s, x : D!Occurrences(s, x) = P!Occurrences(s, x)
  BY SameCardinality DEF D!Occurrences, P!Occurrences
<1>3. D!AdjacencyMirrored <=> P!AdjacencyMirrored
  BY <1>2 DEF D!AdjacencyMirrored, P!AdjacencyMirrored
<1>4. D!NodesOnce <=> P!NodesOnce
  BY SameLists, SameNodes DEF D!NodesOnce, P!NodesOnce
<1>5. D!EdgesWithinDag <=> P!EdgesWithinDag
  BY SameLists, SameNodes DEF D!EdgesWithinDag, P!EdgesWithinDag
<1> QED
  BY <1>1, <1>3, <1>4, <1>5, SameLists, SameEdges, SameCardinality, SameFinite
  DEF D!GraphInv, P!GraphInv

LEMMA SameInv == D!IInv <=> P!IInv
<1>1. D!ScanInv <=> P!ScanInv
  BY SameLists DEF D!ScanInv, P!ScanInv, D!IsSrc, P!IsSrc
<1>2. D!CounterExact <=> P!CounterExact
  BY SameEdges, SameCardinality, SameNodes DEF D!CounterExact, P!CounterExact
<1>3. D!QueueReady <=> P!QueueReady
  BY SameLists, SameNodes DEF D!QueueReady, P!QueueReady
<1>4. D!MainLoopInv <=> P!MainLoopInv
  BY SameLists, SameNodes DEF D!MainLoopInv, P!MainLoopInv
<1>5. D!TopologicalOrder <=> P!TopologicalOrder
  BY SameLists DEF D!TopologicalOrder, P!TopologicalOrder
<1> QED
  BY SameGraph, <1>1, <1>2, <1>3, <1>4, <1>5 DEF D!IInv, P!IInv

LEMMA SameGraphNext == (D!TypeOK' <=> P!TypeOK') /\ (D!GraphInv' <=> P!GraphInv')
BY SameGraph, PTL

LEMMA SameInvNext == D!IInv' <=> P!IInv'
BY SameInv, PTL

LEMMA SameSteps ==
  /\ \A d \in Dag : D!TopoBegin(d) <=> P!TopoBegin(d)
  /\ D!ScanNode <=> P!ScanNode
  /\ D!Visit <=> P!Visit
  /\ D!DecrementSucc <=> P!DecrementSucc
  /\ D!TopoEnd <=> P!TopoEnd
<1>1. \A d \in Dag : D!TopoBegin(d) <=> P!TopoBegin(d)
  BY DEF D!TopoBegin, P!TopoBegin, D!graphVars, P!graphVars
<1>2. D!ScanNode <=> P!ScanNode
  BY DEF D!ScanNode, P!ScanNode, D!graphVars, P!graphVars, D!IsSrc, P!IsSrc,
         D!ResetDepCounter, P!ResetDepCounter
<1>3. D!Visit <=> P!Visit
  BY SameLists DEF D!Visit, P!Visit, D!graphVars, P!graphVars, D!IsSink, P!IsSink
<1>4. D!DecrementSucc <=> P!DecrementSucc
  BY SameLists DEF D!DecrementSucc, P!DecrementSucc, D!graphVars, P!graphVars,
         D!LastEdge, P!LastEdge, D!Decremented, P!Decremented
<1>5. D!TopoEnd <=> P!TopoEnd
  BY DEF D!TopoEnd, P!TopoEnd, D!graphVars, P!graphVars
<1> QED
  BY <1>1, <1>2, <1>3, <1>4, <1>5

LEMMA SameBuild ==
  ASSUME NEW d \in Dag
  PROVE  /\ \A n \in Node : D!AddNode(d, n) <=> P!AddNode(d, n)
         /\ \A a, b \in Node : D!AddEdge(d, a, b) <=> P!AddEdge(d, a, b)
         /\ D!Clear(d) <=> P!Clear(d)
<1>1. D!LiveNodes = P!LiveNodes
  BY SameNodes DEF D!LiveNodes, P!LiveNodes
<1>2. \A n \in Node : D!AddNode(d, n) <=> P!AddNode(d, n)
  BY <1>1 DEF D!AddNode, P!AddNode
<1>3. \A a, b \in Node : D!AddEdge(d, a, b) <=> P!AddEdge(d, a, b)
  BY SameNodes, SameCardinality
  DEF D!AddEdge, P!AddEdge, D!LinkEdge, P!LinkEdge, D!travVars, P!travVars, D!Edges, P!Edges
<1>4. D!Clear(d) <=> P!Clear(d)
  BY SameNodes DEF D!Clear, P!Clear, D!travVars, P!travVars
<1> QED
  BY <1>2, <1>3, <1>4

-----------------------------------------------------------------------------
(* What the executor needs of a traversal.                                 *)

(* The neighbours of a node are nodes of the same DAG.                     *)
LEMMA Neighbours ==
  ASSUME D!IInv, NEW d \in Dag, NEW n \in D!NodesOf(d)
  PROVE  /\ n \in Node
         /\ \A b \in Range(succs[n]) : b \in D!NodesOf(d) /\ n \in Range(preds[b])
         /\ \A a \in Range(preds[n]) : a \in D!NodesOf(d) /\ n \in Range(succs[a])
<1>1. /\ allNodes \in [Dag -> Seq(Node)]
      /\ succs \in [Node -> Seq(Node)]
      /\ preds \in [Node -> Seq(Node)]
  BY DEF D!IInv, D!TypeOK
<1>2. D!NodesOnce /\ D!EdgesWithinDag
      /\ \A a, b \in Node : b \in Range(succs[a]) <=> a \in Range(preds[b])
  BY SameLists DEF D!IInv, D!GraphInv
<1>3. n \in Node
  BY <1>1, SameNodes DEF Range
<1>4. \A m \in Node : Range(succs[m]) \subseteq Node /\ Range(preds[m]) \subseteq Node
  BY <1>1 DEF Range
<1>5. ASSUME NEW a \in Node, NEW b \in Node, b \in Range(succs[a])
      PROVE  a \in D!NodesOf(d) <=> b \in D!NodesOf(d)
  <2>1. PICK c \in Dag : {a, b} \subseteq D!NodesOf(c)
    BY <1>2, <1>5, SameLists DEF D!EdgesWithinDag
  <2> QED
    BY <1>2, <2>1 DEF D!NodesOnce
<1> QED
  BY <1>2, <1>3, <1>4, <1>5

LEMMA BeginStep ==
  ASSUME D!IInv, NEW d \in Dag, D!TopoBegin(d)
  PROVE  /\ D!IInv'
         /\ UNCHANGED <<allNodes, succs, preds, numPred>>
         /\ travDag = NoDag /\ travDag' = d
         /\ Range(visited) = {} /\ Range(visited') = {}
<1>1. D!IInv'
  BY SameInv, SameInvNext, SameSteps, P!TopoBeginInv, GraphAssumption
<1>2. visited = <<>> /\ visited' = <<>> /\ travDag = NoDag /\ travDag' = d
  BY DEF D!TopoBegin, D!IInv, D!TypeOK
<1> QED
  BY <1>1, <1>2 DEF D!TopoBegin, D!graphVars, Range

LEMMA WalkStep ==
  ASSUME D!IInv, D!ScanNode \/ D!DecrementSucc
  PROVE  /\ D!IInv'
         /\ UNCHANGED <<allNodes, succs, preds, numPred, travDag, visited>>
<1>1. D!IInv'
  BY SameInv, SameInvNext, SameSteps, P!ScanNodeInv, P!DecrementSuccInv, GraphAssumption
<1> QED
  BY <1>1 DEF D!ScanNode, D!DecrementSucc, D!graphVars

(* The node visited has not been visited in this walk, its predecessors    *)
(* have.                                                                   *)
LEMMA VisitStep ==
  ASSUME D!IInv, D!Visit
  PROVE  /\ D!IInv'
         /\ UNCHANGED <<allNodes, succs, preds, numPred, travDag>>
         /\ travDag \in Dag
         /\ Last(nodeQ) \in D!NodesOf(travDag)
         /\ Last(nodeQ) \in Node
         /\ Last(nodeQ) \notin Range(visited)
         /\ Range(visited') = Range(visited) \cup {Last(nodeQ)}
         /\ Range(preds[Last(nodeQ)]) \subseteq Range(visited)
<1> DEFINE n == Last(nodeQ)
<1>1. D!IInv'
  BY SameInv, SameInvNext, SameSteps, P!VisitInv, GraphAssumption
<1>2. /\ UNCHANGED <<allNodes, succs, preds, numPred, travDag>>
      /\ phase = "pop" /\ nodeQ # <<>>
      /\ visited' = Append(visited, n)
  BY SameLists DEF D!Visit, D!graphVars
<1>3. /\ nodeQ \in Seq(Node) /\ visited \in Seq(Node)
      /\ travDag \in Dag
  BY <1>2 DEF D!IInv, D!TypeOK
<1>4. n \in Node /\ n \in Range(nodeQ)
  <2> HIDE DEF n
  <2>1. Last(nodeQ) \in Node /\ Range(nodeQ) = Range(Front(nodeQ)) \cup {Last(nodeQ)}
    BY <1>2, <1>3, FrontProperties
  <2> QED
    BY <2>1 DEF n
<1>5. n \in D!NodesOf(travDag) /\ n \notin Range(visited)
  BY <1>2, <1>4, SameLists DEF D!IInv, D!QueueReady
<1> HIDE DEF n
<1>6. /\ Range(visited') = Range(visited) \cup {n}
      /\ Len(visited') = Len(visited) + 1
      /\ \A i \in 1..Len(visited) : visited'[i] = visited[i]
      /\ visited'[Len(visited) + 1] = n
  BY <1>2, <1>3, <1>4, AppendLastRange
<1>7. Range(preds[n]) \subseteq Range(visited)
  <2> SUFFICES ASSUME NEW a \in Range(preds[n]) PROVE a \in Range(visited)
    OBVIOUS
  <2> DEFINE k == Len(visited) + 1
  <2>1. k \in DOMAIN visited' /\ visited'[k] = n /\ Len(visited) \in Nat
    BY <1>2, <1>3, <1>6
  <2>2. PICK j \in 1..(k - 1) : visited'[j] = a
    <3>1. a \in D!Range(preds'[visited'[k]])
      BY <1>2, <2>1, SameLists
    <3> QED
      BY <1>1, <2>1, <3>1 DEF D!IInv, D!TopologicalOrder
  <2>3. j \in 1..Len(visited) /\ visited[j] = a
    BY <1>6, <2>1, <2>2
  <2> QED
    BY <1>3, <2>3 DEF Range
<1> QED
  BY <1>1, <1>2, <1>3, <1>4, <1>5, <1>6, <1>7 DEF n

(* A walk that ends has visited every node of an acyclic DAG.              *)
LEMMA EndStep ==
  ASSUME D!IInv, D!TopoEnd, D!Acyclic(travDag)
  PROVE  /\ D!IInv'
         /\ UNCHANGED <<allNodes, succs, preds, numPred>>
         /\ travDag \in Dag /\ travDag' = NoDag
         /\ Range(visited) = D!NodesOf(travDag)
         /\ Range(visited') = {}
<1>1. D!IInv'
  BY SameInv, SameInvNext, SameSteps, P!TopoEndInv, GraphAssumption
<1>2. /\ UNCHANGED <<allNodes, succs, preds, numPred>>
      /\ travDag' = NoDag /\ visited' = <<>> /\ phase = "pop"
      /\ P!EndOfTraversal
  BY DEF D!TopoEnd, D!graphVars, P!EndOfTraversal
<1>3. travDag \in Dag
  BY <1>2 DEF D!IInv, D!TypeOK
<1>4. P!Unvisited = {}
  <2> SUFFICES ASSUME P!Unvisited # {} PROVE FALSE
    OBVIOUS
  <2>1. P!SkipsOnlyBehindCycle
    BY SameInv, SameInvNext, P!LeftOutBehindLeftOut, GraphAssumption
  <2>2. P!Unvisited \subseteq D!NodesOf(travDag)
    BY SameNodes DEF P!Unvisited
  <2>3. PICK n \in P!Unvisited : \A a \in P!Unvisited : n \notin D!Range(succs[a])
    BY <2>2 DEF D!Acyclic
  <2> QED
    BY <1>2, <2>1, <2>3, SameLists DEF P!SkipsOnlyBehindCycle
<1>5. Range(visited) \subseteq D!NodesOf(travDag)
  BY <1>2, SameLists DEF D!IInv, D!MainLoopInv
<1> QED
  BY <1>1, <1>2, <1>3, <1>4, <1>5, SameLists, SameNodes DEF P!Unvisited, Range

LEMMA BuildStep ==
  ASSUME D!IInv, NEW d \in Dag,
         \/ \E n \in Node : D!AddNode(d, n)
         \/ \E a, b \in Node : D!AddEdge(d, a, b)
         \/ D!Clear(d)
  PROVE  D!IInv' /\ travDag' = travDag
<1>1. P!Build
  BY SameBuild DEF P!Build
<1> QED
  BY <1>1, SameInv, SameInvNext, P!BuildInv, GraphAssumption
  DEF D!AddNode, D!AddEdge, D!Clear, D!travVars

LEMMA NoWalkStep ==
  ASSUME D!IInv, UNCHANGED dagVars
  PROVE  D!IInv'
<1>1. UNCHANGED P!vars
  BY DEF dagVars, P!vars
<1> QED
  BY <1>1, SameInv, SameInvNext, P!StutterInv, GraphAssumption

-----------------------------------------------------------------------------
(* AddTask, which is no step of TaskDAG, keeps its invariant.              *)

(* The positions of a list, regrouped by element: as many numbers after    *)
(* off[x] for each x as x occurs in the list.                              *)
Regrouped(S, off, k) == UNION {{<<x, off[x] + j>> : j \in 1..k[x]} : x \in S}

(* f numbers the positions of each element in s.                           *)
Numbers(S, s, k, f) ==
  /\ \A x \in S : \A j \in 1..k[x] : f[x][j] \in 1..Len(s) /\ s[f[x][j]] = x
  /\ \A x \in S : \A i, j \in 1..k[x] : f[x][i] = f[x][j] => i = j
  /\ \A p \in 1..Len(s) : \E j \in 1..k[s[p]] : f[s[p]][j] = p

LEMMA RegroupedBijection ==
  ASSUME NEW S, NEW s \in Seq(S), NEW off \in [S -> Nat], NEW k \in [S -> Nat], NEW f,
         Numbers(S, s, k, f)
  PROVE  ExistsBijection(Regrouped(S, off, k), 1..Len(s))
<1> DEFINE E == Regrouped(S, off, k)
<1>1. \A e : e \in E <=> \E x \in S : \E j \in 1..k[x] : e = <<x, off[x] + j>>
  BY DEF Regrouped
<1> HIDE DEF E
<1>2. /\ \A x \in S : \A j \in 1..k[x] : f[x][j] \in 1..Len(s) /\ s[f[x][j]] = x
      /\ \A x \in S : \A i, j \in 1..k[x] : f[x][i] = f[x][j] => i = j
      /\ \A p \in 1..Len(s) : \E j \in 1..k[s[p]] : f[s[p]][j] = p
  BY DEF Numbers
<1> DEFINE F == [e \in E |-> f[e[1]][e[2] - off[e[1]]]]
<1>3. ASSUME NEW x \in S, NEW j \in 1..k[x]
      PROVE  <<x, off[x] + j>> \in E /\ F[<<x, off[x] + j>>] = f[x][j]
  <2>1. <<x, off[x] + j>> \in E
    BY <1>1
  <2>2. off[x] + j - off[x] = j
    OBVIOUS
  <2>3. F[<<x, off[x] + j>>] = f[x][off[x] + j - off[x]]
    BY <2>1
  <2> QED
    BY <2>1, <2>2, <2>3
<1>4. ASSUME NEW e \in E
      PROVE  \E x \in S : \E j \in 1..k[x] : e = <<x, off[x] + j>> /\ F[e] = f[x][j]
  <2>1. PICK x \in S : \E j \in 1..k[x] : e = <<x, off[x] + j>>
    BY <1>1
  <2>2. PICK j \in 1..k[x] : e = <<x, off[x] + j>>
    BY <2>1
  <2>3. F[e] = f[x][j]
    BY <1>3, <2>2
  <2> QED
    BY <2>2, <2>3
<1>5. F = [e \in E |-> F[e]]
  OBVIOUS
<1> HIDE DEF F
<1>6. F \in [E -> 1..Len(s)]
  <2>1. ASSUME NEW e \in E PROVE F[e] \in 1..Len(s)
    <3>1. PICK x \in S : \E j \in 1..k[x] : e = <<x, off[x] + j>> /\ F[e] = f[x][j]
      BY <1>4
    <3> QED
      BY <1>2, <3>1
  <2> QED
    BY <1>5, <2>1
<1>7. ASSUME NEW c \in E, NEW e \in E, F[c] = F[e]
      PROVE  c = e
  <2>1. PICK x \in S : \E i \in 1..k[x] : c = <<x, off[x] + i>> /\ F[c] = f[x][i]
    BY <1>4
  <2>2. PICK i \in 1..k[x] : c = <<x, off[x] + i>> /\ F[c] = f[x][i]
    BY <2>1
  <2>3. PICK y \in S : \E j \in 1..k[y] : e = <<y, off[y] + j>> /\ F[e] = f[y][j]
    BY <1>4
  <2>4. PICK j \in 1..k[y] : e = <<y, off[y] + j>> /\ F[e] = f[y][j]
    BY <2>3
  <2>5. x = y
    <3>1. s[f[x][i]] = x
      BY <1>2
    <3>2. s[f[y][j]] = y
      BY <1>2
    <3> QED
      BY <1>7, <2>2, <2>4, <3>1, <3>2
  <2>6. i = j
    BY <1>2, <1>7, <2>2, <2>4, <2>5
  <2> QED
    BY <2>2, <2>4, <2>5, <2>6
<1>8. ASSUME NEW p \in 1..Len(s)
      PROVE  \E e \in E : F[e] = p
  <2>1. s[p] \in S
    OBVIOUS
  <2>2. PICK j \in 1..k[s[p]] : f[s[p]][j] = p
    BY <1>2
  <2>3. /\ <<s[p], off[s[p]] + j>> \in E
        /\ F[<<s[p], off[s[p]] + j>>] = f[s[p]][j]
    BY <1>3, <2>1
  <2> QED
    BY <2>2, <2>3
<1>9. F \in Bijection(E, 1..Len(s))
  BY <1>6, <1>7, <1>8, Fun_IsBij
<1> QED
  BY <1>9 DEF ExistsBijection, E

LEMMA PositionsRegrouped ==
  ASSUME NEW S, NEW s \in Seq(S), NEW off \in [S -> Nat],
         NEW k, k = [x \in S |-> D!Occurrences(s, x)]
  PROVE  /\ IsFiniteSet(Regrouped(S, off, k))
         /\ Cardinality(Regrouped(S, off, k)) = Len(s)
<1> DEFINE at(x) == {i \in DOMAIN s : s[i] = x}
           f == [x \in S |-> CHOOSE g : g \in Bijection(1..k[x], at(x))]
<1>1. DOMAIN s = 1..Len(s) /\ Len(s) \in Nat /\ \A i \in 1..Len(s) : s[i] \in S
  OBVIOUS
<1>2. ASSUME NEW x \in S
      PROVE  k[x] \in Nat /\ f[x] \in Bijection(1..k[x], at(x))
  <2>1. IsFiniteSet(at(x))
    <3>1. IsFiniteSet(1..Len(s)) /\ at(x) \subseteq 1..Len(s)
      BY <1>1, FS_Interval
    <3> QED
      BY <3>1, FS_Subset
  <2>2. k[x] = Cardinality(at(x))
    BY SameCardinality DEF D!Occurrences
  <2>3. f[x] = CHOOSE g : g \in Bijection(1..k[x], at(x))
    OBVIOUS
  <2> HIDE DEF at, f
  <2>4. k[x] \in Nat /\ ExistsBijection(1..k[x], at(x))
    BY <2>1, <2>2, FS_CardinalityType
  <2> QED
    BY <2>3, <2>4 DEF ExistsBijection
<1>3. ASSUME NEW x \in S
      PROVE  /\ \A j \in 1..k[x] : f[x][j] \in 1..Len(s) /\ s[f[x][j]] = x
             /\ \A i, j \in 1..k[x] : f[x][i] = f[x][j] => i = j
             /\ \A p \in 1..Len(s) : s[p] = x => \E j \in 1..k[x] : f[x][j] = p
  <2>1. f[x] \in Bijection(1..k[x], at(x))
    BY <1>2
  <2>2. \A p : p \in at(x) <=> p \in 1..Len(s) /\ s[p] = x
    BY <1>1
  <2> HIDE DEF at, f
  <2> DEFINE A == 1..k[x]
             B == at(x)
             g == f[x]
  <2>3. /\ \A j \in A : g[j] \in B
        /\ \A i, j \in A : g[i] = g[j] => i = j
        /\ \A p \in B : \E j \in A : g[j] = p
    <3>1. g \in Bijection(A, B)
      BY <2>1
    <3> HIDE DEF A, B, g
    <3> QED
      BY <3>1 DEF Bijection, Injection, Surjection, IsInjective
  <2> QED
    BY <2>2, <2>3
<1>4. k \in [S -> Nat] /\ \A x \in S : k[x] = D!Occurrences(s, x)
  BY <1>2
<1> HIDE DEF f, at
<1>5. Numbers(S, s, k, f)
  <2>1. \A p \in 1..Len(s) : \E j \in 1..k[s[p]] : f[s[p]][j] = p
    BY <1>1, <1>3
  <2> QED
    BY <1>3, <2>1 DEF Numbers
<1>6. ExistsBijection(Regrouped(S, off, k), 1..Len(s))
  BY <1>4, <1>5, RegroupedBijection
<1>7. ExistsBijection(1..Len(s), Regrouped(S, off, k))
  BY <1>6, Fun_ExistsBijSymmetric
<1> QED
  BY <1>1, <1>7, FS_NatBijection, FS_CountingElements

(* What AddTask does to the lists: the new node had none, whatever it held *)
(* before; each predecessor's list grows by as many entries as it is given *)
(* times.                                                                  *)
LEMMA AddTaskLists ==
  ASSUME D!TypeOK, D!GraphInv,
         NEW d \in Dag, NEW n \in Node, NEW ps \in Seq(Node), AddTask(d, n, ps),
         NEW k, k = [a \in Node |-> D!Occurrences(ps, a)]
  PROVE  /\ \A c \in Dag : n \notin D!NodesOf(c)
         /\ \A a, b \in Node : b \in Range(succs[a]) => a # n /\ b # n
         /\ k \in [Node -> Nat] /\ k[n] = 0
         /\ \A a \in Node : k[a] > 0 <=> a \in Range(ps)
         /\ preds' = [preds EXCEPT ![n] = ps] /\ preds[n] = <<>>
         /\ numPred' = [numPred EXCEPT ![n] = Len(ps)]
         /\ succs' \in [Node -> Seq(Node)]
         /\ \A a \in Node :
              /\ Len(succs'[a]) = Len(succs[a]) + k[a]
              /\ \A i \in 1..Len(succs[a]) : succs'[a][i] = succs[a][i]
              /\ \A j \in 1..k[a] : succs'[a][Len(succs[a]) + j] = n
<1>1. /\ succs \in [Node -> Seq(Node)]
      /\ preds \in [Node -> Seq(Node)]
  BY DEF D!TypeOK
<1>2. \A c \in Dag : n \notin D!NodesOf(c)
  BY DEF AddTask, D!LiveNodes
<1>3. \A a, b \in Node : b \in Range(succs[a]) => a # n /\ b # n
  BY <1>2, SameLists DEF D!GraphInv, D!EdgesWithinDag
<1>4. \A a, b \in Node : a \in Range(preds[b]) => a # n /\ b # n
  BY <1>3, SameLists DEF D!GraphInv
<1>5. succs[n] = <<>>
  <2>1. succs[n] \in Seq(Node)
    BY <1>1
  <2> QED
    BY <1>3, <2>1 DEF Range
<1>6. preds[n] = <<>>
  <2>1. preds[n] \in Seq(Node)
    BY <1>1
  <2> QED
    BY <1>4, <2>1 DEF Range
<1>7. ASSUME NEW a \in Node
      PROVE  k[a] \in Nat /\ (k[a] > 0 <=> a \in Range(ps))
  <2> DEFINE at == {i \in DOMAIN ps : ps[i] = a}
  <2>1. k[a] = Cardinality(at)
    BY SameCardinality DEF D!Occurrences
  <2>2. IsFiniteSet(at)
    <3>1. IsFiniteSet(1..Len(ps)) /\ at \subseteq 1..Len(ps)
      BY FS_Interval
    <3> QED
      BY <3>1, FS_Subset
  <2>3. at = {} <=> a \notin Range(ps)
    BY DEF Range
  <2> HIDE DEF at
  <2>4. Cardinality(at) \in Nat /\ (Cardinality(at) = 0 <=> at = {})
    BY <2>2, FS_CardinalityType, FS_EmptySet
  <2> QED
    BY <2>1, <2>3, <2>4
<1>8. k \in [Node -> Nat]
  BY <1>7
<1>9. n \notin Range(ps)
  BY <1>2 DEF AddTask
<1>10. k[n] = 0
  BY <1>7, <1>9
<1>11. ASSUME NEW a \in Node
       PROVE  /\ succs'[a] \in Seq(Node)
              /\ Len(succs'[a]) = Len(succs[a]) + k[a]
              /\ \A i \in 1..Len(succs[a]) : succs'[a][i] = succs[a][i]
              /\ \A j \in 1..k[a] : succs'[a][Len(succs[a]) + j] = n
  <2>1. succs'[a] = IF a = n THEN <<>> ELSE succs[a] \o [i \in 1..k[a] |-> n]
    BY DEF AddTask
  <2>2. succs[a] \in Seq(Node) /\ k[a] \in Nat
    BY <1>1, <1>7
  <2>3. CASE a = n
    BY <1>5, <1>10, <2>1, <2>3
  <2>4. CASE a # n
    <3>1. PICK s, m, t : s = succs[a] /\ m = k[a] /\ t = succs'[a]
      OBVIOUS
    <3>2. s \in Seq(Node) /\ m \in Nat
      BY <2>2, <3>1
    <3>3. t = s \o [i \in 1..m |-> n]
      BY <2>1, <2>4, <3>1
    <3>4. /\ t \in Seq(Node)
          /\ Len(t) = Len(s) + m
          /\ \A i \in 1..Len(s) : t[i] = s[i]
          /\ \A j \in 1..m : t[Len(s) + j] = n
      BY <3>2, <3>3, AppendedCopies
    <3> QED
      BY <3>1, <3>4
  <2> QED
    BY <2>3, <2>4
<1>12. succs' \in [Node -> Seq(Node)]
  BY <1>11 DEF AddTask
<1>13. /\ preds' = [preds EXCEPT ![n] = ps]
       /\ numPred' = [numPred EXCEPT ![n] = Len(ps)]
  BY DEF AddTask
<1>14. \A a \in Node : k[a] > 0 <=> a \in Range(ps)
  BY <1>7
<1> QED
  BY <1>2, <1>3, <1>6, <1>8, <1>10, <1>11, <1>12, <1>13, <1>14, Zenon

LEMMA AddTaskEdges ==
  ASSUME D!TypeOK, D!GraphInv,
         NEW d \in Dag, NEW n \in Node, NEW ps \in Seq(Node), AddTask(d, n, ps)
  PROVE  /\ \A b \in Node \ {n} : D!InEdges(b)' = D!InEdges(b)
         /\ IsFiniteSet(D!InEdges(n)') /\ Cardinality(D!InEdges(n)') = Len(ps)
         /\ \A a \in Node : \A b \in Node \ {n} :
              /\ b \in Range(succs'[a]) <=> b \in Range(succs[a])
              /\ D!Occurrences(succs'[a], b) = D!Occurrences(succs[a], b)
         /\ \A a \in Node :
              /\ n \in Range(succs'[a]) <=> a \in Range(ps)
              /\ D!Occurrences(succs'[a], n) = D!Occurrences(ps, a)
<1> DEFINE k == [a \in Node |-> D!Occurrences(ps, a)]
           off == [a \in Node |-> Len(succs[a])]
<1>1. succs \in [Node -> Seq(Node)]
  BY DEF D!TypeOK
<1>2. k = [a \in Node |-> D!Occurrences(ps, a)] /\ \A a \in Node : k[a] = D!Occurrences(ps, a)
  OBVIOUS
<1>3. off \in [Node -> Nat] /\ \A a \in Node : off[a] = Len(succs[a])
  BY <1>1
<1> HIDE DEF k, off
<1>4. /\ \A a, b \in Node : b \in Range(succs[a]) => a # n /\ b # n
      /\ k \in [Node -> Nat]
      /\ \A a \in Node : k[a] > 0 <=> a \in Range(ps)
      /\ succs' \in [Node -> Seq(Node)]
      /\ \A a \in Node :
           /\ Len(succs'[a]) = Len(succs[a]) + k[a]
           /\ \A i \in 1..Len(succs[a]) : succs'[a][i] = succs[a][i]
           /\ \A j \in 1..k[a] : succs'[a][Len(succs[a]) + j] = n
  BY <1>2, AddTaskLists
<1>5. ASSUME NEW a \in Node
      PROVE  /\ DOMAIN succs[a] = 1..off[a] /\ DOMAIN succs'[a] = 1..(off[a] + k[a])
             /\ off[a] \in Nat /\ k[a] \in Nat
             /\ \A i \in 1..off[a] : succs'[a][i] = succs[a][i] /\ succs[a][i] # n
                                    /\ succs[a][i] \in Node
             /\ \A i \in (off[a] + 1)..(off[a] + k[a]) : succs'[a][i] = n
  <2>1. succs[a] \in Seq(Node) /\ succs'[a] \in Seq(Node)
    BY <1>1, <1>4
  <2>2. DOMAIN succs[a] = 1..off[a] /\ DOMAIN succs'[a] = 1..(off[a] + k[a])
    BY <1>3, <1>4, <2>1
  <2>3. off[a] \in Nat /\ k[a] \in Nat
    BY <1>3, <1>4
  <2>4. ASSUME NEW i \in 1..off[a]
        PROVE  succs'[a][i] = succs[a][i] /\ succs[a][i] # n /\ succs[a][i] \in Node
    <3>1. i \in DOMAIN succs[a]
      BY <2>2
    <3>2. succs[a][i] \in Range(succs[a]) /\ succs[a][i] \in Node
      BY <2>1, <3>1 DEF Range
    <3> QED
      BY <1>3, <1>4, <3>2
  <2>5. ASSUME NEW i \in (off[a] + 1)..(off[a] + k[a])
        PROVE  succs'[a][i] = n
    <3> DEFINE j == i - off[a]
    <3>1. j \in 1..k[a] /\ off[a] + j = i
      BY <2>3
    <3> HIDE DEF j
    <3>2. succs'[a][Len(succs[a]) + j] = n
      BY <1>4, <3>1
    <3> QED
      BY <1>3, <3>1, <3>2
  <2> QED
    BY <2>2, <2>3, <2>4, <2>5
<1>6. ASSUME NEW a \in Node, NEW b \in Node, b # n
      PROVE  \A i : i \in DOMAIN succs'[a] /\ succs'[a][i] = b <=>
                   i \in DOMAIN succs[a] /\ succs[a][i] = b
  <2> SUFFICES ASSUME NEW i
               PROVE  i \in DOMAIN succs'[a] /\ succs'[a][i] = b <=>
                      i \in DOMAIN succs[a] /\ succs[a][i] = b
    OBVIOUS
  <2>1. i \in 1..(off[a] + k[a]) <=>
          i \in 1..off[a] \/ i \in (off[a] + 1)..(off[a] + k[a])
    BY <1>5
  <2> QED
    BY <1>5, <1>6, <2>1
<1>7. ASSUME NEW a \in Node
      PROVE  \A i : i \in DOMAIN succs'[a] /\ succs'[a][i] = n <=>
                   i \in (off[a] + 1)..(off[a] + k[a])
  <2> SUFFICES ASSUME NEW i
               PROVE  i \in DOMAIN succs'[a] /\ succs'[a][i] = n <=>
                      i \in (off[a] + 1)..(off[a] + k[a])
    OBVIOUS
  <2>1. i \in 1..(off[a] + k[a]) <=>
          i \in 1..off[a] \/ i \in (off[a] + 1)..(off[a] + k[a])
    BY <1>5
  <2> QED
    BY <1>5, <2>1
<1>8. \A b \in Node \ {n} : D!InEdges(b)' = D!InEdges(b)
  <2> SUFFICES ASSUME NEW b \in Node, b # n, NEW e
               PROVE  e \in D!InEdges(b)' <=> e \in D!InEdges(b)
    OBVIOUS
  <2>1. e \in D!InEdges(b) <=>
          \E a \in Node : \E i \in DOMAIN succs[a] : e = <<a, i>> /\ succs[a][i] = b
    BY DEF D!InEdges, D!Edges
  <2>2. e \in D!InEdges(b)' <=>
          \E a \in Node : \E i \in DOMAIN succs'[a] : e = <<a, i>> /\ succs'[a][i] = b
    BY DEF D!InEdges, D!Edges
  <2> QED
    BY <1>6, <2>1, <2>2
<1>9. D!InEdges(n)' = Regrouped(Node, off, k)
  <2> SUFFICES ASSUME NEW e
               PROVE  e \in D!InEdges(n)' <=> e \in Regrouped(Node, off, k)
    OBVIOUS
  <2>1. e \in D!InEdges(n)' <=>
          \E a \in Node : \E i \in DOMAIN succs'[a] : e = <<a, i>> /\ succs'[a][i] = n
    BY DEF D!InEdges, D!Edges
  <2>2. e \in D!InEdges(n)' <=>
          \E a \in Node : \E i \in (off[a] + 1)..(off[a] + k[a]) : e = <<a, i>>
    BY <1>7, <2>1
  <2>3. e \in Regrouped(Node, off, k) <=>
          \E a \in Node : \E j \in 1..k[a] : e = <<a, off[a] + j>>
    BY DEF Regrouped
  <2>4. ASSUME NEW a \in Node, NEW i \in (off[a] + 1)..(off[a] + k[a]), e = <<a, i>>
        PROVE  \E j \in 1..k[a] : e = <<a, off[a] + j>>
    <3>1. i - off[a] \in 1..k[a] /\ off[a] + (i - off[a]) = i
      BY <1>5
    <3> QED
      BY <2>4, <3>1
  <2>5. ASSUME NEW a \in Node, NEW j \in 1..k[a], e = <<a, off[a] + j>>
        PROVE  \E i \in (off[a] + 1)..(off[a] + k[a]) : e = <<a, i>>
    <3>1. off[a] + j \in (off[a] + 1)..(off[a] + k[a])
      BY <1>5
    <3> QED
      BY <2>5, <3>1
  <2> QED
    BY <2>2, <2>3, <2>4, <2>5
<1>10. IsFiniteSet(D!InEdges(n)') /\ Cardinality(D!InEdges(n)') = Len(ps)
  <2>1. /\ IsFiniteSet(Regrouped(Node, off, k))
        /\ Cardinality(Regrouped(Node, off, k)) = Len(ps)
    BY <1>2, <1>3, PositionsRegrouped
  <2> QED
    BY <1>9, <2>1
<1>11. ASSUME NEW a \in Node, NEW b \in Node, b # n
       PROVE  /\ b \in Range(succs'[a]) <=> b \in Range(succs[a])
              /\ D!Occurrences(succs'[a], b) = D!Occurrences(succs[a], b)
  <2>1. {i \in DOMAIN succs'[a] : succs'[a][i] = b} = {i \in DOMAIN succs[a] : succs[a][i] = b}
    BY <1>6, <1>11
  <2>2. D!Occurrences(succs'[a], b) = D!Occurrences(succs[a], b)
    BY <2>1 DEF D!Occurrences
  <2>3. \A t : b \in Range(t) <=> \E i : i \in DOMAIN t /\ t[i] = b
    BY DEF Range
  <2> QED
    BY <1>6, <1>11, <2>2, <2>3
<1>12. ASSUME NEW a \in Node
       PROVE  /\ n \in Range(succs'[a]) <=> a \in Range(ps)
              /\ D!Occurrences(succs'[a], n) = D!Occurrences(ps, a)
  <2>1. off[a] \in Nat /\ k[a] \in Nat
    BY <1>5
  <2>2. {i \in DOMAIN succs'[a] : succs'[a][i] = n} = (off[a] + 1)..(off[a] + k[a])
    BY <1>7
  <2>3. D!Occurrences(succs'[a], n) = Cardinality((off[a] + 1)..(off[a] + k[a]))
    BY <2>2, SameCardinality DEF D!Occurrences
  <2>4. Cardinality((off[a] + 1)..(off[a] + k[a])) = k[a]
    <3> DEFINE lo == off[a] + 1
               hi == off[a] + k[a]
    <3>1. lo \in Int /\ hi \in Int
      BY <2>1
    <3>2. (IF lo > hi THEN 0 ELSE hi - lo + 1) = k[a]
      BY <2>1
    <3> HIDE DEF lo, hi
    <3>3. Cardinality(lo..hi) = IF lo > hi THEN 0 ELSE hi - lo + 1
      BY <3>1, FS_Interval
    <3> QED
      BY <3>2, <3>3 DEF lo, hi
  <2>5. n \in Range(succs'[a]) <=> \E i : i \in (off[a] + 1)..(off[a] + k[a])
    BY <1>7 DEF Range
  <2>6. n \in Range(succs'[a]) <=> k[a] > 0
    <3>1. k[a] > 0 => off[a] + 1 \in (off[a] + 1)..(off[a] + k[a])
      BY <2>1
    <3>2. \A i : i \in (off[a] + 1)..(off[a] + k[a]) => k[a] > 0
      BY <2>1
    <3> QED
      BY <2>5, <3>1, <3>2
  <2> QED
    BY <1>2, <1>4, <2>3, <2>4, <2>6
<1> QED
  BY <1>8, <1>10, <1>11, <1>12

LEMMA AddTaskStep ==
  ASSUME D!IInv, travDag = NoDag,
         NEW d \in Dag, NEW n \in Node, NEW ps \in Seq(Node), AddTask(d, n, ps)
  PROVE  D!IInv'
<1> DEFINE k == [a \in Node |-> D!Occurrences(ps, a)]
<1>1. D!TypeOK /\ D!GraphInv
  BY DEF D!IInv
<1>2. /\ allNodes \in [Dag -> Seq(Node)]
      /\ preds \in [Node -> Seq(Node)]
      /\ numPred \in [Node -> Nat]
      /\ depCounter \in [Node -> Nat]
      /\ phase = "idle"
  BY <1>1 DEF D!TypeOK
<1>3. k = [a \in Node |-> D!Occurrences(ps, a)]
  OBVIOUS
<1> HIDE DEF k
<1>4. /\ \A c \in Dag : n \notin D!NodesOf(c)
      /\ \A a, b \in Node : b \in Range(succs[a]) => a # n /\ b # n
      /\ preds' = [preds EXCEPT ![n] = ps] /\ preds[n] = <<>>
      /\ numPred' = [numPred EXCEPT ![n] = Len(ps)]
      /\ succs' \in [Node -> Seq(Node)]
  BY <1>1, <1>3, AddTaskLists
<1>5. /\ \A b \in Node \ {n} : D!InEdges(b)' = D!InEdges(b)
      /\ IsFiniteSet(D!InEdges(n)') /\ Cardinality(D!InEdges(n)') = Len(ps)
      /\ \A a \in Node : \A b \in Node \ {n} :
           /\ b \in Range(succs'[a]) <=> b \in Range(succs[a])
           /\ D!Occurrences(succs'[a], b) = D!Occurrences(succs[a], b)
      /\ \A a \in Node :
           /\ n \in Range(succs'[a]) <=> a \in Range(ps)
           /\ D!Occurrences(succs'[a], n) = D!Occurrences(ps, a)
  BY <1>1, AddTaskEdges
<1>6. /\ allNodes' = [allNodes EXCEPT ![d] = Append(allNodes[d], n)]
      /\ depCounter' = [depCounter EXCEPT ![n] = 0]
      /\ UNCHANGED <<travDag, phase, pos, nodeQ, visited>>
      /\ Range(ps) \subseteq D!NodesOf(d)
  BY DEF AddTask
<1>7. allNodes[d] \in Seq(Node) /\ n \notin Range(allNodes[d])
  BY <1>2, <1>4, SameNodes
<1>8. /\ D!NodesOf(d)' = D!NodesOf(d) \cup {n}
      /\ \A c \in Dag \ {d} : D!NodesOf(c)' = D!NodesOf(c)
  <2>1. Range(Append(allNodes[d], n)) = Range(allNodes[d]) \cup {n}
    BY <1>7, AppendLastRange
  <2>2. \A c \in Dag : D!NodesOf(c) = Range(allNodes[c])
    BY SameNodes
  <2>3. \A c \in Dag : D!NodesOf(c)' = Range(allNodes'[c])
    BY DEF D!NodesOf, D!Range, Range
  <2> QED
    BY <1>2, <1>6, <2>1, <2>2, <2>3
<1>9. D!TypeOK'
  <2>1. Append(allNodes[d], n) \in Seq(Node) /\ Len(ps) \in Nat
    BY <1>7
  <2>2. allNodes' \in [Dag -> Seq(Node)]
    BY <1>2, <1>6, <2>1
  <2>3. preds' \in [Node -> Seq(Node)] /\ numPred' \in [Node -> Nat]
    BY <1>2, <1>4, <2>1
  <2>4. depCounter' \in [Node -> Nat]
    BY <1>2, <1>6
  <2> QED
    BY <1>1, <1>2, <1>4, <1>6, <2>2, <2>3, <2>4 DEF D!TypeOK
<1>10. D!NodesOnce'
  <2>1. IsInjective(allNodes[d]) /\ \A c \in Dag : IsInjective(allNodes[c])
    BY <1>1, SameLists DEF D!GraphInv, D!NodesOnce
  <2>2. IsInjective(Append(allNodes[d], n))
    BY <1>7, <2>1, InjectiveAppend
  <2>3. \A c \in Dag : IsInjective(allNodes'[c])
    BY <1>2, <1>6, <2>1, <2>2
  <2>4. \A c, e \in Dag : c # e => D!NodesOf(c)' \cap D!NodesOf(e)' = {}
    <3>1. \A c, e \in Dag : c # e => D!NodesOf(c) \cap D!NodesOf(e) = {}
      BY <1>1 DEF D!GraphInv, D!NodesOnce
    <3> QED
      BY <1>4, <1>8, <3>1
  <2> QED
    BY <2>3, <2>4, SameLists DEF D!NodesOnce
<1>11. ASSUME NEW a \in Node, NEW b \in Node
       PROVE  /\ D!Occurrences(succs'[a], b) = D!Occurrences(preds'[b], a)
              /\ b \in Range(succs'[a]) <=> a \in Range(preds'[b])
  <2>1. /\ D!Occurrences(succs[a], b) = D!Occurrences(preds[b], a)
        /\ b \in Range(succs[a]) <=> a \in Range(preds[b])
    BY <1>1, SameLists DEF D!GraphInv, D!AdjacencyMirrored
  <2>2. preds'[b] = IF b = n THEN ps ELSE preds[b]
    BY <1>2, <1>4
  <2> QED
    BY <1>5, <2>1, <2>2
<1>12. D!EdgesWithinDag'
  <2> SUFFICES ASSUME NEW a \in Node, NEW b \in Node, b \in D!Range(succs'[a])
               PROVE  \E c \in Dag : {a, b} \subseteq D!NodesOf(c)'
    BY DEF D!EdgesWithinDag
  <2>1. b \in Range(succs'[a])
    BY SameLists
  <2>2. CASE b = n
    BY <1>5, <1>6, <1>8, <2>1, <2>2
  <2>3. CASE b # n
    <3>1. PICK c \in Dag : {a, b} \subseteq D!NodesOf(c)
      BY <1>1, <1>5, <2>1, <2>3, SameLists DEF D!GraphInv, D!EdgesWithinDag
    <3> QED
      BY <1>8, <3>1
  <2> QED
    BY <2>2, <2>3
<1>13. ASSUME NEW b \in Node
       PROVE  /\ numPred'[b] = Len(preds'[b])
              /\ IsFiniteSet(D!InEdges(b)') /\ numPred'[b] = Cardinality(D!InEdges(b)')
  <2>1. /\ numPred[b] = Len(preds[b])
        /\ IsFiniteSet(D!InEdges(b)) /\ numPred[b] = Cardinality(D!InEdges(b))
    BY <1>1, SameFinite, SameCardinality DEF D!GraphInv, D!AdjacencyMirrored
  <2>2. CASE b = n
    <3>1. preds'[n] = ps /\ numPred'[n] = Len(ps)
      BY <1>2, <1>4
    <3> QED
      BY <1>5, <2>2, <3>1
  <2>3. CASE b # n
    <3>1. preds'[b] = preds[b] /\ numPred'[b] = numPred[b]
      BY <1>2, <1>4, <2>3
    <3> QED
      BY <1>5, <2>1, <2>3, <3>1
  <2> QED
    BY <2>2, <2>3
<1>14. D!GraphInv'
  <2>1. D!AdjacencyMirrored'
    BY <1>11, <1>13 DEF D!AdjacencyMirrored
  <2> QED
    BY <1>10, <1>11, <1>12, <1>13, <2>1, SameLists, SameFinite, SameCardinality DEF D!GraphInv
<1>15. phase' = "idle" /\ visited' = <<>>
  BY <1>2, <1>6 DEF D!IInv
<1>16. P!IInv'
  BY <1>9, <1>14, <1>15, SameGraphNext, P!BetweenTraversals, GraphAssumption
<1> QED
  BY <1>16, SameInvNext

-----------------------------------------------------------------------------
(* The invariant of the executor.                                          *)

(* The tasks of the current call are the last ones made.                   *)
LEMMA Handles ==
  ASSUME TypeOK
  PROVE  /\ Old \in Nat /\ Len(status) = Old + Len(made)
         /\ Len(status) \in Nat /\ Len(made) \in Nat
         /\ DOMAIN status = 1..Len(status)
         /\ \A h : h \in Current <=> h \in (Old + 1)..Len(status)
         /\ \A h \in Current :
              /\ h \in Nat \ {0} /\ h \in DOMAIN status /\ h \notin 1..Old
              /\ Task(h) \in [node : Node, elem : Nat, requires : SUBSET Nat]
<1>1. Len(made) \in Nat /\ Len(status) \in Nat /\ Len(made) <= Len(status)
      /\ DOMAIN status = 1..Len(status)
  BY DEF TypeOK
<1>2. Old \in Nat /\ Len(status) = Old + Len(made)
  BY <1>1 DEF Old
<1>3. ASSUME NEW h \in Current
      PROVE  /\ h \in Nat \ {0} /\ h \in DOMAIN status /\ h \notin 1..Old
             /\ Task(h) \in [node : Node, elem : Nat, requires : SUBSET Nat]
  <2>1. h \in (Old + 1)..Len(status)
    BY DEF Current
  <2>2. h - Old \in 1..Len(made)
    BY <1>1, <1>2, <2>1
  <2>3. Task(h) = made[h - Old]
    BY DEF Task
  <2>4. made[h - Old] \in [node : Node, elem : Nat, requires : SUBSET Nat]
    <3> DEFINE R == [node : Node, elem : Nat, requires : SUBSET Nat]
    <3>1. made \in Seq(R)
      BY DEF TypeOK
    <3> HIDE DEF R
    <3>2. \A i \in 1..Len(made) : made[i] \in R
      BY <3>1
    <3> QED
      BY <2>2, <3>2 DEF R
  <2> QED
    BY <1>1, <1>2, <2>1, <2>3, <2>4
<1> QED
  BY <1>1, <1>2, <1>3 DEF Current

LEMMA SameTasks ==
  ASSUME Len(status') = Len(status), made' = made
  PROVE  /\ Old' = Old /\ Current' = Current
         /\ \A h : Task(h)' = Task(h)
         /\ \A h : SameWalk(h)' = SameWalk(h)
BY DEF Old, Current, Task, SameWalk

LEMMA SameAcyclic ==
  ASSUME UNCHANGED <<allNodes, succs>>, NEW d
  PROVE  D!Acyclic(d)' = D!Acyclic(d) /\ D!NodesOf(d)' = D!NodesOf(d)
BY DEF D!Acyclic, D!NodesOf, D!Range

(* Nothing is left of a call that has returned.                            *)
LEMMA IdleInv ==
  ASSUME host' = "idle", travDag' = NoDag,
         list' = <<>>, made' = <<>>, srcHandles' = <<>>, sinkHandles' = <<>>, cur' = 1,
         handleOf' \in [Node -> Nat],
         status' \in Seq({"lazy", "waiting", "running", "done"}),
         \A h \in DOMAIN status' : status'[h] = "done"
  PROVE  TypeOK' /\ HostInv' /\ MadeInv' /\ StatusInv'
<1>1. Len(status') \in Nat /\ DOMAIN status' = 1..Len(status')
  OBVIOUS
<1>2. Old' = Len(status') /\ \A h : h \notin Current'
  BY <1>1 DEF Old, Current
<1>3. Range(<<>>) = {} /\ Len(<<>>) = 0 /\ \A S : <<>> \in Seq(S)
  BY DEF Range
<1>4. TypeOK'
  BY <1>1, <1>3, ListAssumption DEF TypeOK
<1>5. HostInv'
  BY DEF HostInv
<1>6. MadeInv'
  BY <1>2 DEF MadeInv, WalkedAll, RequiresThisWalk
<1>7. StatusInv'
  BY <1>1, <1>2 DEF StatusInv, IsDone
<1> QED
  BY <1>4, <1>5, <1>6, <1>7

(* A step that makes no task and does not move on in the list.             *)
LEMMA MadeKept ==
  ASSUME MadeInv, Len(status') = Len(status), UNCHANGED <<allNodes, succs, preds, list, made>>,
         \A e \in DOMAIN list : WalkedAll(e)' => WalkedAll(e),
         host' = "make" => /\ host = "make" /\ cur' = cur /\ handleOf' = handleOf
                           /\ Range(visited') = Range(visited)
  PROVE  MadeInv'
<1>1. /\ Old' = Old /\ Current' = Current
      /\ \A h : Task(h)' = Task(h)
      /\ \A h : SameWalk(h)' = SameWalk(h)
  BY SameTasks
<1>2. \A d : D!NodesOf(d)' = D!NodesOf(d)
  BY SameAcyclic
<1>3. RequiresThisWalk'
  BY <1>1 DEF MadeInv, RequiresThisWalk
<1> QED
  BY <1>1, <1>2, <1>3 DEF MadeInv

(* A step after which what was done still is, and what runs may run.       *)
LEMMA StatusMoves ==
  ASSUME TypeOK, StatusInv, Len(status') = Len(status), UNCHANGED <<succs, made, sinkHandles>>,
         \A h \in DOMAIN status : IsDone(h) => IsDone(h)',
         \A h \in Current :
           status'[h] \in {"running", "done"} =>
             \A r \in Task(h).requires : r \in DOMAIN status /\ IsDone(r),
         host' = "wait" =>
           \A i \in DOMAIN sinkHandles :
             i < cur' => sinkHandles[i] \in DOMAIN status /\ IsDone(sinkHandles[i])
  PROVE  StatusInv'
<1>1. /\ Old' = Old /\ Current' = Current
      /\ \A h : Task(h)' = Task(h)
  BY SameTasks
<1>2. \A h \in 1..Old : h \in DOMAIN status
  BY Handles
<1> QED
  BY <1>1, <1>2 DEF StatusInv, D!IsSink

LEMMA InitInv == Init => IInv
<1> SUFFICES ASSUME Init PROVE IInv
  OBVIOUS
<1>1. D!IInv
  BY SameInit, SameInv, P!InitInv, GraphAssumption DEF Init
<1>2. Range(<<>>) = {} /\ Len(<<>>) = 0 /\ \A S : <<>> \in Seq(S)
  BY DEF Range
<1>3. TypeOK
  <2>1. handleOf \in [Node -> Nat] /\ host = "idle" /\ cur = 1
    BY DEF Init, NoHandle
  <2>2. list = <<>> /\ status = <<>> /\ made = <<>> /\ srcHandles = <<>> /\ sinkHandles = <<>>
    BY DEF Init
  <2> QED
    BY <1>2, <2>1, <2>2, ListAssumption DEF TypeOK
<1>4. \A h : h \notin Current /\ h \notin 1..Old
  BY DEF Init, Current, Old
<1>5. HostInv
  BY DEF Init, HostInv, D!Init
<1>6. MadeInv /\ StatusInv
  BY <1>4 DEF Init, MadeInv, StatusInv, WalkedAll, RequiresThisWalk
<1> QED
  BY <1>1, <1>3, <1>5, <1>6 DEF IInv

(* Between calls the graphs change and no task is left.                    *)
LEMMA ClientInv ==
  ASSUME IInv, NEW d \in Dag,
         \/ \E n \in Node : AddNode(d, n)
         \/ \E a, b \in Node : AddEdge(d, a, b)
         \/ \E n \in Node : \E ps \in Seq(Node) : AddTask(d, n, ps)
         \/ Clear(d)
  PROVE  /\ IInv'
         /\ host = "idle" /\ made = <<>>
         /\ UNCHANGED <<host, list, cur, made, status>>
<1>1. /\ D!IInv /\ TypeOK /\ HostInv /\ MadeInv /\ StatusInv
  BY DEF IInv
<1>2. /\ host = "idle"
      /\ UNCHANGED <<host, list, cur, srcHandles, sinkHandles, status, made>>
  BY DEF AddNode, AddEdge, AddTask, Clear, execVars
<1>3. /\ travDag = NoDag
      /\ list = <<>> /\ made = <<>> /\ srcHandles = <<>> /\ sinkHandles = <<>> /\ cur = 1
  BY <1>1, <1>2 DEF HostInv
<1>4. D!IInv' /\ travDag' = NoDag
  <2>1. CASE \E n \in Node : \E ps \in Seq(Node) : AddTask(d, n, ps)
    BY <1>1, <1>3, <2>1, AddTaskStep DEF AddTask
  <2>2. CASE ~ \E n \in Node : \E ps \in Seq(Node) : AddTask(d, n, ps)
    <3>1. \/ \E n \in Node : D!AddNode(d, n)
          \/ \E a, b \in Node : D!AddEdge(d, a, b)
          \/ D!Clear(d)
      BY <2>2 DEF AddNode, AddEdge, Clear
    <3> QED
      BY <1>1, <1>3, <3>1, BuildStep
  <2> QED
    BY <2>1, <2>2
<1>5. handleOf' \in [Node -> Nat]
  <2>1. handleOf \in [Node -> Nat]
    BY <1>1 DEF TypeOK
  <2> QED
    BY <2>1 DEF AddNode, AddEdge, AddTask, Clear, execVars, NoHandle
<1>6. \A h \in DOMAIN status : status[h] = "done"
  <2>1. Old = Len(status) /\ DOMAIN status = 1..Len(status)
    BY <1>1, <1>3, Handles
  <2> QED
    BY <1>1, <2>1 DEF StatusInv, IsDone
<1>7. status \in Seq({"lazy", "waiting", "running", "done"})
  BY <1>1 DEF TypeOK
<1>8. TypeOK' /\ HostInv' /\ MadeInv' /\ StatusInv'
  BY <1>2, <1>3, <1>4, <1>5, <1>6, <1>7, IdleInv
<1> QED
  BY <1>2, <1>3, <1>4, <1>8 DEF IInv

LEMMA ExecuteInv ==
  ASSUME IInv, NEW l \in Seq(Dag), Len(l) <= MaxList, Execute(l)
  PROVE  IInv'
<1>1. /\ D!IInv /\ TypeOK /\ HostInv /\ MadeInv /\ StatusInv
  BY DEF IInv
<1>2. /\ host = "idle" /\ host' = "make" /\ list' = l
      /\ UNCHANGED dagVars
      /\ UNCHANGED <<handleOf, cur, srcHandles, sinkHandles, status, made>>
      /\ \A e \in DOMAIN l : D!Acyclic(l[e])
  <2>1. \A e \in DOMAIN l : l[e] \in Range(l)
    BY DEF Range
  <2> QED
    BY <2>1 DEF Execute
<1>3. D!IInv'
  BY <1>1, <1>2, NoWalkStep
<1>4. /\ travDag = NoDag /\ travDag' = NoDag
      /\ made = <<>> /\ srcHandles = <<>> /\ sinkHandles = <<>> /\ cur = 1
  BY <1>1, <1>2 DEF HostInv, dagVars
<1>5. visited' = <<>>
  BY <1>1, <1>2, <1>4 DEF D!IInv, D!TypeOK, dagVars
<1>6. \A h : h \notin Current /\ h \notin Current'
  <2>1. Len(status) \in Nat /\ Old = Len(status) /\ Old' = Len(status')
    BY <1>1, <1>2, <1>4, Handles DEF Old
  <2> QED
    BY <1>2, <2>1 DEF Current
<1>7. TypeOK'
  <2>1. Current' = Current
    BY <1>2, SameTasks
  <2> QED
    BY <1>1, <1>2, <2>1 DEF TypeOK
<1>8. HostInv'
  BY <1>2, <1>4, SameAcyclic DEF HostInv, dagVars
<1>9. MadeInv'
  <2>1. Range(visited') = {}
    BY <1>5 DEF Range
  <2>2. \A e \in DOMAIN list' : ~WalkedAll(e)'
    BY <1>2, <1>4 DEF WalkedAll
  <2> QED
    BY <1>6, <2>1, <2>2 DEF MadeInv, RequiresThisWalk
<1>10. StatusInv'
  <2>1. Old' = Old
    BY <1>2 DEF Old
  <2> QED
    BY <1>1, <1>2, <1>6, <2>1 DEF StatusInv, IsDone
<1> QED
  BY <1>3, <1>7, <1>8, <1>9, <1>10 DEF IInv

(* What MakeTask adds to the tasks of the call.                            *)
LEMMA NewTask ==
  ASSUME TypeOK, MakeTask, Last(nodeQ) \in Node, PredHandles(Last(nodeQ)) \subseteq Nat,
         NEW n, n = Last(nodeQ), NEW h, h = Len(status) + 1
  PROVE  /\ Old' = Old /\ Len(status') = h
         /\ h \notin Current /\ Current' = Current \cup {h}
         /\ \A i \in Current : Task(i)' = Task(i)
         /\ Task(h)' = [node |-> n, elem |-> cur, requires |-> PredHandles(n)]
         /\ \A i \in DOMAIN status : status'[i] = status[i]
         /\ status'[h] \in {"lazy", "waiting"}
         /\ status' \in Seq({"lazy", "waiting", "running", "done"})
         /\ made' \in Seq([node : Node, elem : Nat, requires : SUBSET Nat])
         /\ Len(made') = Len(made) + 1
<1> DEFINE new == [node |-> n, elem |-> cur, requires |-> PredHandles(n)]
           R == [node : Node, elem : Nat, requires : SUBSET Nat]
           V == {"lazy", "waiting", "running", "done"}
           st == NewStatus(n)
<1>1. status \in Seq(V) /\ made \in Seq(R) /\ cur \in Nat
  BY DEF TypeOK
<1>2. new \in R
  BY <1>1
<1>3. st \in V /\ st \in {"lazy", "waiting"}
  BY DEF NewStatus
<1>4. status' = Append(status, st) /\ made' = Append(made, new)
  BY DEF MakeTask
<1> HIDE DEF new, R, st
<1>5. /\ status' \in Seq(V) /\ Len(status') = h /\ status'[h] = st
      /\ \A i \in 1..Len(status) : status'[i] = status[i]
  BY <1>1, <1>3, <1>4, AppendLastRange
<1>6. /\ made' \in Seq(R) /\ Len(made') = Len(made) + 1 /\ made'[Len(made) + 1] = new
      /\ \A i \in 1..Len(made) : made'[i] = made[i]
  BY <1>1, <1>2, <1>4, AppendLastRange
<1>7. /\ Old \in Nat /\ Len(status) = Old + Len(made)
      /\ Len(status) \in Nat /\ Len(made) \in Nat
      /\ DOMAIN status = 1..Len(status)
  BY Handles
<1>8. Old' = Old
  BY <1>5, <1>6, <1>7 DEF Old
<1>9. h \notin Current /\ Current' = Current \cup {h}
  BY <1>5, <1>7, <1>8 DEF Current
<1>10. ASSUME NEW i \in Current
       PROVE  Task(i)' = Task(i)
  <2>1. i - Old \in 1..Len(made)
    BY <1>7 DEF Current
  <2>2. Task(i)' = made'[i - Old]
    BY <1>8 DEF Task
  <2>3. Task(i) = made[i - Old]
    BY DEF Task
  <2> QED
    BY <1>6, <2>1, <2>2, <2>3
<1>11. Task(h)' = new
  <2>1. h - Old = Len(made) + 1
    BY <1>7
  <2>2. Task(h)' = made'[h - Old]
    BY <1>8 DEF Task
  <2> QED
    BY <1>6, <2>1, <2>2
<1> QED
  BY <1>3, <1>5, <1>6, <1>7, <1>8, <1>9, <1>10, <1>11 DEF new, R

(* The handles found in the predecessors are those of this walk.           *)
LEMMA PredHandlesThisWalk ==
  ASSUME IInv, host = "make", D!Visit
  PROVE  /\ PredHandles(Last(nodeQ)) =
              {r \in Current : Task(r).elem = cur /\ Task(r).node \in Range(preds[Last(nodeQ)])}
         /\ \A a \in Range(preds[Last(nodeQ)]) :
              \E r \in Current : Task(r).elem = cur /\ Task(r).node = a
         /\ \A r \in Current : Task(r).elem = cur => Task(r).node # Last(nodeQ)
         /\ Last(nodeQ) \notin Range(preds[Last(nodeQ)])
<1> DEFINE n == Last(nodeQ)
<1>1. /\ D!IInv /\ TypeOK /\ MadeInv
  BY DEF IInv
<1>2. /\ n \in Node /\ n \notin Range(visited)
      /\ Range(preds[n]) \subseteq Range(visited)
  BY <1>1, VisitStep
<1>3. Range(visited) \subseteq Node
  <2>1. visited \in Seq(Node)
    BY <1>1 DEF D!IInv, D!TypeOK
  <2> QED
    BY <2>1 DEF Range
<1> HIDE DEF n
<1>4. /\ \A a \in Node : a \in Range(visited) <=>
           \E r \in Current : Task(r).elem = cur /\ Task(r).node = a
      /\ \A r \in Current : Task(r).elem = cur => handleOf[Task(r).node] = r
  BY <1>1 DEF MadeInv
<1>5. \A r \in Current : Task(r).node \in Node
  BY <1>1, Handles
<1>6. \A a \in Range(preds[n]) : \E r \in Current : Task(r).elem = cur /\ Task(r).node = a
  BY <1>2, <1>3, <1>4
<1>7. PredHandles(n) = {r \in Current : Task(r).elem = cur /\ Task(r).node \in Range(preds[n])}
  <2> SUFFICES ASSUME NEW r
               PROVE  r \in PredHandles(n) <=>
                        r \in Current /\ Task(r).elem = cur /\ Task(r).node \in Range(preds[n])
    OBVIOUS
  <2>1. r \in PredHandles(n) <=> \E a \in Range(preds[n]) : r = handleOf[a]
    BY DEF PredHandles
  <2> QED
    BY <1>4, <1>6, <2>1
<1>8. \A r \in Current : Task(r).elem = cur => Task(r).node # n
  BY <1>2, <1>4, <1>5
<1> QED
  BY <1>2, <1>6, <1>7, <1>8 DEF n

LEMMA MakeTaskInv ==
  ASSUME IInv, MakeTask
  PROVE  IInv'
<1> SUFFICES ASSUME NEW n, n = Last(nodeQ), NEW h, h = Len(status) + 1
             PROVE  IInv'
  OBVIOUS
<1>1. /\ D!IInv /\ TypeOK /\ HostInv /\ MadeInv /\ StatusInv
  BY DEF IInv
<1>2. /\ host = "make" /\ D!Visit
      /\ handleOf' = [handleOf EXCEPT ![n] = h]
      /\ srcHandles' = IF D!IsSrc(n) THEN Append(srcHandles, h) ELSE srcHandles
      /\ sinkHandles' = IF D!IsSink(n) THEN Append(sinkHandles, h) ELSE sinkHandles
      /\ UNCHANGED <<host, list, cur>>
  BY DEF MakeTask
<1>3. /\ D!IInv'
      /\ UNCHANGED <<allNodes, succs, preds, numPred, travDag>>
      /\ travDag \in Dag
      /\ n \in D!NodesOf(travDag) /\ n \in Node /\ n \notin Range(visited)
      /\ Range(visited') = Range(visited) \cup {n}
  BY <1>1, <1>2, VisitStep
<1>4. /\ PredHandles(n) =
           {r \in Current : Task(r).elem = cur /\ Task(r).node \in Range(preds[n])}
      /\ \A a \in Range(preds[n]) :
           \E r \in Current : Task(r).elem = cur /\ Task(r).node = a
      /\ \A r \in Current : Task(r).elem = cur => Task(r).node # n
      /\ n \notin Range(preds[n])
  BY <1>2, PredHandlesThisWalk
<1>5. /\ Len(status) \in Nat /\ Len(made) \in Nat
      /\ Old \in Nat /\ Len(status) = Old + Len(made)
      /\ DOMAIN status = 1..Len(status)
      /\ \A i \in Current : /\ i \in DOMAIN status /\ i \in Nat
                            /\ Task(i) \in [node : Node, elem : Nat, requires : SUBSET Nat]
  BY <1>1, Handles
<1>6. /\ Old' = Old /\ Len(status') = h
      /\ h \notin Current /\ Current' = Current \cup {h}
      /\ \A i \in Current : Task(i)' = Task(i)
      /\ Task(h)' = [node |-> n, elem |-> cur, requires |-> PredHandles(n)]
      /\ \A i \in DOMAIN status : status'[i] = status[i]
      /\ status'[h] \in {"lazy", "waiting"}
      /\ status' \in Seq({"lazy", "waiting", "running", "done"})
      /\ made' \in Seq([node : Node, elem : Nat, requires : SUBSET Nat])
      /\ Len(made') = Len(made) + 1
  <2>1. PredHandles(n) \subseteq Nat
    BY <1>4, <1>5
  <2>2. Last(nodeQ) \in Node /\ PredHandles(Last(nodeQ)) \subseteq Nat
    BY <1>3, <2>1
  <2> QED
    BY <1>1, <2>2, NewTask
<1>7. travDag # NoDag /\ cur \in DOMAIN list /\ travDag = list[cur]
  BY <1>1, <1>3, GraphAssumption DEF HostInv
<1>8. \A d : D!NodesOf(d)' = D!NodesOf(d) /\ D!Acyclic(d)' = D!Acyclic(d)
  BY <1>3, SameAcyclic
<1>9. h \in Nat
  BY <1>5
<1>10. /\ srcHandles' \in Seq(Nat) /\ Range(srcHandles') \subseteq Range(srcHandles) \cup {h}
       /\ sinkHandles' \in Seq(Nat) /\ Range(sinkHandles') \subseteq Range(sinkHandles) \cup {h}
       /\ Range(sinkHandles) \subseteq Range(sinkHandles')
       /\ D!IsSink(n) => h \in Range(sinkHandles')
  <2>1. srcHandles \in Seq(Nat) /\ sinkHandles \in Seq(Nat)
    BY <1>1 DEF TypeOK
  <2>2. /\ Append(srcHandles, h) \in Seq(Nat)
        /\ Range(Append(srcHandles, h)) = Range(srcHandles) \cup {h}
    BY <1>9, <2>1, AppendLastRange
  <2>3. /\ Append(sinkHandles, h) \in Seq(Nat)
        /\ Range(Append(sinkHandles, h)) = Range(sinkHandles) \cup {h}
    BY <1>9, <2>1, AppendLastRange
  <2> QED
    BY <1>2, <2>1, <2>2, <2>3
<1>11. TypeOK'
  <2>1. handleOf' \in [Node -> Nat]
    <3>1. handleOf \in [Node -> Nat]
      BY <1>1 DEF TypeOK
    <3> QED
      BY <1>2, <1>9, <3>1
  <2>2. Len(made') <= Len(status')
    BY <1>5, <1>6
  <2>3. /\ Range(srcHandles') \subseteq Current' /\ Range(sinkHandles') \subseteq Current'
    BY <1>1, <1>6, <1>10 DEF TypeOK
  <2>4. /\ host \in {"idle", "make", "activate", "wait"}
        /\ list \in Seq(Dag) /\ Len(list) <= MaxList
        /\ cur \in Nat \ {0}
    BY <1>1 DEF TypeOK
  <2> QED
    BY <1>2, <1>6, <1>10, <2>1, <2>2, <2>3, <2>4 DEF TypeOK
<1>12. HostInv'
  BY <1>1, <1>2, <1>3, <1>7, <1>8 DEF HostInv
<1>13. ASSUME NEW i \in Current
       PROVE  /\ Task(i)'.elem = Task(i).elem /\ Task(i)'.node = Task(i).node
              /\ Task(i)'.requires = Task(i).requires
  BY <1>6
<1>14. Task(h)'.elem = cur /\ Task(h)'.node = n /\ Task(h)'.requires = PredHandles(n)
  BY <1>6
<1>15. RequiresThisWalk'
  <2> SUFFICES ASSUME NEW i \in Current'
               PROVE  /\ Task(i)'.requires =
                           {r \in Current' : Task(r)'.elem = Task(i)'.elem
                                             /\ Task(r)'.node \in Range(preds[Task(i)'.node])}
                      /\ \A a \in Range(preds[Task(i)'.node]) :
                           \E r \in Task(i)'.requires : Task(r)'.node = a
    BY <1>3 DEF RequiresThisWalk, SameWalk
  <2>1. CASE i = h
    <3>1. Task(i)'.elem = cur /\ Task(i)'.node = n /\ Task(i)'.requires = PredHandles(n)
      BY <1>14, <2>1
    <3>2. \A r \in Current' : r = h \/ r \in Current
      BY <1>6
    <3>3. \A r : r \in PredHandles(n) <=>
                  r \in Current' /\ Task(r)'.elem = cur /\ Task(r)'.node \in Range(preds[n])
      BY <1>4, <1>6, <1>13, <1>14, <3>2
    <3>4. \A a \in Range(preds[n]) : \E r \in PredHandles(n) : Task(r)'.node = a
      BY <1>4, <1>13
    <3> QED
      BY <3>1, <3>3, <3>4
  <2>2. CASE i \in Current
    <3>1. /\ Task(i).requires = {r \in Current : Task(r).elem = Task(i).elem
                                             /\ Task(r).node \in Range(preds[Task(i).node])}
          /\ \A a \in Range(preds[Task(i).node]) :
               \E r \in Task(i).requires : Task(r).node = a
      BY <1>1, <2>2 DEF MadeInv, RequiresThisWalk, SameWalk
    <3>2. Task(i).elem = cur => n \notin Range(preds[Task(i).node])
      BY <1>4, <3>1
    <3>3. \A r \in Current' : r = h \/ r \in Current
      BY <1>6
    <3>4. Task(i).requires \subseteq Current
      BY <3>1
    <3>5. \A r : r \in Task(i).requires <=>
                  r \in Current' /\ Task(r)'.elem = Task(i).elem
                                 /\ Task(r)'.node \in Range(preds[Task(i).node])
      BY <1>6, <1>13, <1>14, <3>1, <3>2, <3>3
    <3> QED
      BY <1>13, <2>2, <3>1, <3>4, <3>5
  <2> QED
    BY <1>6, <2>1, <2>2
<1>16. MadeInv'
  <2>1. ASSUME NEW i \in Current'
        PROVE  /\ Task(i)'.elem \in DOMAIN list /\ Task(i)'.elem <= cur
               /\ Task(i)'.node \in D!NodesOf(list[Task(i)'.elem])
    <3>1. CASE i = h
      <4>1. Task(i)'.elem = cur /\ Task(i)'.node = n
        BY <1>14, <3>1
      <4>2. n \in D!NodesOf(list[cur]) /\ cur <= cur
        BY <1>1, <1>2, <1>3, <1>7 DEF TypeOK
      <4> QED
        BY <1>7, <4>1, <4>2
    <3>2. CASE i \in Current
      <4>1. Task(i)'.elem = Task(i).elem /\ Task(i)'.node = Task(i).node
        BY <1>13, <3>2
      <4>2. /\ Task(i).elem \in DOMAIN list /\ Task(i).elem <= cur
            /\ Task(i).node \in D!NodesOf(list[Task(i).elem])
        <5>1. \A g \in Current : /\ Task(g).elem \in DOMAIN list
                                 /\ host = "make" => Task(g).elem <= cur
                                 /\ Task(g).node \in D!NodesOf(list[Task(g).elem])
          BY <1>1 DEF MadeInv
        <5>2. host = "make"
          BY <1>2
        <5> QED
          BY <3>2, <5>1, <5>2, Zenon
      <4> QED
        BY <4>1, <4>2
    <3> QED
      BY <1>6, <3>1, <3>2
  <2>2. ASSUME NEW i \in Current', NEW j \in Current',
               Task(i)'.elem = Task(j)'.elem, Task(i)'.node = Task(j)'.node
        PROVE  i = j
    BY <1>1, <1>4, <1>6, <1>13, <1>14, <2>2 DEF MadeInv
  <2>3. ASSUME NEW e \in DOMAIN list, WalkedAll(e)', NEW m \in D!NodesOf(list[e])
        PROVE  \E i \in Current' : Task(i)'.elem = e /\ Task(i)'.node = m
    <3>1. PICK i \in Current : Task(i).elem = e /\ Task(i).node = m
      BY <1>1, <1>2, <2>3 DEF MadeInv, WalkedAll
    <3> QED
      BY <1>6, <1>13, <3>1
  <2>4. ASSUME NEW m \in Node
        PROVE  m \in Range(visited') <=>
                 \E i \in Current' : Task(i)'.elem = cur' /\ Task(i)'.node = m
    <3>1. m \in Range(visited) <=> \E i \in Current : Task(i).elem = cur /\ Task(i).node = m
      BY <1>1, <1>2 DEF MadeInv
    <3> QED
      BY <1>2, <1>3, <1>6, <1>13, <1>14, <3>1
  <2>5. ASSUME NEW i \in Current', Task(i)'.elem = cur'
        PROVE  handleOf'[Task(i)'.node] = i
    <3>1. handleOf \in [Node -> Nat]
      BY <1>1 DEF TypeOK
    <3>2. CASE i = h
      BY <1>2, <1>3, <1>14, <3>1, <3>2
    <3>3. CASE i \in Current
      <4>1. Task(i).elem = cur /\ Task(i).node # n /\ Task(i).node \in Node
        BY <1>2, <1>4, <1>5, <1>13, <2>5, <3>3
      <4>2. handleOf[Task(i).node] = i
        BY <1>1, <1>2, <3>3, <4>1 DEF MadeInv
      <4> QED
        BY <1>2, <1>13, <3>1, <3>3, <4>1, <4>2
    <3> QED
      BY <1>6, <3>2, <3>3
  <2> QED
    BY <1>2, <1>8, <1>15, <2>1, <2>2, <2>3, <2>4, <2>5 DEF MadeInv
<1>17. StatusInv'
  <2>1. ASSUME NEW i \in 1..Old'
        PROVE  IsDone(i)'
    <3>1. i \in 1..Old /\ i \in DOMAIN status
      BY <1>5, <1>6
    <3> QED
      BY <1>1, <1>6, <3>1 DEF StatusInv, IsDone
  <2>2. ASSUME NEW i \in Current', status'[i] \in {"running", "done"}, NEW r \in Task(i)'.requires
        PROVE  IsDone(r)'
    <3>1. i \in Current /\ status[i] \in {"running", "done"}
      BY <1>5, <1>6, <2>2
    <3>2. r \in Task(i).requires /\ r \in Current
      BY <1>1, <1>13, <2>2, <3>1 DEF MadeInv, RequiresThisWalk, SameWalk
    <3>3. IsDone(r)
      BY <1>1, <3>1, <3>2 DEF StatusInv
    <3> QED
      BY <1>5, <1>6, <3>2, <3>3 DEF IsDone
  <2>3. ASSUME NEW i \in Current', D!IsSink(Task(i)'.node)
        PROVE  i \in Range(sinkHandles')
    <3>1. CASE i = h
      BY <1>10, <1>14, <2>3, <3>1
    <3>2. CASE i \in Current
      BY <1>1, <1>10, <1>13, <2>3, <3>2 DEF StatusInv
    <3> QED
      BY <1>6, <3>1, <3>2
  <2>4. \A m : D!IsSink(m)' = D!IsSink(m)
    BY <1>3 DEF D!IsSink
  <2>5. host' # "wait"
    BY <1>2
  <2> QED
    BY <2>1, <2>2, <2>3, <2>4, <2>5 DEF StatusInv
<1> QED
  BY <1>3, <1>11, <1>12, <1>16, <1>17 DEF IInv

(* The tasks required are tasks of the current call.                       *)
LEMMA RequiresCurrent ==
  ASSUME TypeOK, MadeInv
  PROVE  \A h \in Current : \A r \in Task(h).requires :
           r \in Current /\ r \in DOMAIN status /\ r # NoHandle
<1>1. \A r \in Current : r \in DOMAIN status /\ r # NoHandle
  BY Handles DEF NoHandle
<1>2. \A h \in Current : \A r \in Task(h).requires : r \in Current
  BY DEF MadeInv, RequiresThisWalk, SameWalk
<1> QED
  BY <1>1, <1>2

(* A step that makes no task and is not the end of a walk: what it changes *)
(* is where the calling thread is, the walk, or what became of a task.     *)
LEMMA OtherStep ==
  ASSUME IInv, D!IInv',
         UNCHANGED <<allNodes, succs, preds, handleOf, list, made, srcHandles, sinkHandles>>,
         status' \in Seq({"lazy", "waiting", "running", "done"}),
         Len(status') = Len(status),
         cur' \in Nat \ {0},
         host' \in {"idle", "make", "activate", "wait"},
         host' = "idle" => host = "idle" /\ cur' = cur,
         host' = "make" => host = "make" /\ cur' = cur /\ Range(visited') = Range(visited),
         travDag' # NoDag => host' = "make" /\ cur' \in DOMAIN list /\ travDag' = list[cur'],
         \A e \in DOMAIN list : WalkedAll(e)' => WalkedAll(e),
         \A h \in DOMAIN status : IsDone(h) => IsDone(h)',
         \A h \in Current :
           status'[h] \in {"running", "done"} => \A r \in Task(h).requires : IsDone(r),
         host' = "wait" =>
           \A i \in DOMAIN sinkHandles : i < cur' => IsDone(sinkHandles[i])
  PROVE  IInv'
<1>1. TypeOK /\ HostInv /\ MadeInv /\ StatusInv
  BY DEF IInv
<1>2. Current' = Current
  BY SameTasks
<1>3. TypeOK'
  BY <1>1, <1>2 DEF TypeOK
<1>4. HostInv'
  BY <1>1, SameAcyclic DEF HostInv
<1>5. MadeInv'
  BY <1>1, MadeKept
<1>6. StatusInv'
  <2>1. \A h \in Current :
          status'[h] \in {"running", "done"} =>
            \A r \in Task(h).requires : r \in DOMAIN status /\ IsDone(r)
    BY <1>1, RequiresCurrent
  <2>2. \A i \in DOMAIN sinkHandles : sinkHandles[i] \in DOMAIN status
    <3>1. \A i \in DOMAIN sinkHandles : sinkHandles[i] \in Range(sinkHandles)
      BY DEF Range
    <3> QED
      BY <1>1, <3>1, Handles DEF TypeOK
  <2>3. host' = "wait" =>
          \A i \in DOMAIN sinkHandles :
            i < cur' => sinkHandles[i] \in DOMAIN status /\ IsDone(sinkHandles[i])
    BY <2>2
  <2> QED
    BY <1>1, <2>1, <2>3, StatusMoves
<1> QED
  BY <1>3, <1>4, <1>5, <1>6 DEF IInv

(* A task that runs or has run requires tasks that are done.               *)
LEMMA RunningRequires ==
  ASSUME IInv
  PROVE  /\ \A h \in Current :
              status[h] \in {"running", "done"} => \A r \in Task(h).requires : IsDone(r)
         /\ status \in Seq({"lazy", "waiting", "running", "done"})
         /\ cur \in Nat \ {0}
         /\ host \in {"idle", "make", "activate", "wait"}
         /\ list \in Seq(Dag)
BY DEF IInv, StatusInv, TypeOK

LEMMA BeginDagInv ==
  ASSUME IInv, BeginDag
  PROVE  IInv'
<1>1. /\ host = "make" /\ cur <= Len(list) /\ D!TopoBegin(list[cur])
      /\ UNCHANGED execVars
  BY DEF BeginDag
<1>2. D!IInv /\ list \in Seq(Dag) /\ cur \in Nat \ {0}
  BY DEF IInv, TypeOK
<1>3. cur \in DOMAIN list /\ list[cur] \in Dag
  BY <1>1, <1>2
<1>4. /\ D!IInv' /\ UNCHANGED <<allNodes, succs, preds>>
      /\ travDag' = list[cur] /\ Range(visited') = Range(visited)
  BY <1>1, <1>2, <1>3, BeginStep
<1> QED
  BY <1>1, <1>3, <1>4, OtherStep, RunningRequires DEF execVars, WalkedAll, IsDone

LEMMA WalkInv ==
  ASSUME IInv, Walk
  PROVE  IInv'
<1>1. /\ host = "make" /\ (D!ScanNode \/ D!DecrementSucc)
      /\ UNCHANGED execVars
  BY DEF Walk
<1>2. /\ D!IInv' /\ UNCHANGED <<allNodes, succs, preds, travDag>>
      /\ Range(visited') = Range(visited)
  BY <1>1, WalkStep DEF IInv
<1>3. travDag # NoDag => cur \in DOMAIN list /\ travDag = list[cur]
  BY DEF IInv, HostInv
<1> QED
  BY <1>1, <1>2, <1>3, OtherStep, RunningRequires DEF execVars, WalkedAll, IsDone

LEMMA StutterInv ==
  ASSUME IInv, UNCHANGED vars
  PROVE  IInv'
<1>1. UNCHANGED dagVars /\ UNCHANGED execVars
  BY DEF vars, dagVars, execVars
<1>2. D!IInv'
  BY <1>1, NoWalkStep DEF IInv
<1>3. /\ travDag # NoDag => host = "make" /\ cur \in DOMAIN list /\ travDag = list[cur]
      /\ host = "wait" =>
           \A i \in DOMAIN sinkHandles : i < cur => IsDone(sinkHandles[i])
  BY DEF IInv, HostInv, StatusInv
<1> QED
  BY <1>1, <1>2, <1>3, OtherStep, RunningRequires DEF dagVars, execVars, WalkedAll, IsDone

(* The walk of an element ends: all its nodes have their task, and the     *)
(* next element has none.                                                  *)
LEMMA EndDagInv ==
  ASSUME IInv, EndDag
  PROVE  IInv'
<1>1. /\ host = "make" /\ D!TopoEnd /\ cur' = cur + 1
      /\ UNCHANGED <<handleOf, host, list, srcHandles, sinkHandles, status, made>>
  BY DEF EndDag
<1>2. /\ D!IInv /\ TypeOK /\ HostInv /\ MadeInv /\ StatusInv
  BY DEF IInv
<1>3. travDag # NoDag
  BY <1>1, <1>2 DEF D!TopoEnd, D!IInv, D!TypeOK
<1>4. /\ cur \in DOMAIN list /\ travDag = list[cur] /\ D!Acyclic(travDag)
  BY <1>2, <1>3 DEF HostInv
<1>5. /\ D!IInv'
      /\ UNCHANGED <<allNodes, succs, preds, numPred>>
      /\ travDag' = NoDag
      /\ Range(visited) = D!NodesOf(travDag)
      /\ Range(visited') = {}
  BY <1>1, <1>2, <1>4, EndStep
<1>6. /\ Old' = Old /\ Current' = Current
      /\ \A h : Task(h)' = Task(h)
      /\ \A h : SameWalk(h)' = SameWalk(h)
  BY <1>1, SameTasks
<1>7. \A d : D!NodesOf(d)' = D!NodesOf(d) /\ D!Acyclic(d)' = D!Acyclic(d)
  BY <1>5, SameAcyclic
<1>8. cur \in Nat /\ cur + 1 \in Nat \ {0} /\ \A h \in Current : Task(h).elem \in Nat
  BY <1>2, Handles DEF TypeOK
<1>9. TypeOK'
  BY <1>1, <1>2, <1>6, <1>8 DEF TypeOK
<1>10. HostInv'
  BY <1>1, <1>2, <1>5, <1>7 DEF HostInv
<1>11. MadeInv'
  <2>1. RequiresThisWalk'
    BY <1>2, <1>5, <1>6 DEF MadeInv, RequiresThisWalk
  <2>2. ASSUME NEW e \in DOMAIN list, WalkedAll(e)', NEW n \in D!NodesOf(list[e])
        PROVE  \E h \in Current : Task(h).elem = e /\ Task(h).node = n
    <3>1. e \in Nat /\ e < cur + 1
      BY <1>1, <1>2, <2>2 DEF WalkedAll, TypeOK
    <3>2. CASE e < cur
      BY <1>2, <2>2, <3>2 DEF MadeInv, WalkedAll
    <3>3. CASE e = cur
      <4>1. n \in Range(visited) /\ n \in Node
        <5>1. visited \in Seq(Node)
          BY <1>2 DEF D!IInv, D!TypeOK
        <5> QED
          BY <1>4, <1>5, <2>2, <3>3, <5>1 DEF Range
      <4> QED
        BY <1>1, <1>2, <3>3, <4>1 DEF MadeInv
    <3> QED
      BY <1>8, <3>1, <3>2, <3>3
  <2>3. \A h \in Current : Task(h).elem <= cur /\ Task(h).elem <= cur + 1 /\ Task(h).elem # cur + 1
    BY <1>1, <1>2, <1>8 DEF MadeInv
  <2> QED
    BY <1>1, <1>2, <1>5, <1>6, <1>7, <2>1, <2>2, <2>3 DEF MadeInv
<1>12. StatusInv'
  <2>1. \A n : D!IsSink(n)' = D!IsSink(n)
    BY <1>5 DEF D!IsSink
  <2> QED
    BY <1>1, <1>2, <1>6, <2>1 DEF StatusInv, IsDone
<1> QED
  BY <1>5, <1>9, <1>10, <1>11, <1>12 DEF IInv

(* The steps of the calling thread between the last walk and its return.   *)
LEMMA HostStepInv ==
  ASSUME IInv, MadeAll \/ ActivatedAll \/ WaitSink
  PROVE  IInv'
<1>1. /\ UNCHANGED dagVars
      /\ UNCHANGED <<handleOf, list, srcHandles, sinkHandles, status, made>>
      /\ host' \in {"activate", "wait"}
  BY DEF MadeAll, ActivatedAll, WaitSink
<1>2. D!IInv'
  BY <1>1, NoWalkStep DEF IInv
<1>3. travDag' = NoDag
  BY <1>1 DEF IInv, HostInv, MadeAll, ActivatedAll, WaitSink, dagVars
<1>4. cur \in Nat \ {0} /\ list \in Seq(Dag)
  BY RunningRequires
<1>5. cur' \in Nat \ {0}
  BY <1>4 DEF MadeAll, ActivatedAll, WaitSink
<1>6. \A e \in DOMAIN list : WalkedAll(e)' => WalkedAll(e)
  BY <1>1, <1>4 DEF MadeAll, ActivatedAll, WaitSink, WalkedAll
<1>7. host' = "wait" =>
        \A i \in DOMAIN sinkHandles : i < cur' => IsDone(sinkHandles[i])
  <2>1. DOMAIN sinkHandles \subseteq Nat \ {0}
    BY DEF IInv, TypeOK
  <2>2. CASE WaitSink
    BY <1>4, <2>1, <2>2 DEF WaitSink, IInv, StatusInv, IsDone
  <2>3. CASE MadeAll \/ ActivatedAll
    BY <2>1, <2>3 DEF MadeAll, ActivatedAll
  <2> QED
    BY <2>2, <2>3
<1>8. UNCHANGED <<allNodes, succs, preds, visited>>
  BY <1>1 DEF dagVars
<1> QED
  BY <1>1, <1>2, <1>3, <1>5, <1>6, <1>7, <1>8, OtherStep, RunningRequires DEF IsDone

(* A step of one task, by the activation of a source or by the runtime.    *)
LEMMA TaskMoves ==
  ASSUME IInv, NEW h \in DOMAIN status, NEW s \in {"lazy", "waiting", "running", "done"},
         UNCHANGED dagVars,
         UNCHANGED <<handleOf, host, list, srcHandles, sinkHandles, made>>,
         status' = [status EXCEPT ![h] = s],
         IsDone(h) => s = "done",
         h \in Current /\ s \in {"running", "done"} => \A r \in Task(h).requires : IsDone(r),
         cur' = cur \/ (host = "activate" /\ cur' \in Nat \ {0})
  PROVE  IInv'
<1> DEFINE V == {"lazy", "waiting", "running", "done"}
<1>1. status \in Seq(V) /\ cur \in Nat \ {0} /\ host \in {"idle", "make", "activate", "wait"}
  BY RunningRequires
<1>2. D!IInv'
  BY NoWalkStep DEF IInv
<1>3. /\ travDag # NoDag => host = "make" /\ cur \in DOMAIN list /\ travDag = list[cur]
      /\ host = "wait" =>
           \A i \in DOMAIN sinkHandles : i < cur => IsDone(sinkHandles[i])
  BY DEF IInv, HostInv, StatusInv
<1>4. /\ Len(status') = Len(status) /\ status' \in Seq(V)
      /\ status'[h] = s /\ \A i \in DOMAIN status : i # h => status'[i] = status[i]
  <2> HIDE DEF V
  <2>1. DOMAIN status' = DOMAIN status /\ DOMAIN status = 1..Len(status) /\ Len(status) \in Nat
    BY <1>1
  <2>2. Len(status') = Len(status)
    BY <1>1, <2>1
  <2>3. status' \in Seq(V)
    BY <1>1 DEF V
  <2> QED
    BY <2>2, <2>3
<1>5. \A i \in DOMAIN status : IsDone(i) => IsDone(i)'
  BY <1>4 DEF IsDone
<1>6. \A i \in Current : i \in DOMAIN status
  BY Handles DEF IInv
<1>7. \A i \in Current :
        status'[i] \in {"running", "done"} => \A r \in Task(i).requires : IsDone(r)
  BY <1>4, <1>6, RunningRequires
<1>8. UNCHANGED <<allNodes, succs, preds, visited, travDag>>
  BY DEF dagVars
<1>9. \A e \in DOMAIN list : WalkedAll(e)' => WalkedAll(e)
  BY DEF WalkedAll
<1> QED
  BY <1>1, <1>2, <1>3, <1>4, <1>5, <1>7, <1>8, <1>9, OtherStep

LEMMA ActivateInv ==
  ASSUME IInv, Activate
  PROVE  IInv'
<1>1. /\ host = "activate" /\ cur <= Len(srcHandles) /\ cur' = cur + 1
      /\ UNCHANGED dagVars
      /\ UNCHANGED <<handleOf, host, list, srcHandles, sinkHandles, made>>
  BY DEF Activate
<1>2. TypeOK /\ cur \in Nat \ {0} /\ status \in Seq({"lazy", "waiting", "running", "done"})
      /\ srcHandles \in Seq(Nat) /\ Range(srcHandles) \subseteq Current
  BY DEF IInv, TypeOK
<1> SUFFICES ASSUME NEW h, h = srcHandles[cur],
                    NEW s, s = IF status[h] = "lazy" THEN "waiting" ELSE status[h]
             PROVE  IInv'
  OBVIOUS
<1>3. cur \in DOMAIN srcHandles /\ h \in Range(srcHandles)
  BY <1>1, <1>2 DEF Range
<1>4. h \in Current /\ h \in DOMAIN status
  BY <1>2, <1>3, Handles
<1>5. status[h] \in {"lazy", "waiting", "running", "done"}
  BY <1>2, <1>4
<1>6. status' = [status EXCEPT ![h] = s]
  BY DEF Activate
<1>7. /\ IsDone(h) => s = "done"
      /\ s \in {"running", "done"} => \A r \in Task(h).requires : IsDone(r)
  BY <1>4, RunningRequires DEF IsDone
<1>8. cur' \in Nat \ {0}
  BY <1>1, <1>2
<1> QED
  BY <1>1, <1>4, <1>5, <1>6, <1>7, <1>8, TaskMoves

LEMMA StartTaskInv ==
  ASSUME IInv, NEW h \in Current, StartTask(h)
  PROVE  IInv'
<1>1. h \in DOMAIN status
  BY Handles DEF IInv
<1>2. \A r \in Task(h).requires : IsDone(r)
  BY RequiresCurrent DEF IInv, StartTask
<1> QED
  BY <1>1, <1>2, TaskMoves DEF StartTask, IsDone

LEMMA FinishTaskInv ==
  ASSUME IInv, NEW h \in Current, FinishTask(h)
  PROVE  IInv'
<1>1. h \in DOMAIN status
  BY Handles DEF IInv
<1>2. \A r \in Task(h).requires : IsDone(r)
  BY RunningRequires DEF FinishTask
<1> QED
  BY <1>1, <1>2, TaskMoves DEF FinishTask, IsDone

(* When the sinks are done everything is: of the nodes of an element with  *)
(* a task not done, one has no successor among them; it is no sink, and a  *)
(* successor's task, being done, has required its own.                     *)
LEMMA AllDone ==
  ASSUME IInv, host = "wait", cur > Len(sinkHandles)
  PROVE  \A h \in DOMAIN status : IsDone(h)
<1>1. /\ D!IInv /\ TypeOK /\ HostInv /\ MadeInv /\ StatusInv
  BY DEF IInv
<1> SUFFICES ASSUME NEW h0 \in DOMAIN status, ~IsDone(h0)
             PROVE  FALSE
  OBVIOUS
<1>2. h0 \in Current
  <2>1. h0 \in 1..Old \/ h0 \in Current
    BY <1>1, Handles
  <2> QED
    BY <1>1, <2>1 DEF StatusInv
<1> SUFFICES ASSUME NEW e, e = Task(h0).elem, NEW d, d = list[e]
             PROVE  FALSE
  OBVIOUS
<1>3. e \in DOMAIN list /\ d \in Dag /\ D!Acyclic(d)
  BY <1>1, <1>2 DEF MadeInv, TypeOK, HostInv
<1> DEFINE Left(h) == h \in Current /\ Task(h).elem = e /\ ~IsDone(h)
           S == {m \in D!NodesOf(d) : \E h \in Current : Left(h) /\ Task(h).node = m}
<1>4. Task(h0).node \in S
  BY <1>1, <1>2 DEF MadeInv
<1>5. PICK n \in S : \A b \in S : b \notin Range(succs[n])
  <2>1. S \in SUBSET D!NodesOf(d) /\ S # {}
    BY <1>4
  <2> HIDE DEF S
  <2> QED
    BY <1>3, <2>1, SameLists DEF D!Acyclic
<1>6. PICK h \in Current : Left(h) /\ Task(h).node = n
  BY <1>5
<1>7. n \in D!NodesOf(d)
  BY <1>5
<1>8. CASE D!IsSink(n)
  <2>1. h \in Range(sinkHandles)
    BY <1>1, <1>6, <1>8 DEF StatusInv
  <2>2. PICK i \in DOMAIN sinkHandles : sinkHandles[i] = h
    BY <2>1 DEF Range
  <2>3. i < cur
    BY <1>1 DEF TypeOK
  <2> QED
    BY <1>1, <1>6, <2>2, <2>3 DEF StatusInv
<1>9. CASE ~D!IsSink(n)
  <2>1. n \in Node /\ succs \in [Node -> Seq(Node)]
    BY <1>1, <1>3, <1>7, Neighbours DEF D!IInv, D!TypeOK
  <2>2. PICK b : b \in Range(succs[n])
    BY <1>9, <2>1 DEF D!IsSink, Range
  <2>3. b \in D!NodesOf(d) /\ n \in Range(preds[b])
    BY <1>1, <1>3, <1>7, <2>2, Neighbours
  <2>4. PICK i \in Current : Task(i).elem = e /\ Task(i).node = b
    BY <1>1, <1>3, <2>3 DEF MadeInv, WalkedAll
  <2>5. IsDone(i)
    BY <1>5, <2>2, <2>3, <2>4
  <2>6. h \in Task(i).requires
    BY <1>1, <1>6, <2>3, <2>4 DEF MadeInv, RequiresThisWalk, SameWalk
  <2>7. IsDone(h)
    BY <1>1, <2>4, <2>5, <2>6 DEF StatusInv, IsDone
  <2> QED
    BY <1>6, <2>7
<1> QED
  BY <1>8, <1>9

LEMMA ReturnInv ==
  ASSUME IInv, Return
  PROVE  IInv'
<1>1. /\ host = "wait" /\ cur > Len(sinkHandles)
      /\ host' = "idle" /\ list' = <<>> /\ cur' = 1
      /\ srcHandles' = <<>> /\ sinkHandles' = <<>> /\ made' = <<>>
      /\ UNCHANGED dagVars /\ UNCHANGED <<handleOf, status>>
  BY DEF Return
<1>2. D!IInv'
  BY <1>1, NoWalkStep DEF IInv
<1>3. travDag' = NoDag
  BY <1>1 DEF IInv, HostInv, dagVars
<1>4. /\ handleOf \in [Node -> Nat]
      /\ status \in Seq({"lazy", "waiting", "running", "done"})
  BY DEF IInv, TypeOK
<1>5. \A h \in DOMAIN status : status[h] = "done"
  BY <1>1, AllDone DEF IsDone
<1>6. TypeOK' /\ HostInv' /\ MadeInv' /\ StatusInv'
  BY <1>1, <1>3, <1>4, <1>5, IdleInv
<1> QED
  BY <1>2, <1>6 DEF IInv

-----------------------------------------------------------------------------
(* The theorems.                                                           *)

(* The lists the client may pass.                                          *)
LEMMA ListsPassed ==
  ASSUME IInv
  PROVE  /\ \A d \in Dag : \A k \in 0..MaxEdges :
              [1..k -> D!NodesOf(d)] \subseteq Seq(Node)
         /\ \A k \in 0..MaxList : \A l \in [1..k -> Dag] :
              l \in Seq(Dag) /\ Len(l) <= MaxList
<1>1. ASSUME NEW d \in Dag, NEW k \in 0..MaxEdges, NEW ps \in [1..k -> D!NodesOf(d)]
      PROVE  ps \in Seq(Node)
  <2>1. \A n \in D!NodesOf(d) : n \in Node
    BY Neighbours DEF IInv
  <2>2. k \in Nat
    BY GraphAssumption
  <2>3. ps = [i \in 1..k |-> ps[i]] /\ \A i \in 1..k : ps[i] \in Node
    BY <2>1
  <2> QED
    BY <2>2, <2>3
<1>2. ASSUME NEW k \in 0..MaxList, NEW l \in [1..k -> Dag]
      PROVE  l \in Seq(Dag) /\ Len(l) <= MaxList
  <2>1. k \in Nat /\ k <= MaxList
    BY ListAssumption
  <2>2. l \in Seq(Dag) /\ Len(l) = k
    BY <2>1
  <2> QED
    BY <2>1, <2>2
<1> QED
  BY <1>1, <1>2

(* Every step of the executor, its client and its runtime.                 *)
LEMMA NextInv ==
  ASSUME IInv, [Next]_vars
  PROVE  IInv'
<1>1. CASE Client
  <2>1. CASE \E d \in Dag : \E n \in Node, k \in 0..MaxEdges :
               \E ps \in [1..k -> D!NodesOf(d)] : AddTask(d, n, ps)
    <3>1. \E d \in Dag : \E n \in Node : \E ps \in Seq(Node) : AddTask(d, n, ps)
      BY <2>1, ListsPassed
    <3> QED
      BY <3>1, ClientInv
  <2>2. CASE \E d \in Dag : \/ \E n \in Node : AddNode(d, n)
                            \/ \E a, b \in Node : AddEdge(d, a, b)
                            \/ Clear(d)
    BY <2>2, ClientInv
  <2>3. CASE \E k \in 0..MaxList : \E l \in [1..k -> Dag] : Execute(l)
    BY <2>3, ListsPassed, ExecuteInv
  <2> QED
    BY <1>1, <2>1, <2>2, <2>3 DEF Client
<1>2. CASE Host
  BY <1>2, BeginDagInv, WalkInv, MakeTaskInv, EndDagInv, HostStepInv, ActivateInv, ReturnInv
  DEF Host
<1>3. CASE Runtime
  BY <1>3, StartTaskInv, FinishTaskInv DEF Runtime
<1>4. CASE UNCHANGED vars
  BY <1>4, StutterInv
<1> QED
  BY <1>1, <1>2, <1>3, <1>4 DEF Next

(* Whatever graphs the client builds and changes between its calls, the    *)
(* tasks of executeParallel agree with the nodes as IInv says.             *)
THEOREM Invariance == Spec => []IInv
<1>1. Init => IInv
  BY InitInv
<1>2. IInv /\ [Next]_vars => IInv'
  BY NextInv
<1> QED
  BY <1>1, <1>2, PTL DEF Spec

(* makeTask never makes a task wait for a handle of an earlier call or     *)
(* element, and always for the tasks made of its node's predecessors in    *)
(* the same walk.                                                          *)
THEOREM WaitsForThisWalk == Spec => []RequiresThisWalk
<1>1. IInv => RequiresThisWalk
  BY DEF IInv, MadeInv
<1> QED
  BY <1>1, Invariance, PTL

(* A task runs only after the tasks of all its node's predecessors.        *)
THEOREM PredecessorsFirst == Spec => []RunsAfterPreds
<1>1. IInv => RunsAfterPreds
  <2> SUFFICES ASSUME IInv, NEW h \in Current, status[h] \in {"running", "done"},
                      NEW a \in Range(preds[Task(h).node])
               PROVE  \E r \in SameWalk(h) : Task(r).node = a /\ IsDone(r)
    BY DEF RunsAfterPreds
  <2>1. PICK r \in Task(h).requires : r \in SameWalk(h) /\ Task(r).node = a
    BY DEF IInv, MadeInv, RequiresThisWalk
  <2>2. IsDone(r)
    BY <2>1, RunningRequires
  <2> QED
    BY <2>1, <2>2
<1> QED
  BY <1>1, Invariance, PTL

(* When executeParallel has returned, waiting for the sinks only, no task  *)
(* is left.                                                                *)
THEOREM NothingLeftOnReturn == Spec => []AllDoneOnReturn
<1>1. IInv => AllDoneOnReturn
  <2> SUFFICES ASSUME IInv, host = "idle", NEW h \in DOMAIN status
               PROVE  IsDone(h)
    BY DEF AllDoneOnReturn
  <2>1. TypeOK /\ made = <<>> /\ StatusInv
    BY DEF IInv, HostInv
  <2>2. h \in 1..Old
    BY <2>1, Handles
  <2> QED
    BY <2>1, <2>2 DEF StatusInv
<1> QED
  BY <1>1, Invariance, PTL

-----------------------------------------------------------------------------
(* The executor keeps the promise of TaskExecution.                        *)

(* The job a task does, and what the client can see of its status.         *)
JobOf(h) == <<Task(h).elem, Task(h).node>>
Seen(s)  == IF s = "lazy" THEN "waiting" ELSE s

(* A job of the call is in the state of its task, once that is made.        *)
JobOfTask ==
  /\ JobsOf(list) \subseteq Job
  /\ \A h \in Current : \A j : JobOf(h) = j =>
       j \in JobsOf(list) /\ JobState(j) = Seen(status[h])
  /\ \A j \in JobsOf(list) : (\A h \in Current : JobOf(h) # j) => JobState(j) = "waiting"
  /\ \A j : j \notin JobsOf(list) => JobState(j) = "none"

LEMMA JobOfTaskHolds == IInv => JobOfTask
<1> SUFFICES ASSUME IInv
             PROVE  JobOfTask
  OBVIOUS
<1>1. D!IInv /\ TypeOK /\ MadeInv
  BY DEF IInv
<1>2. \A j : j \in JobsOf(list) <=>
               \E e \in DOMAIN list : \E n \in D!NodesOf(list[e]) : j = <<e, n>>
  BY DEF JobsOf
<1>3. JobsOf(list) \subseteq Job
  <2> SUFFICES ASSUME NEW e \in DOMAIN list, NEW n \in D!NodesOf(list[e])
               PROVE  <<e, n>> \in Job
    BY <1>2
  <2>1. list[e] \in Dag /\ e \in 1..MaxList
    <3>1. list \in Seq(Dag) /\ Len(list) <= MaxList
      BY <1>1 DEF TypeOK
    <3> QED
      BY <3>1, ListAssumption
  <2>2. n \in Node
    BY <1>1, <2>1, Neighbours
  <2> QED
    BY <2>1, <2>2 DEF Job
<1>4. ASSUME NEW j
      PROVE  j \notin JobsOf(list) => JobState(j) = "none"
  BY DEF JobState
<1>5. ASSUME NEW j \in JobsOf(list), \A h \in Current : JobOf(h) # j
      PROVE  JobState(j) = "waiting"
  BY <1>5 DEF JobState, JobOf
<1>6. ASSUME NEW h \in Current
      PROVE  /\ JobOf(h) \in JobsOf(list)
             /\ JobState(JobOf(h)) = Seen(status[h])
  <2>1. JobOf(h) \in JobsOf(list)
    BY <1>1, <1>2 DEF JobOf, MadeInv
  <2>2. {i \in Current : JobOf(i) = JobOf(h)} = {h}
    <3>1. \A i \in Current : JobOf(i) = JobOf(h) => i = h
      BY <1>1 DEF JobOf, MadeInv
    <3> QED
      BY <3>1
  <2>3. status[h] \in {"lazy", "waiting", "running", "done"}
    <3>1. h \in DOMAIN status
      BY <1>1, Handles
    <3> QED
      BY <3>1, RunningRequires
  <2> SUFFICES ASSUME NEW j, j = JobOf(h)
               PROVE  JobState(j) = Seen(status[h])
    BY <2>1
  <2>4. {status[i] : i \in {k \in Current : <<Task(k).elem, Task(k).node>> = j}} = {status[h]}
    BY <2>2 DEF JobOf
  <2> QED
    BY <2>1, <2>3, <2>4 DEF JobState, Seen
<1> QED
  BY <1>3, <1>4, <1>5, <1>6 DEF JobOfTask


LEMMA SameJobs ==
  ASSUME UNCHANGED <<allNodes, preds, list>>
  PROVE  JobsOf(list)' = JobsOf(list) /\ JobDeps' = JobDeps
BY DEF JobsOf, JobDeps, D!NodesOf, D!Range

(* A job whose task looks the same to the client.                          *)
LEMMA JobKept ==
  ASSUME IInv, IInv', UNCHANGED <<allNodes, preds, list, made>>, Len(status') = Len(status),
         NEW j, \A h \in Current : JobOf(h) = j => Seen(status'[h]) = Seen(status[h])
  PROVE  JobState(j)' = JobState(j)
<1>1. Current' = Current /\ \A h : JobOf(h)' = JobOf(h)
  BY SameTasks DEF JobOf
<1>2. JobsOf(list)' = JobsOf(list)
  BY SameJobs
<1>3. JobOfTask /\ JobOfTask'
  BY JobOfTaskHolds, PTL
<1>4. CASE \E h \in Current : JobOf(h) = j
  BY <1>1, <1>3, <1>4 DEF JobOfTask
<1>5. CASE \A h \in Current : JobOf(h) # j
  BY <1>1, <1>2, <1>3, <1>5 DEF JobOfTask
<1> QED
  BY <1>4, <1>5

(* Nothing changes for the client.                                         *)
LEMMA SamePromise ==
  ASSUME IInv, IInv', UNCHANGED <<allNodes, preds, list, made>>, Len(status') = Len(status),
         host' = "idle" <=> host = "idle",
         \A h \in Current : Seen(status'[h]) = Seen(status[h])
  PROVE  UNCHANGED Promise!vars
<1>1. \A j : JobState(j)' = JobState(j)
  BY JobKept
<1>2. JobDeps' = JobDeps
  BY SameJobs
<1> QED
  BY <1>1, <1>2 DEF Promise!vars

(* Between two calls there are no jobs.                                    *)
LEMMA NoJobs ==
  ASSUME list = <<>>
  PROVE  (\A j : JobState(j) = "none") /\ JobDeps = {}
<1>1. JobsOf(list) = {}
  BY DEF JobsOf
<1> QED
  BY <1>1 DEF JobState, JobDeps

LEMMA NoJobsNext ==
  ASSUME list' = <<>>
  PROVE  (\A j : JobState(j)' = "none") /\ JobDeps' = {}
<1>1. JobsOf(list)' = {}
  BY DEF JobsOf
<1> QED
  BY <1>1 DEF JobState, JobDeps

LEMMA ClientPromise ==
  ASSUME host = "idle", host' = "idle", list = <<>>, list' = <<>>
  PROVE  UNCHANGED Promise!vars
BY NoJobs, NoJobsNext DEF Promise!vars

LEMMA ExecutePromise ==
  ASSUME IInv, NEW l \in Seq(Dag), Execute(l), IInv'
  PROVE  Promise!Submit
<1>1. /\ host = "idle" /\ host' = "make" /\ list' = l /\ made = <<>>
      /\ UNCHANGED dagVars /\ UNCHANGED <<status, made>>
  BY DEF Execute, IInv, HostInv
<1>2. \A h : h \notin Current'
  <2>1. Len(status) \in Nat
    BY RunningRequires
  <2> QED
    BY <1>1, <2>1 DEF Current, Old
<1>3. JobOfTask'
  BY JobOfTaskHolds, PTL
<1>4. \A j : JobState(j)' = IF j \in JobsOf(list)' THEN "waiting" ELSE "none"
  BY <1>2, <1>3 DEF JobOfTask
<1>5. \A e \in JobDeps' : e \in JobsOf(list)' \X JobsOf(list)'
  <2>1. \A j : j \in JobsOf(list)' <=>
                 \E i \in DOMAIN l : \E n \in D!NodesOf(l[i]) : j = <<i, n>>
    BY <1>1 DEF JobsOf, D!NodesOf, D!Range, dagVars
  <2>2. preds' = preds
    BY <1>1 DEF dagVars
  <2> SUFFICES ASSUME NEW i \in DOMAIN l, NEW n \in D!NodesOf(l[i]), NEW a \in Range(preds[n])
               PROVE  <<<<i, a>>, <<i, n>>>> \in JobsOf(list)' \X JobsOf(list)'
    BY <2>1, <2>2 DEF JobDeps
  <2>3. a \in D!NodesOf(l[i])
    BY Neighbours DEF IInv
  <2> QED
    BY <2>1, <2>3
<1> QED
  BY <1>1, <1>3, <1>4, <1>5 DEF Promise!Submit, JobOfTask

LEMMA MakeTaskPromise ==
  ASSUME IInv, MakeTask, IInv'
  PROVE  UNCHANGED Promise!vars
<1> SUFFICES ASSUME NEW n, n = Last(nodeQ), NEW h, h = Len(status) + 1
             PROVE  UNCHANGED Promise!vars
  OBVIOUS
<1>1. /\ D!IInv /\ TypeOK /\ host = "make" /\ host' = "make" /\ D!Visit /\ list' = list
  BY DEF IInv, MakeTask
<1>2. n \in Node /\ UNCHANGED <<allNodes, preds>>
  BY <1>1, VisitStep
<1>3. /\ PredHandles(n) \subseteq Current
      /\ \A r \in Current : Task(r).elem = cur => Task(r).node # n
  BY <1>1, PredHandlesThisWalk
<1>4. \A r \in Current : r \in Nat /\ r \in DOMAIN status
  BY <1>1, Handles
<1>5. PredHandles(n) \subseteq Nat
  BY <1>3, <1>4
<1>6. /\ Current' = Current \cup {h}
      /\ \A i \in Current : Task(i)' = Task(i)
      /\ Task(h)' = [node |-> n, elem |-> cur, requires |-> PredHandles(n)]
      /\ \A i \in DOMAIN status : status'[i] = status[i]
      /\ status'[h] \in {"lazy", "waiting"}
  BY <1>1, <1>2, <1>5, NewTask
<1>7. JobOfTask /\ JobOfTask'
  BY JobOfTaskHolds, PTL
<1>8. JobsOf(list)' = JobsOf(list) /\ JobDeps' = JobDeps
  BY <1>1, <1>2, SameJobs
<1>9. JobOf(h)' = <<cur, n>> /\ \A i \in Current : JobOf(i)' = JobOf(i) /\ JobOf(i) # <<cur, n>>
  BY <1>3, <1>6 DEF JobOf
<1>10. ASSUME NEW j
       PROVE  JobState(j)' = JobState(j)
  <2>1. CASE j = <<cur, n>>
    <3>1. j \in JobsOf(list)' /\ JobState(j)' = "waiting"
      BY <1>6, <1>7, <1>9, <2>1 DEF JobOfTask, Seen
    <3>2. JobState(j) = "waiting"
      BY <1>7, <1>8, <1>9, <2>1, <3>1 DEF JobOfTask
    <3> QED
      BY <3>1, <3>2
  <2>2. CASE \E i \in Current : JobOf(i) = j
    <3>1. PICK i \in Current : JobOf(i) = j
      BY <2>2
    <3>2. i \in Current' /\ JobOf(i)' = j /\ status'[i] = status[i]
      BY <1>4, <1>6, <1>9, <3>1
    <3> QED
      BY <1>7, <3>1, <3>2 DEF JobOfTask
  <2>3. CASE j # <<cur, n>> /\ \A i \in Current : JobOf(i) # j
    <3>1. \A i \in Current' : JobOf(i)' # j
      BY <1>6, <1>9, <2>3
    <3> QED
      BY <1>7, <1>8, <2>3, <3>1 DEF JobOfTask
  <2> QED
    BY <2>1, <2>2, <2>3
<1> QED
  BY <1>1, <1>8, <1>10 DEF Promise!vars

(* A step of task h is a step of its job, and of no other.                 *)
LEMMA TaskPromise ==
  ASSUME IInv, IInv', NEW h \in Current, StartTask(h) \/ FinishTask(h), NEW j, j = JobOf(h)
  PROVE  /\ j \in Job
         /\ JobState(j) = status[h] /\ JobState(j)' = status'[h]
         /\ [i \in Job |-> JobState(i)]'
              = [[i \in Job |-> JobState(i)] EXCEPT ![j] = status'[h]]
         /\ host # "idle" /\ host' = host
         /\ JobDeps' = JobDeps
<1>1. /\ UNCHANGED dagVars
      /\ UNCHANGED <<host, list, made>>
      /\ \E s \in {"running", "done"} : status' = [status EXCEPT ![h] = s]
      /\ status[h] \in {"waiting", "running"}
  BY DEF StartTask, FinishTask
<1>2. TypeOK /\ HostInv /\ MadeInv /\ UNCHANGED <<allNodes, preds>>
  BY <1>1 DEF IInv, dagVars
<1>3. h \in DOMAIN status /\ status \in Seq({"lazy", "waiting", "running", "done"})
      /\ \A i \in Current : i \in DOMAIN status
  BY <1>2, Handles, RunningRequires
<1>4. /\ Len(status') = Len(status)
      /\ status'[h] \in {"running", "done"}
      /\ \A i \in Current : i # h => status'[i] = status[i]
  BY <1>1, <1>3
<1>5. Current' = Current /\ \A i : JobOf(i)' = JobOf(i)
  BY <1>1, <1>4, SameTasks DEF JobOf
<1>6. JobOfTask /\ JobOfTask'
  BY JobOfTaskHolds, PTL
<1>7. j \in Job /\ JobState(j) = status[h] /\ JobState(j)' = status'[h]
  BY <1>1, <1>4, <1>5, <1>6 DEF JobOfTask, Seen
<1>8. ASSUME NEW i, i # j
      PROVE  JobState(i)' = JobState(i)
  <2>1. \A k \in Current : JobOf(k) = i => Seen(status'[k]) = Seen(status[k])
    BY <1>4, <1>8 DEF Seen
  <2> QED
    BY <1>1, <1>2, <1>4, <2>1, JobKept
<1>9. host # "idle"
  <2>1. Task(h).elem \in DOMAIN list
    BY <1>2 DEF MadeInv
  <2> QED
    BY <1>2, <2>1 DEF HostInv
<1>10. JobDeps' = JobDeps
  BY <1>1, <1>2, SameJobs
<1> QED
  BY <1>1, <1>7, <1>8, <1>9, <1>10

LEMMA StartTaskPromise ==
  ASSUME IInv, NEW h \in Current, StartTask(h), IInv'
  PROVE  Promise!Start(JobOf(h))
<1> SUFFICES ASSUME NEW j, j = JobOf(h)
             PROVE  Promise!Start(j)
  OBVIOUS
<1>1. /\ j \in Job
      /\ JobState(j) = status[h]
      /\ [i \in Job |-> JobState(i)]'
           = [[i \in Job |-> JobState(i)] EXCEPT ![j] = status'[h]]
      /\ host # "idle" /\ host' = host
      /\ JobDeps' = JobDeps
  BY TaskPromise
<1>2. h \in DOMAIN status
  BY Handles DEF IInv
<1>3. status[h] = "waiting" /\ status'[h] = "running"
  BY <1>2 DEF StartTask
<1>4. ASSUME NEW i \in Job, <<i, j>> \in JobDeps
      PROVE  JobState(i) = "done"
  <2>1. j[1] = Task(h).elem /\ j[2] = Task(h).node
    BY DEF JobOf
  <2>2. PICK a \in Range(preds[j[2]]) : i = <<j[1], a>>
    BY <1>4 DEF JobDeps
  <2>3. PICK r \in Task(h).requires :
          r \in Current /\ Task(r).elem = Task(h).elem /\ Task(r).node = a
    BY <2>1, <2>2 DEF IInv, MadeInv, RequiresThisWalk, SameWalk
  <2>4. status[r] = "done"
    BY <2>3, RequiresCurrent DEF IInv, StartTask, IsDone
  <2>5. JobOf(r) = i
    BY <2>1, <2>2, <2>3 DEF JobOf
  <2> QED
    BY <2>3, <2>4, <2>5, JobOfTaskHolds DEF JobOfTask, Seen
<1> QED
  BY <1>1, <1>3, <1>4 DEF Promise!Start

LEMMA FinishTaskPromise ==
  ASSUME IInv, NEW h \in Current, FinishTask(h), IInv'
  PROVE  Promise!Finish(JobOf(h))
<1> SUFFICES ASSUME NEW j, j = JobOf(h)
             PROVE  Promise!Finish(j)
  OBVIOUS
<1>1. /\ j \in Job
      /\ JobState(j) = status[h]
      /\ [i \in Job |-> JobState(i)]'
           = [[i \in Job |-> JobState(i)] EXCEPT ![j] = status'[h]]
      /\ host # "idle" /\ host' = host
      /\ JobDeps' = JobDeps
  BY TaskPromise
<1>2. h \in DOMAIN status
  BY Handles DEF IInv
<1>3. status[h] = "running" /\ status'[h] = "done"
  BY <1>2 DEF FinishTask
<1> QED
  BY <1>1, <1>3 DEF Promise!Finish

LEMMA ReturnPromise ==
  ASSUME IInv, Return
  PROVE  Promise!Return
<1>1. /\ host = "wait" /\ cur > Len(sinkHandles) /\ host' = "idle" /\ list' = <<>>
  BY DEF Return
<1>2. ASSUME NEW j
      PROVE  JobState(j) \in {"none", "done"}
  <2>1. JobOfTask
    BY JobOfTaskHolds
  <2>2. CASE j \in JobsOf(list)
    <3>1. PICK e \in DOMAIN list : \E n \in D!NodesOf(list[e]) : j = <<e, n>>
      BY <2>2 DEF JobsOf
    <3>2. PICK h \in Current : JobOf(h) = j
      BY <1>1, <3>1 DEF IInv, MadeInv, WalkedAll, JobOf
    <3>3. h \in DOMAIN status
      BY Handles DEF IInv
    <3>4. status[h] = "done"
      BY <1>1, <3>3, AllDone DEF IsDone
    <3> QED
      BY <2>1, <3>2, <3>4 DEF JobOfTask, Seen
  <2>3. CASE j \notin JobsOf(list)
    BY <2>1, <2>3 DEF JobOfTask
  <2> QED
    BY <2>2, <2>3
<1>3. (\A j : JobState(j)' = "none") /\ JobDeps' = {}
  BY <1>1, NoJobsNext
<1> QED
  BY <1>1, <1>2, <1>3 DEF Promise!Return

(* The steps of the calling thread that the client does not see.           *)
LEMMA HostPromise ==
  ASSUME IInv, IInv',
         BeginDag \/ Walk \/ EndDag \/ MadeAll \/ Activate \/ ActivatedAll \/ WaitSink
  PROVE  UNCHANGED Promise!vars
<1>1. UNCHANGED <<list, made>> /\ host # "idle" /\ host' # "idle"
  BY DEF BeginDag, Walk, EndDag, MadeAll, Activate, ActivatedAll, WaitSink, execVars
<1>2. UNCHANGED <<allNodes, preds>>
  BY DEF BeginDag, Walk, EndDag, MadeAll, Activate, ActivatedAll, WaitSink, dagVars,
         D!TopoBegin, D!ScanNode, D!DecrementSucc, D!TopoEnd, D!graphVars
<1>3. CASE ~Activate
  <2>1. status' = status
    BY <1>3 DEF BeginDag, Walk, EndDag, MadeAll, ActivatedAll, WaitSink, execVars
  <2> QED
    BY <1>1, <1>2, <2>1, SamePromise
<1>4. CASE Activate
  <2>1. status \in Seq({"lazy", "waiting", "running", "done"})
    BY RunningRequires
  <2> SUFFICES ASSUME NEW g, g = srcHandles[cur]
               PROVE  UNCHANGED Promise!vars
    OBVIOUS
  <2>2. status' = [status EXCEPT ![g] = IF status[g] = "lazy" THEN "waiting" ELSE status[g]]
    BY <1>4 DEF Activate
  <2>3. Len(status') = Len(status)
    BY <2>1, <2>2
  <2>4. \A h \in Current : h \in DOMAIN status
    BY Handles DEF IInv
  <2>5. \A h \in Current : Seen(status'[h]) = Seen(status[h])
    BY <2>1, <2>2, <2>4 DEF Seen
  <2> QED
    BY <1>1, <1>2, <2>3, <2>5, SamePromise
<1> QED
  BY <1>3, <1>4

(* executeParallel submits the nodes of its list as jobs, runs each once   *)
(* and after those it depends on, and returns when all have run.           *)
THEOREM Refinement == Spec => KeepsPromise
<1>1. Init => Promise!Init
  <2> SUFFICES ASSUME Init PROVE Promise!Init
    OBVIOUS
  <2>1. host = "idle" /\ list = <<>>
    BY DEF Init
  <2> QED
    BY <2>1, NoJobs DEF Promise!Init
<1>2. IInv /\ IInv' /\ [Next]_vars => [Promise!Next]_(Promise!vars)
  <2> SUFFICES ASSUME IInv, IInv', [Next]_vars
               PROVE  Promise!Next \/ UNCHANGED Promise!vars
    OBVIOUS
  <2>1. CASE \E d \in Dag : \/ \E n \in Node : AddNode(d, n)
                            \/ \E a, b \in Node : AddEdge(d, a, b)
                            \/ \E n \in Node, k \in 0..MaxEdges :
                                 \E ps \in [1..k -> D!NodesOf(d)] : AddTask(d, n, ps)
                            \/ Clear(d)
    <3>1. host = "idle" /\ host' = "idle" /\ list' = list
      BY <2>1 DEF AddNode, AddEdge, AddTask, Clear, execVars
    <3>2. list = <<>>
      BY <3>1 DEF IInv, HostInv
    <3> QED
      BY <3>1, <3>2, ClientPromise
  <2>2. CASE \E k \in 0..MaxList : \E l \in [1..k -> Dag] : Execute(l)
    <3>1. \E l \in Seq(Dag) : Execute(l)
      BY <2>2, ListsPassed
    <3> QED
      BY <3>1, ExecutePromise DEF Promise!Next
  <2>3. CASE MakeTask
    BY <2>3, MakeTaskPromise
  <2>4. CASE BeginDag \/ Walk \/ EndDag \/ MadeAll \/ Activate \/ ActivatedAll \/ WaitSink
    BY <2>4, HostPromise
  <2>5. CASE Return
    BY <2>5, ReturnPromise DEF Promise!Next
  <2>6. CASE Runtime
    <3>1. PICK h \in Current : StartTask(h) \/ FinishTask(h)
      BY <2>6 DEF Runtime
    <3>2. JobOf(h) \in Job
      BY JobOfTaskHolds DEF JobOfTask
    <3> QED
      BY <3>1, <3>2, StartTaskPromise, FinishTaskPromise DEF Promise!Next
  <2>7. CASE UNCHANGED vars
    <3>1. UNCHANGED <<allNodes, preds, list, made, status, host>>
      BY <2>7 DEF vars
    <3> QED
      BY <3>1, SamePromise
  <2> QED
    BY <2>1, <2>2, <2>3, <2>4, <2>5, <2>6, <2>7 DEF Next, Client, Host
<1> QED
  BY <1>1, <1>2, Invariance, PTL DEF Spec, KeepsPromise, Promise!Spec
=============================================================================
