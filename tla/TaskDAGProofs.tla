---------------------------- MODULE TaskDAGProofs ----------------------------
(***************************************************************************)
(* Proofs about TaskDAG, for every set of DAGs and nodes and every bound.  *)
(***************************************************************************)
EXTENDS TaskDAG, ListLemmas, FiniteSetTheorems

(* Type correctness, one lemma per action that walks a list.               *)
LEMMA ScanNodeType ==
  ASSUME TypeOK, ScanNode
  PROVE  TypeOK'
<1> DEFINE p == allNodes[travDag][pos]
<1>1. /\ UNCHANGED <<allNodes, succs, preds, numPred, travDag, visited>>
      /\ phase = "scan" /\ phase' \in {"pop", "scan"}
  BY DEF ScanNode, graphVars
<1>2. travDag \in Dag /\ pos \in DOMAIN allNodes[travDag] /\ allNodes[travDag] \in Seq(Node)
  BY <1>1 DEF TypeOK
<1>3. pos \in 1..Len(allNodes[travDag]) /\ Len(allNodes[travDag]) \in Nat /\ p \in Node
  BY <1>2
<1>4. nodeQ' \in Seq(Node)
  <2>1. nodeQ' = Append(nodeQ, p) \/ nodeQ' = nodeQ
    BY DEF ScanNode
  <2>2. nodeQ \in Seq(Node)
    BY DEF TypeOK
  <2> QED
    BY <1>3, <2>1, <2>2
<1>5. depCounter' \in [Node -> Nat]
  <2>1. depCounter' = [depCounter EXCEPT ![p] = numPred[p]]
    BY DEF ScanNode, ResetDepCounter
  <2>2. depCounter \in [Node -> Nat] /\ numPred \in [Node -> Nat]
    BY DEF TypeOK
  <2> QED
    BY <1>3, <2>1, <2>2
<1>6. pos' \in Nat \ {0} /\ (phase' = "scan" => pos' \in 1..Len(allNodes[travDag]))
  <2>1. \/ pos = Len(allNodes[travDag]) /\ phase' = "pop" /\ pos' = 1
        \/ pos # Len(allNodes[travDag]) /\ pos' = pos + 1
    BY DEF ScanNode
  <2> QED
    BY <1>3, <2>1
<1>7. phase' = "scan" => pos' \in DOMAIN allNodes'[travDag']
  BY <1>1, <1>2, <1>6
<1> QED
  BY <1>1, <1>4, <1>5, <1>6, <1>7 DEF TypeOK

LEMMA VisitType ==
  ASSUME TypeOK, Visit
  PROVE  TypeOK'
<1>1. /\ UNCHANGED <<allNodes, succs, preds, numPred, depCounter, travDag>>
      /\ phase = "pop" /\ phase' \in {"pop", "succ"}
      /\ pos' = 1
      /\ nodeQ # <<>>
      /\ nodeQ' = Front(nodeQ)
      /\ visited' = Append(visited, Last(nodeQ))
  BY DEF Visit, graphVars
<1>2. nodeQ \in Seq(Node) /\ visited \in Seq(Node) /\ succs \in [Node -> Seq(Node)]
  BY DEF TypeOK
<1>3. Front(nodeQ) \in Seq(Node) /\ Last(nodeQ) \in Node
  BY <1>1, <1>2, FrontProperties
<1>4. /\ visited' \in Seq(Node)
      /\ visited' # <<>>
      /\ Last(visited') = Last(nodeQ)
  BY <1>1, <1>2, <1>3, AppendLastRange
<1>5. phase' = "succ" => 1 \in DOMAIN succs[Last(nodeQ)]
  <2>1. phase' = "succ" => succs[Last(nodeQ)] # <<>>
    BY DEF Visit, IsSink
  <2>2. succs[Last(nodeQ)] \in Seq(Node)
    BY <1>2, <1>3
  <2> QED
    BY <2>1, <2>2
<1>6. phase' = "succ" => pos' \in DOMAIN succs'[Last(visited')]
  BY <1>1, <1>4, <1>5
<1>7. nodeQ' \in Seq(Node) /\ pos' \in Nat \ {0}
  BY <1>1, <1>3
<1> QED
  BY <1>1, <1>4, <1>6, <1>7 DEF TypeOK

LEMMA DecrementSuccType ==
  ASSUME TypeOK, DecrementSucc
  PROVE  TypeOK'
<1> DEFINE p == Last(visited)
<1> DEFINE d == succs[p][pos]
<1>1. /\ UNCHANGED <<allNodes, succs, preds, numPred, travDag, visited>>
      /\ phase = "succ" /\ phase' \in {"pop", "succ"}
  BY DEF DecrementSucc, graphVars
<1>2. /\ visited \in Seq(Node) /\ visited # <<>>
      /\ pos \in DOMAIN succs[p]
      /\ succs \in [Node -> Seq(Node)]
      /\ nodeQ \in Seq(Node)
      /\ depCounter \in [Node -> Nat]
  BY <1>1 DEF TypeOK
<1>3. p \in Node
  BY <1>2, FrontProperties
<1>4. succs[p] \in Seq(Node)
  BY <1>2, <1>3
<1>5. Len(succs[p]) \in Nat /\ pos \in 1..Len(succs[p]) /\ d \in Node
  <2>1. \A q \in Seq(Node) : /\ Len(q) \in Nat /\ DOMAIN q = 1..Len(q)
                             /\ \A i \in DOMAIN q : q[i] \in Node
    OBVIOUS
  <2> QED
    BY <1>2, <1>4, <2>1, Zenon
<1>6. depCounter' \in [Node -> Nat]
  <2>1. Decremented(depCounter[d]) \in Nat
    BY <1>2, <1>5, CounterAssumption DEF Decremented
  <2>2. depCounter' = [depCounter EXCEPT ![d] = Decremented(depCounter[d])]
    BY DEF DecrementSucc
  <2> QED
    BY <1>2, <2>1, <2>2
<1>7. nodeQ' \in Seq(Node)
  <2>1. nodeQ' = Append(nodeQ, d) \/ nodeQ' = nodeQ
    BY DEF DecrementSucc
  <2>2. nodeQ \in Seq(Node) /\ d \in Node
    BY <1>2, <1>5
  <2> HIDE DEF d
  <2> QED
    BY <2>1, <2>2
<1>8. pos' \in Nat \ {0} /\ (phase' = "succ" => pos' \in 1..Len(succs[p]))
  <2>1. \/ pos = Len(succs[p]) /\ phase' = "pop" /\ pos' = 1
        \/ pos # Len(succs[p]) /\ pos' = pos + 1
    BY DEF DecrementSucc
  <2> QED
    BY <1>5, <2>1
<1>9. phase' = "succ" => pos' \in DOMAIN succs'[Last(visited')]
  BY <1>1, <1>4, <1>8
<1> QED
  BY <1>1, <1>2, <1>6, <1>7, <1>8, <1>9 DEF TypeOK

LEMMA AddEdgeType ==
  ASSUME TypeOK, NEW d \in Dag, NEW a \in Node, NEW b \in Node, AddEdge(d, a, b)
  PROVE  TypeOK'
<1>1. /\ UNCHANGED <<allNodes, depCounter, travDag, phase, pos, nodeQ, visited>>
      /\ travDag = NoDag
      /\ succs'   = [succs EXCEPT ![a] = Append(succs[a], b)]
      /\ preds'   = [preds EXCEPT ![b] = Append(preds[b], a)]
      /\ numPred' = [numPred EXCEPT ![b] = numPred[b] + 1]
  BY DEF AddEdge, LinkEdge, travVars
<1>2. succs \in [Node -> Seq(Node)] /\ preds \in [Node -> Seq(Node)] /\ numPred \in [Node -> Nat]
  BY DEF TypeOK
<1>3. Append(succs[a], b) \in Seq(Node) /\ Append(preds[b], a) \in Seq(Node)
  BY <1>2
<1>4. succs' \in [Node -> Seq(Node)] /\ preds' \in [Node -> Seq(Node)]
  BY <1>1, <1>2, <1>3
<1>5. numPred' \in [Node -> Nat]
  BY <1>1, <1>2
<1>6. phase = "idle"
  BY <1>1 DEF TypeOK
<1> QED
  BY <1>1, <1>4, <1>5, <1>6 DEF TypeOK

LEMMA TypeStep == TypeOK /\ [Next]_vars => TypeOK'
<1> SUFFICES ASSUME TypeOK, [Next]_vars
             PROVE  TypeOK'
  OBVIOUS
<1>1. ASSUME NEW d \in Dag, NEW n \in Node, AddNode(d, n)
      PROVE  TypeOK'
  <2>1. Append(allNodes[d], n) \in Seq(Node)
    BY DEF TypeOK
  <2>2. allNodes' \in [Dag -> Seq(Node)]
    BY <1>1, <2>1 DEF AddNode, TypeOK
  <2>3. phase = "idle" /\ travDag = NoDag
    BY <1>1 DEF AddNode, TypeOK
  <2>4. succs' \in [Node -> Seq(Node)] /\ preds' \in [Node -> Seq(Node)]
    BY <1>1 DEF AddNode, TypeOK
  <2>5. numPred' \in [Node -> Nat] /\ depCounter' \in [Node -> Nat]
    BY <1>1 DEF AddNode, TypeOK
  <2> QED
    BY <1>1, <2>2, <2>3, <2>4, <2>5 DEF AddNode, TypeOK
<1>2. ASSUME NEW d \in Dag, Clear(d)
      PROVE  TypeOK'
  <2>1. phase = "idle" /\ travDag = NoDag
    BY <1>2 DEF Clear, TypeOK
  <2>2. /\ allNodes' \in [Dag -> Seq(Node)]
        /\ succs' \in [Node -> Seq(Node)]
        /\ preds' \in [Node -> Seq(Node)]
        /\ numPred' \in [Node -> Nat]
    BY <1>2 DEF Clear, TypeOK
  <2> QED
    BY <1>2, <2>1, <2>2 DEF Clear, TypeOK, travVars
<1>3. ASSUME NEW d \in Dag, TopoBegin(d)
      PROVE  TypeOK'
  <2>1. allNodes[d] \in Seq(Node)
    BY DEF TypeOK
  <2>2. phase' = "scan" => 1 \in DOMAIN allNodes[d]
    BY <1>3, <2>1 DEF TopoBegin
  <2> QED
    BY <1>3, <2>2, NoDagAssumption DEF TopoBegin, TypeOK, graphVars
<1>4. CASE TopoEnd
  BY <1>4, NoDagAssumption DEF TopoEnd, TypeOK, graphVars
<1>5. CASE UNCHANGED vars
  BY <1>5 DEF vars, TypeOK
<1> QED
  BY <1>1, <1>2, <1>3, <1>4, <1>5,
     AddEdgeType, ScanNodeType, VisitType, DecrementSuccType
  DEF Next, Build, Traverse, AddEdgeIfAbsent

THEOREM TypeCorrect == Spec => []TypeOK
<1>1. Init => TypeOK
  BY NoDagAssumption DEF Init, TypeOK
<1> QED
  BY <1>1, TypeStep, PTL DEF Spec

-----------------------------------------------------------------------------
(* Building a graph keeps GraphInv.                                        *)

(* An element that does not occur occurs zero times, and appending one adds *)
(* one occurrence of it and none of another.                               *)
LEMMA OccurrencesNone ==
  ASSUME NEW S, NEW s \in Seq(S), NEW x, x \notin Range(s)
  PROVE  Occurrences(s, x) = 0
<1>1. {i \in DOMAIN s : s[i] = x} = {}
  BY DEF Range
<1> QED
  BY <1>1, FS_EmptySet DEF Occurrences

LEMMA OccurrencesAppend ==
  ASSUME NEW S, NEW s \in Seq(S), NEW x \in S, NEW y
  PROVE  Occurrences(Append(s, x), y) = Occurrences(s, y) + (IF x = y THEN 1 ELSE 0)
<1> DEFINE at == {i \in DOMAIN s : s[i] = y}
<1> DEFINE at1 == {i \in DOMAIN Append(s, x) : Append(s, x)[i] = y}
<1>1. Len(s) \in Nat /\ DOMAIN s = 1..Len(s)
  OBVIOUS
<1>2. IsFiniteSet(at) /\ Len(s) + 1 \notin at
  <2>1. IsFiniteSet(1..Len(s))
    BY <1>1, FS_Interval
  <2>2. at \subseteq 1..Len(s)
    BY <1>1
  <2> QED
    BY <1>1, <2>1, <2>2, FS_Subset
<1>3. Cardinality(at) \in Nat /\ Cardinality(at \cup {Len(s) + 1}) = Cardinality(at) + 1
  BY <1>2, FS_AddElement, FS_CardinalityType
<1>4. at1 = IF x = y THEN at \cup {Len(s) + 1} ELSE at
  <2>1. /\ DOMAIN Append(s, x) = 1..(Len(s) + 1)
        /\ \A i \in 1..Len(s) : Append(s, x)[i] = s[i]
        /\ Append(s, x)[Len(s) + 1] = x
    BY <1>1
  <2>2. \A i : i \in 1..(Len(s) + 1) <=> i \in 1..Len(s) \/ i = Len(s) + 1
    BY <1>1
  <2>3. Len(s) + 1 \notin 1..Len(s)
    BY <1>1
  <2> QED
    BY <1>1, <2>1, <2>2, <2>3
<1>5. Occurrences(s, y) = Cardinality(at) /\ Occurrences(Append(s, x), y) = Cardinality(at1)
  BY DEF Occurrences
<1> HIDE DEF at, at1
<1> QED
  BY <1>3, <1>4, <1>5

LEMMA OccurrencesNat ==
  ASSUME NEW S, NEW s \in Seq(S), NEW x
  PROVE  Occurrences(s, x) \in Nat
<1>1. IsFiniteSet(1..Len(s)) /\ DOMAIN s = 1..Len(s)
  BY FS_Interval
<1>2. IsFiniteSet({i \in DOMAIN s : s[i] = x})
  BY <1>1, FS_Subset
<1> QED
  BY <1>2, FS_CardinalityType DEF Occurrences

(* An element of InEdges(n) is the position of n in some successor list.   *)
LEMMA InEdgesForm ==
  ASSUME NEW n, NEW e
  PROVE  e \in InEdges(n) <=>
           \E a \in Node : \E i \in DOMAIN succs[a] : e = <<a, i>> /\ succs[a][i] = n
BY DEF InEdges, Edges

LEMMA InEdgesFormNext ==
  ASSUME NEW n, NEW e
  PROVE  e \in InEdges(n)' <=>
           \E a \in Node : \E i \in DOMAIN succs'[a] : e = <<a, i>> /\ succs'[a][i] = n
BY DEF InEdges, Edges

(* What AddNode makes of the lists of the new node is what they were.      *)
LEMMA AddNodeGraph ==
  ASSUME TypeOK, GraphInv, NEW d \in Dag, NEW n \in Node, AddNode(d, n)
  PROVE  GraphInv'
<1>1. /\ allNodes' = [allNodes EXCEPT ![d] = Append(@, n)]
      /\ succs'    = [succs EXCEPT ![n] = <<>>]
      /\ preds'    = [preds EXCEPT ![n] = <<>>]
      /\ numPred'  = [numPred EXCEPT ![n] = 0]
      /\ \A c \in Dag : n \notin NodesOf(c)
  BY DEF AddNode, LiveNodes
<1>2. /\ allNodes \in [Dag -> Seq(Node)]
      /\ succs \in [Node -> Seq(Node)]
      /\ preds \in [Node -> Seq(Node)]
      /\ numPred \in [Node -> Nat]
  BY DEF TypeOK
<1>3. \A a, b \in Node : b \in Range(succs[a]) => a # n /\ b # n
  BY <1>1 DEF GraphInv, EdgesWithinDag
<1>4. \A a, b \in Node : a \in Range(preds[b]) => a # n /\ b # n
  BY <1>3 DEF GraphInv
<1>5. succs[n] = <<>>
  <2>1. succs[n] \in Seq(Node)
    BY <1>2
  <2> QED
    BY <1>3, <2>1 DEF Range
<1>6. preds[n] = <<>>
  <2>1. preds[n] \in Seq(Node)
    BY <1>2
  <2> QED
    BY <1>4, <2>1 DEF Range
<1>7. numPred[n] = 0
  BY <1>6 DEF GraphInv, AdjacencyMirrored
<1>8. UNCHANGED <<succs, preds, numPred>>
  BY <1>1, <1>2, <1>5, <1>6, <1>7
<1>9. /\ NodesOf(d)' = NodesOf(d) \cup {n}
      /\ \A c \in Dag \ {d} : NodesOf(c)' = NodesOf(c)
  <2>1. allNodes[d] \in Seq(Node)
    BY <1>2
  <2>2. Range(Append(allNodes[d], n)) = Range(allNodes[d]) \cup {n}
    BY <2>1, AppendLastRange
  <2> QED
    BY <1>1, <1>2, <2>2 DEF NodesOf
<1>10. NodesOnce'
  <2>1. IsInjective(Append(allNodes[d], n))
    BY <1>1, <1>2, InjectiveAppend DEF GraphInv, NodesOnce, NodesOf
  <2>2. \A c \in Dag : IsInjective(allNodes'[c])
    BY <1>1, <1>2, <2>1 DEF GraphInv, NodesOnce
  <2> QED
    BY <1>1, <1>9, <2>2 DEF GraphInv, NodesOnce
<1>11. EdgesWithinDag'
  BY <1>8, <1>9 DEF GraphInv, EdgesWithinDag
<1> QED
  BY <1>8, <1>10, <1>11 DEF GraphInv, AdjacencyMirrored, Occurrences, InEdges, Edges

LEMMA AddEdgeGraph ==
  ASSUME TypeOK, GraphInv, NEW d \in Dag, NEW a \in Node, NEW b \in Node, AddEdge(d, a, b)
  PROVE  GraphInv'
<1>1. /\ UNCHANGED allNodes
      /\ succs'   = [succs EXCEPT ![a] = Append(succs[a], b)]
      /\ preds'   = [preds EXCEPT ![b] = Append(preds[b], a)]
      /\ numPred' = [numPred EXCEPT ![b] = numPred[b] + 1]
      /\ {a, b} \subseteq NodesOf(d)
  BY DEF AddEdge, LinkEdge, travVars
<1>2. /\ succs \in [Node -> Seq(Node)]
      /\ preds \in [Node -> Seq(Node)]
      /\ numPred \in [Node -> Nat]
  BY DEF TypeOK
<1>3. succs[a] \in Seq(Node) /\ preds[b] \in Seq(Node)
  BY <1>2
<1>4. /\ Range(succs'[a]) = Range(succs[a]) \cup {b}
      /\ \A x \in Node \ {a} : succs'[x] = succs[x]
  BY <1>1, <1>2, <1>3, AppendLastRange
<1>5. /\ Range(preds'[b]) = Range(preds[b]) \cup {a}
      /\ \A x \in Node \ {b} : preds'[x] = preds[x]
  BY <1>1, <1>2, <1>3, AppendLastRange
<1>6. NodesOnce'
  BY <1>1 DEF GraphInv, NodesOnce, NodesOf
<1>7. EdgesWithinDag'
  <2> SUFFICES ASSUME NEW x \in Node, NEW y \in Node, y \in Range(succs'[x])
               PROVE  \E c \in Dag : {x, y} \subseteq NodesOf(c)'
    BY DEF EdgesWithinDag
  <2>1. NodesOf(d)' = NodesOf(d) /\ \A c \in Dag : NodesOf(c)' = NodesOf(c)
    BY <1>1 DEF NodesOf
  <2>2. CASE y \in Range(succs[x])
    BY <2>1, <2>2 DEF GraphInv, EdgesWithinDag
  <2>3. CASE x = a /\ y = b
    BY <1>1, <2>1, <2>3
  <2> QED
    BY <1>4, <2>2, <2>3
<1>8. \A x, y \in Node : y \in Range(succs'[x]) <=> x \in Range(preds'[y])
  <2>1. \A x, y \in Node : y \in Range(succs'[x]) <=> y \in Range(succs[x]) \/ (x = a /\ y = b)
    BY <1>4
  <2>2. \A x, y \in Node : x \in Range(preds'[y]) <=> x \in Range(preds[y]) \/ (x = a /\ y = b)
    BY <1>5
  <2> QED
    BY <2>1, <2>2 DEF GraphInv
<1>9. AdjacencyMirrored'
  <2>1. ASSUME NEW y \in Node
        PROVE  numPred'[y] = Len(preds'[y])
    <3>1. numPred[y] = Len(preds[y])
      BY DEF GraphInv, AdjacencyMirrored
    <3>2. CASE y = b
      <4>1. preds'[y] = Append(preds[b], a) /\ numPred'[y] = numPred[b] + 1
        BY <1>1, <1>2, <3>2
      <4>2. Len(Append(preds[b], a)) = Len(preds[b]) + 1
        BY <1>3
      <4> QED
        BY <3>1, <3>2, <4>1, <4>2
    <3>3. CASE y # b
      BY <1>1, <1>2, <1>5, <3>1, <3>3
    <3> QED
      BY <3>2, <3>3
  <2>2. ASSUME NEW x \in Node, NEW y \in Node
        PROVE  Occurrences(succs'[x], y) = Occurrences(preds'[y], x)
    <3>1. Occurrences(succs[x], y) = Occurrences(preds[y], x)
      BY DEF GraphInv, AdjacencyMirrored
    <3>2. Occurrences(succs'[x], y) =
            Occurrences(succs[x], y) + (IF x = a /\ y = b THEN 1 ELSE 0)
      <4>1. CASE x = a
        BY <1>1, <1>2, <1>3, <4>1, OccurrencesAppend
      <4>2. CASE x # a
        <5>1. Occurrences(succs[x], y) \in Nat
          <6>1. succs[x] \in Seq(Node)
            BY <1>2
          <6> QED
            BY <6>1, OccurrencesNat
        <5> QED
          BY <1>4, <4>2, <5>1
      <4> QED
        BY <4>1, <4>2
    <3>3. Occurrences(preds'[y], x) =
            Occurrences(preds[y], x) + (IF x = a /\ y = b THEN 1 ELSE 0)
      <4>1. CASE y = b
        BY <1>1, <1>2, <1>3, <4>1, OccurrencesAppend
      <4>2. CASE y # b
        <5>1. Occurrences(preds[y], x) \in Nat
          <6>1. preds[y] \in Seq(Node)
            BY <1>2
          <6> QED
            BY <6>1, OccurrencesNat
        <5> QED
          BY <1>5, <4>2, <5>1
      <4> QED
        BY <4>1, <4>2
    <3> QED
      BY <3>1, <3>2, <3>3
  <2> QED
    BY <2>1, <2>2 DEF AdjacencyMirrored
<1>10. ASSUME NEW y \in Node
       PROVE  IsFiniteSet(InEdges(y)') /\ numPred'[y] = Cardinality(InEdges(y)')
  <2> DEFINE e0 == <<a, Len(succs[a]) + 1>>
  <2>1. IsFiniteSet(InEdges(y)) /\ numPred[y] = Cardinality(InEdges(y))
    BY DEF GraphInv
  <2>2. /\ DOMAIN succs'[a] = DOMAIN succs[a] \cup {Len(succs[a]) + 1}
        /\ Len(succs[a]) + 1 \notin DOMAIN succs[a]
        /\ \A i \in DOMAIN succs[a] : succs'[a][i] = succs[a][i]
        /\ succs'[a][Len(succs[a]) + 1] = b
    <3>1. succs'[a] = Append(succs[a], b)
      BY <1>1, <1>2
    <3> QED
      BY <1>3, <3>1
  <2>3. e0 \notin InEdges(y)
    BY <2>2, InEdgesForm
  <2>4. ASSUME NEW e
        PROVE  e \in InEdges(y)' <=> e \in InEdges(y) \/ (y = b /\ e = e0)
    BY <1>4, <2>2, InEdgesForm, InEdgesFormNext
  <2>5. CASE y = b
    <3>1. InEdges(y)' = InEdges(y) \cup {e0}
      BY <2>4, <2>5
    <3>2. /\ IsFiniteSet(InEdges(y) \cup {e0})
          /\ Cardinality(InEdges(y) \cup {e0}) = Cardinality(InEdges(y)) + 1
      BY <2>1, <2>3, FS_AddElement
    <3>3. numPred'[y] = numPred[y] + 1
      BY <1>1, <1>2, <2>5
    <3> QED
      BY <2>1, <3>1, <3>2, <3>3
  <2>6. CASE y # b
    <3>1. InEdges(y)' = InEdges(y)
      BY <2>4, <2>6
    <3>2. numPred'[y] = numPred[y]
      BY <1>1, <1>2, <2>6
    <3> QED
      BY <2>1, <3>1, <3>2
  <2> QED
    BY <2>5, <2>6
<1> QED
  BY <1>6, <1>7, <1>8, <1>9, <1>10 DEF GraphInv

(* No edge joins a destroyed node with one that stays.                     *)
LEMMA ClearGraph ==
  ASSUME TypeOK, GraphInv, NEW d \in Dag, Clear(d)
  PROVE  GraphInv'
<1> DEFINE gone == NodesOf(d)
<1>1. /\ allNodes' = [allNodes EXCEPT ![d] = <<>>]
      /\ succs'    = [n \in Node |-> IF n \in gone THEN <<>> ELSE succs[n]]
      /\ preds'    = [n \in Node |-> IF n \in gone THEN <<>> ELSE preds[n]]
      /\ numPred'  = [n \in Node |-> IF n \in gone THEN 0 ELSE numPred[n]]
  BY DEF Clear
<1>2. /\ allNodes \in [Dag -> Seq(Node)]
      /\ succs \in [Node -> Seq(Node)]
      /\ preds \in [Node -> Seq(Node)]
      /\ numPred \in [Node -> Nat]
  BY DEF TypeOK
<1>3. NodesOf(d)' = {} /\ \A c \in Dag \ {d} : NodesOf(c)' = NodesOf(c)
  BY <1>1, <1>2 DEF NodesOf, Range
<1>4. \A a, b \in Node : b \in Range(succs[a]) => (a \in gone <=> b \in gone)
  BY DEF GraphInv, NodesOnce, EdgesWithinDag
<1>5. \A a, b \in Node : a \in Range(preds[b]) => (a \in gone <=> b \in gone)
  BY <1>4 DEF GraphInv
<1> HIDE DEF gone
<1>6. \A n \in Node : /\ n \in gone => Range(succs'[n]) = {} /\ Range(preds'[n]) = {}
                      /\ n \notin gone => succs'[n] = succs[n] /\ preds'[n] = preds[n]
  BY <1>1 DEF Range
<1>7. NodesOnce'
  <2>1. \A c \in Dag : IsInjective(allNodes'[c])
    BY <1>1, <1>2 DEF GraphInv, NodesOnce, IsInjective
  <2> QED
    BY <1>3, <2>1 DEF GraphInv, NodesOnce
<1>8. EdgesWithinDag'
  <2> SUFFICES ASSUME NEW a \in Node, NEW b \in Node, b \in Range(succs'[a])
               PROVE  \E c \in Dag : {a, b} \subseteq NodesOf(c)'
    BY DEF EdgesWithinDag
  <2>1. a \notin gone /\ b \in Range(succs[a])
    BY <1>6
  <2>2. PICK c \in Dag : {a, b} \subseteq NodesOf(c)
    BY <2>1 DEF GraphInv, EdgesWithinDag
  <2>3. c # d
    BY <2>1, <2>2 DEF gone
  <2> QED
    BY <1>3, <2>2, <2>3
<1>9. \A a, b \in Node : b \in Range(succs'[a]) <=> a \in Range(preds'[b])
  BY <1>4, <1>5, <1>6 DEF GraphInv
<1>10. AdjacencyMirrored'
  <2>1. \A n \in Node : numPred'[n] = Len(preds'[n])
    BY <1>1 DEF GraphInv, AdjacencyMirrored
  <2>2. ASSUME NEW a \in Node, NEW b \in Node
        PROVE  Occurrences(succs'[a], b) = Occurrences(preds'[b], a)
    <3>1. /\ succs'[a] \in Seq(Node) /\ preds'[b] \in Seq(Node)
      BY <1>1, <1>2
    <3>2. CASE a \notin gone /\ b \notin gone
      BY <1>6, <3>2 DEF GraphInv, AdjacencyMirrored
    <3>3. CASE a \in gone \/ b \in gone
      <4>1. b \notin Range(succs'[a]) /\ a \notin Range(preds'[b])
        BY <1>4, <1>5, <1>6, <3>3
      <4> QED
        BY <3>1, <4>1, OccurrencesNone
    <3> QED
      BY <3>2, <3>3
  <2> QED
    BY <2>1, <2>2 DEF AdjacencyMirrored
<1>11. ASSUME NEW n \in Node
       PROVE  IsFiniteSet(InEdges(n)') /\ numPred'[n] = Cardinality(InEdges(n)')
  <2>1. CASE n \in gone
    <3>1. InEdges(n)' = {}
      <4> SUFFICES ASSUME NEW e, e \in InEdges(n)'
                   PROVE  FALSE
        OBVIOUS
      <4>1. PICK a \in Node : \E i \in DOMAIN succs'[a] : succs'[a][i] = n
        BY InEdgesFormNext
      <4>2. n \in Range(succs'[a])
        BY <4>1 DEF Range
      <4> QED
        BY <1>4, <1>6, <2>1, <4>2
    <3> QED
      BY <1>1, <2>1, <3>1, FS_EmptySet
  <2>2. CASE n \notin gone
    <3>1. ASSUME NEW e
          PROVE  e \in InEdges(n)' <=> e \in InEdges(n)
      <4>1. ASSUME NEW a \in Node, NEW i
            PROVE  i \in DOMAIN succs'[a] /\ succs'[a][i] = n
                     <=> i \in DOMAIN succs[a] /\ succs[a][i] = n
        <5>1. CASE a \notin gone
          BY <1>6, <5>1
        <5>2. CASE a \in gone
          BY <1>4, <1>6, <2>2, <5>2 DEF Range
        <5> QED
          BY <5>1, <5>2
      <4> QED
        BY <4>1, InEdgesForm, InEdgesFormNext
    <3>2. InEdges(n)' = InEdges(n)
      BY <3>1
    <3> QED
      BY <1>1, <2>2, <3>2 DEF GraphInv
  <2> QED
    BY <2>1, <2>2
<1> QED
  BY <1>7, <1>8, <1>9, <1>10, <1>11 DEF GraphInv

(* A step that leaves the graph alone keeps what is said of it.            *)
LEMMA GraphUnchanged ==
  ASSUME GraphInv, UNCHANGED graphVars
  PROVE  GraphInv'
<1>1. UNCHANGED <<allNodes, succs, preds, numPred>>
  BY DEF graphVars
<1>2. NodesOnce' /\ EdgesWithinDag'
  BY <1>1 DEF GraphInv, NodesOnce, EdgesWithinDag, NodesOf
<1>3. AdjacencyMirrored'
  BY <1>1 DEF GraphInv, AdjacencyMirrored
<1>4. \A b \in Node : InEdges(b)' = InEdges(b)
  BY <1>1 DEF InEdges, Edges
<1> QED
  BY <1>1, <1>2, <1>3, <1>4 DEF GraphInv

-----------------------------------------------------------------------------
(* Each step keeps the inductive invariant.                                *)

(* Between traversals only the graph matters.                              *)
LEMMA BetweenTraversals ==
  ASSUME TypeOK', GraphInv', phase' = "idle", visited' = <<>>
  PROVE  IInv'
<1>1. ScanInv' /\ CounterExact' /\ QueueReady' /\ MainLoopInv'
  BY DEF ScanInv, CounterExact, QueueReady, MainLoopInv
<1>2. TopologicalOrder'
  BY DEF TopologicalOrder, IsInjective
<1> QED
  BY <1>1, <1>2 DEF IInv

LEMMA BuildInv ==
  ASSUME IInv, Build
  PROVE  IInv'
<1>1. TypeOK /\ GraphInv
  BY DEF IInv
<1>2. TypeOK'
  BY <1>1, TypeStep DEF Next
<1>3. UNCHANGED <<travDag, phase, pos, nodeQ, visited>> /\ travDag = NoDag
  BY DEF Build, AddNode, AddEdgeIfAbsent, AddEdge, Clear, travVars
<1>4. phase = "idle" /\ visited = <<>>
  BY <1>3 DEF IInv, TypeOK
<1>5. GraphInv'
  BY <1>1, AddNodeGraph, AddEdgeGraph, ClearGraph DEF Build, AddEdgeIfAbsent
<1> QED
  BY <1>2, <1>3, <1>4, <1>5, BetweenTraversals

LEMMA TopoBeginInv ==
  ASSUME IInv, NEW d \in Dag, TopoBegin(d)
  PROVE  IInv'
<1>1. TypeOK /\ GraphInv
  BY DEF IInv
<1>2. TypeOK'
  BY <1>1, TypeStep DEF Next
<1>3. /\ UNCHANGED <<allNodes, succs, preds, numPred, depCounter>>
      /\ travDag' = d /\ pos' = 1 /\ nodeQ' = <<>> /\ visited' = <<>>
      /\ phase' = IF allNodes[d] = <<>> THEN "pop" ELSE "scan"
  BY DEF TopoBegin, graphVars
<1>4. GraphInv'
  BY <1>1, <1>3, GraphUnchanged DEF graphVars
<1>5. ScanInv'
  BY <1>3 DEF ScanInv, IsInjective, Range
<1>6. phase' \in {"pop", "succ"} => NodesOf(travDag)' = {}
  BY <1>3 DEF NodesOf, Range
<1>7. CounterExact' /\ QueueReady' /\ MainLoopInv'
  BY <1>3, <1>6 DEF CounterExact, QueueReady, MainLoopInv, IsInjective, Range
<1>8. TopologicalOrder'
  BY <1>3 DEF TopologicalOrder, IsInjective
<1> QED
  BY <1>2, <1>3, <1>4, <1>5, <1>7, <1>8 DEF IInv

(* Nothing is released before the first visit.                             *)
LEMMA NothingReleased ==
  ASSUME visited' = <<>>, NEW n
  PROVE  Pending(n)' = InEdges(n)'
BY DEF Pending, Released, Range

LEMMA ScanNodeInv ==
  ASSUME IInv, ScanNode
  PROVE  IInv'
<1> DEFINE L == allNodes[travDag]
<1> DEFINE p == L[pos]
<1> DEFINE passed == {L[i] : i \in 1..(pos - 1)}
<1> DEFINE passed1 == {L[i] : i \in 1..pos}
<1>1. TypeOK /\ GraphInv
  BY DEF IInv
<1>2. TypeOK'
  BY <1>1, TypeStep DEF Next, Traverse
<1>3. /\ UNCHANGED <<allNodes, succs, preds, numPred, travDag, visited>>
      /\ phase = "scan"
      /\ nodeQ' = IF IsSrc(p) THEN Append(nodeQ, p) ELSE nodeQ
      /\ depCounter' = [depCounter EXCEPT ![p] = numPred[p]]
      /\ \/ pos = Len(L) /\ phase' = "pop"
         \/ pos # Len(L) /\ phase' = "scan" /\ pos' = pos + 1
  BY DEF ScanNode, ResetDepCounter, graphVars
<1>4. GraphInv'
  BY <1>1, <1>3, GraphUnchanged DEF graphVars
<1>5. visited = <<>>
  BY <1>3 DEF IInv
<1>6. /\ travDag \in Dag /\ pos \in DOMAIN L /\ L \in Seq(Node)
      /\ nodeQ \in Seq(Node)
      /\ depCounter \in [Node -> Nat] /\ numPred \in [Node -> Nat]
  BY <1>1, <1>3 DEF TypeOK
<1> HIDE DEF L
<1>7. Len(L) \in Nat /\ pos \in 1..Len(L) /\ DOMAIN L = 1..Len(L) /\ p \in Node
  BY <1>6
<1>8. \A i, j \in 1..Len(L) : L[i] = L[j] => i = j
  BY <1>1, <1>6, <1>7 DEF GraphInv, NodesOnce, IsInjective, L
<1>9. /\ IsInjective(nodeQ)
      /\ Range(nodeQ) = {n \in passed : IsSrc(n)}
      /\ \A n \in passed : depCounter[n] = numPred[n]
  BY <1>3 DEF IInv, ScanInv, L
<1>10. p \notin passed /\ passed1 = passed \cup {p} /\ passed1 \subseteq Node
  <2>1. \A i : i \in 1..pos <=> i \in 1..(pos - 1) \/ i = pos
    BY <1>7
  <2>2. pos \notin 1..(pos - 1) /\ 1..(pos - 1) \subseteq 1..Len(L)
    BY <1>7
  <2>3. \A i \in 1..Len(L) : L[i] \in Node
    BY <1>6, <1>7
  <2>4. p \notin passed
    BY <1>7, <1>8, <2>2
  <2>5. passed1 = passed \cup {p}
    BY <2>1
  <2> QED
    BY <1>7, <2>2, <2>3, <2>4, <2>5
<1> HIDE DEF p, passed, passed1
<1>11. IsInjective(nodeQ')
  BY <1>3, <1>6, <1>7, <1>9, <1>10, InjectiveAppend
<1>12. Range(nodeQ') = {n \in passed1 : IsSrc(n)}
  <2>1. IsSrc(p) => Range(nodeQ') = Range(nodeQ) \cup {p}
    BY <1>3, <1>6, <1>7, AppendLastRange
  <2> QED
    BY <1>3, <1>9, <1>10, <2>1
<1>13. \A n \in passed1 : depCounter'[n] = numPred[n]
  BY <1>3, <1>6, <1>7, <1>9, <1>10
<1>14. CASE phase' = "scan"
  <2>1. pos' = pos + 1 /\ pos' - 1 = pos
    <3>1. pos' = pos + 1
      BY <1>3, <1>14
    <3>2. pos \in Nat
      BY <1>7
    <3> QED
      BY <3>1, <3>2
  <2>2. L' = L
    BY <1>3 DEF L
  <2>3. ScanInv'
    BY <1>3, <1>11, <1>12, <1>13, <2>1, <2>2 DEF ScanInv, passed1, L, IsSrc
  <2>4. CounterExact' /\ QueueReady' /\ MainLoopInv'
    BY <1>14 DEF CounterExact, QueueReady, MainLoopInv
  <2>5. TopologicalOrder'
    BY <1>3, <1>5 DEF TopologicalOrder, IsInjective
  <2> QED
    BY <1>2, <1>3, <1>4, <1>5, <2>3, <2>4, <2>5 DEF IInv
<1>15. CASE phase' = "pop"
  <2>1. passed1 = NodesOf(travDag)
    BY <1>3, <1>7, <1>15 DEF passed1, NodesOf, Range, L
  <2>2. NodesOf(travDag)' = NodesOf(travDag) /\ Range(visited') = {}
    BY <1>3, <1>5 DEF NodesOf, Range
  <2>3. CounterExact'
    <3>1. ASSUME NEW n \in passed1
          PROVE  depCounter'[n] = Cardinality(Pending(n)')
      <4>1. Pending(n)' = InEdges(n)'
        BY <1>3, <1>5, NothingReleased
      <4>2. numPred'[n] = Cardinality(InEdges(n)')
        BY <1>4, <1>10 DEF GraphInv
      <4> QED
        BY <1>3, <1>13, <4>1, <4>2
    <3> QED
      BY <2>1, <2>2, <3>1 DEF CounterExact
  <2>4. \A n \in passed1 : depCounter'[n] = 0 <=> n \in Range(nodeQ')
    BY <1>12, <1>13 DEF IsSrc
  <2>5. MainLoopInv'
    BY <2>1, <2>2, <2>4 DEF MainLoopInv
  <2>6. QueueReady'
    BY <1>11, <1>12, <2>1, <2>2, <2>4 DEF QueueReady
  <2>7. ScanInv'
    BY <1>15 DEF ScanInv
  <2>8. TopologicalOrder'
    BY <1>3, <1>5 DEF TopologicalOrder, IsInjective
  <2> QED
    BY <1>2, <1>3, <1>4, <1>5, <2>3, <2>5, <2>6, <2>7, <2>8 DEF IInv
<1> QED
  BY <1>3, <1>14, <1>15

(* An edge of the traversed graph stays in it.                             *)
LEMMA EdgeEnds ==
  ASSUME TypeOK, GraphInv, travDag \in Dag,
         NEW a \in Node, NEW b \in Node, b \in Range(succs[a])
  PROVE  a \in NodesOf(travDag) <=> b \in NodesOf(travDag)
<1>1. PICK d \in Dag : {a, b} \subseteq NodesOf(d)
  BY DEF GraphInv, EdgesWithinDag
<1> QED
  BY <1>1 DEF GraphInv, NodesOnce

LEMMA VisitInv ==
  ASSUME IInv, Visit
  PROVE  IInv'
<1> DEFINE p == Last(nodeQ)
<1>1. TypeOK /\ GraphInv
  BY DEF IInv
<1>2. TypeOK'
  BY <1>1, TypeStep DEF Next, Traverse
<1>3. /\ UNCHANGED <<allNodes, succs, preds, numPred, depCounter, travDag>>
      /\ phase = "pop" /\ pos' = 1
      /\ nodeQ # <<>>
      /\ nodeQ' = Front(nodeQ)
      /\ visited' = Append(visited, p)
      /\ phase' = IF succs[p] = <<>> THEN "pop" ELSE "succ"
  BY DEF Visit, graphVars, IsSink
<1>4. GraphInv'
  BY <1>1, <1>3, GraphUnchanged DEF graphVars
<1>5. /\ travDag \in Dag
      /\ nodeQ \in Seq(Node) /\ visited \in Seq(Node)
      /\ succs \in [Node -> Seq(Node)] /\ preds \in [Node -> Seq(Node)]
  BY <1>1, <1>3 DEF TypeOK
<1>6. IsInjective(nodeQ) /\ \A n \in Range(nodeQ) : /\ n \in NodesOf(travDag) \ Range(visited)
                                                    /\ depCounter[n] = 0
  BY <1>3 DEF IInv, QueueReady
<1>7. /\ IsInjective(nodeQ')
      /\ Range(nodeQ) = Range(nodeQ') \cup {p}
      /\ p \in Node /\ p \in Range(nodeQ) /\ p \notin Range(nodeQ')
  <2>1. nodeQ \in Seq(Node) /\ nodeQ # <<>> /\ nodeQ' = Front(nodeQ) /\ IsInjective(nodeQ)
    BY <1>3, <1>5, <1>6
  <2>2. IsInjective(nodeQ') /\ p \notin Range(nodeQ')
    BY <2>1, InjectiveFront
  <2>3. Range(nodeQ) = Range(nodeQ') \cup {p} /\ p \in Node
    BY <2>1, FrontProperties
  <2> QED
    BY <2>2, <2>3
<1> HIDE DEF p
<1>8. /\ Range(visited') = Range(visited) \cup {p}
      /\ Last(visited') = p
      /\ Len(visited) \in Nat
      /\ DOMAIN visited = 1..Len(visited)
      /\ DOMAIN visited' = 1..(Len(visited) + 1)
      /\ \A i \in 1..Len(visited) : visited'[i] = visited[i]
      /\ visited'[Len(visited) + 1] = p
  <2>1. visited \in Seq(Node) /\ p \in Node /\ visited' = Append(visited, p)
    BY <1>3, <1>5, <1>7
  <2>2. /\ Append(visited, p) \in Seq(Node)
        /\ Last(Append(visited, p)) = p
        /\ Len(Append(visited, p)) = Len(visited) + 1
        /\ \A i \in 1..Len(visited) : Append(visited, p)[i] = visited[i]
        /\ Append(visited, p)[Len(visited) + 1] = p
        /\ Range(Append(visited, p)) = Range(visited) \cup {p}
    BY <2>1, AppendLastRange
  <2>3. /\ Len(visited) \in Nat /\ DOMAIN visited = 1..Len(visited)
        /\ DOMAIN Append(visited, p) = 1..Len(Append(visited, p))
    BY <2>1, <2>2
  <2> QED
    BY <2>1, <2>2, <2>3
<1>9. /\ Range(visited) \subseteq NodesOf(travDag)
      /\ \A n \in NodesOf(travDag) :
           depCounter[n] = 0 <=> n \in Range(visited) \cup Range(nodeQ)
  BY <1>3 DEF IInv, MainLoopInv
<1>10. \A n : NodesOf(n)' = NodesOf(n)
  BY <1>3 DEF NodesOf
<1>11. ASSUME NEW n \in Node
       PROVE  Pending(n)' = Pending(n)
  <2>1. InEdges(n)' = InEdges(n)
    BY <1>3 DEF InEdges, Edges
  <2>2. ASSUME NEW e \in InEdges(n)
        PROVE  Released(e)' <=> Released(e)
    <3>1. PICK a \in Node : \E i \in DOMAIN succs[a] : e = <<a, i>>
      BY InEdgesForm
    <3>2. PICK i \in DOMAIN succs[a] : e = <<a, i>>
      BY <3>1
    <3>3. Released(e) <=> a \in Range(visited)
      BY <1>3, <3>2 DEF Released
    <3>4. succs[a] \in Seq(Node) /\ i \in 1..Len(succs[a])
      BY <1>5, <3>2
    <3>5. CASE a = p
      <4>1. phase' = "succ" /\ i >= pos'
        BY <1>3, <3>4, <3>5
      <4>2. ~Released(e)'
        BY <1>8, <3>2, <3>5, <4>1 DEF Released
      <4> QED
        BY <1>6, <1>7, <3>3, <3>5, <4>2
    <3>6. CASE a # p
      BY <1>8, <3>2, <3>3, <3>6 DEF Released
    <3> QED
      BY <3>5, <3>6
  <2> QED
    BY <2>1, <2>2 DEF Pending
<1>12. CounterExact'
  <2>1. \A n \in NodesOf(travDag) : n \in Node /\ depCounter[n] = Cardinality(Pending(n))
    <3>1. allNodes[travDag] \in Seq(Node)
      BY <1>1, <1>5 DEF TypeOK
    <3>2. NodesOf(travDag) \subseteq Node
      BY <3>1 DEF NodesOf, Range
    <3> QED
      BY <1>3, <3>2 DEF IInv, CounterExact
  <2> QED
    BY <1>3, <1>10, <1>11, <2>1 DEF CounterExact
<1>13. QueueReady'
  BY <1>3, <1>6, <1>7, <1>8, <1>10 DEF QueueReady
<1>14. MainLoopInv'
  BY <1>3, <1>6, <1>7, <1>8, <1>9, <1>10 DEF MainLoopInv
<1>15. TopologicalOrder'
  <2>1. IsInjective(visited')
    BY <1>3, <1>5, <1>6, <1>7, InjectiveAppend DEF IInv, TopologicalOrder
  <2>2. ASSUME NEW a \in Range(preds[p])
        PROVE  a \in Range(visited)
    <3>1. a \in Node /\ p \in Range(succs[a])
      <4>1. preds[p] \in Seq(Node)
        BY <1>5, <1>7
      <4>2. a \in Node
        BY <4>1 DEF Range
      <4> QED
        BY <1>1, <1>7, <4>2 DEF GraphInv
    <3>2. PICK i \in DOMAIN succs[a] : succs[a][i] = p
      BY <3>1 DEF Range
    <3>3. <<a, i>> \in InEdges(p)
      BY <3>1, <3>2, InEdgesForm
    <3>4. Pending(p) = {}
      <4>1. Cardinality(Pending(p)) = 0
        BY <1>3, <1>6, <1>7 DEF IInv, CounterExact
      <4>2. IsFiniteSet(Pending(p))
        <5>1. IsFiniteSet(InEdges(p)) /\ Pending(p) \subseteq InEdges(p)
          BY <1>1, <1>7 DEF GraphInv, Pending
        <5> QED
          BY <5>1, FS_Subset
      <4> QED
        BY <4>1, <4>2, FS_EmptySet
    <3>5. Released(<<a, i>>)
      BY <3>3, <3>4 DEF Pending
    <3> QED
      BY <3>5 DEF Released
  <2>3. ASSUME NEW i \in DOMAIN visited', NEW a \in Range(preds'[visited'[i]])
        PROVE  \E j \in 1..(i - 1) : visited'[j] = a
    <3>1. CASE i \in 1..Len(visited)
      <4>1. PICK j \in 1..(i - 1) : visited[j] = a
        BY <1>3, <1>8, <3>1 DEF IInv, TopologicalOrder
      <4>2. j \in 1..Len(visited)
        BY <1>8, <3>1
      <4> QED
        BY <1>8, <4>1, <4>2
    <3>2. CASE i = Len(visited) + 1
      <4>1. a \in Range(visited)
        BY <1>3, <1>8, <2>2, <3>2
      <4>2. PICK j \in 1..Len(visited) : visited[j] = a
        BY <1>8, <4>1 DEF Range
      <4>3. j \in 1..(i - 1)
        BY <1>8, <3>2
      <4> QED
        BY <1>8, <4>2, <4>3
    <3> QED
      BY <1>8, <3>1, <3>2
  <2> QED
    BY <2>1, <2>3 DEF TopologicalOrder
<1>16. ScanInv'
  BY <1>3 DEF ScanInv
<1> QED
  BY <1>2, <1>3, <1>4, <1>12, <1>13, <1>14, <1>15, <1>16 DEF IInv

(* One edge is released, the one the loop is at, and it was pending.       *)
LEMMA DecrementSuccInv ==
  ASSUME IInv, DecrementSucc
  PROVE  IInv'
<1> DEFINE p == Last(visited)
<1> DEFINE d == succs[p][pos]
<1>1. TypeOK /\ GraphInv
  BY DEF IInv
<1>2. TypeOK'
  BY <1>1, TypeStep DEF Next, Traverse
<1>3. /\ UNCHANGED <<allNodes, succs, preds, numPred, travDag, visited>>
      /\ phase = "succ"
      /\ depCounter' = [depCounter EXCEPT ![d] = Decremented(depCounter[d])]
      /\ nodeQ' = IF Decremented(depCounter[d]) = 0 THEN Append(nodeQ, d) ELSE nodeQ
      /\ \/ pos = Len(succs[p]) /\ phase' = "pop"
         \/ pos # Len(succs[p]) /\ phase' = "succ" /\ pos' = pos + 1
  BY DEF DecrementSucc, LastEdge, graphVars
<1>4. GraphInv'
  BY <1>1, <1>3, GraphUnchanged DEF graphVars
<1>5. /\ travDag \in Dag
      /\ visited \in Seq(Node) /\ visited # <<>>
      /\ pos \in DOMAIN succs[p]
      /\ succs \in [Node -> Seq(Node)]
      /\ nodeQ \in Seq(Node)
      /\ depCounter \in [Node -> Nat]
      /\ allNodes \in [Dag -> Seq(Node)]
  BY <1>1, <1>3 DEF TypeOK
<1>6. p \in Node /\ p \in Range(visited)
  BY <1>5, FrontProperties
<1> HIDE DEF p
<1>7. succs[p] \in Seq(Node)
  BY <1>5, <1>6
<1>8. /\ Len(succs[p]) \in Nat
      /\ DOMAIN succs[p] = 1..Len(succs[p])
      /\ pos \in 1..Len(succs[p])
      /\ d \in Node /\ d \in Range(succs[p])
  <2>1. Len(succs[p]) \in Nat /\ DOMAIN succs[p] = 1..Len(succs[p])
    BY <1>7
  <2>2. d \in Node
    BY <1>5, <1>7
  <2>3. d \in Range(succs[p])
    BY <1>5 DEF Range
  <2> QED
    BY <1>5, <2>1, <2>2, <2>3
<1> DEFINE e0 == <<p, pos>>
<1>9. e0 \in InEdges(d)
  BY <1>5, <1>6, InEdgesForm
<1> HIDE DEF d
<1>10. /\ Range(visited) \subseteq NodesOf(travDag)
       /\ \A n \in NodesOf(travDag) :
            depCounter[n] = 0 <=> n \in Range(visited) \cup Range(nodeQ)
  BY <1>3 DEF IInv, MainLoopInv
<1>11. d \in NodesOf(travDag)
  BY <1>1, <1>5, <1>6, <1>8, <1>10, EdgeEnds
<1>12. NodesOf(travDag) \subseteq Node
  <2>1. allNodes[travDag] \in Seq(Node)
    BY <1>5
  <2> QED
    BY <2>1 DEF NodesOf, Range
<1>13. \A n \in NodesOf(travDag) : depCounter[n] = Cardinality(Pending(n))
  BY <1>3 DEF IInv, CounterExact
<1>14. \A n \in Node : IsFiniteSet(Pending(n))
  <2>1. \A n \in Node : IsFiniteSet(InEdges(n)) /\ Pending(n) \subseteq InEdges(n)
    BY <1>1 DEF GraphInv, Pending
  <2> QED
    BY <2>1, FS_Subset
<1>15. e0 \in Pending(d)
  BY <1>3, <1>8, <1>9 DEF Pending, Released, p
<1>16. ASSUME NEW n \in Node
       PROVE  Pending(n)' = IF n = d THEN Pending(n) \ {e0} ELSE Pending(n)
  <2>1. InEdges(n)' = InEdges(n)
    BY <1>3 DEF InEdges, Edges
  <2>2. ASSUME NEW e \in InEdges(n)
        PROVE  Released(e)' <=> Released(e) \/ e = e0
    <3>1. PICK a \in Node : \E i \in DOMAIN succs[a] : e = <<a, i>>
      BY InEdgesForm
    <3>2. PICK i \in DOMAIN succs[a] : e = <<a, i>>
      BY <3>1
    <3>3. CASE a # p
      BY <1>3, <3>2, <3>3 DEF Released, p
    <3>4. CASE a = p
      <4>1. i \in 1..Len(succs[p])
        BY <1>8, <3>2, <3>4
      <4>2. Released(e) <=> i < pos
        BY <1>3, <1>6, <1>8, <3>2, <3>4, <4>1 DEF Released, p
      <4>3. Released(e)' <=> i <= pos
        <5>1. CASE pos = Len(succs[p]) /\ phase' = "pop"
          BY <1>3, <1>6, <1>8, <3>2, <3>4, <4>1, <5>1 DEF Released, p
        <5>2. CASE pos # Len(succs[p]) /\ phase' = "succ" /\ pos' = pos + 1
          BY <1>3, <1>6, <1>8, <3>2, <3>4, <4>1, <5>2 DEF Released, p
        <5> QED
          BY <1>3, <5>1, <5>2
      <4>4. i <= pos <=> i < pos \/ i = pos
        BY <1>8, <4>1
      <4> QED
        BY <3>2, <3>4, <4>2, <4>3, <4>4
    <3> QED
      BY <3>3, <3>4
  <2>3. n # d => e0 \notin InEdges(n)
    BY <1>9, InEdgesForm
  <2> QED
    BY <2>1, <2>2, <2>3 DEF Pending
<1>17. /\ Cardinality(Pending(d)) \in Nat \ {0}
       /\ Cardinality(Pending(d) \ {e0}) = Cardinality(Pending(d)) - 1
  <2>1. IsFiniteSet(Pending(d))
    BY <1>8, <1>14
  <2>2. Cardinality(Pending(d)) \in Nat /\ Cardinality(Pending(d)) # 0
    BY <1>15, <2>1, FS_CardinalityType, FS_EmptySet
  <2>3. Cardinality(Pending(d) \ {e0}) = Cardinality(Pending(d)) - 1
    BY <1>15, <2>1, FS_RemoveElement
  <2> QED
    BY <2>2, <2>3
<1>18. depCounter[d] = Cardinality(Pending(d)) /\ depCounter[d] \in Nat \ {0}
  BY <1>11, <1>13, <1>17
<1>19. depCounter' = [depCounter EXCEPT ![d] = depCounter[d] - 1]
  BY <1>3, <1>18 DEF Decremented
<1>20. \A n : NodesOf(n)' = NodesOf(n)
  BY <1>3 DEF NodesOf
<1>21. CounterExact'
  <2>1. ASSUME NEW n \in NodesOf(travDag)
        PROVE  depCounter'[n] = Cardinality(Pending(n)')
    <3>1. n \in Node
      BY <1>12
    <3>2. CASE n = d
      <4>1. depCounter'[n] = depCounter[d] - 1
        BY <1>5, <1>8, <1>19, <3>2
      <4> QED
        BY <1>8, <1>16, <1>17, <1>18, <3>2, <4>1
    <3>3. CASE n # d
      BY <1>5, <1>13, <1>16, <1>19, <3>1, <3>3
    <3> QED
      BY <3>2, <3>3
  <2> QED
    BY <1>3, <1>20, <2>1 DEF CounterExact
<1>22. d \notin Range(visited) \cup Range(nodeQ)
  BY <1>10, <1>11, <1>18
<1>23. IsInjective(nodeQ) /\ \A n \in Range(nodeQ) : /\ n \in NodesOf(travDag) \ Range(visited)
                                                     /\ depCounter[n] = 0
  BY <1>3 DEF IInv, QueueReady
<1>24. \A n \in Node : depCounter'[n] = IF n = d THEN depCounter[d] - 1 ELSE depCounter[n]
  BY <1>5, <1>8, <1>19
<1>25. depCounter[d] - 1 = 0 <=> Decremented(depCounter[d]) = 0
  BY <1>18 DEF Decremented
<1>26. /\ IsInjective(nodeQ')
       /\ Range(nodeQ') = IF depCounter[d] - 1 = 0 THEN Range(nodeQ) \cup {d} ELSE Range(nodeQ)
  <2>1. CASE depCounter[d] - 1 = 0
    <3>1. nodeQ' = Append(nodeQ, d)
      BY <1>3, <1>25, <2>1
    <3> QED
      BY <1>5, <1>8, <1>22, <1>23, <2>1, <3>1, AppendLastRange, InjectiveAppend
  <2>2. CASE depCounter[d] - 1 # 0
    BY <1>3, <1>23, <1>25, <2>2
  <2> QED
    BY <2>1, <2>2
<1>27. QueueReady'
  <2> SUFFICES ASSUME NEW n \in Range(nodeQ')
               PROVE  n \in NodesOf(travDag) \ Range(visited) /\ depCounter'[n] = 0
    BY <1>3, <1>20, <1>26 DEF QueueReady
  <2>1. CASE n \in Range(nodeQ)
    BY <1>12, <1>22, <1>23, <1>24, <2>1
  <2>2. CASE n = d /\ depCounter[d] - 1 = 0
    BY <1>8, <1>11, <1>22, <1>24, <2>2
  <2> QED
    BY <1>26, <2>1, <2>2
<1>28. MainLoopInv'
  <2> SUFFICES ASSUME NEW n \in NodesOf(travDag)
               PROVE  depCounter'[n] = 0 <=> n \in Range(visited) \cup Range(nodeQ')
    BY <1>3, <1>10, <1>20 DEF MainLoopInv
  <2>1. n \in Node
    BY <1>12
  <2>2. CASE n = d
    BY <1>22, <1>24, <1>26, <2>1, <2>2
  <2>3. CASE n # d
    BY <1>10, <1>24, <1>26, <2>1, <2>3
  <2> QED
    BY <2>2, <2>3
<1>29. TopologicalOrder'
  BY <1>3 DEF IInv, TopologicalOrder
<1>30. ScanInv'
  BY <1>3 DEF ScanInv
<1>31. phase' \in {"pop", "succ"}
  BY <1>3
<1> QED
  BY <1>2, <1>4, <1>21, <1>27, <1>28, <1>29, <1>30, <1>31 DEF IInv

LEMMA TopoEndInv ==
  ASSUME IInv, TopoEnd
  PROVE  IInv'
<1>1. TypeOK /\ GraphInv
  BY DEF IInv
<1>2. TypeOK'
  BY <1>1, TypeStep DEF Next, Traverse
<1>3. UNCHANGED graphVars /\ phase' = "idle" /\ visited' = <<>>
  BY DEF TopoEnd
<1> QED
  BY <1>1, <1>2, <1>3, GraphUnchanged, BetweenTraversals

LEMMA StutterInv ==
  ASSUME IInv, UNCHANGED vars
  PROVE  IInv'
<1>1. UNCHANGED <<allNodes, succs, preds, numPred, depCounter, travDag, phase, pos, nodeQ, visited>>
  BY DEF vars
<1>2. TypeOK' /\ GraphInv'
  <2>1. TypeOK /\ GraphInv
    BY DEF IInv
  <2> QED
    BY <1>1, <2>1, TypeStep, GraphUnchanged DEF vars, graphVars
<1>3. ScanInv' /\ MainLoopInv' /\ QueueReady'
  BY <1>1 DEF IInv, ScanInv, MainLoopInv, QueueReady, NodesOf, IsSrc
<1>4. CounterExact'
  <2>1. \A n : Pending(n)' = Pending(n)
    BY <1>1 DEF Pending, Released, InEdges, Edges
  <2> QED
    BY <1>1, <2>1 DEF IInv, CounterExact, NodesOf
<1>5. TopologicalOrder'
  BY <1>1 DEF IInv, TopologicalOrder
<1> QED
  BY <1>1, <1>2, <1>3, <1>4, <1>5 DEF IInv

LEMMA InitInv == Init => IInv
<1> SUFFICES ASSUME Init PROVE IInv
  OBVIOUS
<1>1. TypeOK
  BY NoDagAssumption DEF Init, TypeOK
<1>2. \A d \in Dag : NodesOf(d) = {}
  BY DEF Init, NodesOf, Range
<1>3. \A n \in Node : Range(succs[n]) = {} /\ Range(preds[n]) = {}
  BY DEF Init, Range
<1>4. NodesOnce /\ EdgesWithinDag
  BY <1>2, <1>3 DEF Init, NodesOnce, EdgesWithinDag, IsInjective
<1>5. \A n \in Node : InEdges(n) = {}
  BY DEF Init, InEdges, Edges
<1>6. AdjacencyMirrored
  <2>1. \A b : Occurrences(<<>>, b) = 0
    <3>1. <<>> \in Seq(Node) /\ Range(<<>>) = {}
      BY DEF Range
    <3> QED
      BY <3>1, OccurrencesNone
  <2> QED
    BY <2>1 DEF Init, AdjacencyMirrored
<1>7. GraphInv
  BY <1>3, <1>4, <1>5, <1>6, FS_EmptySet DEF Init, GraphInv
<1>8. ScanInv /\ CounterExact /\ QueueReady /\ MainLoopInv /\ TopologicalOrder
  BY DEF Init, ScanInv, CounterExact, QueueReady, MainLoopInv, TopologicalOrder, IsInjective
<1> QED
  BY <1>1, <1>7, <1>8 DEF Init, IInv

(* IInv is an invariant of the specification.                              *)
THEOREM Invariance == Spec => []IInv
<1>1. IInv /\ [Next]_vars => IInv'
  BY BuildInv, TopoBeginInv, ScanNodeInv, VisitInv, DecrementSuccInv, TopoEndInv, StutterInv
  DEF Next, Traverse
<1> QED
  BY <1>1, InitInv, PTL DEF Spec

-----------------------------------------------------------------------------
(* The properties of TaskDAG, for any number of DAGs, nodes and edges.     *)

(* An edge is in both adjacency lists, as often, and is counted as often.  *)
THEOREM Mirrored == Spec => []AdjacencyMirrored
<1>1. IInv => AdjacencyMirrored
  BY DEF IInv, GraphInv
<1> QED
  BY <1>1, Invariance, PTL

(* The dependence counter is exact in the main loop: no decrement wraps.   *)
THEOREM CountersExact == Spec => []CounterExact
<1>1. IInv => CounterExact
  BY DEF IInv
<1> QED
  BY <1>1, Invariance, PTL

(* The assertion of the main loop holds, also where it is compiled out.    *)
THEOREM QueuedNodesAreReady == Spec => []QueueReady
<1>1. IInv => QueueReady
  BY DEF IInv
<1> QED
  BY <1>1, Invariance, PTL

(* func is called on a node once at most, and after its predecessors.      *)
THEOREM VisitsInOrder == Spec => []TopologicalOrder
<1>1. IInv => TopologicalOrder
  BY DEF IInv
<1> QED
  BY <1>1, Invariance, PTL

LEMMA LeftOutBehindLeftOut == IInv => SkipsOnlyBehindCycle
<1> SUFFICES ASSUME IInv, EndOfTraversal, NEW n \in Unvisited
             PROVE  \E a \in Unvisited : n \in Range(succs[a])
  BY DEF SkipsOnlyBehindCycle
<1>1. /\ TypeOK /\ GraphInv
      /\ phase = "pop" /\ nodeQ = <<>>
      /\ n \in NodesOf(travDag) /\ n \notin Range(visited)
  BY DEF IInv, EndOfTraversal, Unvisited
<1>2. travDag \in Dag /\ allNodes[travDag] \in Seq(Node) /\ succs \in [Node -> Seq(Node)]
  BY <1>1 DEF TypeOK
<1>3. n \in Node
  BY <1>1, <1>2 DEF NodesOf, Range
<1>4. Pending(n) # {}
  <2>1. n \notin Range(nodeQ)
    BY <1>1 DEF Range
  <2>2. depCounter[n] # 0
    BY <1>1, <2>1 DEF IInv, MainLoopInv
  <2>3. Cardinality(Pending(n)) # 0
    BY <1>1, <2>2 DEF IInv, CounterExact
  <2> QED
    BY <2>3, FS_EmptySet
<1>5. PICK e \in InEdges(n) : ~Released(e)
  BY <1>4 DEF Pending
<1>6. PICK a \in Node : \E i \in DOMAIN succs[a] : e = <<a, i>> /\ succs[a][i] = n
  BY InEdgesForm
<1>7. a \notin Range(visited) /\ n \in Range(succs[a])
  BY <1>1, <1>5, <1>6 DEF Released, Range
<1>8. a \in NodesOf(travDag)
  BY <1>1, <1>2, <1>3, <1>7, EdgeEnds
<1> QED
  BY <1>7, <1>8 DEF Unvisited

(* A node left out has a predecessor left out,                             *)
THEOREM LeavesOutOnlyBehindCycle == Spec => []SkipsOnlyBehindCycle
BY LeftOutBehindLeftOut, Invariance, PTL

(* so a traversal of an acyclic DAG leaves out none, the first time and    *)
(* every later time.                                                       *)
THEOREM ReachesAllNodes == Spec => []VisitsAll
<1>1. SkipsOnlyBehindCycle => VisitsAll
  <2> SUFFICES ASSUME SkipsOnlyBehindCycle, EndOfTraversal, Acyclic(travDag), Unvisited # {}
               PROVE  FALSE
    BY DEF VisitsAll
  <2>1. Unvisited \in SUBSET NodesOf(travDag)
    BY DEF Unvisited
  <2>2. PICK n \in Unvisited : \A a \in Unvisited : n \notin Range(succs[a])
    BY <2>1 DEF Acyclic
  <2> QED
    BY <2>2 DEF SkipsOnlyBehindCycle
<1> QED
  BY <1>1, LeavesOutOnlyBehindCycle, PTL
-----------------------------------------------------------------------------
(* The variant of a traversal, one lemma per step.                         *)

LEMMA ScanNodeAdvances == IInv /\ ScanNode => LessLeft
<1> SUFFICES ASSUME IInv, ScanNode PROVE LessLeft
  OBVIOUS
<1>1. /\ allNodes' = allNodes /\ travDag' = travDag
      /\ phase = "scan"
      /\ \/ phase' = "pop"
         \/ phase' = "scan" /\ pos' = pos + 1
  BY DEF ScanNode, graphVars
<1>2. pos \in Nat /\ Len(allNodes[travDag]) \in Nat
  BY <1>1 DEF IInv, TypeOK
<1>3. CASE phase' = "pop"
  BY <1>1, <1>3 DEF LessLeft, StagesLeft
<1>4. CASE phase' = "scan" /\ pos' = pos + 1
  <2>1. StagesLeft' = StagesLeft
    BY <1>1, <1>4 DEF StagesLeft
  <2>2. NodesLeft = Len(allNodes[travDag]) - pos /\ NodesLeft' = Len(allNodes[travDag]) - (pos + 1)
    BY <1>1, <1>4 DEF NodesLeft
  <2> QED
    BY <1>2, <2>1, <2>2 DEF LessLeft
<1> QED
  BY <1>1, <1>3, <1>4

LEMMA FiniteRange ==
  ASSUME NEW S, NEW s \in Seq(S)
  PROVE  IsFiniteSet(Range(s))
<1>1. s \in [1..Len(s) -> Range(s)] /\ Len(s) \in Nat
  BY DEF Range
<1>2. s \in Surjection(1..Len(s), Range(s))
  BY <1>1 DEF Surjection, Range
<1>3. IsFiniteSet(1..Len(s))
  BY <1>1, FS_Interval
<1> QED
  BY <1>2, <1>3, FS_Surjection

(* A visit takes a node from those left: it was queued, hence unvisited.   *)
LEMMA VisitAdvances == IInv /\ Visit => LessLeft
<1> SUFFICES ASSUME IInv, Visit PROVE LessLeft
  OBVIOUS
<1> DEFINE p == Last(nodeQ)
<1>1. /\ allNodes' = allNodes /\ travDag' = travDag
      /\ phase = "pop" /\ phase' \in {"pop", "succ"}
      /\ nodeQ # <<>> /\ visited' = Append(visited, p)
  BY DEF Visit, graphVars
<1>2. /\ nodeQ \in Seq(Node) /\ visited \in Seq(Node)
      /\ travDag \in Dag /\ allNodes[travDag] \in Seq(Node)
  BY <1>1 DEF IInv, TypeOK
<1>3. p \in Node /\ p \in Range(nodeQ)
  <2>1. nodeQ \in Seq(Node) /\ nodeQ # <<>>
    BY <1>1, <1>2
  <2> HIDE DEF p
  <2>2. Last(nodeQ) \in Node /\ Range(nodeQ) = Range(Front(nodeQ)) \cup {Last(nodeQ)}
    BY <2>1, FrontProperties
  <2> QED
    BY <2>2 DEF p
<1>4. p \in Unvisited
  BY <1>1, <1>3 DEF IInv, QueueReady, Unvisited
<1>5. Unvisited' = Unvisited \ {p}
  <2>1. Range(visited') = Range(visited) \cup {p}
    BY <1>1, <1>2, <1>3, AppendLastRange
  <2>2. NodesOf(travDag)' = NodesOf(travDag)
    BY <1>1 DEF NodesOf
  <2> QED
    BY <2>1, <2>2 DEF Unvisited
<1>6. IsFiniteSet(Unvisited)
  <2>1. IsFiniteSet(NodesOf(travDag))
    BY <1>2, FiniteRange DEF NodesOf
  <2> QED
    BY <2>1, FS_Subset DEF Unvisited
<1>7. Cardinality(Unvisited') = Cardinality(Unvisited) - 1 /\ Cardinality(Unvisited) \in Nat
  BY <1>4, <1>5, <1>6, FS_RemoveElement, FS_CardinalityType
<1>8. StagesLeft' = StagesLeft
  BY <1>1 DEF StagesLeft
<1>9. NodesLeft = Cardinality(Unvisited) /\ NodesLeft' = Cardinality(Unvisited')
  BY <1>1 DEF NodesLeft
<1> QED
  BY <1>7, <1>8, <1>9 DEF LessLeft

LEMMA DecrementSuccAdvances == IInv /\ DecrementSucc => LessLeft
<1> SUFFICES ASSUME IInv, DecrementSucc PROVE LessLeft
  OBVIOUS
<1> DEFINE L == succs[Last(visited)]
<1>1. /\ allNodes' = allNodes /\ succs' = succs /\ travDag' = travDag /\ visited' = visited
      /\ phase = "succ"
      /\ \/ phase' = "pop"
         \/ phase' = "succ" /\ pos' = pos + 1
  BY DEF DecrementSucc, graphVars
<1>2. /\ visited \in Seq(Node) /\ visited # <<>>
      /\ pos \in DOMAIN L
      /\ succs \in [Node -> Seq(Node)]
  BY <1>1 DEF IInv, TypeOK
<1>3. Last(visited) \in Node
  BY <1>2, FrontProperties
<1>4. Len(L) \in Nat /\ pos \in 1..Len(L)
  BY <1>2, <1>3
<1>5. StagesLeft' = StagesLeft
  BY <1>1 DEF StagesLeft
<1>6. NodesLeft' = NodesLeft
  BY <1>1 DEF NodesLeft, Unvisited, NodesOf
<1>7. EdgesLeft = Len(L) - pos + 1
  BY <1>1 DEF EdgesLeft
<1>8. EdgesLeft' = 0 \/ EdgesLeft' = Len(L) - (pos + 1) + 1
  BY <1>1 DEF EdgesLeft
<1> HIDE DEF L
<1> QED
  BY <1>4, <1>5, <1>6, <1>7, <1>8 DEF LessLeft

(* Every step of a traversal leaves less to do: with no state of it stuck, *)
(* forEachNode_TopoOrder returns on every graph.                           *)
THEOREM Advances == Spec => TraversalAdvances
<1>1. IInv /\ [Next]_vars => [phase # "idle" => LessLeft]_vars
  <2> SUFFICES ASSUME IInv, Next, phase # "idle" PROVE LessLeft
    OBVIOUS
  <2>1. travDag # NoDag
    BY DEF IInv, TypeOK
  <2>2. Traverse
    BY <2>1 DEF Next, Build, AddNode, AddEdge, AddEdgeIfAbsent, Clear, TopoBegin
  <2>3. CASE TopoEnd
    BY <2>3 DEF TopoEnd, LessLeft, StagesLeft
  <2> QED
    BY <2>2, <2>3, ScanNodeAdvances, VisitAdvances, DecrementSuccAdvances DEF Traverse
<1> QED
  BY <1>1, Invariance, PTL DEF Spec, TraversalAdvances
=============================================================================
