---------------------------- MODULE SparseMatrix ----------------------------
(***************************************************************************)
(* Sparse matrices of cpputils: readMatrixMarket makes adjacency lists     *)
(* (GenericSparseMatrix) of a file, and CompressedMatrix packs them into   *)
(* three arrays.  A line of a file is a record of its kind and, if it is   *)
(* not a comment, its three numbers.  Nodes count from one in the file,    *)
(* from zero in the lists, as the indices of the arrays do.                *)
(***************************************************************************)
EXTENDS Naturals, Sequences, SequencesExt, FiniteSetsExt

Comment == [comment |-> TRUE]
Triple(first, second, third) ==
  [comment |-> FALSE, first |-> first, second |-> second, third |-> third]

(* The first line that is no comment has the numbers of rows, columns and  *)
(* edges; the others are edges.                                            *)
Edges(file) == SelectSeq(file, LAMBDA l : ~l.comment)

MutAddEdge(adj, line) == [adj EXCEPT ![line.first - 1] = Append(@, <<line.second, line.third>>)]
AddEdge(adj, line) == [adj EXCEPT ![line.first - 1] = Append(@, <<line.second - 1, line.third>>)]

ReadMatrixMarket(file) ==
  LET head == Head(Edges(file))
      numNodes == Max({head.first, head.second})
  IN [numNodes |-> numNodes,
      numEdges |-> head.third,
      adjVecs |-> FoldLeft(AddEdge, [n \in 0..(numNodes - 1) |-> <<>>], Tail(Edges(file)))]

(* copyFrom: m_index[i + 1] is where the edges of node i end.              *)
CopyFrom(sp) ==
  FoldLeft(LAMBDA c, i : [index |-> Append(c.index, Last(c.index) + Len(sp.adjVecs[i])),
                          adj |-> c.adj \o [k \in DOMAIN sp.adjVecs[i] |-> sp.adjVecs[i][k][1]],
                          edgeData |-> c.edgeData \o [k \in DOMAIN sp.adjVecs[i] |-> sp.adjVecs[i][k][2]]],
           [index |-> <<0>>, adj |-> <<>>, edgeData |-> <<>>],
           [i \in 1..sp.numNodes |-> i - 1])

(* The assertions at the end of copyFrom.                                  *)
CountsRight(sp, c) == Len(c.index) = sp.numNodes + 1 /\ Len(c.adj) = sp.numEdges

AdjBegin(c, n) == c.index[n + 1]
AdjEnd(c, n) == c.index[n + 2]
EdgeDst(c, e) == c.adj[e + 1]
EdgeData(c, e) == c.edgeData[e + 1]

-----------------------------------------------------------------------------
(* What the file says of the edges of node n, counted from zero.           *)
InFile(file, n) ==
  LET mine == SelectSeq(Tail(Edges(file)), LAMBDA l : l.first = n + 1)
  IN [k \in DOMAIN mine |-> <<mine[k].second - 1, mine[k].third>>]

(* Walking a node's edges in the packed matrix meets those of the file, in *)
(* its order, repeated ones as often and none of another node; and copying *)
(* succeeds exactly for the files that count their edges right.            *)
PacksTheFile(file) ==
  LET sp == ReadMatrixMarket(file)
      c == CopyFrom(sp)
  IN /\ \A n \in 0..(sp.numNodes - 1) :
          [k \in 1..(AdjEnd(c, n) - AdjBegin(c, n)) |->
             <<EdgeDst(c, AdjBegin(c, n) + k - 1), EdgeData(c, AdjBegin(c, n) + k - 1)>>]
            = InFile(file, n)
     /\ CountsRight(sp, c) <=> Head(Edges(file)).third = Len(Edges(file)) - 1
=============================================================================
