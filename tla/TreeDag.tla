------------------------------- MODULE TreeDag -------------------------------
(***************************************************************************)
(* cojoinedTreeDag, which makes the DAGs dagr's test program hands to      *)
(* StaticDAGExecutorBFS: a tree that spreads out from a root, joined leaf  *)
(* by leaf to one that comes together again.                               *)
(*                                                                         *)
(* Nodes are numbered as they are added; a graph under construction is     *)
(* [numNodes, edges, curr] with the nodes of the last level in curr.  The  *)
(* degree is at least 1: the code divides by it.                           *)
(***************************************************************************)
EXTENDS Naturals, Sequences, SequencesExt, FiniteSets

Root == [numNodes |-> 1, edges |-> <<>>, curr |-> <<1>>]

(* A level of the expanding tree: every node gets `degree' children.       *)
Expand(g, degree) ==
  LET children == [c \in 1..(degree * Len(g.curr)) |-> g.numNodes + c]
  IN [numNodes |-> g.numNodes + Len(children),
      edges |-> g.edges \o [c \in DOMAIN children |-> <<g.curr[(c - 1) \div degree + 1], children[c]>>],
      curr |-> children]

(* Mutant: the next node is taken one parent too early.                    *)
MutSharedChild(i, degree) == i \div degree + 1
(* The child of the i-th node of a level of the reducing tree.             *)
SharedChild(i, degree) == (i - 1) \div degree + 1

Reduce(g, degree) ==
  LET nextLevelSz == Len(g.curr) \div degree
  IN [numNodes |-> g.numNodes + nextLevelSz,
      edges |-> g.edges \o [i \in DOMAIN g.curr |-> <<g.curr[i], g.numNodes + SharedChild(i, degree)>>],
      curr |-> [c \in 1..nextLevelSz |-> g.numNodes + c]]

cojoinedTreeDag(levels, degree) ==
  LET Times(F(_, _), g) == FoldLeft(LAMBDA h, i : F(h, degree), g, [i \in 1..levels |-> i])
  IN Times(Reduce, Times(Expand, Root))

-----------------------------------------------------------------------------
(* A graph the level-by-level executor runs in order, each task once: the  *)
(* levels it goes through, from the root on, are disjoint, so no node is   *)
(* launched beside a predecessor or again.                                 *)
Succs(g, S) == {e[2] : e \in {d \in ToSet(g.edges) : d[1] \in S}}
LevelsOf(g, count) ==
  LET level[k \in 1..count] == IF k = 1 THEN {1} ELSE Succs(g, level[k - 1])
  IN level

RunsLevelByLevel(levels, degree) ==
  LET g == cojoinedTreeDag(levels, degree)
      level == LevelsOf(g, 2 * levels + 1)
  IN /\ \A j, k \in DOMAIN level : j # k => level[j] \cap level[k] = {}
     /\ UNION {level[k] : k \in DOMAIN level} = 1..g.numNodes
     /\ Cardinality(level[2 * levels + 1]) = 1
     /\ Succs(g, level[2 * levels + 1]) = {}
     /\ IsInjective(g.edges)
=============================================================================
