------------------------------ MODULE MCTaskDAG ------------------------------
(***************************************************************************)
(* TaskDAG on small instances.                                             *)
(***************************************************************************)
EXTENDS TaskDAG, TLC

CONSTANTS d1, d2, n1, n2, n3, n4

TwoDags    == {d1, d2}
ThreeNodes == {n1, n2, n3}
FourNodes  == {n1, n2, n3, n4}

Symmetry == Permutations(Dag) \cup Permutations(Node)
=============================================================================
