--------------------------- MODULE MCDagExecutor ---------------------------
(***************************************************************************)
(* DagExecutor on small instances.                                         *)
(***************************************************************************)
EXTENDS DagExecutor, TLC

CONSTANTS d1, d2, k1, k2, c1

TwoDags   == {d1, d2}
ThreeNodes == {k1, k2, c1}
OneCopy   == {c1}

=============================================================================
