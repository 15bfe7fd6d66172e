---------------------------- MODULE MCBfsExecutor ----------------------------
(* Finite instances of BfsExecutor for TLC.  In a levelled DAG all paths   *)
(* to a node are equally long; the trees of dagrTests/treeDagLaunch.cpp    *)
(* are.                                                                    *)
EXTENDS BfsExecutor

CONSTANTS n1, n2, n3, n4

NodeSet == {n1, n2, n3, n4}

Kite      == {<<n1, n2>>, <<n1, n3>>, <<n2, n4>>, <<n3, n4>>}
Join      == {<<n1, n4>>, <<n2, n4>>, <<n3, n4>>}
TwoChains == {<<n1, n2>>, <<n3, n4>>}
Levelled  == {Kite, Join, TwoChains}

Shortcut   == {<<n1, n2>>, <<n2, n3>>, <<n1, n3>>, <<n3, n4>>}
Unlevelled == {Shortcut}
=============================================================================
