---------------------------- MODULE MCBarrierTree ----------------------------
(* The size of a tree of barrier packets, for up to MaxPreds signals.      *)
EXTENDS HsaBase

CONSTANT MaxPreds

VARIABLE numPreds

Init == numPreds = 2
Next == numPreds < MaxPreds /\ numPreds' = numPreds + 1
Spec == Init /\ [][Next]_numPreds

(* What the comments of kernel.h say of barrierTreeSize: it is the number  *)
(* of barrier packets a tree reduction takes (298-302), and the arrays of  *)
(* makeBarrierTree, which are of that size, hold them (314-315).           *)
TreeSizeAsDocumented == barrierTreeSize(numPreds) = TreePackets(numPreds)
=============================================================================
