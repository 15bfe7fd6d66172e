---------------------------- MODULE MCOutOfCore ----------------------------
(* Finite instances of OutOfCoreExecutor for TLC.                          *)
EXTENDS OutOfCoreExecutor

CONSTANTS p1, p2, p3

TwoParts   == {p1, p2}
ThreeParts == {p1, p2, p3}

TwoInARow == {<<1, 2>>}
=============================================================================
