--------------------------- MODULE MCAtmiExecutor ---------------------------
(***************************************************************************)
(* AtmiExecutor on a small instance: two CPU functions of one type, so that *)
(* they share a kernel, one GPU function and one copy.  The CPU functions'  *)
(* second argument has to be padded; the GPU function's types are others.   *)
(***************************************************************************)
EXTENDS AtmiExecutor, TLC

CONSTANTS g, f1, f2, w, x1, x2

Wrappers == [f \in {f1, f2} |-> w]
T(n) == [size |-> n, align |-> n]
Types == [f \in {g, f1, f2} |-> IF f = g THEN <<T(2), T(1), T(2)>> ELSE <<T(1), T(2)>>]
Lists == [f \in {g, f1, f2} |-> IF f = g THEN {<<x1, x2, x1>>, <<x2, x1, x2>>}
                                        ELSE {<<x1, x2>>, <<x2, x1>>}]
Sync == [k \in {"gpu", "cpu", "copy"} |-> k = "cpu"]

Symm == Permutations({f1, f2}) \cup Permutations({x1, x2})
=============================================================================
