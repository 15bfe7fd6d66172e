--------------------------- MODULE MCDagrExecutor ---------------------------
(* Finite instances of DagrExecutor for TLC.                               *)
EXTENDS DagrExecutor
=============================================================================
