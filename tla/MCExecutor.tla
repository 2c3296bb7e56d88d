----------------------------- MODULE MCExecutor -----------------------------
(* The executor for TLC.  Threads are model values; they are not declared   *)
(* symmetric, because the run checks liveness as well.                      *)
EXTENDS Executor
=============================================================================
