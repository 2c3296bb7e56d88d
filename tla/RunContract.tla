---------------------------- MODULE RunContract -----------------------------
(***************************************************************************)
(* What NnExecutor promises its caller, without counters, epochs or locks. *)
(*                                                                         *)
(* level[t] is the number of steps thread t has executed in the latest     *)
(* run.  A run lets the threads work in lock step: nobody executes its     *)
(* step k before everybody has executed k steps.  A run that finishes has  *)
(* executed everything; between runs nobody works.  After an aborted run   *)
(* threads that are still inside a step may finish it, and that is all the *)
(* caller may rely on: it has to close the executor.                       *)
(***************************************************************************)
EXTENDS Naturals

CONSTANTS Threads, nSteps

VARIABLES phase, level

Phases == {"idle", "running", "aborted", "closed"}

Init ==
    /\ phase = "idle"
    /\ level = [t \in Threads |-> 0]

Start ==
    /\ phase = "idle"
    /\ phase' = "running"
    /\ level' = [t \in Threads |-> 0]

Work(t) ==
    /\ phase # "idle"
    /\ level[t] < nSteps
    /\ \A u \in Threads : level[u] >= level[t]
    /\ level' = [level EXCEPT ![t] = @ + 1]
    /\ UNCHANGED phase

Finish ==
    /\ phase = "running"
    /\ \A t \in Threads : level[t] = nSteps
    /\ phase' = "idle"
    /\ UNCHANGED level

Abort ==
    /\ phase = "running"
    /\ phase' = "aborted"
    /\ UNCHANGED level

Close ==
    /\ phase \in {"idle", "aborted"}
    /\ phase' = "closed"
    /\ UNCHANGED level

Next == Start \/ Finish \/ Abort \/ Close \/ \E t \in Threads : Work(t)

Spec == Init /\ [][Next]_<<phase, level>>
=============================================================================
