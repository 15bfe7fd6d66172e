--------------------------- MODULE TaskExecution ---------------------------
(***************************************************************************)
(* What the DAG executors of DAGEE-lib promise, whatever the runtime they  *)
(* run on.  A call of execute or executeParallel submits jobs, which wait  *)
(* for one another as the edges say; a job runs once, after the jobs it    *)
(* depends on have finished; "execute() is blocking" and returns when all  *)
(* jobs have finished.                                                     *)
(***************************************************************************)
CONSTANT Job

VARIABLES
  busy,  \* a call of execute is in progress
  state, \* what became of each job of the call
  deps   \* <<i, j>> : job j depends on job i

vars == <<busy, state, deps>>

Init ==
  /\ busy = FALSE
  /\ state = [j \in Job |-> "none"]
  /\ deps = {}

Submit ==
  /\ ~busy
  /\ busy'
  /\ state' \in [Job -> {"none", "waiting"}]
  /\ deps' \in SUBSET {e \in Job \X Job : "none" \notin {state'[e[1]], state'[e[2]]}}

Start(j) ==
  /\ busy
  /\ state[j] = "waiting"
  /\ \A i \in Job : <<i, j>> \in deps => state[i] = "done"
  /\ state' = [state EXCEPT ![j] = "running"]
  /\ UNCHANGED <<busy, deps>>

Finish(j) ==
  /\ busy
  /\ state[j] = "running"
  /\ state' = [state EXCEPT ![j] = "done"]
  /\ UNCHANGED <<busy, deps>>

Return ==
  /\ busy
  /\ \A j \in Job : state[j] \in {"none", "done"}
  /\ ~busy'
  /\ state' = [j \in Job |-> "none"]
  /\ deps' = {}

Next == Submit \/ (\E j \in Job : Start(j) \/ Finish(j)) \/ Return

Spec == Init /\ [][Next]_vars
=============================================================================
