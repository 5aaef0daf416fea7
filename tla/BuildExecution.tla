---------------------------- MODULE BuildExecution ----------------------------
(***************************************************************************)
(* What TaskScheduler::run promises to BuildOrchestrator::run, with no     *)
(* threads in it: a task starts once, after its dependencies are DONE; the *)
(* call returns when no task is running and either nothing can start any   *)
(* more or a failure stopped the build; it returns failure exactly when a  *)
(* task failed and continueOnError is false.  TaskScheduler implements     *)
(* this specification.                                                     *)
(***************************************************************************)
EXTENDS TaskGraphs

CONSTANT Sorted  \* BuildGraph::sorted()

VARIABLES deps, continueOnError, state, result

vars == <<deps, continueOnError, state, result>>

Tasks == Elements(Sorted)

Ready(t)    == state[t] = "PENDING" /\ \A d \in deps[t] : state[d] = "DONE"
SomeFailed  == \E t \in Tasks : state[t] = "FAILED"
Stopped     == SomeFailed /\ ~continueOnError

Init ==
  /\ deps \in [Tasks -> SUBSET Tasks]
  /\ IsTopologicalOrder(Sorted, Tasks, deps)
  /\ continueOnError \in BOOLEAN
  /\ state = [t \in Tasks |-> "PENDING"]
  /\ result = "none"

Start(t) ==
  /\ result = "none"
  /\ Ready(t)
  /\ state' = [state EXCEPT ![t] = "RUNNING"]
  /\ deps' = deps /\ continueOnError' = continueOnError
  /\ UNCHANGED result

Finish(t) ==
  /\ state[t] = "RUNNING"
  /\ \E verdict \in {"DONE", "FAILED"} : state' = [state EXCEPT ![t] = verdict]
  /\ deps' = deps /\ continueOnError' = continueOnError
  /\ UNCHANGED result

Return ==
  /\ result = "none"
  /\ \A t \in Tasks : state[t] # "RUNNING"
  /\ Stopped \/ \A t \in Tasks : ~Ready(t)
  /\ result' = IF Stopped THEN "failure" ELSE "success"
  /\ deps' = deps /\ continueOnError' = continueOnError
  /\ UNCHANGED state

Next == (\E t \in Tasks : Start(t) \/ Finish(t)) \/ Return

Spec == Init /\ [][Next]_vars

===============================================================================
