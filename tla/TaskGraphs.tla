------------------------------ MODULE TaskGraphs ------------------------------
(***************************************************************************)
(* Vocabulary shared by BuildGraph and TaskScheduler: a task graph is a    *)
(* set of tasks and a function deps giving, for every task, the set of     *)
(* tasks that must complete before it (Task::dependencies).  No operator   *)
(* here is recursive, so the modules that use it can be proved about.      *)
(***************************************************************************)
EXTENDS Naturals, Sequences

Elements(s) == {s[i] : i \in DOMAIN s}

NoRepeats(s) == \A i, j \in DOMAIN s : s[i] = s[j] => i = j

\* Every dependency of an element stands before the element.
DepsFirst(s, deps) ==
  \A i \in DOMAIN s : \A d \in deps[s[i]] : \E j \in 1 .. i - 1 : s[j] = d

\* What BuildGraph::sorted() promises to the scheduler.
IsTopologicalOrder(s, tasks, deps) ==
  /\ Elements(s) = tasks
  /\ NoRepeats(s)
  /\ DepsFirst(s, deps)

\* A finite graph has a cycle iff some nonempty set of tasks is closed under
\* "has a dependency in the set": following dependencies inside it never ends.
HasCycle(tasks, deps) ==
  \E S \in SUBSET tasks : S # {} /\ \A t \in S : deps[t] \cap S # {}
===============================================================================
