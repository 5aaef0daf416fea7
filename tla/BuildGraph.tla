------------------------------ MODULE BuildGraph ------------------------------
(***************************************************************************)
(* The task graph of src/src/engine/core/BuildGraph.cpp: addTask, addEdge, *)
(* reset, and topologicalSort with its recursive dfsVisit.                 *)
(*                                                                         *)
(* The recursion is kept as an explicit stack of call frames: a frame      *)
(* [id, next] is a dfsVisit(id) whose loop over t->dependencies stands at  *)
(* index next.  The range-for of topologicalSort walks an unordered_map,   *)
(* so the root of the next visit is any task the loop has not reached yet. *)
(* A task's type, label, inputs, outputs and action play no part in the    *)
(* graph and are left out.                                                 *)
(***************************************************************************)
EXTENDS TaskGraphs

CONSTANTS MaxTasks,  \* bound on addTask calls between two resets
          MaxDeps    \* bound on addEdge calls per dependent task

ASSUME BoundsAssumption == MaxTasks \in Nat /\ MaxDeps \in Nat

VARIABLES nextId,    \* BuildGraph::nextId_
          deps,      \* Task::dependencies of every task; DOMAIN deps = tasks_
          sorted,    \* BuildGraph::sorted_
          outcome,   \* result of the last topologicalSort of this very graph
          pending,   \* tasks the range-for of topologicalSort has not reached
          visited, inStack, order,  \* locals of topologicalSort
          stack      \* active dfsVisit calls, the root call first

graphVars == <<nextId, deps>>
dfsVars   == <<pending, visited, inStack, order, stack>>
vars      == <<nextId, deps, sorted, outcome, pending, visited, inStack, order, stack>>

TaskId   == 1 .. MaxTasks
tasks    == DOMAIN deps
Frame    == [id : TaskId, next : 1 .. MaxDeps + 1]
Outcomes == {"none", "sorting", "sorted", "CYCLE_DETECTED"}

\* The dependencies of a task as a set (duplicates and their order forgotten).
depSets == [t \in tasks |-> Elements(deps[t])]

Init ==
  /\ nextId = 1
  /\ deps = <<>>
  /\ sorted = <<>>
  /\ outcome = "none"
  /\ pending = {} /\ visited = {} /\ inStack = {}
  /\ order = <<>> /\ stack = <<>>

-------------------------------------------------------------------------------
(* Building the graph.  Every call runs to its end before the next one: only  *)
(* the thread that runs BuildOrchestrator::buildGraph touches the graph.      *)

Idle == outcome # "sorting"

addTask ==
  /\ Idle
  /\ nextId <= MaxTasks
  /\ nextId' = nextId + 1
  /\ deps' = [t \in tasks \cup {nextId} |-> IF t = nextId THEN <<>> ELSE deps[t]]
  /\ outcome' = "none"
  /\ UNCHANGED <<sorted, dfsVars>>

\* No check for a duplicate edge, a self edge or a cycle: those are the sort's.
\* With an unknown id the call fails and changes nothing.
addEdge(dependent, dependency) ==
  /\ Idle
  /\ dependent \in tasks /\ dependency \in tasks
  /\ Len(deps[dependent]) < MaxDeps
  /\ deps' = [deps EXCEPT ![dependent] = Append(@, dependency)]
  /\ outcome' = "none"
  /\ UNCHANGED <<nextId, sorted, dfsVars>>

reset ==
  /\ Idle
  /\ nextId' = 1
  /\ deps' = <<>>
  /\ sorted' = <<>>
  /\ outcome' = "none"
  /\ UNCHANGED dfsVars

-------------------------------------------------------------------------------
(* topologicalSort *)

SortBegin ==
  /\ Idle
  /\ outcome' = "sorting"
  /\ sorted' = <<>>
  /\ pending' = tasks
  /\ visited' = {} /\ inStack' = {}
  /\ order' = <<>> /\ stack' = <<>>
  /\ UNCHANGED graphVars

Top == stack[Len(stack)]

\* Mutated Enter: the loop index of a frame starts before the first dependency.
Enter_indexFromZero(id) ==
  /\ inStack' = inStack \cup {id}
  /\ visited' = visited \cup {id}
  /\ stack' = Append(stack, [id |-> id, next |-> 0])

\* The body of dfsVisit(id) up to its loop, for an id that is not visited.
Enter(id) ==
  /\ inStack' = inStack \cup {id}
  /\ visited' = visited \cup {id}
  /\ stack' = Append(stack, [id |-> id, next |-> 1])

\* topologicalSort gives up: the frames unwind with false, sorted_ stays empty.
Unwind ==
  /\ outcome' = "CYCLE_DETECTED"
  /\ pending' = {} /\ visited' = {} /\ inStack' = {}
  /\ order' = <<>> /\ stack' = <<>>
  /\ UNCHANGED <<graphVars, sorted>>

SortRoot(id) ==
  /\ outcome = "sorting" /\ stack = <<>>
  /\ id \in pending
  /\ pending' = pending \ {id}
  /\ IF id \in visited
       THEN UNCHANGED <<visited, inStack, stack>>
       ELSE Enter(id)
  /\ UNCHANGED <<graphVars, sorted, outcome, order>>

\* Mutated VisitDependency: the loop does not move past a visited dependency.
VisitDependency_stays ==
  /\ outcome = "sorting" /\ stack # <<>>
  /\ Top.next <= Len(deps[Top.id])
  /\ LET dep == deps[Top.id][Top.next]
     IN \/ /\ dep \in inStack
           /\ Unwind
        \/ /\ dep \in visited \ inStack
           /\ UNCHANGED vars
        \/ /\ dep \notin visited
           /\ Enter(dep)
           /\ UNCHANGED <<graphVars, sorted, outcome, pending, order>>

\* The loop over t->dependencies calls dfsVisit(dep), dep the next dependency.
VisitDependency ==
  /\ outcome = "sorting" /\ stack # <<>>
  /\ Top.next <= Len(deps[Top.id])
  /\ LET dep == deps[Top.id][Top.next]
     IN \/ /\ dep \in inStack
           /\ Unwind
        \/ /\ dep \notin inStack /\ dep \in visited
           /\ stack' = [stack EXCEPT ![Len(stack)].next = @ + 1]
           /\ UNCHANGED <<graphVars, sorted, outcome, pending, visited, inStack, order>>
        \/ /\ dep \notin inStack /\ dep \notin visited
           /\ Enter(dep)
           /\ UNCHANGED <<graphVars, sorted, outcome, pending, order>>

\* Mutated Return: the caller's loop skips the dependency after the visited one.
Return_skipsOne ==
  [i \in 1 .. Len(stack) - 1 |->
     IF i = Len(stack) - 1 /\ stack[i].next < Len(deps[stack[i].id])
       THEN [stack[i] EXCEPT !.next = @ + 2]
       ELSE IF i = Len(stack) - 1 THEN [stack[i] EXCEPT !.next = @ + 1] ELSE stack[i]]

\* The frames below the top one once dfsVisit(Top.id) returned true: the loop
\* of the caller goes on with the next dependency.
Return ==
  [i \in 1 .. Len(stack) - 1 |->
     IF i = Len(stack) - 1 THEN [stack[i] EXCEPT !.next = @ + 1] ELSE stack[i]]

\* Mutated FinishVisit: inStack.erase(id) is forgotten.
FinishVisit_keepsInStack ==
  /\ outcome = "sorting" /\ stack # <<>>
  /\ Top.next > Len(deps[Top.id])
  /\ order' = Append(order, Top.id)
  /\ stack' = Return
  /\ UNCHANGED <<graphVars, sorted, outcome, pending, visited, inStack>>

FinishVisit ==
  /\ outcome = "sorting" /\ stack # <<>>
  /\ Top.next > Len(deps[Top.id])
  /\ inStack' = inStack \ {Top.id}
  /\ order' = Append(order, Top.id)
  /\ stack' = Return
  /\ UNCHANGED <<graphVars, sorted, outcome, pending, visited>>

SortEnd ==
  /\ outcome = "sorting" /\ stack = <<>> /\ pending = {}
  /\ sorted' = order
  /\ outcome' = "sorted"
  /\ visited' = {} /\ inStack' = {} /\ order' = <<>>
  /\ UNCHANGED <<graphVars, pending, stack>>

SortStep == \/ \E id \in TaskId : SortRoot(id)
            \/ VisitDependency
            \/ FinishVisit
            \/ SortEnd

Next == \/ addTask
        \/ \E dependent, dependency \in TaskId : addEdge(dependent, dependency)
        \/ reset
        \/ SortBegin
        \/ SortStep

Spec == Init /\ [][Next]_vars

\* topologicalSort is sequential code that is never blocked.
FairSpec == Spec /\ WF_vars(SortStep)

-------------------------------------------------------------------------------
(* Properties *)

TypeOK ==
  /\ nextId \in 1 .. MaxTasks + 1
  /\ deps \in [1 .. nextId - 1 -> Seq(TaskId)]
  /\ sorted \in Seq(TaskId)
  /\ outcome \in Outcomes
  /\ pending \subseteq TaskId /\ visited \subseteq TaskId /\ inStack \subseteq TaskId
  /\ order \in Seq(TaskId)
  /\ stack \in Seq(Frame)

\* When topologicalSort succeeds, sorted() lists every task exactly once and
\* each task after all of its dependencies, whatever order the unordered_map
\* is walked in: TaskScheduler::run seeds and scans its queue in that order.
SortedIsTopological ==
  outcome = "sorted" => IsTopologicalOrder(sorted, tasks, depSets)

\* CYCLE_DETECTED is never a false alarm: a diamond, a duplicate edge or a
\* task reached from two roots is not a cycle.
CycleIsReal ==
  outcome = "CYCLE_DETECTED" => HasCycle(tasks, depSets)

\* ... and no cycle escapes: a graph with a cycle is never handed to the
\* scheduler, where the tasks on it would wait for each other for ever.
CycleIsFound ==
  outcome = "sorted" => ~HasCycle(tasks, depSets)

\* topologicalSort always returns, on cyclic graphs too.
SortReturns == outcome = "sorting" ~> outcome \in {"sorted", "CYCLE_DETECTED"}
===============================================================================
