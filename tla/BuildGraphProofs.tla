--------------------------- MODULE BuildGraphProofs ---------------------------
(***************************************************************************)
(* Proofs about BuildGraph, for any number of tasks and edges: the DFS     *)
(* invariant is inductive, and it makes sorted() a topological order when  *)
(* topologicalSort succeeds and CYCLE_DETECTED a real cycle when it fails. *)
(***************************************************************************)
EXTENDS BuildGraph, TLAPS, SequenceTheorems, WellFoundedInduction

-------------------------------------------------------------------------------
(* The inductive invariant *)

\* inStack is exactly the set of active frames, each task active once.
StackInv ==
  /\ inStack = {stack[i].id : i \in DOMAIN stack}
  /\ \A i, j \in DOMAIN stack : stack[i].id = stack[j].id => i = j

\* A task leaves inStack exactly when it enters order, and what the loop of
\* topologicalSort has not visited it has still to reach.
VisitedInv ==
  /\ inStack \subseteq visited /\ visited \subseteq tasks /\ pending \subseteq tasks
  /\ Elements(order) = visited \ inStack
  /\ outcome = "sorting" => tasks \ visited \subseteq pending

OrderInv == NoRepeats(order) /\ DepsFirst(order, depSets)

\* The active frames form a path of the graph, and what a frame's loop has
\* passed is in order.
PathInv ==
  \A i \in DOMAIN stack :
    /\ stack[i].next <= Len(deps[stack[i].id]) + 1
    /\ \A k \in 1 .. stack[i].next - 1 : deps[stack[i].id][k] \in Elements(order)
    /\ i < Len(stack) => /\ stack[i].next <= Len(deps[stack[i].id])
                         /\ deps[stack[i].id][stack[i].next] = stack[i + 1].id

\* The bookkeeping of the depth-first search at every call and return of
\* dfsVisit: why a task met again in inStack closes a cycle, and why one met
\* again outside it already stands in order.
DfsInvariant == StackInv /\ VisitedInv /\ OrderInv /\ PathInv

\* Edges join tasks of the graph.
DepsClosed ==
  \A t \in tasks : Elements(deps[t]) \subseteq tasks /\ Len(deps[t]) <= MaxDeps

\* The locals of topologicalSort exist while it runs.
IdleIsClean ==
  Idle => stack = <<>> /\ order = <<>> /\ visited = {} /\ inStack = {} /\ pending = {}

\* The inductive invariant of BuildGraphProofs.
IInv == /\ TypeOK /\ DepsClosed /\ IdleIsClean /\ DfsInvariant
        /\ SortedIsTopological /\ CycleIsReal

-------------------------------------------------------------------------------
(* Sequences *)

\* Append adds one element: order.push_back, dependencies.push_back.
LEMMA ElementsAppend ==
  ASSUME NEW T, NEW s \in Seq(T), NEW x \in T
  PROVE  Elements(Append(s, x)) = Elements(s) \cup {x}
<1>1. /\ DOMAIN s = 1 .. Len(s) /\ Len(s) \in Nat
      /\ DOMAIN Append(s, x) = 1 .. Len(s) + 1
      /\ \A i \in 1 .. Len(s) : Append(s, x)[i] = s[i]
      /\ Append(s, x)[Len(s) + 1] = x
  OBVIOUS
<1> QED BY <1>1 DEF Elements

\* Appending a new element keeps the elements distinct.
LEMMA NoRepeatsAppend ==
  ASSUME NEW T, NEW s \in Seq(T), NEW x \in T, NoRepeats(s), x \notin Elements(s)
  PROVE  NoRepeats(Append(s, x))
<1>1. /\ DOMAIN s = 1 .. Len(s) /\ Len(s) \in Nat
      /\ DOMAIN Append(s, x) = 1 .. Len(s) + 1
      /\ \A i \in 1 .. Len(s) : Append(s, x)[i] = s[i]
      /\ Append(s, x)[Len(s) + 1] = x
  OBVIOUS
<1> QED BY <1>1 DEF Elements, NoRepeats

\* A task may be appended to an order once all of its dependencies are in it.
LEMMA DepsFirstAppend ==
  ASSUME NEW T, NEW s \in Seq(T), NEW x \in T, NEW D,
         DepsFirst(s, D), D[x] \subseteq Elements(s)
  PROVE  DepsFirst(Append(s, x), D)
<1> DEFINE a == Append(s, x)
<1>1. /\ DOMAIN s = 1 .. Len(s) /\ Len(s) \in Nat
      /\ DOMAIN a = 1 .. Len(s) + 1
      /\ \A i \in 1 .. Len(s) : a[i] = s[i]
      /\ a[Len(s) + 1] = x
  OBVIOUS
<1> HIDE DEF a
<1>2. SUFFICES ASSUME NEW i \in DOMAIN a, NEW d \in D[a[i]]
               PROVE  \E j \in 1 .. i - 1 : a[j] = d
  BY DEF DepsFirst, a
<1>3. CASE i \in 1 .. Len(s)
  <2>1. PICK j \in 1 .. i - 1 : s[j] = d
    BY <1>1, <1>3 DEF DepsFirst
  <2> QED BY <1>1, <1>3, <2>1
<1>4. CASE i = Len(s) + 1
  <2>1. PICK j \in 1 .. Len(s) : s[j] = d
    BY <1>1, <1>4 DEF Elements
  <2> QED BY <1>1, <1>4, <2>1
<1> QED BY <1>1, <1>3, <1>4

\* A graph that has a topological order has no cycle: the element of a closed
\* set that stands first in the order has no dependency left to point to.
LEMMA OrderedIsAcyclic ==
  ASSUME NEW T, NEW s \in Seq(T), NEW D, IsTopologicalOrder(s, T, D)
  PROVE  ~HasCycle(T, D)
<1>1. SUFFICES ASSUME NEW S \in SUBSET T, S # {}, \A t \in S : D[t] \cap S # {}
               PROVE  FALSE
  BY DEF HasCycle
<1> DEFINE I == {i \in Nat : i \in DOMAIN s /\ s[i] \in S}
<1>2. DOMAIN s = 1 .. Len(s) /\ Len(s) \in Nat
  OBVIOUS
<1>3. I # {} /\ I \subseteq Nat
  BY <1>1, <1>2 DEF IsTopologicalOrder, Elements
<1>4. PICK i \in I : \A j \in I : ~(<<j, i>> \in OpToRel(<, Nat))
  BY <1>3, NatLessThanWellFounded, WFMin
<1>5. \A j \in I : ~(j < i)
  BY <1>3, <1>4 DEF OpToRel
<1>6. PICK d \in D[s[i]] : d \in S
  BY <1>1, <1>4
<1>7. PICK j \in 1 .. i - 1 : s[j] = d
  BY <1>2, <1>4, <1>6 DEF IsTopologicalOrder, DepsFirst
<1>8. i \in Nat /\ i \in 1 .. Len(s)
  BY <1>2, <1>4
<1>9. j \in Nat /\ j \in 1 .. Len(s) /\ j < i
  BY <1>2, <1>7, <1>8
<1>10. j \in I
  BY <1>2, <1>6, <1>7, <1>9
<1> HIDE DEF I
<1> QED BY <1>5, <1>9, <1>10

-------------------------------------------------------------------------------
(* One lemma per kind of step, each from the whole invariant *)

\* The graph fixes depSets, and with it every property of orders and cycles.
LEMMA SameGraph ==
  ASSUME UNCHANGED graphVars
  PROVE  tasks' = tasks /\ depSets' = depSets
BY DEF graphVars, tasks, depSets

\* Between sorts there is no frame and no order to speak of.
LEMMA EmptySearch == DOMAIN <<>> = {}
OBVIOUS

LEMMA InitIInv == Init => IInv
<1> SUFFICES ASSUME Init PROVE IInv
  OBVIOUS
<1> USE BoundsAssumption DEF Init, TaskId
<1>1. deps \in [1 .. nextId - 1 -> Seq(TaskId)]
  OBVIOUS
<1>2. TypeOK
  BY <1>1 DEF TypeOK, Outcomes, Frame
<1>3. DOMAIN <<>> = {}
  OBVIOUS
<1>4. DepsClosed /\ IdleIsClean /\ SortedIsTopological /\ CycleIsReal
  BY <1>3 DEF DepsClosed, IdleIsClean, SortedIsTopological, CycleIsReal, tasks
<1>5. StackInv /\ VisitedInv /\ OrderInv /\ PathInv
  BY <1>3 DEF StackInv, VisitedInv, OrderInv, PathInv, Elements, NoRepeats, DepsFirst, tasks
<1> QED BY <1>2, <1>4, <1>5 DEF IInv, DfsInvariant

LEMMA addTaskIInv == IInv /\ addTask => IInv'
<1> SUFFICES ASSUME IInv, addTask PROVE IInv'
  OBVIOUS
<1> USE BoundsAssumption
<1>1. /\ UNCHANGED <<stack, order, visited, inStack, pending, sorted>>
      /\ outcome' = "none" /\ Idle /\ nextId \in 1 .. MaxTasks /\ nextId' = nextId + 1
  BY DEF addTask, dfsVars, IInv, TypeOK
<1>2. tasks = 1 .. nextId - 1 /\ tasks' = 1 .. nextId
  BY DEF tasks, addTask, IInv, TypeOK
<1>3. /\ deps' \in [1 .. nextId -> Seq(TaskId)]
      /\ deps'[nextId] = <<>>
      /\ \A t \in tasks : deps'[t] = deps[t]
  <2>1. deps' = [t \in 1 .. nextId |-> IF t = nextId THEN <<>> ELSE deps[t]]
    <3>1. tasks \cup {nextId} = 1 .. nextId
      BY <1>1, <1>2
    <3> QED BY <3>1 DEF addTask
  <2>2. /\ \A t \in 1 .. nextId - 1 : deps[t] \in Seq(TaskId)
        /\ <<>> \in Seq(TaskId)
    BY DEF IInv, TypeOK
  <2>3. \A t \in 1 .. nextId : deps'[t] \in Seq(TaskId)
    BY <1>1, <2>1, <2>2
  <2> QED BY <1>1, <1>2, <2>1, <2>3
<1>4. TypeOK'
  <2>1. nextId' \in 1 .. MaxTasks + 1 /\ nextId' - 1 = nextId /\ outcome' \in Outcomes
    BY <1>1 DEF Outcomes
  <2>2. deps' \in [1 .. nextId' - 1 -> Seq(TaskId)]
    BY <1>3, <2>1
  <2>3. TypeOK
    BY DEF IInv
  <2> QED BY <1>1, <2>1, <2>2, <2>3 DEF TypeOK
<1>5. DepsClosed'
  <2>1. Elements(<<>>) = {} /\ Len(<<>>) = 0
    BY DEF Elements
  <2>2. SUFFICES ASSUME NEW t \in 1 .. nextId
                 PROVE  Elements(deps'[t]) \subseteq 1 .. nextId /\ Len(deps'[t]) <= MaxDeps
    BY <1>2 DEF DepsClosed, Elements
  <2>3. CASE t = nextId
    BY <1>3, <2>1, <2>3
  <2>4. CASE t # nextId
    <3>1. t \in tasks
      BY <1>1, <1>2, <2>4
    <3>2. Elements(deps[t]) \subseteq tasks /\ Len(deps[t]) <= MaxDeps
      BY <3>1 DEF IInv, DepsClosed
    <3>3. tasks \subseteq 1 .. nextId
      BY <1>1, <1>2
    <3> QED BY <1>3, <3>1, <3>2, <3>3
  <2> QED BY <2>3, <2>4
<1>6. IdleIsClean' /\ SortedIsTopological' /\ CycleIsReal'
  BY <1>1 DEF IInv, IdleIsClean, SortedIsTopological, CycleIsReal, Idle
<1>7. DfsInvariant'
  <2>1. /\ stack' = <<>> /\ order' = <<>> /\ visited' = {} /\ inStack' = {}
        /\ pending' \subseteq tasks' /\ outcome' # "sorting"
    BY <1>1 DEF IInv, IdleIsClean
  <2> QED BY <2>1, EmptySearch DEF DfsInvariant, StackInv, VisitedInv, OrderInv, PathInv, Elements,
                                   NoRepeats, DepsFirst
<1> QED BY <1>4, <1>5, <1>6, <1>7 DEF IInv

LEMMA addEdgeIInv ==
  ASSUME NEW dependent \in TaskId, NEW dependency \in TaskId, IInv,
         addEdge(dependent, dependency)
  PROVE  IInv'
<1> USE BoundsAssumption
<1>1. /\ UNCHANGED <<stack, order, visited, inStack, pending, sorted, nextId>>
      /\ outcome' = "none" /\ Idle /\ dependent \in tasks /\ dependency \in tasks
      /\ Len(deps[dependent]) < MaxDeps
  BY DEF addEdge, dfsVars
<1>2. tasks = 1 .. nextId - 1 /\ nextId \in 1 .. MaxTasks + 1
  BY DEF tasks, IInv, TypeOK
<1>3. /\ deps' \in [1 .. nextId - 1 -> Seq(TaskId)]
      /\ deps'[dependent] = Append(deps[dependent], dependency)
      /\ \A t \in tasks : t # dependent => deps'[t] = deps[t]
  BY <1>1, <1>2 DEF addEdge, IInv, TypeOK
<1>4. tasks' = tasks
  BY <1>1, <1>2, <1>3 DEF tasks
<1>5. TypeOK'
  BY <1>1, <1>3 DEF IInv, TypeOK, Outcomes
<1>6. DepsClosed'
  <2>1. SUFFICES ASSUME NEW t \in tasks
                 PROVE  Elements(deps'[t]) \subseteq tasks /\ Len(deps'[t]) <= MaxDeps
    BY <1>4 DEF DepsClosed, Elements
  <2>2. Elements(deps[t]) \subseteq tasks /\ Len(deps[t]) <= MaxDeps
    BY DEF IInv, DepsClosed
  <2>3. CASE t = dependent
    <3>1. deps[t] \in Seq(TaskId)
      BY <1>2 DEF IInv, TypeOK
    <3>2. Elements(deps'[t]) = Elements(deps[t]) \cup {dependency}
      <4>1. Elements(Append(deps[t], dependency)) = Elements(deps[t]) \cup {dependency}
        BY ONLY <3>1, dependency \in TaskId, ElementsAppend
      <4>2. deps'[t] = Append(deps[t], dependency)
        BY <1>3, <2>3
      <4> QED BY <4>1, <4>2
    <3>3. Len(deps'[t]) = Len(deps[t]) + 1 /\ Len(deps[t]) \in Nat
      BY <1>3, <2>3, <3>1
    <3> QED BY <1>1, <2>2, <2>3, <3>2, <3>3
  <2>4. CASE t # dependent
    BY <1>3, <2>2, <2>4
  <2> QED BY <2>3, <2>4
<1>7. IdleIsClean' /\ SortedIsTopological' /\ CycleIsReal'
  BY <1>1 DEF IInv, IdleIsClean, SortedIsTopological, CycleIsReal, Idle
<1>8. DfsInvariant'
  <2>1. /\ stack' = <<>> /\ order' = <<>> /\ visited' = {} /\ inStack' = {}
        /\ pending' \subseteq tasks' /\ outcome' # "sorting"
    BY <1>1 DEF IInv, IdleIsClean
  <2> QED BY <2>1, EmptySearch DEF DfsInvariant, StackInv, VisitedInv, OrderInv, PathInv,
                                   Elements, NoRepeats, DepsFirst
<1> QED BY <1>5, <1>6, <1>7, <1>8 DEF IInv

LEMMA resetIInv == IInv /\ reset => IInv'
<1> SUFFICES ASSUME IInv, reset PROVE IInv'
  OBVIOUS
<1> USE BoundsAssumption
<1>1. /\ UNCHANGED <<stack, order, visited, inStack, pending>>
      /\ outcome' = "none" /\ Idle /\ nextId' = 1 /\ deps' = <<>> /\ sorted' = <<>>
  BY DEF reset, dfsVars
<1>2. deps' \in [1 .. nextId' - 1 -> Seq(TaskId)] /\ tasks' = {}
  BY <1>1, EmptySearch DEF tasks
<1>3. TypeOK'
  BY <1>1, <1>2 DEF IInv, TypeOK, Outcomes
<1>4. DepsClosed' /\ IdleIsClean' /\ SortedIsTopological' /\ CycleIsReal'
  BY <1>1, <1>2 DEF IInv, DepsClosed, IdleIsClean, SortedIsTopological, CycleIsReal, Idle
<1>5. DfsInvariant'
  <2>1. /\ stack' = <<>> /\ order' = <<>> /\ visited' = {} /\ inStack' = {}
        /\ pending' \subseteq tasks' /\ outcome' # "sorting"
    BY <1>1 DEF IInv, IdleIsClean
  <2> QED BY <2>1, EmptySearch DEF DfsInvariant, StackInv, VisitedInv, OrderInv, PathInv,
                                   Elements, NoRepeats, DepsFirst
<1> QED BY <1>3, <1>4, <1>5 DEF IInv

\* What every step of a sort leaves alone.
LEMMA GraphKept ==
  IInv /\ UNCHANGED graphVars =>
    /\ tasks' = tasks /\ depSets' = depSets /\ DepsClosed'
    /\ nextId' \in 1 .. MaxTasks + 1 /\ deps' \in [1 .. nextId' - 1 -> Seq(TaskId)]
<1> SUFFICES ASSUME IInv, UNCHANGED graphVars
    PROVE /\ tasks' = tasks /\ depSets' = depSets /\ DepsClosed'
          /\ nextId' \in 1 .. MaxTasks + 1 /\ deps' \in [1 .. nextId' - 1 -> Seq(TaskId)]
  OBVIOUS
<1>1. nextId' = nextId /\ deps' = deps
  BY DEF graphVars
<1>2. tasks' = tasks /\ depSets' = depSets
  BY SameGraph
<1> QED BY <1>1, <1>2 DEF IInv, DepsClosed, TypeOK

LEMMA SortBeginIInv == IInv /\ SortBegin => IInv'
<1> SUFFICES ASSUME IInv, SortBegin PROVE IInv'
  OBVIOUS
<1>1. /\ stack' = <<>> /\ order' = <<>> /\ visited' = {} /\ inStack' = {}
      /\ pending' = tasks /\ outcome' = "sorting" /\ sorted' = <<>> /\ UNCHANGED graphVars
  BY DEF SortBegin
<1>2. /\ tasks' = tasks /\ DepsClosed'
      /\ nextId' \in 1 .. MaxTasks + 1 /\ deps' \in [1 .. nextId' - 1 -> Seq(TaskId)]
  BY <1>1, GraphKept
<1>3. tasks \subseteq TaskId
  BY BoundsAssumption DEF IInv, TypeOK, tasks, TaskId
<1>4. TypeOK'
  <2>1. /\ <<>> \in Seq(TaskId) /\ <<>> \in Seq(Frame)
        /\ {} \subseteq TaskId /\ "sorting" \in Outcomes
    BY DEF Outcomes
  <2> QED BY <1>1, <1>2, <1>3, <2>1 DEF TypeOK
<1>5. IdleIsClean' /\ SortedIsTopological' /\ CycleIsReal'
  BY <1>1 DEF IdleIsClean, SortedIsTopological, CycleIsReal, Idle
<1>6. DfsInvariant'
  BY <1>1, <1>2, EmptySearch DEF DfsInvariant, StackInv, VisitedInv, OrderInv, PathInv,
                                 Elements, NoRepeats, DepsFirst
<1> QED BY <1>2, <1>4, <1>5, <1>6 DEF IInv

\* What is used of the invariant while a sort runs, in one place.
LEMMA SortingFacts ==
  ASSUME IInv
  PROVE  /\ stack \in Seq(Frame) /\ order \in Seq(TaskId)
         /\ DOMAIN stack = 1 .. Len(stack) /\ Len(stack) \in Nat
         /\ \A i \in 1 .. Len(stack) :
              /\ stack[i] \in Frame /\ stack[i].id \in TaskId
              /\ stack[i].next \in 1 .. MaxDeps + 1
              /\ stack[i].id \in inStack /\ stack[i].id \in tasks
         /\ tasks \subseteq TaskId
         /\ \A t \in tasks : /\ deps[t] \in Seq(TaskId) /\ Len(deps[t]) \in 0 .. MaxDeps
                             /\ DOMAIN deps[t] = 1 .. Len(deps[t])
                             /\ \A k \in 1 .. Len(deps[t]) : deps[t][k] \in tasks
<1>1. /\ stack \in Seq(Frame) /\ order \in Seq(TaskId)
      /\ DOMAIN stack = 1 .. Len(stack) /\ Len(stack) \in Nat
  BY DEF IInv, TypeOK
<1>2. \A i \in 1 .. Len(stack) : stack[i] \in Frame
  BY <1>1
<1>3. \A i \in 1 .. Len(stack) : stack[i].id \in TaskId /\ stack[i].next \in 1 .. MaxDeps + 1
  BY <1>2 DEF Frame
<1>4. \A i \in 1 .. Len(stack) : stack[i].id \in inStack /\ stack[i].id \in tasks
  BY <1>1 DEF IInv, DfsInvariant, StackInv, VisitedInv
<1>5. tasks \subseteq TaskId
  BY BoundsAssumption DEF IInv, TypeOK, tasks, TaskId
<1>6. \A t \in tasks : deps[t] \in Seq(TaskId)
  BY DEF IInv, TypeOK, tasks
<1>7. ASSUME NEW t \in tasks
      PROVE  /\ Len(deps[t]) \in 0 .. MaxDeps
             /\ DOMAIN deps[t] = 1 .. Len(deps[t])
             /\ \A k \in 1 .. Len(deps[t]) : deps[t][k] \in tasks
  <2>1. DOMAIN deps[t] = 1 .. Len(deps[t]) /\ Len(deps[t]) \in Nat
    BY <1>6
  <2>2. Elements(deps[t]) \subseteq tasks /\ Len(deps[t]) <= MaxDeps
    BY DEF IInv, DepsClosed
  <2> QED BY <2>1, <2>2, BoundsAssumption DEF Elements
<1> QED BY <1>1, <1>2, <1>3, <1>4, <1>5, <1>6, <1>7

\* Entering dfsVisit(id): a new root, or the dependency the top frame is at.
LEMMA EnterIInv ==
  ASSUME IInv, NEW id \in tasks, id \notin visited, Enter(id),
         stack = <<>> \/ /\ Top.next <= Len(deps[Top.id])
                         /\ deps[Top.id][Top.next] = id,
         UNCHANGED <<graphVars, sorted, outcome, order>>, outcome = "sorting",
         pending' \subseteq pending, pending \subseteq pending' \cup {id}
  PROVE  IInv'
<1> DEFINE n == Len(stack)
           f == [id |-> id, next |-> 1]
<1>1. /\ inStack' = inStack \cup {id} /\ visited' = visited \cup {id}
      /\ stack' = Append(stack, f)
      /\ deps' = deps /\ sorted' = sorted /\ outcome' = outcome /\ order' = order
      /\ UNCHANGED graphVars
  BY DEF Enter, graphVars
<1>2. /\ tasks' = tasks /\ depSets' = depSets /\ DepsClosed'
      /\ nextId' \in 1 .. MaxTasks + 1 /\ deps' \in [1 .. nextId' - 1 -> Seq(TaskId)]
  BY <1>1, GraphKept
<1>3. f \in Frame /\ f.id = id /\ f.next = 1
  BY SortingFacts, BoundsAssumption DEF Frame
<1> HIDE DEF f
<1>4. /\ n \in Nat /\ DOMAIN stack = 1 .. n
      /\ stack' \in Seq(Frame) /\ Len(stack') = n + 1 /\ DOMAIN stack' = 1 .. n + 1
      /\ \A i \in 1 .. n : stack'[i] = stack[i]
      /\ stack'[n + 1] = f
  BY <1>1, <1>3, SortingFacts
<1>5. TypeOK'
  BY <1>1, <1>2, <1>4, SortingFacts DEF IInv, TypeOK
<1>6. IdleIsClean' /\ SortedIsTopological' /\ CycleIsReal'
  BY <1>1 DEF IdleIsClean, SortedIsTopological, CycleIsReal, Idle
<1>7. StackInv'
  <2>1. \A i \in 1 .. n : stack[i].id \in inStack /\ stack[i].id # id
    BY SortingFacts DEF IInv, DfsInvariant, VisitedInv
  <2>2. inStack' = {stack'[i].id : i \in 1 .. n + 1}
    BY <1>1, <1>3, <1>4 DEF IInv, DfsInvariant, StackInv
  <2>3. \A i, j \in 1 .. n : stack[i].id = stack[j].id => i = j
    BY <1>4 DEF IInv, DfsInvariant, StackInv
  <2>4. ASSUME NEW i \in 1 .. n + 1, NEW j \in 1 .. n + 1, stack'[i].id = stack'[j].id
        PROVE  i = j
    BY <1>3, <1>4, <2>1, <2>3, <2>4
  <2> QED BY <1>4, <2>2, <2>4 DEF StackInv
<1>8. VisitedInv'
  <2>1. id \notin inStack
    BY DEF IInv, DfsInvariant, VisitedInv
  <2> QED BY <1>1, <1>2, <2>1 DEF IInv, DfsInvariant, VisitedInv, Elements
<1>9. OrderInv'
  BY <1>1, <1>2 DEF IInv, DfsInvariant, OrderInv, NoRepeats, DepsFirst
<1>10. PathInv'
  <2>1. SUFFICES ASSUME NEW i \in 1 .. n + 1
        PROVE /\ stack'[i].next <= Len(deps[stack'[i].id]) + 1
              /\ \A k \in 1 .. stack'[i].next - 1 : deps[stack'[i].id][k] \in Elements(order)
              /\ i < n + 1 => /\ stack'[i].next <= Len(deps[stack'[i].id])
                              /\ deps[stack'[i].id][stack'[i].next] = stack'[i + 1].id
    BY <1>1, <1>4 DEF PathInv, Elements
  <2>2. CASE i = n + 1
    BY <1>3, <1>4, <2>2, SortingFacts
  <2>3. CASE i \in 1 .. n - 1
    <3>1. i + 1 \in 1 .. n /\ i \in 1 .. n /\ i < Len(stack)
      BY <1>4, <2>3
    <3> QED BY <1>4, <3>1 DEF IInv, DfsInvariant, PathInv
  <2>4. CASE i = n /\ n > 0
    <3>1. stack # <<>> /\ Top = stack[n] /\ stack'[i + 1].id = id /\ stack'[i] = stack[n]
      BY <1>3, <1>4, <2>4 DEF Top
    <3>2. deps[Top.id][Top.next] = id /\ Top.next <= Len(deps[Top.id])
      BY <3>1
    <3>3. \A k \in 1 .. stack[n].next - 1 : deps[stack[n].id][k] \in Elements(order)
      BY <1>4, <2>4 DEF IInv, DfsInvariant, PathInv
    <3>4. stack[n].next \in Nat /\ Len(deps[stack[n].id]) \in Nat
      BY <1>4, <2>4, SortingFacts
    <3> QED BY <3>1, <3>2, <3>3, <3>4
  <2> QED BY <1>4, <2>2, <2>3, <2>4
<1> QED BY <1>2, <1>5, <1>6, <1>7, <1>8, <1>9, <1>10 DEF IInv, DfsInvariant

LEMMA SortRootIInv ==
  ASSUME IInv, NEW id \in TaskId, SortRoot(id)
  PROVE  IInv'
<1>1. /\ outcome = "sorting" /\ stack = <<>> /\ id \in pending /\ pending' = pending \ {id}
      /\ UNCHANGED <<graphVars, sorted, outcome, order>>
  BY DEF SortRoot
<1>2. id \in tasks
  BY <1>1 DEF IInv, DfsInvariant, VisitedInv
<1>3. CASE id \in visited
  <2>1. UNCHANGED <<visited, inStack, stack>>
    BY <1>3 DEF SortRoot
  <2>2. /\ tasks' = tasks /\ depSets' = depSets /\ DepsClosed'
        /\ nextId' \in 1 .. MaxTasks + 1 /\ deps' \in [1 .. nextId' - 1 -> Seq(TaskId)]
    BY <1>1, GraphKept
  <2>3. TypeOK'
    BY <1>1, <2>1, <2>2 DEF IInv, TypeOK
  <2>4. IdleIsClean' /\ SortedIsTopological' /\ CycleIsReal'
    BY <1>1 DEF IdleIsClean, SortedIsTopological, CycleIsReal, Idle
  <2>5. StackInv' /\ OrderInv' /\ PathInv'
    BY <1>1, <2>1, <2>2 DEF IInv, DfsInvariant, StackInv, OrderInv, PathInv, Elements, NoRepeats,
                            DepsFirst, graphVars
  <2>6. VisitedInv'
    BY <1>1, <1>3, <2>1, <2>2 DEF IInv, DfsInvariant, VisitedInv, Elements
  <2> QED BY <2>2, <2>3, <2>4, <2>5, <2>6 DEF IInv, DfsInvariant
<1>4. CASE id \notin visited
  <2>1. Enter(id)
    BY <1>4 DEF SortRoot
  <2> QED BY <1>1, <1>2, <1>4, <2>1, EnterIInv
<1> QED BY <1>3, <1>4

\* A dependency found in inStack closes a cycle: the active frames.
LEMMA ActiveFramesClose ==
  ASSUME IInv, stack # <<>>, Top.next <= Len(deps[Top.id]),
         deps[Top.id][Top.next] \in inStack
  PROVE  HasCycle(tasks, depSets)
<1> DEFINE n == Len(stack)
<1>1. n \in Nat /\ n > 0 /\ DOMAIN stack = 1 .. n /\ Top = stack[n]
  BY SortingFacts DEF Top
<1>2. inStack \subseteq tasks /\ stack[n].id \in inStack
  BY <1>1, SortingFacts DEF IInv, DfsInvariant, VisitedInv
<1>3. ASSUME NEW t \in inStack
      PROVE  depSets[t] \cap inStack # {}
  <2>1. PICK i \in 1 .. n : t = stack[i].id
    BY <1>1 DEF IInv, DfsInvariant, StackInv
  <2>2. depSets[t] = Elements(deps[t]) /\ t \in tasks
    BY <1>2 DEF depSets
  <2>3. ASSUME NEW k \in 1 .. Len(deps[t]), deps[t][k] \in inStack
        PROVE  depSets[t] \cap inStack # {}
    <3>0. Len(deps[t]) \in Nat
      BY <2>2, SortingFacts
    <3>1. k \in DOMAIN deps[t]
      BY <2>2, SortingFacts
    <3> QED BY <2>2, <2>3, <3>1 DEF Elements
  <2>4. stack[i].next \in Nat \ {0} /\ Len(deps[t]) \in Nat
    BY <1>1, <2>1, <2>2, SortingFacts
  <2>5. CASE i = n
    <3>1. t = Top.id /\ stack[i].next = Top.next
      BY <1>1, <2>1, <2>5
    <3>2. Top.next \in 1 .. Len(deps[t]) /\ deps[t][Top.next] \in inStack
      BY <2>4, <3>1
    <3> QED BY <2>3, <3>2
  <2>6. CASE i < n
    <3>1. i + 1 \in 1 .. n /\ i \in DOMAIN stack
      BY <1>1, <2>6
    <3>2. /\ stack[i].next <= Len(deps[t])
          /\ deps[t][stack[i].next] = stack[i + 1].id
      BY <2>1, <2>6, <3>1 DEF IInv, DfsInvariant, PathInv
    <3>3. stack[i + 1].id \in inStack
      BY <3>1, SortingFacts
    <3> QED BY <2>3, <2>4, <3>2, <3>3
  <2>7. i \in Nat /\ n \in Nat /\ i <= n
    BY <1>1
  <2>8. i = n \/ i < n
    BY <2>7
  <2> QED BY <2>5, <2>6, <2>8
<1> QED BY <1>2, <1>3 DEF HasCycle

LEMMA VisitDependencyIInv == IInv /\ VisitDependency => IInv'
<1> SUFFICES ASSUME IInv, VisitDependency PROVE IInv'
  OBVIOUS
<1> DEFINE n == Len(stack)
           dep == deps[Top.id][Top.next]
<1>1. outcome = "sorting" /\ stack # <<>> /\ Top.next <= Len(deps[Top.id])
  BY DEF VisitDependency
<1>2. n \in Nat /\ n > 0 /\ DOMAIN stack = 1 .. n /\ Top = stack[n]
  BY <1>1, SortingFacts DEF Top
<1>3. /\ Top.id \in tasks /\ Top.next \in 1 .. Len(deps[Top.id])
      /\ Len(deps[Top.id]) \in 0 .. MaxDeps
  BY <1>1, <1>2, SortingFacts
<1>4. dep \in tasks
  BY <1>3, SortingFacts
<1>5. CASE dep \in inStack /\ Unwind
  <2>1. HasCycle(tasks, depSets)
    BY <1>1, <1>5, ActiveFramesClose
  <2>2. /\ outcome' = "CYCLE_DETECTED" /\ pending' = {} /\ visited' = {} /\ inStack' = {}
        /\ order' = <<>> /\ stack' = <<>> /\ sorted' = sorted /\ UNCHANGED graphVars
    BY <1>5 DEF Unwind
  <2>3. /\ tasks' = tasks /\ depSets' = depSets /\ DepsClosed'
        /\ nextId' \in 1 .. MaxTasks + 1 /\ deps' \in [1 .. nextId' - 1 -> Seq(TaskId)]
    BY <2>2, GraphKept
  <2>4. TypeOK'
    <3>1. <<>> \in Seq(TaskId) /\ <<>> \in Seq(Frame) /\ "CYCLE_DETECTED" \in Outcomes
      BY DEF Outcomes
    <3>2. sorted \in Seq(TaskId)
      BY DEF IInv, TypeOK
    <3> QED BY <2>2, <2>3, <3>1, <3>2 DEF TypeOK
  <2>5. IdleIsClean' /\ SortedIsTopological' /\ CycleIsReal'
    BY <2>1, <2>2, <2>3 DEF IdleIsClean, SortedIsTopological, CycleIsReal, Idle, HasCycle
  <2>6. DfsInvariant'
    BY <2>2, <2>3, EmptySearch DEF DfsInvariant, StackInv, VisitedInv, OrderInv, PathInv,
                                   Elements, NoRepeats, DepsFirst
  <2> QED BY <2>3, <2>4, <2>5, <2>6 DEF IInv
<1>6. CASE /\ dep \notin inStack /\ dep \in visited
           /\ stack' = [stack EXCEPT ![Len(stack)].next = @ + 1]
           /\ UNCHANGED <<graphVars, sorted, outcome, pending, visited, inStack, order>>
  <2>1. /\ tasks' = tasks /\ depSets' = depSets /\ DepsClosed' /\ deps' = deps
        /\ nextId' \in 1 .. MaxTasks + 1 /\ deps' \in [1 .. nextId' - 1 -> Seq(TaskId)]
    BY <1>6, GraphKept DEF graphVars
  <2>2. /\ stack[n] \in Frame /\ stack[n].id \in TaskId /\ stack[n].next + 1 \in 1 .. MaxDeps + 1
    BY <1>2, <1>3, SortingFacts, BoundsAssumption
  <2> DEFINE f == [stack[n] EXCEPT !.next = @ + 1]
  <2>3. f \in Frame /\ f.id = stack[n].id /\ f.next = stack[n].next + 1
    BY <2>2 DEF Frame
  <2>4. stack' = [stack EXCEPT ![n] = f]
    BY <1>6
  <2> HIDE DEF f
  <2>5. /\ stack' \in Seq(Frame) /\ Len(stack') = n /\ DOMAIN stack' = 1 .. n
        /\ \A i \in 1 .. n : stack'[i] = IF i = n THEN f ELSE stack[i]
    BY <1>2, <2>3, <2>4, SortingFacts
  <2>6. \A i \in 1 .. n : stack'[i].id = stack[i].id
    BY <2>3, <2>5
  <2>7. TypeOK'
    BY <1>6, <2>1, <2>5 DEF IInv, TypeOK
  <2>8. IdleIsClean' /\ SortedIsTopological' /\ CycleIsReal'
    BY <1>1, <1>6 DEF IdleIsClean, SortedIsTopological, CycleIsReal, Idle
  <2>9. StackInv'
    BY <1>2, <1>6, <2>5, <2>6 DEF IInv, DfsInvariant, StackInv
  <2>10. VisitedInv' /\ OrderInv'
    BY <1>6, <2>1 DEF IInv, DfsInvariant, VisitedInv, OrderInv, Elements, NoRepeats, DepsFirst
  <2>11. dep \in Elements(order)
    BY <1>6 DEF IInv, DfsInvariant, VisitedInv
  <2>12. PathInv'
    <3>1. SUFFICES ASSUME NEW i \in 1 .. n
          PROVE /\ stack'[i].next <= Len(deps[stack[i].id]) + 1
                /\ \A k \in 1 .. stack'[i].next - 1 : deps[stack[i].id][k] \in Elements(order)
                /\ i < n => /\ stack'[i].next <= Len(deps[stack[i].id])
                            /\ deps[stack[i].id][stack'[i].next] = stack'[i + 1].id
      BY <1>6, <2>1, <2>5, <2>6, SMTT(30) DEF PathInv, Elements
    <3>2. CASE i < n
      <4>1. i + 1 \in 1 .. n /\ i \in DOMAIN stack
        BY <1>2, <3>2
      <4>2. stack'[i] = stack[i]
        <5>1. i \in Nat /\ n \in Nat
          BY <1>2
        <5>2. i # n
          BY <3>2, <5>1
        <5> QED BY <2>5, <5>2
      <4>3. stack'[i + 1].id = stack[i + 1].id
        BY <2>6, <4>1
      <4> QED BY <3>2, <4>1, <4>2, <4>3 DEF IInv, DfsInvariant, PathInv
    <3>3. CASE i = n
      <4>1. stack'[i].next = stack[n].next + 1 /\ stack[n].next \in Nat
        <5>1. stack'[i] = f
          BY <2>5, <3>3
        <5> QED BY <1>2, <1>3, <2>3, <5>1
      <4>2. \A k \in 1 .. stack[n].next - 1 : deps[stack[n].id][k] \in Elements(order)
        BY <1>2 DEF IInv, DfsInvariant, PathInv
      <4>3. /\ stack[n].next <= Len(deps[stack[n].id]) /\ Len(deps[stack[n].id]) \in Nat
            /\ deps[stack[n].id][stack[n].next] \in Elements(order)
        BY <1>2, <1>3, <2>11
      <4>4. ASSUME NEW k \in 1 .. stack'[i].next - 1
            PROVE  deps[stack[n].id][k] \in Elements(order)
        <5>1. k = stack[n].next \/ k \in 1 .. stack[n].next - 1
          BY <4>1
        <5> QED BY <4>2, <4>3, <5>1
      <4>5. ~(n < n)
        BY <1>2
      <4>6. stack'[i].next <= Len(deps[stack[n].id]) + 1
        BY <4>1, <4>3
      <4>7. \A k \in 1 .. stack'[i].next - 1 : deps[stack[i].id][k] \in Elements(order)
        BY <3>3, <4>4
      <4>8. ~(i < n)
        BY <3>3, <4>5
      <4>9. stack'[i].next <= Len(deps[stack[i].id]) + 1
        BY <3>3, <4>6
      <4> QED BY <4>7, <4>8, <4>9
    <3>4. i \in Nat /\ n \in Nat /\ i <= n
      BY <1>2
    <3>5. i < n \/ i = n
      BY <3>4
    <3> QED BY <3>2, <3>3, <3>5
  <2> QED BY <2>1, <2>7, <2>8, <2>9, <2>10, <2>12 DEF IInv, DfsInvariant
<1>7. CASE /\ dep \notin inStack /\ dep \notin visited
           /\ Enter(dep)
           /\ UNCHANGED <<graphVars, sorted, outcome, pending, order>>
  <2>1. pending' \subseteq pending /\ pending \subseteq pending' \cup {dep}
    BY <1>7
  <2> HIDE DEF dep
  <2> QED BY <1>1, <1>4, <1>7, <2>1, EnterIInv DEF dep
<1> QED BY <1>5, <1>6, <1>7 DEF VisitDependency

\* dfsVisit(Top.id) has seen every dependency: it leaves inStack for order, and
\* the caller's loop moves past it.
LEMMA FinishVisitIInv == IInv /\ FinishVisit => IInv'
<1> SUFFICES ASSUME IInv, FinishVisit PROVE IInv'
  OBVIOUS
<1> DEFINE n == Len(stack)
           m == Len(stack) - 1
           id == Top.id
<1>1. /\ outcome = "sorting" /\ stack # <<>> /\ Top.next > Len(deps[id])
      /\ inStack' = inStack \ {id} /\ order' = Append(order, id) /\ stack' = Return
      /\ UNCHANGED <<graphVars, sorted, outcome, pending, visited>> /\ deps' = deps
  BY DEF FinishVisit, graphVars
<1>2. /\ n \in Nat /\ m \in Nat /\ n = m + 1 /\ DOMAIN stack = 1 .. n /\ Top = stack[n]
      /\ n \in 1 .. n /\ 1 .. n = 1 .. m \cup {n} /\ n \notin 1 .. m
  BY <1>1, SortingFacts DEF Top
<1>3. /\ id \in tasks /\ id \in TaskId /\ id \in inStack /\ id \in visited
      /\ Len(deps[id]) \in Nat /\ Top.next \in Nat
  BY <1>2, SortingFacts DEF IInv, DfsInvariant, VisitedInv
<1> HIDE DEF n, m, id
<1>4. /\ tasks' = tasks /\ depSets' = depSets /\ DepsClosed'
      /\ nextId' \in 1 .. MaxTasks + 1 /\ deps' \in [1 .. nextId' - 1 -> Seq(TaskId)]
  BY <1>1, GraphKept
<1>5. Elements(order') = Elements(order) \cup {id} /\ order' \in Seq(TaskId)
  BY <1>1, <1>3, SortingFacts, ElementsAppend
<1>6. \A i \in 1 .. m : stack[i].id # id /\ stack[i].id \in inStack
  <2>1. ASSUME NEW i \in 1 .. m
        PROVE  i \in DOMAIN stack /\ n \in DOMAIN stack /\ i # n /\ stack[i].id \in inStack
    BY <1>2, SortingFacts DEF n
  <2> QED BY <1>2, <2>1 DEF IInv, DfsInvariant, StackInv, id
<1>7. /\ stack' \in Seq(Frame) /\ Len(stack') = m /\ DOMAIN stack' = 1 .. m
      /\ \A i \in 1 .. m : /\ stack'[i].id = stack[i].id
                           /\ stack'[i].next = IF i = m THEN stack[i].next + 1 ELSE stack[i].next
  <2>1. stack' = [i \in 1 .. m |-> IF i = m THEN [stack[i] EXCEPT !.next = @ + 1] ELSE stack[i]]
    BY <1>1 DEF Return, m
  <2>2. ASSUME NEW i \in 1 .. m
        PROVE  /\ stack'[i] \in Frame /\ stack'[i].id = stack[i].id
               /\ stack'[i].next = IF i = m THEN stack[i].next + 1 ELSE stack[i].next
    <3>1. /\ stack[i] \in Frame /\ stack[i].id \in tasks /\ i \in DOMAIN stack /\ i \in Nat /\ i < n
          /\ stack[i].next \in 1 .. MaxDeps + 1
      BY <1>2, SortingFacts DEF n
    <3>2. /\ stack[i].next <= Len(deps[stack[i].id]) /\ Len(deps[stack[i].id]) \in 0 .. MaxDeps
      BY <3>1, SortingFacts DEF IInv, DfsInvariant, PathInv, n
    <3>3. stack[i].next + 1 \in 1 .. MaxDeps + 1
      BY <3>1, <3>2, BoundsAssumption
    <3>4. stack'[i] = IF i = m THEN [stack[i] EXCEPT !.next = @ + 1] ELSE stack[i]
      BY <2>1
    <3> QED BY <3>1, <3>3, <3>4 DEF Frame
  <2>3. stack' \in [1 .. m -> Frame]
    BY <2>1, <2>2
  <2>4. stack' \in Seq(Frame)
    BY <1>2, <2>3
  <2> QED BY <1>2, <2>1, <2>2, <2>4
<1>8. TypeOK'
  <2>1. inStack' \subseteq TaskId
    BY <1>1 DEF IInv, TypeOK
  <2> QED BY <1>1, <1>4, <1>5, <1>7, <2>1 DEF IInv, TypeOK
<1>9. IdleIsClean' /\ SortedIsTopological' /\ CycleIsReal'
  BY <1>1 DEF IdleIsClean, SortedIsTopological, CycleIsReal, Idle
<1>10. StackInv'
  <2>1. inStack' = {stack[i].id : i \in 1 .. m}
    <3>1. inStack = {stack[i].id : i \in 1 .. n} /\ id = stack[n].id
      BY <1>2 DEF IInv, DfsInvariant, StackInv, id
    <3> QED BY <1>1, <1>2, <1>6, <3>1
  <2>2. \A i, j \in 1 .. m : stack[i].id = stack[j].id => i = j
    BY <1>2 DEF IInv, DfsInvariant, StackInv
  <2> QED BY <1>7, <2>1, <2>2 DEF StackInv
<1>11. VisitedInv'
  <2>1. Elements(order) = visited \ inStack /\ inStack \subseteq visited
    BY DEF IInv, DfsInvariant, VisitedInv
  <2>2. Elements(order') = visited' \ inStack'
    BY <1>1, <1>3, <1>5, <2>1
  <2> QED BY <1>1, <1>4, <2>1, <2>2 DEF IInv, DfsInvariant, VisitedInv
<1>12. \A k \in 1 .. Len(deps[id]) : deps[id][k] \in Elements(order)
  <2>1. \A k \in 1 .. Top.next - 1 : deps[id][k] \in Elements(order)
    BY <1>2 DEF IInv, DfsInvariant, PathInv, id
  <2> QED BY <1>1, <1>3, <2>1
<1>13. OrderInv'
  <2>1. id \notin Elements(order)
    BY <1>3 DEF IInv, DfsInvariant, VisitedInv
  <2>2. NoRepeats(order')
    BY <1>1, <1>3, <2>1, SortingFacts, NoRepeatsAppend DEF IInv, DfsInvariant, OrderInv
  <2>3. depSets[id] \subseteq Elements(order)
    BY <1>3, <1>12, SortingFacts DEF depSets, Elements
  <2>4. DepsFirst(order', depSets)
    BY <1>1, <1>3, <2>3, SortingFacts, DepsFirstAppend DEF IInv, DfsInvariant, OrderInv
  <2> QED BY <1>4, <2>2, <2>4 DEF OrderInv
<1>14. PathInv'
  <2>1. SUFFICES ASSUME NEW i \in 1 .. m
        PROVE /\ stack'[i].next <= Len(deps[stack[i].id]) + 1
              /\ \A k \in 1 .. stack'[i].next - 1 : deps[stack[i].id][k] \in Elements(order')
              /\ i < m => /\ stack'[i].next <= Len(deps[stack[i].id])
                          /\ deps[stack[i].id][stack'[i].next] = stack'[i + 1].id
    BY <1>1, <1>7 DEF PathInv, Elements
  <2>2. /\ i \in DOMAIN stack /\ i \in Nat /\ i < n /\ i <= m /\ stack[i].next \in Nat
        /\ i + 1 \in DOMAIN stack /\ Len(deps[stack[i].id]) \in Nat
    BY <1>2, SortingFacts DEF n
  <2>3. /\ stack[i].next <= Len(deps[stack[i].id])
        /\ deps[stack[i].id][stack[i].next] = stack[i + 1].id
        /\ \A k \in 1 .. stack[i].next - 1 : deps[stack[i].id][k] \in Elements(order)
    BY <2>2 DEF IInv, DfsInvariant, PathInv, n
  <2>4. CASE i # m
    <3>1. i + 1 \in 1 .. m
      BY <1>2, <2>2, <2>4
    <3>2. stack'[i + 1].id = stack[i + 1].id /\ stack'[i].next = stack[i].next
      BY <1>7, <2>4, <3>1
    <3> QED BY <1>5, <2>2, <2>3, <3>2
  <2>5. CASE i = m
    <3>1. stack[i + 1].id = id /\ stack'[i].next = stack[i].next + 1
      BY <1>2, <1>7, <2>5 DEF id
    <3>2. ASSUME NEW k \in 1 .. stack'[i].next - 1
          PROVE  deps[stack[i].id][k] \in Elements(order')
      <4>1. k = stack[i].next \/ k \in 1 .. stack[i].next - 1
        BY <2>2, <3>1
      <4> QED BY <1>5, <2>3, <3>1, <4>1
    <3>3. stack'[i].next <= Len(deps[stack[i].id]) + 1 /\ ~(i < m)
      BY <2>2, <2>3, <2>5, <3>1
    <3> QED BY <3>2, <3>3
  <2> QED BY <2>4, <2>5
<1> QED BY <1>4, <1>8, <1>9, <1>10, <1>11, <1>13, <1>14 DEF IInv, DfsInvariant

LEMMA SortEndIInv == IInv /\ SortEnd => IInv'
<1> SUFFICES ASSUME IInv, SortEnd PROVE IInv'
  OBVIOUS
<1>1. /\ outcome = "sorting" /\ stack = <<>> /\ pending = {} /\ sorted' = order
      /\ outcome' = "sorted" /\ visited' = {} /\ inStack' = {} /\ order' = <<>>
      /\ pending' = {} /\ stack' = <<>> /\ UNCHANGED graphVars
  BY DEF SortEnd
<1>2. /\ tasks' = tasks /\ depSets' = depSets /\ DepsClosed'
      /\ nextId' \in 1 .. MaxTasks + 1 /\ deps' \in [1 .. nextId' - 1 -> Seq(TaskId)]
  BY <1>1, GraphKept
<1>3. IsTopologicalOrder(order, tasks, depSets)
  <2>1. inStack = {}
    BY <1>1, EmptySearch DEF IInv, DfsInvariant, StackInv
  <2>2. visited = tasks
    BY <1>1 DEF IInv, DfsInvariant, VisitedInv
  <2> QED BY <2>1, <2>2 DEF IInv, DfsInvariant, VisitedInv, OrderInv, IsTopologicalOrder
<1>4. TypeOK'
  <2>1. /\ <<>> \in Seq(TaskId) /\ <<>> \in Seq(Frame) /\ {} \subseteq TaskId
        /\ "sorted" \in Outcomes /\ order \in Seq(TaskId)
    BY DEF Outcomes, IInv, TypeOK
  <2> QED BY <1>1, <1>2, <2>1 DEF TypeOK
<1>5. SortedIsTopological'
  BY <1>1, <1>2, <1>3 DEF SortedIsTopological, IsTopologicalOrder, Elements, NoRepeats, DepsFirst
<1>6. IdleIsClean' /\ CycleIsReal'
  BY <1>1 DEF IdleIsClean, CycleIsReal, Idle
<1>7. DfsInvariant'
  BY <1>1, EmptySearch DEF DfsInvariant, StackInv, VisitedInv, OrderInv, PathInv, Elements,
                           NoRepeats, DepsFirst
<1> QED BY <1>2, <1>4, <1>5, <1>6, <1>7 DEF IInv

-------------------------------------------------------------------------------
(* The theorems *)

LEMMA StepIInv == IInv /\ [Next]_vars => IInv'
<1> SUFFICES ASSUME IInv, [Next]_vars PROVE IInv'
  OBVIOUS
<1>1. CASE addTask
  BY <1>1, addTaskIInv
<1>2. CASE \E dependent, dependency \in TaskId : addEdge(dependent, dependency)
  BY <1>2, addEdgeIInv
<1>3. CASE reset
  BY <1>3, resetIInv
<1>4. CASE SortBegin
  BY <1>4, SortBeginIInv
<1>5. CASE \E id \in TaskId : SortRoot(id)
  BY <1>5, SortRootIInv
<1>6. CASE VisitDependency
  BY <1>6, VisitDependencyIInv
<1>7. CASE FinishVisit
  BY <1>7, FinishVisitIInv
<1>8. CASE SortEnd
  BY <1>8, SortEndIInv
<1>9. CASE UNCHANGED vars
  <2>1. /\ UNCHANGED <<graphVars, nextId, deps, sorted, outcome, pending, visited, inStack>>
        /\ UNCHANGED <<order, stack>>
    BY <1>9 DEF vars, graphVars
  <2>2. tasks' = tasks /\ depSets' = depSets /\ DepsClosed'
    BY <2>1, GraphKept
  <2>3. TypeOK' /\ IdleIsClean'
    BY <2>1 DEF IInv, TypeOK, IdleIsClean, Idle
  <2>4. StackInv' /\ VisitedInv' /\ PathInv'
    <3>1. StackInv'
      BY <2>1 DEF IInv, DfsInvariant, StackInv
    <3>2. VisitedInv'
      BY <2>1, <2>2 DEF IInv, DfsInvariant, VisitedInv, Elements
    <3>3. PathInv'
      BY <2>1 DEF IInv, DfsInvariant, PathInv, Elements
    <3> QED BY <3>1, <3>2, <3>3
  <2>5. OrderInv'
    BY <2>1, <2>2 DEF IInv, DfsInvariant, OrderInv, NoRepeats, DepsFirst
  <2>6. SortedIsTopological' /\ CycleIsReal'
    BY <2>1, <2>2 DEF IInv, SortedIsTopological, CycleIsReal, IsTopologicalOrder, Elements,
                      NoRepeats, DepsFirst, HasCycle
  <2> QED BY <2>2, <2>3, <2>4, <2>5, <2>6 DEF IInv, DfsInvariant
<1> QED BY <1>1, <1>2, <1>3, <1>4, <1>5, <1>6, <1>7, <1>8, <1>9 DEF Next, SortStep

\* Every call sequence keeps the inductive invariant.
THEOREM Invariant == Spec => []IInv
BY InitIInv, StepIInv, PTL DEF Spec

\* The graph and the locals of the sort keep their types.
THEOREM TypeCorrect == Spec => []TypeOK
<1>1. IInv => TypeOK
  BY DEF IInv
<1> QED BY <1>1, Invariant, PTL

\* The search's bookkeeping is right at every call and return of dfsVisit.
THEOREM DfsCorrect == Spec => []DfsInvariant
<1>1. IInv => DfsInvariant
  BY DEF IInv
<1> QED BY <1>1, Invariant, PTL

\* A successful topologicalSort lists every task once, dependencies first.
THEOREM SortedCorrect == Spec => []SortedIsTopological
<1>1. IInv => SortedIsTopological
  BY DEF IInv
<1> QED BY <1>1, Invariant, PTL

\* CYCLE_DETECTED is reported of a graph with a cycle ...
THEOREM CycleSound == Spec => []CycleIsReal
<1>1. IInv => CycleIsReal
  BY DEF IInv
<1> QED BY <1>1, Invariant, PTL

\* ... and success never is.
THEOREM CycleComplete == Spec => []CycleIsFound
<1>1. IInv => CycleIsFound
  <2> SUFFICES ASSUME IInv, outcome = "sorted" PROVE ~HasCycle(tasks, depSets)
    BY DEF CycleIsFound
  <2>1. IsTopologicalOrder(sorted, tasks, depSets)
    BY DEF IInv, SortedIsTopological
  <2>2. sorted \in Seq(tasks)
    <3>1. sorted \in Seq(TaskId)
      BY DEF IInv, TypeOK
    <3>2. \A i \in 1 .. Len(sorted) : sorted[i] \in tasks
      BY <2>1, <3>1 DEF IsTopologicalOrder, Elements
    <3> QED BY <3>1, <3>2
  <2> QED BY <2>1, <2>2, OrderedIsAcyclic
<1> QED BY <1>1, Invariant, PTL
===============================================================================
