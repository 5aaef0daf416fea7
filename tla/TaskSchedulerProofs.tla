------------------------- MODULE TaskSchedulerProofs --------------------------
(***************************************************************************)
(* Proofs about TaskScheduler for any number of workers and any task graph:*)
(* the inductive invariant IInv, the safety properties that follow from    *)
(* it, and that run() implements BuildExecution.                           *)
(***************************************************************************)
EXTENDS TaskScheduler, TLAPS, SequenceTheorems, FiniteSetTheorems, WellFoundedInduction

-------------------------------------------------------------------------------
(* The inductive invariant *)

\* Places after the action where a failure is not yet in hasFailed.
Unraised == {"readStat", "writeStat", "raise"}

MutexInv == \A w \in Workers : mtx = w <=> pc[w] \in Locked

\* What is queued may run, and the queue does not dry up under a worker that
\* is about to pop it: popping takes the mutex.
QueueInv == /\ \A i \in DOMAIN readyQueue : \A d \in deps[readyQueue[i]] : state[d] = "DONE"
            /\ \A w \in Workers : pc[w] = "pop" => readyQueue # <<>>

WorkInv ==
  /\ \A w \in Workers :
       /\ pc[w] = "run" => task[w] \in Tasks /\ state[task[w]] = "RUNNING"
       /\ pc[w] \in Uncounted => task[w] \in Tasks /\ state[task[w]] \in Finished
       /\ pc[w] = "raise" => state[task[w]] = "FAILED"
  /\ \A t \in Tasks : state[t] = "RUNNING" => \E w \in Workers : pc[w] = "run" /\ task[w] = t
  /\ \A t \in Tasks : state[t] # "SKIPPED"

FailInv ==
  /\ \A t \in Tasks : state[t] = "FAILED" =>
       hasFailed \/ \E w \in Workers : pc[w] \in Unraised /\ task[w] = t
  /\ hasFailed => \E t \in Tasks : state[t] = "FAILED"

\* A worker leaves only when all is over or the build has been stopped.
EndInv ==
  /\ \A w \in Workers : pc[w] \in {"notify", "exited"} => pendingCount = 0 \/ Stopping
  /\ result # "none" => /\ Sorted = <<>> \/ \A w \in Workers : pc[w] = "exited"
                        /\ result = IF Stopping THEN "failure" ELSE "success"

IInv == /\ TypeOK /\ MutexInv /\ QueueInv /\ WorkInv /\ OneWorkerPerTask
        /\ FailInv /\ DepsBeforeRun /\ PendingCountExact /\ EndInv

\* Three layers above IInv, each kept by the steps that keep those below it.

\* What the caller hands to the threads, and when: none runs while it seeds.
StartInv ==
  /\ IsTopologicalOrder(Sorted, Tasks, deps)
  /\ seeded < NumTasks => /\ \A w \in Workers : pc[w] = "acquire"
                          /\ \A t \in Tasks : state[t] = "PENDING"

\* A worker on its way to dispatchReady still knows which task it has finished.
DispatchInv ==
  /\ \A w \in Workers :
       pc[w] \in {"isZero", "relock"} => task[w] \in Tasks /\ state[task[w]] \in Finished
  /\ NoLostDispatch

\* Whatever a sleeper has not seen, somebody awake is about to tell it.  It has
\* tested the queue under the mutex, and hasFailed is raised by a worker that
\* goes on to a notify_all, or finds that nothing is left.
SleepInv ==
  /\ \A w \in Workers : pc[w] = "block" => readyQueue = <<>>
  /\ (\E w \in Workers : pc[w] = "asleep") /\ readyQueue # <<>> =>
       \E v \in Workers : pc[v] = "scan"
  /\ (\E w \in Workers : pc[w] \in {"block", "asleep"}) /\ Stopping /\ pendingCount # 0 =>
       \E v \in Workers : pc[v] \in {"decrement", "isZero", "relock", "scan"}

\* The tasks that ended with this verdict and are in its counter, and what the
\* lost updates leave of it: never more, and not 0 once one was written.
Count(verdict)   == IF verdict = "DONE" THEN ran ELSE failed
Written(verdict) ==
  {t \in Tasks : state[t] = verdict /\
                 \A w \in Workers : pc[w] \in {"readStat", "writeStat"} => task[w] # t}
StatInv ==
  \A verdict \in Finished :
    /\ Count(verdict) <= Cardinality(Written(verdict))
    /\ Written(verdict) # {} => Count(verdict) # 0
    /\ \A w \in Workers : pc[w] = "writeStat" /\ state[task[w]] = verdict =>
                           reg[w] <= Cardinality(Written(verdict))

\* sorted() lists finitely many tasks, each once.
LEMMA SortedFacts ==
  /\ NumTasks \in Nat /\ DOMAIN Sorted = 1 .. NumTasks
  /\ \A i \in 1 .. NumTasks : Sorted[i] \in Tasks
  /\ IsFiniteSet(Tasks) /\ Cardinality(Tasks) = NumTasks
<1>1. NumTasks \in Nat /\ DOMAIN Sorted = 1 .. NumTasks
  BY SortedAssumption DEF NumTasks
<1>2. \A i \in 1 .. NumTasks : Sorted[i] \in Tasks
  BY <1>1, SortedAssumption
<1>3. IsFiniteSet(1 .. NumTasks) /\ Cardinality(1 .. NumTasks) = NumTasks
  BY <1>1, FS_Interval
<1> DEFINE f == [i \in 1 .. NumTasks |-> Sorted[i]]
<1>4. f \in Surjection(1 .. NumTasks, Tasks)
  BY <1>1, <1>2 DEF Surjection, Tasks, Elements
<1>5. f \in Injection(1 .. NumTasks, Tasks)
  <2>1. f \in [1 .. NumTasks -> Tasks]
    BY <1>2
  <2>2. \A i, j \in 1 .. NumTasks : Sorted[i] = Sorted[j] => i = j
    BY <1>1, SortedAssumption DEF NoRepeats
  <2>3. \A i, j \in 1 .. NumTasks : f[i] = f[j] => i = j
    BY <2>2
  <2> HIDE DEF f
  <2> QED BY <2>1, <2>3 DEF Injection, IsInjective
<1> HIDE DEF f
<1> QED BY <1>1, <1>2, <1>3, <1>4, <1>5, FS_Surjection

\* The sets that PendingCountExact counts are finite.
LEMMA CountedFacts ==
  /\ IsFiniteSet(Unfinished) /\ Cardinality(Unfinished) \in Nat
  /\ IsFiniteSet(Counting) /\ Cardinality(Counting) \in Nat
<1>1. IsFiniteSet(Unfinished) /\ IsFiniteSet(Counting)
  BY SortedFacts, WorkersAssumption, FS_Subset DEF Unfinished, Counting
<1> QED BY <1>1, FS_CardinalityType

LEMMA GotoPlace ==
  ASSUME IInv, NEW w \in Workers, NEW place, Goto(w, place)
  PROVE  \A v \in Workers : pc'[v] = IF v = w THEN place ELSE pc[v]
BY DEF Goto, IInv, TypeOK

-------------------------------------------------------------------------------
LEMMA InitIInv == Init => IInv
<1> SUFFICES ASSUME Init PROVE IInv
  OBVIOUS
<1>1. NumTasks \in Nat
  BY SortedFacts
<1>2. TypeOK
  <2>1. /\ deps \in [Tasks -> SUBSET Tasks] /\ continueOnError \in BOOLEAN
        /\ hasFailed \in BOOLEAN /\ mtx \in Workers \cup {NoWorker} /\ ran \in Nat
        /\ failed \in Nat /\ skipped \in Nat
        /\ result \in {"none", "success", "failure"} /\ pendingCount \in Nat
    BY <1>1 DEF Init
  <2>2. state \in [Tasks -> States] /\ pc \in [Workers -> Places] /\ readyQueue \in Seq(Tasks)
    BY DEF Init, States, Places
  <2>3. /\ task \in [Workers -> Tasks \cup {NoTask}] /\ reg \in [Workers -> Nat]
        /\ cursor \in [Workers -> 1 .. NumTasks + 1] /\ seeded \in 0 .. NumTasks
    BY <1>1 DEF Init
  <2> QED BY <2>1, <2>2, <2>3 DEF TypeOK
<1>3. MutexInv /\ WorkInv /\ OneWorkerPerTask /\ FailInv /\ DepsBeforeRun /\ EndInv
  BY WorkersAssumption DEF Init, MutexInv, WorkInv, OneWorkerPerTask, FailInv, DepsBeforeRun,
       EndInv, Locked, Uncounted, Unraised
<1>4. QueueInv
  BY DEF Init, QueueInv
<1>5. PendingCountExact
  <2>1. Unfinished = Tasks /\ Counting = {}
    BY DEF Init, Unfinished, Counting, Finished, Uncounted
  <2>2. Cardinality({}) = 0
    BY FS_EmptySet
  <2> QED BY <1>1, <2>1, <2>2, SortedFacts DEF PendingCountExact, Init
<1> QED BY <1>2, <1>3, <1>4, <1>5 DEF IInv

-------------------------------------------------------------------------------
(* Steps that only move a worker between places where it has no task *)

LEMMA QuietStep ==
  ASSUME IInv,
         UNCHANGED <<graphVars, state, readyQueue, pendingCount, hasFailed, stats, mainVars, task>>,
         pc' \in [Workers -> Places], mtx' \in Workers \cup {NoWorker},
         reg' \in [Workers -> Nat], cursor' \in [Workers -> 1 .. NumTasks + 1],
         MutexInv',
         \A v \in Workers : \/ pc'[v] = pc[v]
                            \/ /\ pc[v] \notin Uncounted \cup {"run", "exited"}
                               /\ pc'[v] \notin Uncounted \cup {"run"}
                               /\ pc'[v] = "pop" => readyQueue # <<>>
                               /\ pc'[v] \in {"notify", "exited"} => pendingCount = 0 \/ Stopping
  PROVE  IInv'
<1>1. /\ deps' = deps /\ continueOnError' = continueOnError /\ state' = state
      /\ readyQueue' = readyQueue /\ pendingCount' = pendingCount /\ hasFailed' = hasFailed
      /\ ran' = ran /\ failed' = failed /\ skipped' = skipped
      /\ seeded' = seeded /\ result' = result /\ task' = task
  BY DEF graphVars, stats, mainVars
<1>2. \A v \in Workers : /\ pc'[v] \in Uncounted <=> pc[v] \in Uncounted
                         /\ pc'[v] \in Uncounted => pc'[v] = pc[v]
                         /\ pc'[v] = "run" <=> pc[v] = "run"
                         /\ pc[v] = "exited" => pc'[v] = "exited"
  OBVIOUS
<1>3. TypeOK'
  BY <1>1 DEF IInv, TypeOK
<1>4. QueueInv'
  BY <1>1 DEF IInv, QueueInv
<1>5. WorkInv'
  <2>1. \A v \in Workers : pc'[v] = "raise" => pc[v] = "raise"
    BY <1>2 DEF Uncounted
  <2> QED BY <1>1, <1>2, <2>1 DEF IInv, WorkInv
<1>6. OneWorkerPerTask'
  BY <1>1, <1>2 DEF IInv, OneWorkerPerTask
<1>7. FailInv'
  <2>1. \A v \in Workers : pc[v] \in Unraised => pc'[v] \in Unraised
    BY <1>2 DEF Uncounted, Unraised
  <2> QED BY <1>1, <2>1 DEF IInv, FailInv
<1>8. DepsBeforeRun'
  BY <1>1 DEF IInv, DepsBeforeRun
<1>9. PendingCountExact'
  <2>1. Unfinished' = Unfinished /\ Counting' = Counting
    BY <1>1, <1>2 DEF Unfinished, Counting
  <2> QED BY <1>1, <2>1 DEF IInv, PendingCountExact
<1>10. EndInv'
  BY <1>1, <1>2 DEF IInv, EndInv, Stopping
<1> QED BY <1>3, <1>4, <1>5, <1>6, <1>7, <1>8, <1>9, <1>10 DEF IInv

LEMMA AcquireIInv ==
  ASSUME IInv, NEW w \in Workers, Acquire(w) \/ DispatchLock(w)
  PROVE  IInv'
<1>1. PICK place \in {"test", "scan"} : /\ pc[w] \in {"acquire", "relock"}
                                        /\ mtx = NoWorker /\ mtx' = w /\ Goto(w, place)
  BY DEF Acquire, DispatchLock
<1>2. \A v \in Workers : pc'[v] = IF v = w THEN place ELSE pc[v]
  BY <1>1, GotoPlace
<1>3. /\ UNCHANGED <<graphVars, state, readyQueue, pendingCount, hasFailed, stats, mainVars, task>>
      /\ reg' = reg /\ (cursor' = cursor \/ cursor' = [cursor EXCEPT ![w] = 1])
  BY DEF Acquire, DispatchLock
<1>4. pc' \in [Workers -> Places]
  BY <1>1 DEF Goto, IInv, TypeOK, Places, Locked
<1>5. cursor' \in [Workers -> 1 .. NumTasks + 1] /\ reg' \in [Workers -> Nat]
  <2>1. 1 \in 1 .. NumTasks + 1
    BY SortedFacts
  <2> QED BY <1>3, <2>1 DEF IInv, TypeOK
<1>6. MutexInv'
  BY <1>1, <1>2, WorkersAssumption DEF IInv, MutexInv, Locked
<1> QED BY <1>1, <1>2, <1>3, <1>4, <1>5, <1>6, QuietStep DEF Uncounted

LEMMA TestPredicateIInv ==
  ASSUME IInv, NEW w \in Workers, TestPredicate(w)
  PROVE  IInv'
<1>1. PICK place \in {"check", "block"} : pc[w] = "test" /\ Goto(w, place)
  BY DEF TestPredicate
<1>2. \A v \in Workers : pc'[v] = IF v = w THEN place ELSE pc[v]
  BY <1>1, GotoPlace
<1>3. UNCHANGED <<graphVars, state, readyQueue, pendingCount, hasFailed, mtx, stats, mainVars,
                  task, reg, cursor>>
  BY DEF TestPredicate
<1>4. pc' \in [Workers -> Places]
  BY <1>1 DEF Goto, IInv, TypeOK, Places, Locked
<1>5. MutexInv'
  BY <1>1, <1>2, <1>3 DEF IInv, MutexInv, Locked
<1> QED BY <1>1, <1>2, <1>3, <1>4, <1>5, QuietStep DEF Uncounted, IInv, TypeOK

LEMMA BlockIInv ==
  ASSUME IInv, NEW w \in Workers, Block(w) \/ SpuriousWakeup(w)
  PROVE  IInv'
<1>1. PICK place \in {"asleep", "acquire"} :
        /\ Goto(w, place)
        /\ \/ pc[w] = "block" /\ mtx' = NoWorker
           \/ pc[w] = "asleep" /\ mtx' = mtx
  BY DEF Block, SpuriousWakeup
<1>2. \A v \in Workers : pc'[v] = IF v = w THEN place ELSE pc[v]
  BY <1>1, GotoPlace
<1>3. UNCHANGED <<graphVars, state, readyQueue, pendingCount, hasFailed, stats, mainVars,
                  task, reg, cursor>>
  BY DEF Block, SpuriousWakeup
<1>4. pc' \in [Workers -> Places] /\ mtx' \in Workers \cup {NoWorker}
  BY <1>1 DEF Goto, IInv, TypeOK, Places
<1>5. MutexInv'
  BY <1>1, <1>2, WorkersAssumption DEF IInv, MutexInv, Locked
<1> QED BY <1>1, <1>2, <1>3, <1>4, <1>5, QuietStep DEF Uncounted, IInv, TypeOK

LEMMA CheckIInv ==
  ASSUME IInv, NEW w \in Workers, Check(w)
  PROVE  IInv'
<1>1. PICK place \in {"exited", "acquire", "pop"} :
        /\ pc[w] = "check" /\ Goto(w, place)
        /\ place # "pop" => mtx' = NoWorker
        /\ place = "pop" => mtx' = mtx /\ readyQueue # <<>>
        /\ place = "exited" => pendingCount = 0 \/ Stopping
  BY DEF Check
<1>2. \A v \in Workers : pc'[v] = IF v = w THEN place ELSE pc[v]
  BY <1>1, GotoPlace
<1>3. UNCHANGED <<graphVars, state, readyQueue, pendingCount, hasFailed, stats, mainVars,
                  task, reg, cursor>>
  BY DEF Check
<1>4. pc' \in [Workers -> Places] /\ mtx' \in Workers \cup {NoWorker}
  BY <1>1 DEF Goto, IInv, TypeOK, Places, Locked
<1>5. MutexInv'
  BY <1>1, <1>2, WorkersAssumption DEF IInv, MutexInv, Locked
<1> QED BY <1>1, <1>2, <1>3, <1>4, <1>5, QuietStep DEF Uncounted, IInv, TypeOK

LEMMA IsZeroIInv ==
  ASSUME IInv, NEW w \in Workers, IsZero(w)
  PROVE  IInv'
<1>1. PICK place \in {"notify", "relock"} :
        /\ pc[w] = "isZero" /\ Goto(w, place)
        /\ place = "notify" => pendingCount = 0
  BY DEF IsZero
<1>2. \A v \in Workers : pc'[v] = IF v = w THEN place ELSE pc[v]
  BY <1>1, GotoPlace
<1>3. UNCHANGED <<graphVars, state, readyQueue, pendingCount, hasFailed, mtx, stats, mainVars,
                  task, reg, cursor>>
  BY DEF IsZero
<1>4. pc' \in [Workers -> Places]
  BY <1>1 DEF Goto, IInv, TypeOK, Places
<1>5. MutexInv'
  BY <1>1, <1>2, <1>3 DEF IInv, MutexInv, Locked
<1> QED BY <1>1, <1>2, <1>3, <1>4, <1>5, QuietStep DEF Uncounted, IInv, TypeOK

LEMMA NotifyIInv ==
  ASSUME IInv, NEW w \in Workers, NotifyEnd(w) \/ DispatchEnd(w)
  PROVE  IInv'
<1>1. PICK place \in {"exited", "acquire"} :
        /\ NotifyAll(w, place)
        /\ \/ pc[w] = "notify" /\ place = "exited" /\ mtx' = mtx
           \/ pc[w] = "scan" /\ place = "acquire" /\ mtx' = NoWorker
  BY DEF NotifyEnd, DispatchEnd
<1>2. \A v \in Workers : pc'[v] = IF v = w THEN place
                                  ELSE IF pc[v] = "asleep" THEN "acquire" ELSE pc[v]
  BY <1>1 DEF NotifyAll
<1>3. UNCHANGED <<graphVars, state, readyQueue, pendingCount, hasFailed, stats, mainVars,
                  task, reg, cursor>>
  BY DEF NotifyEnd, DispatchEnd
<1>4. pc' \in [Workers -> Places] /\ mtx' \in Workers \cup {NoWorker}
  BY <1>1 DEF NotifyAll, IInv, TypeOK, Places
<1>5. MutexInv'
  BY <1>1, <1>2, WorkersAssumption DEF IInv, MutexInv, Locked
<1>6. pc[w] = "notify" => pendingCount = 0 \/ Stopping
  BY DEF IInv, EndInv
<1> QED BY <1>1, <1>2, <1>3, <1>4, <1>5, <1>6, QuietStep DEF Uncounted, IInv, TypeOK

-------------------------------------------------------------------------------
(* The queue *)

\* A task whose dependencies are DONE may be added to the queue.
LEMMA EnqueueKeepsQueueInv ==
  ASSUME IInv, NEW t \in Tasks, \A d \in deps[t] : state[d] = "DONE",
         readyQueue' = Append(readyQueue, t), UNCHANGED <<deps, state>>,
         \A w \in Workers : pc'[w] = "pop" => pc[w] = "pop"
  PROVE  QueueInv' /\ readyQueue' \in Seq(Tasks)
<1>1. readyQueue \in Seq(Tasks)
  BY DEF IInv, TypeOK
<1>2. /\ readyQueue' \in Seq(Tasks) /\ readyQueue' # <<>>
      /\ DOMAIN readyQueue = 1 .. Len(readyQueue) /\ Len(readyQueue) \in Nat
      /\ DOMAIN readyQueue' = 1 .. Len(readyQueue) + 1
      /\ \A i \in 1 .. Len(readyQueue) : readyQueue'[i] = readyQueue[i]
      /\ readyQueue'[Len(readyQueue) + 1] = t
  BY <1>1, AppendProperties
<1>3. ASSUME NEW i \in DOMAIN readyQueue'
      PROVE  \A d \in deps[readyQueue'[i]] : state[d] = "DONE"
  <2>1. i \in 1 .. Len(readyQueue) \/ i = Len(readyQueue) + 1
    BY <1>2
  <2> QED BY <1>2, <2>1 DEF IInv, QueueInv
<1> QED BY <1>2, <1>3 DEF QueueInv

\* Steps that change nothing but the queue, seeded and cursor.
LEMMA EnqueueStep ==
  ASSUME IInv, QueueInv', readyQueue' \in Seq(Tasks), seeded' \in 0 .. NumTasks,
         cursor' \in [Workers -> 1 .. NumTasks + 1],
         UNCHANGED <<graphVars, state, pendingCount, hasFailed, mtx, stats, pc, task, reg, result>>
  PROVE  IInv'
<1>1. TypeOK'
  BY DEF IInv, TypeOK, graphVars, stats
<1>2. MutexInv' /\ WorkInv' /\ OneWorkerPerTask'
  BY DEF IInv, MutexInv, WorkInv, OneWorkerPerTask
<1>3. FailInv' /\ DepsBeforeRun' /\ EndInv'
  BY DEF IInv, FailInv, DepsBeforeRun, EndInv, Stopping, graphVars
<1>4. PendingCountExact'
  BY DEF IInv, PendingCountExact, Unfinished, Counting
<1> QED BY <1>1, <1>2, <1>3, <1>4 DEF IInv

LEMMA SeedIInv == IInv /\ Seed => IInv'
<1> SUFFICES ASSUME IInv, Seed PROVE IInv'
  OBVIOUS
<1>1. /\ seeded < NumTasks /\ seeded' = seeded + 1 /\ cursor' = cursor
      /\ UNCHANGED <<graphVars, state, pendingCount, hasFailed, mtx, stats, pc, task, reg, result>>
  BY DEF Seed
<1>2. seeded' \in 0 .. NumTasks /\ seeded + 1 \in 1 .. NumTasks
  BY <1>1, SortedFacts DEF IInv, TypeOK
<1> DEFINE t == Sorted[seeded + 1]
<1>3. t \in Tasks
  BY <1>2, SortedFacts
<1> HIDE DEF t
<1>4. QueueInv' /\ readyQueue' \in Seq(Tasks)
  <2>1. CASE deps[t] = {}
    <3>1. readyQueue' = Append(readyQueue, t)
      BY <2>1 DEF Seed, t
    <3> QED BY <1>1, <1>3, <2>1, <3>1, EnqueueKeepsQueueInv DEF graphVars
  <2>2. CASE deps[t] # {}
    <3>1. readyQueue' = readyQueue
      BY <2>2 DEF Seed, t
    <3> QED BY <1>1, <3>1 DEF IInv, QueueInv, TypeOK, graphVars
  <2> QED BY <2>1, <2>2
<1> QED BY <1>1, <1>2, <1>4, EnqueueStep DEF IInv, TypeOK

LEMMA DispatchOneIInv ==
  ASSUME IInv, NEW w \in Workers, DispatchOne(w)
  PROVE  IInv'
<1> DEFINE t == Sorted[cursor[w]]
<1>1. /\ cursor[w] <= NumTasks /\ cursor' = [cursor EXCEPT ![w] = @ + 1] /\ UNCHANGED mainVars
      /\ UNCHANGED <<graphVars, state, pendingCount, hasFailed, mtx, stats, pc, task, reg>>
      /\ readyQueue' = IF state[t] = "PENDING" /\ DepsDone(t) THEN Append(readyQueue, t)
                                                             ELSE readyQueue
  BY DEF DispatchOne
<1>2. cursor[w] \in 1 .. NumTasks /\ cursor[w] + 1 \in 1 .. NumTasks + 1
  BY <1>1, SortedFacts DEF IInv, TypeOK
<1>3. t \in Tasks
  BY <1>2, SortedFacts
<1> HIDE DEF t
<1>4. cursor' \in [Workers -> 1 .. NumTasks + 1]
  BY <1>1, <1>2 DEF IInv, TypeOK
<1>5. QueueInv' /\ readyQueue' \in Seq(Tasks)
  <2>1. CASE DepsDone(t) /\ readyQueue' = Append(readyQueue, t)
    <3>1. \A d \in deps[t] : state[d] = "DONE"
      BY <1>3, <2>1 DEF DepsDone, IInv, WorkInv, TypeOK
    <3> QED BY <1>1, <1>3, <2>1, <3>1, EnqueueKeepsQueueInv DEF graphVars
  <2>2. CASE readyQueue' = readyQueue
    BY <1>1, <2>2 DEF IInv, QueueInv, TypeOK, graphVars
  <2> QED BY <1>1, <2>1, <2>2
<1> QED BY <1>1, <1>4, <1>5, EnqueueStep DEF IInv, TypeOK, mainVars

\* The worker that pops holds the mutex, so the queue is as the check left it.
LEMMA PopIInv ==
  ASSUME IInv, NEW w \in Workers, Pop(w)
  PROVE  IInv'
<1> DEFINE t == Head(readyQueue)
<1>1. /\ pc[w] = "pop" /\ readyQueue' = Tail(readyQueue) /\ mtx' = NoWorker
      /\ UNCHANGED <<graphVars, pendingCount, hasFailed, stats, mainVars, reg, cursor>>
      /\ deps' = deps /\ continueOnError' = continueOnError
      /\ ran' = ran /\ failed' = failed /\ skipped' = skipped
      /\ seeded' = seeded /\ result' = result
  BY DEF Pop, graphVars, stats, mainVars
<1>2. readyQueue \in Seq(Tasks) /\ readyQueue # <<>>
  BY <1>1 DEF IInv, TypeOK, QueueInv
<1>3. /\ t \in Tasks /\ t = readyQueue[1] /\ 1 \in DOMAIN readyQueue
      /\ readyQueue' \in Seq(Tasks) /\ DOMAIN readyQueue' = 1 .. Len(readyQueue) - 1
      /\ \A i \in 1 .. Len(readyQueue) - 1 : /\ readyQueue'[i] = readyQueue[i + 1]
                                             /\ i + 1 \in DOMAIN readyQueue
  BY <1>1, <1>2
<1>4. \A d \in deps[t] : state[d] = "DONE"
  BY <1>3 DEF IInv, QueueInv
<1>5. mtx = w /\ \A v \in Workers \ {w} : pc[v] \notin Locked
  BY <1>1 DEF IInv, MutexInv, Locked
<1> HIDE DEF t
<1>6. PICK place \in {"run", "acquire"} :
        /\ Goto(w, place)
        /\ \/ /\ place = "run" /\ state[t] = "PENDING"
              /\ state' = [state EXCEPT ![t] = "RUNNING"] /\ task' = [task EXCEPT ![w] = t]
           \/ place = "acquire" /\ state' = state /\ task' = task
  BY DEF Pop, t
<1>7. \A v \in Workers : pc'[v] = IF v = w THEN place ELSE pc[v]
  BY <1>6, GotoPlace
<1>8. /\ \A s \in Tasks : \/ state'[s] = state[s]
                         \/ /\ s = t /\ place = "run"
                            /\ state[t] = "PENDING" /\ state'[t] = "RUNNING"
      /\ place = "run" => state'[t] = "RUNNING" /\ state[t] = "PENDING" /\ task'[w] = t
      /\ \A v \in Workers \ {w} : task'[v] = task[v]
      /\ state' \in [Tasks -> States] /\ task' \in [Workers -> Tasks \cup {NoTask}]
  BY <1>3, <1>6 DEF IInv, TypeOK, States
<1>9. TypeOK'
  <2>1. pc' \in [Workers -> Places]
    BY <1>6 DEF Goto, IInv, TypeOK, Places
  <2> QED BY <1>1, <1>3, <1>8, <2>1 DEF IInv, TypeOK
<1>10. MutexInv'
  BY <1>1, <1>5, <1>7, WorkersAssumption DEF MutexInv, Locked
<1>11. \A s \in Tasks : state[s] = "DONE" => state'[s] = "DONE"
  BY <1>8
<1>12. QueueInv'
  <2>1. ASSUME NEW i \in DOMAIN readyQueue'
        PROVE  \A d \in deps[readyQueue'[i]] : state'[d] = "DONE"
    <3>1. i + 1 \in DOMAIN readyQueue /\ readyQueue'[i] = readyQueue[i + 1]
      BY <1>3
    <3>2. readyQueue[i + 1] \in Tasks
      BY <1>2, <3>1
    <3>3. deps[readyQueue[i + 1]] \subseteq Tasks
      BY <3>2 DEF IInv, TypeOK
    <3> QED BY <1>11, <3>1, <3>3 DEF IInv, QueueInv
  <2>2. \A v \in Workers : pc'[v] # "pop"
    BY <1>5, <1>7 DEF Locked
  <2> QED BY <1>1, <2>1, <2>2 DEF QueueInv
<1>13. WorkInv'
  <2>1. ASSUME NEW v \in Workers
        PROVE  /\ pc'[v] = "run" => task'[v] \in Tasks /\ state'[task'[v]] = "RUNNING"
               /\ pc'[v] \in Uncounted => task'[v] \in Tasks /\ state'[task'[v]] \in Finished
               /\ pc'[v] = "raise" => state'[task'[v]] = "FAILED"
    <3>1. CASE v = w
      BY <1>3, <1>7, <1>8, <3>1 DEF Uncounted
    <3>2. CASE v # w
      <4>1. pc'[v] = pc[v] /\ task'[v] = task[v]
        BY <1>7, <1>8, <3>2
      <4> QED BY <1>8, <4>1 DEF IInv, WorkInv, Finished, Uncounted
    <3> QED BY <3>1, <3>2
  <2>2. ASSUME NEW s \in Tasks, state'[s] = "RUNNING"
        PROVE  \E v \in Workers : pc'[v] = "run" /\ task'[v] = s
    <3>1. CASE s = t /\ place = "run"
      BY <1>7, <1>8, <3>1
    <3>2. CASE state[s] = "RUNNING"
      <4>1. PICK v \in Workers : pc[v] = "run" /\ task[v] = s
        BY <3>2 DEF IInv, WorkInv
      <4>2. v # w
        BY <1>1, <4>1
      <4> QED BY <1>7, <1>8, <4>1, <4>2
    <3> QED BY <1>8, <2>2, <3>1, <3>2
  <2>3. \A s \in Tasks : state'[s] # "SKIPPED"
    BY <1>8 DEF IInv, WorkInv
  <2> QED BY <2>1, <2>2, <2>3 DEF WorkInv
<1>14. OneWorkerPerTask'
  <2> DEFINE Busy == Uncounted \cup {"run"}
  <2>1. ASSUME NEW v \in Workers, v # w, pc'[v] \in Busy, pc'[w] \in Busy
        PROVE  task'[v] # task'[w]
    <3>1. place = "run" /\ task'[w] = t /\ state[t] = "PENDING"
      BY <1>6, <1>7, <1>8, <2>1 DEF Uncounted
    <3>2. task'[v] = task[v] /\ pc[v] \in Busy
      BY <1>7, <1>8, <2>1
    <3>3. state[task[v]] # "PENDING"
      BY <3>2 DEF IInv, WorkInv, Finished
    <3> QED BY <3>1, <3>2, <3>3
  <2>2. ASSUME NEW v \in Workers \ {w}, NEW u \in Workers \ {w}, u # v,
               pc'[v] \in Busy, pc'[u] \in Busy
        PROVE  task'[v] # task'[u]
    BY <1>7, <1>8, <2>2 DEF IInv, OneWorkerPerTask
  <2> QED BY <2>1, <2>2 DEF OneWorkerPerTask
<1>15. FailInv'
  <2>1. ASSUME NEW s \in Tasks, state'[s] = "FAILED"
        PROVE  hasFailed \/ \E v \in Workers : pc'[v] \in Unraised /\ task'[v] = s
    <3>1. state[s] = "FAILED"
      BY <1>8, <2>1
    <3>2. CASE ~hasFailed
      <4>1. PICK v \in Workers : pc[v] \in Unraised /\ task[v] = s
        BY <3>1, <3>2 DEF IInv, FailInv
      <4>2. v # w
        BY <1>1, <4>1 DEF Unraised
      <4> QED BY <1>7, <1>8, <4>1, <4>2
    <3> QED BY <3>2
  <2>2. hasFailed => \E s \in Tasks : state'[s] = "FAILED"
    BY <1>8 DEF IInv, FailInv
  <2> QED BY <1>1, <2>1, <2>2 DEF FailInv
<1>16. DepsBeforeRun'
  <2>1. ASSUME NEW s \in Tasks, state'[s] # "PENDING", NEW d \in deps[s]
        PROVE  state'[d] = "DONE"
    <3>1. d \in Tasks
      BY DEF IInv, TypeOK
    <3>2. state[d] = "DONE"
      BY <1>4, <1>8, <2>1 DEF IInv, DepsBeforeRun
    <3> QED BY <1>11, <3>1, <3>2
  <2> QED BY <1>1, <2>1 DEF DepsBeforeRun
<1>17. PendingCountExact'
  <2>1. Unfinished' = Unfinished
    BY <1>8 DEF Unfinished, Finished
  <2>2. Counting' = Counting
    BY <1>1, <1>7, <1>6 DEF Counting, Uncounted
  <2> QED BY <1>1, <2>1, <2>2 DEF IInv, PendingCountExact
<1>18. EndInv'
  <2>1. \A v \in Workers : pc'[v] \in {"notify", "exited"} => pc[v] \in {"notify", "exited"}
    BY <1>7
  <2>2. result # "none" => Sorted = <<>>
    BY <1>1 DEF IInv, EndInv
  <2> QED BY <1>1, <2>1, <2>2 DEF IInv, EndInv, Stopping
<1> QED BY <1>9, <1>10, <1>12, <1>13, <1>14, <1>15, <1>16, <1>17, <1>18 DEF IInv

-------------------------------------------------------------------------------
(* The task's epilogue *)

LEMMA FinishTaskIInv ==
  ASSUME IInv, NEW w \in Workers, FinishTask(w)
  PROVE  IInv'
<1> DEFINE t == task[w]
<1>1. /\ pc[w] = "run" /\ Goto(w, "readStat")
      /\ UNCHANGED <<graphVars, readyQueue, pendingCount, hasFailed, mtx, stats, mainVars, task,
                     reg, cursor>>
      /\ deps' = deps /\ continueOnError' = continueOnError
      /\ ran' = ran /\ failed' = failed /\ skipped' = skipped
      /\ seeded' = seeded /\ result' = result
  BY DEF FinishTask, graphVars, stats, mainVars
<1>2. t \in Tasks /\ state[t] = "RUNNING"
  BY <1>1 DEF IInv, WorkInv
<1> HIDE DEF t
<1>3. PICK verdict \in Finished : state' = [state EXCEPT ![t] = verdict]
  BY DEF FinishTask, t
<1>4. \A v \in Workers : pc'[v] = IF v = w THEN "readStat" ELSE pc[v]
  BY <1>1, GotoPlace
<1>5. /\ \A s \in Tasks : state'[s] = IF s = t THEN verdict ELSE state[s]
      /\ state' \in [Tasks -> States] /\ verdict \in {"DONE", "FAILED"}
  BY <1>2, <1>3 DEF IInv, TypeOK, States, Finished
<1>6. \A s \in Tasks : state[s] = "DONE" => state'[s] = "DONE"
  BY <1>2, <1>5
<1>7. \A v \in Workers : v # w /\ pc[v] \in Uncounted \cup {"run"} => task[v] # t
  BY <1>1 DEF IInv, OneWorkerPerTask, t
<1>8. TypeOK'
  <2>1. pc' \in [Workers -> Places]
    BY <1>1 DEF Goto, IInv, TypeOK, Places, Uncounted
  <2> QED BY <1>1, <1>5, <2>1 DEF IInv, TypeOK
<1>9. MutexInv'
  BY <1>1, <1>4 DEF IInv, MutexInv, Locked
<1>10. QueueInv'
  <2>1. ASSUME NEW i \in DOMAIN readyQueue
        PROVE  \A d \in deps[readyQueue[i]] : state'[d] = "DONE"
    <3>1. readyQueue[i] \in Tasks
      BY DEF IInv, TypeOK
    <3>2. deps[readyQueue[i]] \subseteq Tasks
      BY <3>1 DEF IInv, TypeOK
    <3> QED BY <1>6, <3>2 DEF IInv, QueueInv
  <2> QED BY <1>1, <1>4, <2>1 DEF IInv, QueueInv
<1>11. WorkInv'
  <2>1. ASSUME NEW v \in Workers
        PROVE  /\ pc'[v] = "run" => task[v] \in Tasks /\ state'[task[v]] = "RUNNING"
               /\ pc'[v] \in Uncounted => task[v] \in Tasks /\ state'[task[v]] \in Finished
               /\ pc'[v] = "raise" => state'[task[v]] = "FAILED"
    <3>1. CASE v = w
      BY <1>2, <1>4, <1>5, <3>1 DEF Finished, t
    <3>2. CASE v # w
      BY <1>4, <1>5, <1>7, <3>2 DEF IInv, WorkInv, Uncounted
    <3> QED BY <3>1, <3>2
  <2>2. ASSUME NEW s \in Tasks, state'[s] = "RUNNING"
        PROVE  \E v \in Workers : pc'[v] = "run" /\ task[v] = s
    <3>1. s # t /\ state[s] = "RUNNING"
      BY <1>5, <2>2
    <3>2. PICK v \in Workers : pc[v] = "run" /\ task[v] = s
      BY <3>1 DEF IInv, WorkInv
    <3>3. v # w
      BY <3>1, <3>2 DEF t
    <3> QED BY <1>4, <3>2, <3>3
  <2>3. \A s \in Tasks : state'[s] # "SKIPPED"
    BY <1>5 DEF IInv, WorkInv
  <2> QED BY <1>1, <2>1, <2>2, <2>3 DEF WorkInv
<1>12. OneWorkerPerTask'
  BY <1>1, <1>4 DEF IInv, OneWorkerPerTask, Uncounted
<1>13. FailInv'
  <2>1. ASSUME NEW s \in Tasks, state'[s] = "FAILED"
        PROVE  hasFailed \/ \E v \in Workers : pc'[v] \in Unraised /\ task[v] = s
    <3>1. CASE s = t
      BY <1>4, <3>1 DEF Unraised, t
    <3>2. CASE s # t /\ ~hasFailed
      <4>1. PICK v \in Workers : pc[v] \in Unraised /\ task[v] = s
        BY <1>5, <2>1, <3>2 DEF IInv, FailInv
      <4>2. v # w
        BY <1>1, <4>1 DEF Unraised
      <4> QED BY <1>4, <4>1, <4>2
    <3> QED BY <3>1, <3>2
  <2>2. hasFailed => \E s \in Tasks : state'[s] = "FAILED"
    BY <1>2, <1>5 DEF IInv, FailInv
  <2> QED BY <1>1, <2>1, <2>2 DEF FailInv
<1>14. DepsBeforeRun'
  <2>1. ASSUME NEW s \in Tasks, state'[s] # "PENDING", NEW d \in deps[s]
        PROVE  state'[d] = "DONE"
    <3>1. d \in Tasks
      BY DEF IInv, TypeOK
    <3>2. state[d] = "DONE"
      BY <1>2, <1>5, <2>1 DEF IInv, DepsBeforeRun
    <3> QED BY <1>6, <3>1, <3>2
  <2> QED BY <1>1, <2>1 DEF DepsBeforeRun
<1>15. PendingCountExact'
  <2>1. Unfinished' = Unfinished \ {t} /\ t \in Unfinished
    BY <1>2, <1>5 DEF Unfinished, Finished
  <2>2. Counting' = Counting \cup {w} /\ w \notin Counting
    BY <1>1, <1>4 DEF Counting, Uncounted
  <2>3. Cardinality(Unfinished') = Cardinality(Unfinished) - 1
    BY <2>1, CountedFacts, FS_RemoveElement
  <2>4. Cardinality(Counting') = Cardinality(Counting) + 1
    BY <2>2, CountedFacts, FS_AddElement
  <2> QED BY <1>1, <2>3, <2>4, CountedFacts DEF IInv, PendingCountExact
<1>16. EndInv'
  <2>1. \A v \in Workers : pc'[v] \in {"notify", "exited"} => pc[v] \in {"notify", "exited"}
    BY <1>4
  <2>2. result # "none" => Sorted = <<>>
    BY <1>1 DEF IInv, EndInv
  <2> QED BY <1>1, <2>1, <2>2 DEF IInv, EndInv, Stopping
<1> QED BY <1>8, <1>9, <1>10, <1>11, <1>12, <1>13, <1>14, <1>15, <1>16 DEF IInv

\* Steps from one uncounted place to the next, which leave the tasks alone;
\* raise may set hasFailed on the way.
LEMMA EpilogueStep ==
  ASSUME IInv, NEW w \in Workers, NEW place \in {"writeStat", "raise", "decrement"},
         pc[w] \in Uncounted, pc[w] # "decrement", Goto(w, place),
         place = "raise" => state[task[w]] = "FAILED",
         state[task[w]] = "FAILED" => place \in Unraised \/ hasFailed',
         hasFailed' = hasFailed \/ (hasFailed' = TRUE /\ pc[w] = "raise"),
         UNCHANGED <<graphVars, state, readyQueue, pendingCount, mtx, mainVars, task, cursor>>,
         reg' \in [Workers -> Nat], ran' \in Nat, failed' \in Nat, skipped' \in Nat
  PROVE  IInv'
<1>1. /\ deps' = deps /\ continueOnError' = continueOnError /\ state' = state
      /\ readyQueue' = readyQueue /\ pendingCount' = pendingCount /\ mtx' = mtx
      /\ seeded' = seeded /\ result' = result /\ task' = task /\ cursor' = cursor
  BY DEF graphVars, mainVars
<1>2. \A v \in Workers : pc'[v] = IF v = w THEN place ELSE pc[v]
  BY GotoPlace
<1>3. hasFailed' \in BOOLEAN /\ (hasFailed => hasFailed')
  BY DEF IInv, TypeOK
<1>4. TypeOK'
  <2>1. pc' \in [Workers -> Places]
    BY DEF Goto, IInv, TypeOK, Places, Uncounted
  <2> QED BY <1>1, <1>3, <2>1 DEF IInv, TypeOK
<1>5. MutexInv' /\ QueueInv'
  BY <1>1, <1>2 DEF IInv, MutexInv, QueueInv, Locked, Uncounted
<1>6. WorkInv'
  <2>1. \A v \in Workers : /\ pc'[v] \in Uncounted <=> pc[v] \in Uncounted
                           /\ pc'[v] = "run" <=> pc[v] = "run"
    BY <1>2 DEF Uncounted
  <2>2. \A v \in Workers : pc'[v] = "raise" => state[task[v]] = "FAILED"
    BY <1>2 DEF IInv, WorkInv
  <2> QED BY <1>1, <2>1, <2>2 DEF IInv, WorkInv
<1>7. OneWorkerPerTask'
  BY <1>1, <1>2 DEF IInv, OneWorkerPerTask, Uncounted
<1>8. FailInv'
  <2>1. ASSUME NEW s \in Tasks, state[s] = "FAILED", ~hasFailed'
        PROVE  \E v \in Workers : pc'[v] \in Unraised /\ task[v] = s
    <3>1. PICK v \in Workers : pc[v] \in Unraised /\ task[v] = s
      BY <1>3, <2>1 DEF IInv, FailInv
    <3>2. CASE v = w
      BY <1>2, <2>1, <3>1, <3>2
    <3>3. CASE v # w
      BY <1>2, <3>1, <3>3
    <3> QED BY <3>2, <3>3
  <2>2. hasFailed' => \E s \in Tasks : state[s] = "FAILED"
    <3>1. pc[w] = "raise" => task[w] \in Tasks /\ state[task[w]] = "FAILED"
      BY DEF IInv, WorkInv
    <3> QED BY <3>1 DEF IInv, FailInv
  <2> QED BY <1>1, <1>3, <2>1, <2>2 DEF FailInv
<1>9. DepsBeforeRun'
  BY <1>1 DEF IInv, DepsBeforeRun
<1>10. PendingCountExact'
  <2>1. Unfinished' = Unfinished /\ Counting' = Counting
    BY <1>1, <1>2 DEF Unfinished, Counting, Uncounted
  <2> QED BY <1>1, <2>1 DEF IInv, PendingCountExact
<1>11. EndInv'
  <2>1. \A v \in Workers : pc'[v] \in {"notify", "exited"} => pc[v] \in {"notify", "exited"}
    BY <1>2
  <2>2. result = "none"
    <3>1. Tasks # {} /\ pc[w] # "exited"
      BY DEF IInv, WorkInv, Uncounted
    <3>2. Sorted # <<>>
      BY <3>1 DEF Tasks, Elements
    <3> QED BY <3>1, <3>2 DEF IInv, EndInv
  <2> QED BY <1>1, <1>3, <2>1, <2>2 DEF IInv, EndInv, Stopping
<1> QED BY <1>4, <1>5, <1>6, <1>7, <1>8, <1>9, <1>10, <1>11 DEF IInv

LEMMA StatIInv ==
  ASSUME IInv, NEW w \in Workers, ReadStat(w) \/ WriteStat(w) \/ RaiseFailed(w)
  PROVE  IInv'
<1>1. CASE ReadStat(w)
  BY <1>1, EpilogueStep DEF ReadStat, Uncounted, Unraised, IInv, TypeOK, stats
<1>2. CASE WriteStat(w)
  <2>1. CASE state[task[w]] = "DONE"
    <3>1. /\ pc[w] = "writeStat" /\ Goto(w, "decrement") /\ ran' = reg[w] + 1
          /\ failed' = failed /\ skipped' = skipped
          /\ UNCHANGED <<graphVars, state, readyQueue, pendingCount, hasFailed, mtx, mainVars,
                         task, reg, cursor>>
      BY <1>2, <2>1 DEF WriteStat
    <3>2. ran' \in Nat /\ failed' \in Nat /\ skipped' \in Nat
          /\ reg' \in [Workers -> Nat] /\ hasFailed' = hasFailed
      BY <3>1 DEF IInv, TypeOK
    <3> QED BY <2>1, <3>1, <3>2, EpilogueStep DEF Uncounted, Unraised
  <2>2. CASE state[task[w]] = "FAILED"
    <3>1. /\ pc[w] = "writeStat" /\ Goto(w, "raise") /\ failed' = reg[w] + 1
          /\ ran' = ran /\ skipped' = skipped
          /\ UNCHANGED <<graphVars, state, readyQueue, pendingCount, hasFailed, mtx, mainVars,
                         task, reg, cursor>>
      BY <1>2, <2>2 DEF WriteStat
    <3>2. ran' \in Nat /\ failed' \in Nat /\ skipped' \in Nat
          /\ reg' \in [Workers -> Nat] /\ hasFailed' = hasFailed
      BY <3>1 DEF IInv, TypeOK
    <3> QED BY <2>2, <3>1, <3>2, EpilogueStep DEF Uncounted, Unraised
  <2> QED BY <1>2, <2>1, <2>2 DEF WriteStat
<1>3. CASE RaiseFailed(w)
  BY <1>3, EpilogueStep DEF RaiseFailed, Uncounted, Unraised, IInv, TypeOK, stats
<1> QED BY <1>1, <1>2, <1>3

\* A worker that decrements is counted, so pendingCount was not 0 before.
LEMMA DecrementIInv ==
  ASSUME IInv, NEW w \in Workers, Decrement(w)
  PROVE  IInv'
<1>1. /\ pc[w] = "decrement" /\ Goto(w, "isZero") /\ pendingCount' = pendingCount - 1
      /\ UNCHANGED <<graphVars, state, readyQueue, hasFailed, mtx, stats, mainVars, task, reg,
                     cursor>>
      /\ deps' = deps /\ continueOnError' = continueOnError
      /\ ran' = ran /\ failed' = failed /\ skipped' = skipped
      /\ seeded' = seeded /\ result' = result
  BY DEF Decrement, graphVars, stats, mainVars
<1>2. \A v \in Workers : pc'[v] = IF v = w THEN "isZero" ELSE pc[v]
  BY <1>1, GotoPlace
<1>3. PendingCountExact' /\ pendingCount > 0 /\ pendingCount' \in Nat
  <2>1. Unfinished' = Unfinished
    BY <1>1 DEF Unfinished
  <2>2. Counting' = Counting \ {w} /\ w \in Counting
    BY <1>1, <1>2 DEF Counting, Uncounted
  <2>3. Cardinality(Counting') = Cardinality(Counting) - 1
    BY <2>2, CountedFacts, FS_RemoveElement
  <2>4. Cardinality(Counting) # 0
    BY <2>2, CountedFacts, FS_EmptySet
  <2> QED BY <1>1, <2>1, <2>3, <2>4, CountedFacts DEF IInv, PendingCountExact
<1>4. TypeOK'
  <2>1. pc' \in [Workers -> Places]
    BY <1>1 DEF Goto, IInv, TypeOK, Places
  <2> QED BY <1>1, <1>3, <2>1 DEF IInv, TypeOK
<1>5. MutexInv' /\ QueueInv'
  BY <1>1, <1>2 DEF IInv, MutexInv, QueueInv, Locked
<1>6. WorkInv'
  <2>1. \A v \in Workers : /\ pc'[v] \in Uncounted => pc[v] \in Uncounted
                           /\ pc'[v] = "run" <=> pc[v] = "run"
                           /\ pc'[v] = "raise" => pc[v] = "raise"
    BY <1>1, <1>2 DEF Uncounted
  <2> QED BY <1>1, <2>1 DEF IInv, WorkInv
<1>7. OneWorkerPerTask'
  BY <1>1, <1>2 DEF IInv, OneWorkerPerTask, Uncounted
<1>8. FailInv'
  <2>1. \A v \in Workers : pc[v] \in Unraised => pc'[v] \in Unraised
    BY <1>1, <1>2 DEF Unraised
  <2> QED BY <1>1, <2>1 DEF IInv, FailInv
<1>9. DepsBeforeRun'
  BY <1>1 DEF IInv, DepsBeforeRun
<1>10. EndInv'
  <2>1. \A v \in Workers : pc'[v] \in {"notify", "exited"} => pc[v] \in {"notify", "exited"}
    BY <1>2
  <2>2. \A v \in Workers : pc[v] \in {"notify", "exited"} => Stopping
    <3>1. pendingCount # 0
      BY <1>3
    <3> QED BY <3>1 DEF IInv, EndInv
  <2>3. result # "none" => Sorted = <<>>
    BY <1>1 DEF IInv, EndInv
  <2> QED BY <1>1, <2>1, <2>2, <2>3 DEF IInv, EndInv, Stopping
<1> QED BY <1>3, <1>4, <1>5, <1>6, <1>7, <1>8, <1>9, <1>10 DEF IInv

LEMMA ReturnIInv == IInv /\ Return => IInv'
<1> SUFFICES ASSUME IInv, Return PROVE IInv'
  OBVIOUS
<1>1. /\ Sorted = <<>> \/ \A w \in Workers : pc[w] = "exited"
      /\ result' = IF Stopping THEN "failure" ELSE "success"
      /\ UNCHANGED <<state, readyQueue, pendingCount, hasFailed, mtx, pc, task, reg, cursor>>
      /\ deps' = deps /\ continueOnError' = continueOnError
      /\ ran' = ran /\ failed' = failed /\ skipped' = skipped
      /\ seeded' = seeded
  BY DEF Return, graphVars, stats
<1>2. TypeOK'
  BY <1>1 DEF IInv, TypeOK
<1>3. MutexInv' /\ QueueInv' /\ WorkInv' /\ OneWorkerPerTask'
  BY <1>1 DEF IInv, MutexInv, QueueInv, WorkInv, OneWorkerPerTask
<1>4. FailInv' /\ DepsBeforeRun'
  BY <1>1 DEF IInv, FailInv, DepsBeforeRun
<1>5. EndInv'
  BY <1>1 DEF IInv, EndInv, Stopping
<1>6. PendingCountExact'
  BY <1>1 DEF IInv, PendingCountExact, Unfinished, Counting
<1> QED BY <1>2, <1>3, <1>4, <1>5, <1>6 DEF IInv

LEMMA StutterIInv == IInv /\ UNCHANGED vars => IInv'
<1> SUFFICES ASSUME IInv, UNCHANGED vars PROVE IInv'
  OBVIOUS
<1>1. /\ UNCHANGED <<graphVars, state, pendingCount, hasFailed, mtx, stats, pc, task, reg, result>>
      /\ readyQueue' = readyQueue /\ seeded' = seeded /\ cursor' = cursor
  BY DEF vars, graphVars, stats
<1>2. QueueInv'
  BY <1>1 DEF IInv, QueueInv, graphVars
<1> QED BY <1>1, <1>2, EnqueueStep DEF IInv, TypeOK

LEMMA StepIInv == IInv /\ [Next]_vars => IInv'
<1> SUFFICES ASSUME IInv, [Next]_vars PROVE IInv'
  OBVIOUS
<1>1. CASE Seed \/ Return \/ Done \/ UNCHANGED vars
  BY <1>1, SeedIInv, ReturnIInv, StutterIInv DEF Done
<1>2. ASSUME NEW w \in Workers, Lock(w) \/ Run(w) \/ SpuriousWakeup(w)
      PROVE  IInv'
  BY <1>2, AcquireIInv, TestPredicateIInv, BlockIInv, CheckIInv, PopIInv, FinishTaskIInv,
     StatIInv, DecrementIInv, IsZeroIInv, NotifyIInv, DispatchOneIInv DEF Lock, Run
<1> QED BY <1>1, <1>2 DEF Next

-------------------------------------------------------------------------------
(* Invariants *)

\* The inductive invariant holds throughout run().
THEOREM Invariant == Spec => []IInv
BY InitIInv, StepIInv, PTL DEF Spec

\* Every variable of run() and of its workers keeps its type.
THEOREM TypeCorrect == Spec => []TypeOK
<1>1. IInv => TypeOK
  BY DEF IInv
<1> QED BY <1>1, Invariant, PTL

\* No task starts before everything it depends on is DONE, for any number of
\* workers, any graph, and with failures tolerated or not.
THEOREM DependenciesRespected == Spec => []DepsBeforeRun
<1>1. IInv => DepsBeforeRun
  BY DEF IInv
<1> QED BY <1>1, Invariant, PTL

\* No two workers run one task, although the queue may hold it twice.
THEOREM TaskHasOneWorker == Spec => []OneWorkerPerTask
<1>1. IInv => OneWorkerPerTask
  BY DEF IInv
<1> QED BY <1>1, Invariant, PTL

\* pendingCount is exact at every step of every worker.
THEOREM CountIsExact == Spec => []PendingCountExact
<1>1. IInv => PendingCountExact
  BY DEF IInv
<1> QED BY <1>1, Invariant, PTL

\* What is known when run() has returned, or could: every worker has gone.
LEMMA AllGone ==
  ASSUME IInv, Sorted = <<>> \/ \A w \in Workers : pc[w] = "exited"
  PROVE  /\ \A t \in Tasks : state[t] # "RUNNING"
         /\ Stopping \/ \A t \in Tasks : state[t] \in Finished
         /\ \A t \in Tasks : state[t] = "FAILED" => hasFailed
<1>1. CASE Tasks = {}
  BY <1>1
<1>2. CASE Tasks # {}
  <2>1. \A w \in Workers : pc[w] = "exited"
    BY <1>2 DEF Tasks, Elements
  <2>2. \A t \in Tasks : state[t] # "RUNNING"
    BY <2>1 DEF IInv, WorkInv
  <2>3. \A t \in Tasks : state[t] = "FAILED" => hasFailed
    BY <2>1 DEF IInv, FailInv, Unraised
  <2>4. ASSUME ~Stopping
        PROVE  \A t \in Tasks : state[t] \in Finished
    <3>1. pendingCount = 0
      BY <2>1, <2>4, WorkersAssumption DEF IInv, EndInv
    <3>2. Cardinality(Unfinished) = 0
      BY <3>1, CountedFacts DEF IInv, PendingCountExact
    <3>3. Unfinished = {}
      BY <3>2, CountedFacts, FS_EmptySet
    <3> QED BY <3>3 DEF Unfinished
  <2> QED BY <2>2, <2>3, <2>4
<1> QED BY <1>1, <1>2

\* run() leaves no task running behind.
THEOREM ReturnIsQuiet == Spec => []QuietReturn
<1>1. IInv => QuietReturn
  BY AllGone DEF IInv, EndInv, QuietReturn
<1> QED BY <1>1, Invariant, PTL

\* run() reports success only if all tasks are over, and all DONE unless
\* failures were to be tolerated; it reports failure only of a failed task.
THEOREM ResultHonest == Spec => []ResultIsHonest
<1>1. ASSUME IInv PROVE ResultIsHonest
  <2>1. CASE result = "success"
    <3>1. ~Stopping /\ (Sorted = <<>> \/ \A w \in Workers : pc[w] = "exited")
      BY <1>1, <2>1 DEF IInv, EndInv
    <3>2. \A t \in Tasks : state[t] \in Finished /\ (state[t] = "FAILED" => hasFailed)
      BY <1>1, <3>1, AllGone
    <3> QED BY <2>1, <3>1, <3>2 DEF ResultIsHonest, Stopping, Finished
  <2>2. CASE result = "failure"
    <3>1. Stopping
      BY <1>1, <2>2 DEF IInv, EndInv
    <3> QED BY <1>1, <2>2, <3>1 DEF ResultIsHonest, IInv, FailInv, Stopping
  <2>3. CASE result = "none"
    BY <2>3 DEF ResultIsHonest
  <2> QED BY <1>1, <2>1, <2>2, <2>3 DEF IInv, TypeOK
<1> QED BY <1>1, Invariant, PTL

-------------------------------------------------------------------------------
(* Nothing is lost: StartInv and DispatchInv on top of IInv *)

\* What append and pop do to the set of queued tasks.
LEMMA QueueGrows ==
  ASSUME readyQueue \in Seq(Tasks), NEW t,
         readyQueue' = Append(readyQueue, t) \/ readyQueue' = readyQueue, t \in Tasks
  PROVE  Elements(readyQueue) \subseteq Elements(readyQueue)'
<1>1. CASE readyQueue' = Append(readyQueue, t)
  <2>1. /\ DOMAIN readyQueue \subseteq DOMAIN readyQueue'
        /\ \A i \in DOMAIN readyQueue : readyQueue'[i] = readyQueue[i]
    BY <1>1, AppendProperties
  <2> QED BY <2>1 DEF Elements
<1> QED BY <1>1 DEF Elements

LEMMA QueueShrinks ==
  ASSUME readyQueue \in Seq(Tasks), readyQueue # <<>>, readyQueue' = Tail(readyQueue)
  PROVE  /\ Head(readyQueue) \in Tasks
         /\ \A s \in Elements(readyQueue) : s # Head(readyQueue) => s \in Elements(readyQueue)'
<1>1. /\ Head(readyQueue) \in Tasks /\ Head(readyQueue) = readyQueue[1]
      /\ Len(readyQueue) \in Nat /\ DOMAIN readyQueue = 1 .. Len(readyQueue)
      /\ DOMAIN readyQueue' = 1 .. Len(readyQueue) - 1
      /\ \A i \in 1 .. Len(readyQueue) - 1 : readyQueue'[i] = readyQueue[i + 1]
  OBVIOUS
<1>2. ASSUME NEW i \in 1 .. Len(readyQueue), i # 1
      PROVE  readyQueue[i] \in Elements(readyQueue)'
  <2>1. i - 1 \in 1 .. Len(readyQueue) - 1 /\ (i - 1) + 1 = i
    BY <1>1, <1>2
  <2>2. readyQueue'[i - 1] = readyQueue[i]
    BY <1>1, <2>1
  <2> QED BY <1>1, <2>1, <2>2 DEF Elements
<1> QED BY <1>1, <1>2 DEF Elements

\* pendingCount at 0 means that every task is over.
LEMMA AllOver ==
  ASSUME IInv, pendingCount = 0
  PROVE  (\A t \in Tasks : state[t] \in Finished) /\ \A w \in Workers : pc[w] \notin Uncounted
<1>1. Cardinality(Unfinished) = 0 /\ Cardinality(Counting) = 0
  BY CountedFacts DEF IInv, PendingCountExact
<1>2. Unfinished = {} /\ Counting = {}
  BY <1>1, CountedFacts, FS_EmptySet
<1> QED BY <1>2 DEF Unfinished, Counting

LEMMA GraphFixed == [Next]_vars => UNCHANGED <<deps, continueOnError>>
BY DEF Next, Seed, Return, Done, vars, graphVars, Lock, Run, SpuriousWakeup, Acquire,
  DispatchLock, TestPredicate, Block, Check, Pop, FinishTask, ReadStat, WriteStat, RaiseFailed,
  Decrement, IsZero, NotifyEnd, DispatchOne, DispatchEnd

LEMMA StartStep == IInv /\ StartInv /\ [Next]_vars => StartInv'
<1> SUFFICES ASSUME IInv, StartInv, [Next]_vars PROVE StartInv'
  OBVIOUS
<1>1. IsTopologicalOrder(Sorted, Tasks, deps)'
  BY GraphFixed DEF StartInv
<1>2. ASSUME NEW w \in Workers, Lock(w) \/ Run(w) \/ SpuriousWakeup(w)
      PROVE  seeded' = seeded /\ ~(seeded < NumTasks)
  <2>1. seeded' = seeded
    BY <1>2 DEF mainVars, Lock, Run, SpuriousWakeup, Acquire, DispatchLock, TestPredicate, Block,
      Check, Pop, FinishTask, ReadStat, WriteStat, RaiseFailed, Decrement, IsZero, NotifyEnd,
      DispatchOne, DispatchEnd
  <2>2. CASE Acquire(w)
    BY <2>1, <2>2, SortedFacts DEF Acquire
  <2>3. CASE ~Acquire(w)
    <3>1. pc[w] # "acquire"
      BY <1>2, <2>3 DEF Lock, Run, SpuriousWakeup, DispatchLock, TestPredicate, Block,
        Check, Pop, FinishTask, ReadStat, WriteStat, RaiseFailed, Decrement, IsZero, NotifyEnd,
        DispatchOne, DispatchEnd
    <3> QED BY <2>1, <3>1 DEF StartInv
  <2> QED BY <2>2, <2>3
<1>3. CASE Seed \/ Return \/ Done \/ UNCHANGED vars
  <2>1. pc' = pc /\ state' = state /\ (seeded' = seeded \/ seeded < NumTasks)
    BY <1>3 DEF Seed, Return, Done, vars, mainVars
  <2> QED BY <1>1, <2>1 DEF StartInv
<1> QED BY <1>1, <1>2, <1>3 DEF Next, StartInv

LEMMA InitDispatch == Init => StartInv /\ DispatchInv
<1> SUFFICES ASSUME Init PROVE StartInv /\ DispatchInv
  OBVIOUS
<1>1. StartInv
  BY DEF Init, StartInv
<1>2. \A i \in 1 .. NumTasks : i > seeded
  BY SortedFacts DEF Init
<1> QED BY <1>1, <1>2 DEF Init, DispatchInv, NoLostDispatch

\* Steps that make no task ready, drop none that is, and stop no worker that
\* will reach it.
LEMMA KeepsDispatch ==
  ASSUME IInv, NoLostDispatch, UNCHANGED <<deps, seeded>>,
         \A t \in Tasks : state'[t] = "PENDING" /\ DepsDone(t)' =>
                            /\ state[t] = "PENDING" /\ DepsDone(t)
                            /\ t \in Elements(readyQueue) => t \in Elements(readyQueue)',
         \A i \in 1 .. NumTasks : \A v \in Workers : WillReach(v, i) => WillReach(v, i)'
  PROVE  NoLostDispatch'
<1> SUFFICES ASSUME NEW i \in 1 .. NumTasks,
                    state'[Sorted[i]] = "PENDING", DepsDone(Sorted[i])'
             PROVE  \/ i > seeded' \/ Sorted[i] \in Elements(readyQueue)'
                    \/ \E w \in Workers : WillReach(w, i)'
  BY DEF NoLostDispatch
<1>1. Sorted[i] \in Tasks
  BY SortedFacts
<1>2. /\ state[Sorted[i]] = "PENDING" /\ DepsDone(Sorted[i])
      /\ Sorted[i] \in Elements(readyQueue) => Sorted[i] \in Elements(readyQueue)'
  BY <1>1
<1> QED BY <1>2 DEF NoLostDispatch

\* Steps that leave the tasks, the queue and the cursors alone.
LEMMA QuietDispatch ==
  ASSUME IInv, DispatchInv, UNCHANGED <<deps, seeded, state, readyQueue, task, cursor>>,
         \A v \in Workers :
           \/ pc'[v] = pc[v]
           \/ /\ pc[v] \notin Uncounted \cup {"isZero", "relock"}
              /\ pc[v] = "scan" => cursor[v] > NumTasks
              /\ pc'[v] \notin {"isZero", "relock"}
           \/ /\ pc[v] \in Uncounted \cup {"isZero"}
              /\ pc'[v] \in Uncounted \cup {"isZero", "relock"}
  PROVE  DispatchInv'
<1>1. ASSUME NEW v \in Workers, pc'[v] \in {"isZero", "relock"}
      PROVE  task[v] \in Tasks /\ state[task[v]] \in Finished
  BY <1>1 DEF IInv, WorkInv, DispatchInv
<1>2. ASSUME NEW i \in 1 .. NumTasks, NEW v \in Workers, WillReach(v, i)
      PROVE  WillReach(v, i)'
  <2>1. cursor[v] \in Nat /\ NumTasks \in Nat /\ i \in Nat /\ i <= NumTasks
    BY SortedFacts DEF IInv, TypeOK
  <2>2. ~(pc[v] = "scan" /\ cursor[v] > NumTasks)
    BY <1>2, <2>1 DEF WillReach, Uncounted
  <2> QED BY <1>2, <2>2 DEF WillReach, Uncounted
<1>3. \A t \in Tasks : DepsDone(t)' <=> DepsDone(t)
  BY DEF DepsDone
<1>4. NoLostDispatch'
  BY <1>2, <1>3, KeepsDispatch DEF DispatchInv
<1> QED BY <1>1, <1>4 DEF DispatchInv

LEMMA SeedDispatch == IInv /\ StartInv /\ DispatchInv /\ Seed => DispatchInv'
<1> SUFFICES ASSUME IInv, StartInv, DispatchInv, Seed PROVE DispatchInv'
  OBVIOUS
<1>1. /\ seeded < NumTasks /\ seeded' = seeded + 1 /\ deps' = deps
      /\ UNCHANGED <<state, pc, task, cursor>>
      /\ readyQueue' = IF deps[Sorted[seeded + 1]] = {}
                         THEN Append(readyQueue, Sorted[seeded + 1]) ELSE readyQueue
  BY DEF Seed, graphVars
<1>2. \A w \in Workers : pc[w] = "acquire"
  BY <1>1 DEF StartInv
<1>3. readyQueue \in Seq(Tasks)
  BY DEF IInv, TypeOK
<1>4. ASSUME NEW i \in 1 .. NumTasks, state[Sorted[i]] = "PENDING", DepsDone(Sorted[i])
      PROVE  i > seeded + 1 \/ Sorted[i] \in Elements(readyQueue)'
  <2>1. seeded \in Nat /\ i \in Nat /\ Sorted[i] \in Tasks
    BY SortedFacts DEF IInv, TypeOK
  <2>2. deps[Sorted[i]] = {}
    <3>1. \A d \in deps[Sorted[i]] : d \in Tasks /\ state[d] = "PENDING"
      BY <1>1, <2>1 DEF StartInv, IInv, TypeOK
    <3> QED BY <1>4, <3>1 DEF DepsDone
  <2>3. CASE i = seeded + 1
    <3>1. readyQueue' = Append(readyQueue, Sorted[i])
      BY <1>1, <2>2, <2>3
    <3>2. Len(readyQueue) + 1 \in DOMAIN readyQueue' /\ readyQueue'[Len(readyQueue) + 1] = Sorted[i]
      BY <1>3, <2>1, <3>1, AppendProperties
    <3> QED BY <3>2 DEF Elements
  <2>4. CASE i <= seeded
    <3>1. Sorted[i] \in Elements(readyQueue)
      BY <1>2, <1>4, <2>1, <2>4 DEF DispatchInv, NoLostDispatch, WillReach, Uncounted
    <3>2. Sorted[seeded + 1] \in Tasks
      BY <1>1, <2>1, SortedFacts
    <3>3. readyQueue' = Append(readyQueue, Sorted[seeded + 1]) \/ readyQueue' = readyQueue
      BY <1>1
    <3>4. Elements(readyQueue) \subseteq Elements(readyQueue)'
      BY <1>3, <3>2, <3>3, QueueGrows
    <3> QED BY <3>1, <3>4
  <2> QED BY <2>1, <2>3, <2>4
<1>5. NoLostDispatch'
  BY <1>1, <1>4 DEF NoLostDispatch, DepsDone
<1>6. \A w \in Workers : pc'[w] \notin {"isZero", "relock"}
  BY <1>1, <1>2
<1> QED BY <1>5, <1>6 DEF DispatchInv

\* The scan that passes a ready task puts it in the queue.
LEMMA DispatchOneDispatch ==
  ASSUME IInv, DispatchInv, NEW w \in Workers, DispatchOne(w)
  PROVE  DispatchInv'
<1> DEFINE c == cursor[w]
<1>1. /\ pc[w] = "scan" /\ c <= NumTasks /\ cursor' = [cursor EXCEPT ![w] = c + 1]
      /\ UNCHANGED <<deps, seeded, state, pc, task>>
      /\ readyQueue' = IF state[Sorted[c]] = "PENDING" /\ DepsDone(Sorted[c])
                         THEN Append(readyQueue, Sorted[c]) ELSE readyQueue
  BY DEF DispatchOne, graphVars, mainVars
<1>2. readyQueue \in Seq(Tasks) /\ c \in 1 .. NumTasks /\ Sorted[c] \in Tasks
  BY <1>1, SortedFacts DEF IInv, TypeOK
<1>3. \A v \in Workers : cursor'[v] = IF v = w THEN c + 1 ELSE cursor[v]
  BY <1>1 DEF IInv, TypeOK
<1> HIDE DEF c
<1>4. ASSUME NEW i \in 1 .. NumTasks, state[Sorted[i]] = "PENDING", DepsDone(Sorted[i])
      PROVE  \/ i > seeded \/ Sorted[i] \in Elements(readyQueue)'
             \/ \E v \in Workers : WillReach(v, i)'
  <2>1. CASE Sorted[i] \in Elements(readyQueue)
    BY <1>1, <1>2, <2>1, QueueGrows
  <2>2. CASE i = c
    <3>1. readyQueue' = Append(readyQueue, Sorted[c])
      BY <1>1, <1>4, <2>2
    <3>2. Len(readyQueue) + 1 \in DOMAIN readyQueue' /\ readyQueue'[Len(readyQueue) + 1] = Sorted[c]
      BY <1>2, <3>1, AppendProperties
    <3> QED BY <2>2, <3>2 DEF Elements
  <2>3. ASSUME NEW v \in Workers, WillReach(v, i), i # c
        PROVE  WillReach(v, i)'
    <3>1. CASE v = w
      <4>1. c <= i
        BY <1>1, <2>3, <3>1 DEF WillReach, Uncounted, c
      <4>2. c + 1 <= i
        BY <1>2, <2>3, <4>1
      <4> QED BY <1>1, <1>3, <3>1, <4>2 DEF WillReach
    <3>2. CASE v # w
      BY <1>1, <1>3, <2>3, <3>2 DEF WillReach
    <3> QED BY <3>1, <3>2
  <2> QED BY <1>4, <2>1, <2>2, <2>3 DEF DispatchInv, NoLostDispatch
<1>5. NoLostDispatch'
  BY <1>1, <1>4 DEF NoLostDispatch, DepsDone
<1> QED BY <1>1, <1>5 DEF DispatchInv

\* Only the task at the head leaves the queue: it starts, or was not PENDING.
LEMMA PopDispatch ==
  ASSUME IInv, DispatchInv, NEW w \in Workers, Pop(w)
  PROVE  DispatchInv'
<1> DEFINE t == Head(readyQueue)
<1>1. /\ pc[w] = "pop" /\ readyQueue' = Tail(readyQueue)
      /\ UNCHANGED <<deps, seeded, cursor>>
  BY DEF Pop, graphVars, mainVars
<1>2. readyQueue \in Seq(Tasks) /\ readyQueue # <<>>
  BY <1>1 DEF IInv, TypeOK, QueueInv
<1>3. t \in Tasks /\ \A s \in Elements(readyQueue) : s # t => s \in Elements(readyQueue)'
  BY <1>1, <1>2, QueueShrinks
<1> HIDE DEF t
<1>4. PICK place \in {"run", "acquire"} :
        /\ Goto(w, place)
        /\ \/ /\ place = "run" /\ state[t] = "PENDING"
              /\ state' = [state EXCEPT ![t] = "RUNNING"] /\ task' = [task EXCEPT ![w] = t]
           \/ place = "acquire" /\ state' = state /\ task' = task /\ state[t] # "PENDING"
  BY DEF Pop, t
<1>5. \A v \in Workers : /\ pc'[v] = IF v = w THEN place ELSE pc[v]
                         /\ v # w => task'[v] = task[v]
  BY <1>4, GotoPlace DEF IInv, TypeOK
<1>6. /\ state'[t] # "PENDING"
      /\ \A s \in Tasks : state'[s] = state[s] \/ (state[s] = "PENDING" /\ state'[s] = "RUNNING")
  BY <1>3, <1>4 DEF IInv, TypeOK
<1>7. ASSUME NEW v \in Workers, pc'[v] \in Uncounted \cup {"isZero", "relock"}
      PROVE  v # w /\ pc'[v] = pc[v] /\ task'[v] = task[v] /\ state'[task[v]] = state[task[v]]
             /\ task[v] \in Tasks /\ state[task[v]] \in Finished
  <2>1. v # w
    BY <1>5, <1>7 DEF Uncounted
  <2>2. task[v] \in Tasks /\ state[task[v]] \in Finished
    BY <1>5, <1>7, <2>1 DEF IInv, WorkInv, DispatchInv
  <2> QED BY <1>5, <1>6, <2>1, <2>2 DEF Finished
<1>8. ASSUME NEW s \in Tasks, state'[s] = "PENDING", DepsDone(s)'
      PROVE  /\ state[s] = "PENDING" /\ DepsDone(s)
             /\ s \in Elements(readyQueue) => s \in Elements(readyQueue)'
  <2>1. deps[s] \subseteq Tasks
    BY DEF IInv, TypeOK
  <2>2. DepsDone(s)
    BY <1>1, <1>6, <1>8, <2>1 DEF DepsDone
  <2> QED BY <1>3, <1>6, <1>8, <2>2
<1>9. ASSUME NEW i \in 1 .. NumTasks, NEW v \in Workers, WillReach(v, i)
      PROVE  WillReach(v, i)'
  <2>1. v # w
    BY <1>1, <1>9 DEF WillReach, Uncounted
  <2> QED BY <1>1, <1>5, <1>7, <1>9, <2>1 DEF WillReach
<1>10. NoLostDispatch'
  BY <1>1, <1>8, <1>9, KeepsDispatch DEF DispatchInv
<1> QED BY <1>7, <1>10 DEF DispatchInv

\* A task becomes ready when the last of its dependencies is DONE, and then the
\* worker that finished that one has its dispatchReady ahead.
LEMMA FinishDispatch ==
  ASSUME IInv, DispatchInv, NEW w \in Workers, FinishTask(w)
  PROVE  DispatchInv'
<1> DEFINE t == task[w]
<1>1. /\ pc[w] = "run" /\ Goto(w, "readStat")
      /\ UNCHANGED <<deps, seeded, readyQueue, task, cursor>>
  BY DEF FinishTask, graphVars, mainVars
<1>2. t \in Tasks /\ state[t] = "RUNNING"
  BY <1>1 DEF IInv, WorkInv
<1> HIDE DEF t
<1>3. PICK verdict \in Finished : state' = [state EXCEPT ![t] = verdict]
  BY DEF FinishTask, t
<1>4. \A v \in Workers : pc'[v] = IF v = w THEN "readStat" ELSE pc[v]
  BY <1>1, GotoPlace
<1>5. \A s \in Tasks : state'[s] = IF s = t THEN verdict ELSE state[s]
  BY <1>2, <1>3 DEF IInv, TypeOK
<1>6. ASSUME NEW v \in Workers, pc'[v] \in Uncounted \cup {"isZero", "relock"}, v # w
      PROVE  /\ pc'[v] = pc[v] /\ state'[task[v]] = state[task[v]]
             /\ task[v] \in Tasks /\ state[task[v]] \in Finished
  <2>1. task[v] \in Tasks /\ state[task[v]] \in Finished /\ pc'[v] = pc[v]
    BY <1>4, <1>6 DEF IInv, WorkInv, DispatchInv
  <2> QED BY <1>2, <1>5, <2>1 DEF Finished
<1>7. ASSUME NEW i \in 1 .. NumTasks, state'[Sorted[i]] = "PENDING", DepsDone(Sorted[i])'
      PROVE  \/ i > seeded \/ Sorted[i] \in Elements(readyQueue)
             \/ \E v \in Workers : WillReach(v, i)'
  <2>1. Sorted[i] \in Tasks /\ deps[Sorted[i]] \subseteq Tasks
    BY SortedFacts DEF IInv, TypeOK
  <2>2. state[Sorted[i]] = "PENDING"
    BY <1>5, <1>7, <2>1 DEF Finished
  <2>3. CASE t \in deps[Sorted[i]]
    <3>1. state'[t] = "DONE"
      BY <1>1, <1>5, <1>7, <2>3, <1>2 DEF DepsDone, Finished
    <3> QED BY <1>1, <1>4, <3>1 DEF WillReach, Uncounted, t
  <2>4. CASE t \notin deps[Sorted[i]]
    <3>1. DepsDone(Sorted[i])
      BY <1>1, <1>5, <1>7, <2>1, <2>4 DEF DepsDone
    <3>2. ASSUME NEW v \in Workers, WillReach(v, i)
          PROVE  WillReach(v, i)'
      <4>1. v # w
        BY <1>1, <3>2 DEF WillReach, Uncounted
      <4> QED BY <1>1, <1>4, <1>6, <3>2, <4>1 DEF WillReach
    <3> QED BY <2>2, <3>1, <3>2 DEF DispatchInv, NoLostDispatch
  <2> QED BY <2>3, <2>4
<1>8. NoLostDispatch'
  BY <1>1, <1>7 DEF NoLostDispatch
<1>9. \A v \in Workers : pc'[v] \in {"isZero", "relock"} =>
                           task[v] \in Tasks /\ state'[task[v]] \in Finished
  <2> SUFFICES ASSUME NEW v \in Workers, pc'[v] \in {"isZero", "relock"}
               PROVE  task[v] \in Tasks /\ state'[task[v]] \in Finished
    OBVIOUS
  <2>1. v # w
    BY <1>4
  <2> QED BY <1>6, <2>1
<1> QED BY <1>1, <1>8, <1>9 DEF DispatchInv

\* The worker that sees pendingCount at 0 drops its scan: nothing is PENDING.
LEMMA IsZeroDispatch ==
  ASSUME IInv, DispatchInv, NEW w \in Workers, IsZero(w)
  PROVE  DispatchInv'
<1>1. /\ pc[w] = "isZero"
      /\ UNCHANGED <<deps, seeded, state, readyQueue, task, cursor, pendingCount>>
  BY DEF IsZero, graphVars, mainVars
<1>2. CASE pendingCount = 0
  <2>1. \A v \in Workers : pc'[v] = IF v = w THEN "notify" ELSE pc[v]
    BY <1>2, GotoPlace DEF IsZero
  <2>2. \A t \in Tasks : state[t] # "PENDING"
    BY <1>2, AllOver DEF Finished
  <2>3. NoLostDispatch'
    BY <1>1, <2>2, SortedFacts DEF NoLostDispatch
  <2> QED BY <1>1, <2>1, <2>3 DEF DispatchInv
<1>3. CASE pendingCount # 0
  <2>1. \A v \in Workers : pc'[v] = IF v = w THEN "relock" ELSE pc[v]
    BY <1>3, GotoPlace DEF IsZero
  <2> QED BY <1>1, <2>1, QuietDispatch DEF Uncounted
<1> QED BY <1>2, <1>3

LEMMA LockDispatch ==
  ASSUME IInv, DispatchInv, NEW w \in Workers, DispatchLock(w)
  PROVE  DispatchInv'
<1>1. /\ pc[w] = "relock" /\ Goto(w, "scan") /\ cursor' = [cursor EXCEPT ![w] = 1]
      /\ UNCHANGED <<deps, seeded, state, readyQueue, task>>
  BY DEF DispatchLock, graphVars, mainVars
<1>2. \A v \in Workers : /\ pc'[v] = IF v = w THEN "scan" ELSE pc[v]
                         /\ cursor'[v] = IF v = w THEN 1 ELSE cursor[v]
  BY <1>1, GotoPlace DEF IInv, TypeOK
<1>3. ASSUME NEW i \in 1 .. NumTasks, NEW v \in Workers, WillReach(v, i)
      PROVE  WillReach(v, i)'
  <2>1. 1 <= i
    BY SortedFacts
  <2>2. CASE v = w
    BY <1>2, <2>1, <2>2 DEF WillReach
  <2>3. CASE v # w
    BY <1>1, <1>2, <1>3, <2>3 DEF WillReach
  <2> QED BY <2>2, <2>3
<1>4. NoLostDispatch'
  BY <1>1, <1>3, KeepsDispatch DEF DispatchInv, DepsDone
<1> QED BY <1>1, <1>2, <1>4 DEF DispatchInv

LEMMA DispatchStep == IInv /\ StartInv /\ DispatchInv /\ [Next]_vars => DispatchInv'
<1> SUFFICES ASSUME IInv, StartInv, DispatchInv, [Next]_vars PROVE DispatchInv'
  OBVIOUS
<1>1. CASE Return \/ Done \/ UNCHANGED vars
  BY <1>1, QuietDispatch DEF Return, Done, vars, graphVars, mainVars
<1>2. ASSUME NEW w \in Workers,
             Acquire(w) \/ TestPredicate(w) \/ Block(w) \/ SpuriousWakeup(w) \/ Check(w)
      PROVE  DispatchInv'
  <2>1. PICK place \in {"test", "check", "block", "asleep", "acquire", "exited", "pop"} :
          Goto(w, place)
    BY <1>2 DEF Acquire, TestPredicate, Block, SpuriousWakeup, Check
  <2>2. pc[w] \in {"acquire", "test", "block", "asleep", "check"}
        /\ UNCHANGED <<deps, seeded, state, readyQueue, task, cursor>>
    BY <1>2 DEF Acquire, TestPredicate, Block, SpuriousWakeup, Check, graphVars, mainVars
  <2>3. \A v \in Workers : pc'[v] = IF v = w THEN place ELSE pc[v]
    BY <2>1, GotoPlace
  <2> QED BY <2>2, <2>3, QuietDispatch DEF Uncounted
<1>3. ASSUME NEW w \in Workers, ReadStat(w) \/ WriteStat(w) \/ RaiseFailed(w) \/ Decrement(w)
      PROVE  DispatchInv'
  <2>1. PICK place \in {"writeStat", "raise", "decrement", "isZero"} : Goto(w, place)
    BY <1>3 DEF ReadStat, WriteStat, RaiseFailed, Decrement
  <2>2. pc[w] \in Uncounted /\ UNCHANGED <<deps, seeded, state, readyQueue, task, cursor>>
    BY <1>3 DEF ReadStat, WriteStat, RaiseFailed, Decrement, graphVars, mainVars, Uncounted
  <2>3. \A v \in Workers : pc'[v] = IF v = w THEN place ELSE pc[v]
    BY <2>1, GotoPlace
  <2> QED BY <2>2, <2>3, QuietDispatch DEF Uncounted
<1>4. ASSUME NEW w \in Workers, NotifyEnd(w) \/ DispatchEnd(w)
      PROVE  DispatchInv'
  <2>1. /\ pc[w] = "notify" \/ (pc[w] = "scan" /\ cursor[w] > NumTasks)
        /\ UNCHANGED <<deps, seeded, state, readyQueue, task, cursor>>
    BY <1>4 DEF NotifyEnd, DispatchEnd, graphVars, mainVars
  <2>2. \A v \in Workers : \/ pc'[v] = pc[v]
                           \/ /\ v = w \/ pc[v] = "asleep"
                              /\ pc'[v] \in {"exited", "acquire"}
    BY <1>4 DEF NotifyEnd, DispatchEnd, NotifyAll
  <2> QED BY <2>1, <2>2, QuietDispatch DEF Uncounted
<1>5. CASE \E w \in Workers : Lock(w) \/ Run(w) \/ SpuriousWakeup(w)
  BY <1>2, <1>3, <1>4, <1>5, LockDispatch, PopDispatch, FinishDispatch, IsZeroDispatch,
     DispatchOneDispatch DEF Lock, Run
<1> QED BY <1>1, <1>5, SeedDispatch DEF Next

\* A PENDING task whose dependencies are DONE is queued, or a scan that will
\* queue it is still to come: no interleaving of finishes and scans loses one.
THEOREM NoDispatchIsLost == Spec => []NoLostDispatch
<1>1. Init => IInv /\ StartInv /\ DispatchInv
  BY InitIInv, InitDispatch
<1>2. IInv /\ StartInv /\ DispatchInv /\ [Next]_vars => IInv' /\ StartInv' /\ DispatchInv'
  BY StepIInv, StartStep, DispatchStep
<1>3. DispatchInv => NoLostDispatch
  BY DEF DispatchInv
<1> QED BY <1>1, <1>2, <1>3, PTL DEF Spec

-------------------------------------------------------------------------------
(* Nobody sleeps on work: SleepInv on top of those *)

LEMMA InitSleep == Init => SleepInv
BY DEF Init, SleepInv

\* Steps that put nobody to sleep and take nobody away who will wake others.
LEMMA QuietSleep ==
  ASSUME IInv, SleepInv, UNCHANGED <<continueOnError, readyQueue, hasFailed, pendingCount>>,
         \A v \in Workers :
           \/ pc'[v] = pc[v]
           \/ /\ pc[v] \notin {"decrement", "isZero", "relock", "scan"}
              /\ pc'[v] \notin {"block", "asleep"}
  PROVE  SleepInv'
<1>1. \A v \in Workers :
        /\ pc'[v] \in {"block", "asleep"} => pc'[v] = pc[v]
        /\ pc[v] \in {"decrement", "isZero", "relock", "scan"} => pc'[v] = pc[v]
  OBVIOUS
<1>2. Stopping' <=> Stopping
  BY DEF Stopping
<1>3. \A w \in Workers : pc'[w] = "block" => readyQueue' = <<>>
  BY <1>1 DEF SleepInv
<1>4. (\E w \in Workers : pc'[w] = "asleep") /\ readyQueue' # <<>> =>
        \E v \in Workers : pc'[v] = "scan"
  BY <1>1 DEF SleepInv
<1>5. (\E w \in Workers : pc'[w] \in {"block", "asleep"}) /\ Stopping' /\ pendingCount' # 0 =>
        \E v \in Workers : pc'[v] \in {"decrement", "isZero", "relock", "scan"}
  BY <1>1, <1>2 DEF SleepInv
<1> QED BY <1>3, <1>4, <1>5 DEF SleepInv

\* A worker goes to sleep on a predicate that it has found false.
LEMMA TestSleep ==
  ASSUME IInv, SleepInv, NEW w \in Workers, TestPredicate(w)
  PROVE  SleepInv'
<1>1. /\ pc[w] = "test"
      /\ UNCHANGED <<continueOnError, readyQueue, hasFailed, pendingCount>>
  BY DEF TestPredicate, graphVars
<1>2. CASE readyQueue # <<>> \/ pendingCount = 0 \/ Stopping
  <2>1. \A v \in Workers : pc'[v] = IF v = w THEN "check" ELSE pc[v]
    BY <1>2, GotoPlace DEF TestPredicate
  <2> QED BY <1>1, <2>1, QuietSleep
<1>3. CASE readyQueue = <<>> /\ ~Stopping
  <2>1. readyQueue' = <<>> /\ ~Stopping'
    BY <1>1, <1>3 DEF Stopping
  <2> QED BY <2>1 DEF SleepInv
<1> QED BY <1>2, <1>3

LEMMA BlockSleep ==
  ASSUME IInv, SleepInv, NEW w \in Workers, Block(w)
  PROVE  SleepInv'
<1>1. /\ pc[w] = "block" /\ Goto(w, "asleep")
      /\ UNCHANGED <<continueOnError, readyQueue, hasFailed, pendingCount>>
  BY DEF Block, graphVars
<1>2. \A v \in Workers : pc'[v] = IF v = w THEN "asleep" ELSE pc[v]
  BY <1>1, GotoPlace
<1>3. readyQueue' = <<>> /\ (Stopping' <=> Stopping)
  BY <1>1 DEF SleepInv, Stopping
<1>4. Stopping /\ pendingCount # 0 =>
        \E v \in Workers : v # w /\ pc[v] \in {"decrement", "isZero", "relock", "scan"}
  BY <1>1 DEF SleepInv
<1>5. Stopping /\ pendingCount # 0 =>
        \E v \in Workers : pc'[v] \in {"decrement", "isZero", "relock", "scan"}
  BY <1>2, <1>4
<1> QED BY <1>1, <1>3, <1>5 DEF SleepInv

\* The popper holds the mutex, so nobody scans, and the queue it pops is not
\* empty: nobody sleeps either.
LEMMA PopSleep ==
  ASSUME IInv, SleepInv, NEW w \in Workers, Pop(w)
  PROVE  SleepInv'
<1>1. pc[w] = "pop" /\ readyQueue # <<>> /\ pc' \in {[pc EXCEPT ![w] = "run"], [pc EXCEPT ![w] = "acquire"]}
  BY DEF Pop, Goto, IInv, QueueInv
<1>2. \A v \in Workers : pc[v] # "scan" /\ pc[v] # "block"
  BY <1>1 DEF IInv, MutexInv, Locked
<1>3. \A v \in Workers : pc[v] # "asleep"
  BY <1>1, <1>2 DEF SleepInv
<1>4. \A v \in Workers : pc'[v] \notin {"block", "asleep"}
  BY <1>1, <1>2, <1>3 DEF IInv, TypeOK
<1> QED BY <1>4 DEF SleepInv

\* From the moment hasFailed is raised until every sleeper has been woken, a
\* worker is on its way to a notify_all.
LEMMA WakerSleep ==
  ASSUME IInv, SleepInv, NEW w \in Workers,
         RaiseFailed(w) \/ Decrement(w) \/ IsZero(w) \/ DispatchLock(w)
  PROVE  SleepInv'
<1>1. /\ readyQueue' = readyQueue
      /\ pc[w] \in {"raise", "decrement", "isZero", "relock"}
  BY DEF RaiseFailed, Decrement, IsZero, DispatchLock
<1>2. PICK place \in {"decrement", "isZero", "relock", "scan", "notify"} :
        /\ Goto(w, place)
        /\ place = "notify" => pendingCount' = 0
  BY DEF RaiseFailed, Decrement, IsZero, DispatchLock
<1>3. \A v \in Workers : pc'[v] = IF v = w THEN place ELSE pc[v]
  BY <1>2, GotoPlace
<1>4. \A v \in Workers : pc'[v] = "block" => readyQueue' = <<>>
  BY <1>1, <1>2, <1>3 DEF SleepInv
<1>5. (\E v \in Workers : pc'[v] = "asleep") /\ readyQueue' # <<>> =>
        \E v \in Workers : pc'[v] = "scan"
  <2> SUFFICES ASSUME NEW u \in Workers, pc'[u] = "asleep", readyQueue' # <<>>
               PROVE  \E v \in Workers : pc'[v] = "scan"
    OBVIOUS
  <2>1. pc[u] = "asleep" /\ readyQueue # <<>>
    BY <1>1, <1>2, <1>3
  <2>2. PICK v \in Workers : pc[v] = "scan"
    BY <2>1 DEF SleepInv
  <2>3. v # w
    BY <1>1, <2>2
  <2> QED BY <1>3, <2>2, <2>3
<1>6. pendingCount' # 0 => pc'[w] \in {"decrement", "isZero", "relock", "scan"}
  BY <1>2, <1>3
<1> QED BY <1>4, <1>5, <1>6 DEF SleepInv

\* dispatchReady appends under the mutex and notifies before it lets go of it.
LEMMA ScanSleep ==
  ASSUME IInv, SleepInv, NEW w \in Workers, DispatchOne(w) \/ DispatchEnd(w)
  PROVE  SleepInv'
<1>1. pc[w] = "scan" /\ \A v \in Workers : pc[v] # "block"
  BY DEF DispatchOne, DispatchEnd, IInv, MutexInv, Locked
<1>2. CASE DispatchOne(w)
  <2>1. pc' = pc
    BY <1>2 DEF DispatchOne
  <2> QED BY <1>1, <2>1 DEF SleepInv
<1>3. CASE DispatchEnd(w)
  <2>1. \A v \in Workers : pc'[v] \notin {"block", "asleep"}
    BY <1>1, <1>3 DEF DispatchEnd, NotifyAll
  <2> QED BY <2>1 DEF SleepInv
<1> QED BY <1>2, <1>3

LEMMA SleepStep == IInv /\ StartInv /\ SleepInv /\ [Next]_vars => SleepInv'
<1> SUFFICES ASSUME IInv, StartInv, SleepInv, [Next]_vars PROVE SleepInv'
  OBVIOUS
<1>1. CASE Seed
  <2>1. \A w \in Workers : pc'[w] = "acquire"
    BY <1>1 DEF Seed, StartInv
  <2> QED BY <2>1 DEF SleepInv
<1>2. CASE Return \/ Done \/ UNCHANGED vars
  BY <1>2, QuietSleep DEF Return, Done, vars, graphVars
<1>3. ASSUME NEW w \in Workers,
             \/ Acquire(w) \/ SpuriousWakeup(w) \/ Check(w)
             \/ FinishTask(w) \/ ReadStat(w) \/ WriteStat(w)
      PROVE  SleepInv'
  <2>1. PICK place \in {"test", "acquire", "exited", "pop", "readStat", "writeStat",
                        "decrement", "raise"} : Goto(w, place)
    BY <1>3 DEF Acquire, SpuriousWakeup, Check, FinishTask, ReadStat, WriteStat
  <2>2. /\ pc[w] \notin {"decrement", "isZero", "relock", "scan"}
        /\ UNCHANGED <<continueOnError, readyQueue, hasFailed, pendingCount>>
    BY <1>3 DEF Acquire, SpuriousWakeup, Check, FinishTask, ReadStat, WriteStat, graphVars
  <2>3. \A v \in Workers : pc'[v] = IF v = w THEN place ELSE pc[v]
    BY <2>1, GotoPlace
  <2> QED BY <2>2, <2>3, QuietSleep
<1>4. ASSUME NEW w \in Workers, NotifyEnd(w)
      PROVE  SleepInv'
  <2>1. pc[w] = "notify" /\ UNCHANGED <<continueOnError, readyQueue, hasFailed, pendingCount>>
    BY <1>4 DEF NotifyEnd, graphVars
  <2>2. \A v \in Workers : \/ pc'[v] = pc[v]
                           \/ v = w /\ pc'[v] = "exited"
                           \/ pc[v] = "asleep" /\ pc'[v] = "acquire"
    BY <1>4 DEF NotifyEnd, NotifyAll
  <2> QED BY <2>1, <2>2, QuietSleep
<1>5. CASE \E w \in Workers : Lock(w) \/ Run(w) \/ SpuriousWakeup(w)
  BY <1>3, <1>4, <1>5, TestSleep, BlockSleep, PopSleep, WakerSleep, ScanSleep DEF Lock, Run
<1> QED BY <1>1, <1>2, <1>5 DEF Next

\* The first PENDING task of sorted() has no PENDING dependency.
LEMMA FirstPending ==
  ASSUME IInv, StartInv, NEW s \in Tasks, state[s] = "PENDING"
  PROVE  \E i \in 1 .. NumTasks : /\ state[Sorted[i]] = "PENDING"
                                  /\ \A d \in deps[Sorted[i]] : state[d] # "PENDING"
<1> DEFINE P == {i \in 1 .. NumTasks : state[Sorted[i]] = "PENDING"}
<1>1. P \subseteq Nat /\ P # {}
  <2>1. \E i \in 1 .. NumTasks : Sorted[i] = s
    BY SortedFacts DEF Tasks, Elements
  <2> QED BY <2>1
<1>2. PICK i \in P : \A j \in P : ~(<<j, i>> \in OpToRel(<, Nat))
  BY <1>1, NatLessThanWellFounded, WFMin
<1>3. \A j \in P : ~(j < i)
  BY <1>1, <1>2 DEF OpToRel
<1>4. ASSUME NEW d \in deps[Sorted[i]]
      PROVE  state[d] # "PENDING"
  <2>1. PICK j \in 1 .. i - 1 : Sorted[j] = d
    BY SortedFacts DEF StartInv, IsTopologicalOrder, DepsFirst
  <2>2. j \in 1 .. NumTasks /\ j < i
    BY SortedFacts
  <2> QED BY <1>3, <2>1, <2>2
<1> QED BY <1>2, <1>4

\* When every thread that is left sleeps, nothing is left to do, or nothing
\* can be done behind a tolerated failure.
THEOREM NobodySleepsOnWork == Spec => []NoSleepOnWork
<1>1. Init => IInv /\ StartInv /\ DispatchInv /\ SleepInv
  BY InitIInv, InitDispatch, InitSleep
<1>2. IInv /\ StartInv /\ DispatchInv /\ SleepInv /\ [Next]_vars
        => IInv' /\ StartInv' /\ DispatchInv' /\ SleepInv'
  BY StepIInv, StartStep, DispatchStep, SleepStep
<1>3. ASSUME IInv, StartInv, DispatchInv, SleepInv PROVE NoSleepOnWork
  <2> SUFFICES ASSUME \A w \in Workers : pc[w] \in {"asleep", "exited"},
                      NEW u \in Workers, pc[u] = "asleep", pendingCount # 0
               PROVE  continueOnError /\ readyQueue = <<>>
    BY DEF NoSleepOnWork
  <2>1. readyQueue = <<>> /\ ~Stopping
    BY <1>3 DEF SleepInv
  <2>2. ~(seeded < NumTasks)
    BY <1>3 DEF StartInv
  <2>3. CASE ~hasFailed
    <3>1. \A t \in Tasks : state[t] \in {"PENDING", "DONE"}
      BY <1>3, <2>3 DEF IInv, TypeOK, States, WorkInv, FailInv, Unraised
    <3>2. PICK s \in Tasks : state[s] = "PENDING"
      <4>1. Counting = {}
        BY DEF Counting, Uncounted
      <4>2. Cardinality(Unfinished) # 0
        BY <1>3, <4>1, CountedFacts, FS_EmptySet DEF IInv, PendingCountExact
      <4>3. Unfinished # {}
        BY <4>2, FS_EmptySet
      <4> QED BY <3>1, <4>3 DEF Unfinished, Finished
    <3>3. PICK i \in 1 .. NumTasks : /\ state[Sorted[i]] = "PENDING"
                                     /\ \A d \in deps[Sorted[i]] : state[d] # "PENDING"
      BY <1>3, <3>2, FirstPending
    <3>4. Sorted[i] \in Tasks /\ deps[Sorted[i]] \subseteq Tasks
      BY <1>3, SortedFacts DEF IInv, TypeOK
    <3>5. DepsDone(Sorted[i])
      BY <3>1, <3>3, <3>4 DEF DepsDone
    <3>6. ~(i > seeded)
      BY <1>3, <2>2, SortedFacts DEF IInv, TypeOK
    <3>7. Elements(readyQueue) = {}
      BY <2>1 DEF Elements
    <3>8. \A w \in Workers : ~WillReach(w, i)
      BY DEF WillReach, Uncounted
    <3> QED BY <1>3, <3>3, <3>5, <3>6, <3>7, <3>8 DEF DispatchInv, NoLostDispatch
  <2> QED BY <1>3, <2>1, <2>3 DEF Stopping, IInv, TypeOK
<1> QED BY <1>1, <1>2, <1>3, PTL DEF Spec

-------------------------------------------------------------------------------
(* The counters of the summary: StatInv on top of IInv *)

LEMMA WrittenFacts ==
  ASSUME NEW verdict
  PROVE  IsFiniteSet(Written(verdict)) /\ Cardinality(Written(verdict)) \in Nat
<1>1. IsFiniteSet(Written(verdict))
  BY SortedFacts, FS_Subset DEF Written
<1> QED BY <1>1, FS_CardinalityType

LEMMA InitStat == Init => StatInv
<1> SUFFICES ASSUME Init, NEW verdict \in Finished
             PROVE  /\ Count(verdict) <= Cardinality(Written(verdict))
                    /\ Written(verdict) # {} => Count(verdict) # 0
                    /\ \A w \in Workers : pc[w] = "writeStat" /\ state[task[w]] = verdict =>
                                           reg[w] <= Cardinality(Written(verdict))
  BY DEF StatInv
<1>1. Written(verdict) = {}
  BY DEF Init, Written, Finished
<1>2. Cardinality(Written(verdict)) = 0 /\ Count(verdict) = 0
  BY <1>1, FS_EmptySet DEF Init, Count
<1> QED BY <1>1, <1>2 DEF Init

\* Steps that end no task and touch no counter.
LEMMA QuietStat ==
  ASSUME IInv, StatInv, UNCHANGED <<ran, failed, reg>>,
         \A t \in Tasks : \A verdict \in Finished : state'[t] = verdict <=> state[t] = verdict,
         \A v \in Workers : /\ pc'[v] \in {"readStat", "writeStat"} \/
                               pc[v] \in {"readStat", "writeStat"} =>
                                 pc'[v] = pc[v] /\ task'[v] = task[v]
  PROVE  StatInv'
<1>1. ASSUME NEW verdict \in Finished
      PROVE  Written(verdict)' = Written(verdict)
  BY DEF Written
<1>2. ASSUME NEW verdict \in Finished, NEW w \in Workers,
             pc'[w] = "writeStat", state'[task'[w]] = verdict
      PROVE  pc[w] = "writeStat" /\ state[task[w]] = verdict
  <2>1. pc[w] = "writeStat" /\ task'[w] = task[w]
    BY <1>2
  <2>2. task[w] \in Tasks
    BY <2>1 DEF IInv, WorkInv, Uncounted
  <2> QED BY <1>2, <2>1, <2>2
<1> QED BY <1>1, <1>2 DEF StatInv, Count

\* A task that has just ended is not in its counter yet.
LEMMA FinishStat ==
  ASSUME IInv, StatInv, NEW w \in Workers, FinishTask(w)
  PROVE  StatInv'
<1> DEFINE t == task[w]
<1>1. /\ pc[w] = "run" /\ Goto(w, "readStat") /\ task' = task
      /\ UNCHANGED <<ran, failed, reg>>
  BY DEF FinishTask, stats
<1>2. t \in Tasks /\ state[t] = "RUNNING"
  BY <1>1 DEF IInv, WorkInv
<1>3. PICK end \in Finished : state' = [state EXCEPT ![t] = end]
  BY DEF FinishTask
<1>4. \A v \in Workers : pc'[v] = IF v = w THEN "readStat" ELSE pc[v]
  BY <1>1, GotoPlace
<1>5. \A s \in Tasks : state'[s] = IF s = t THEN end ELSE state[s]
  BY <1>2, <1>3 DEF IInv, TypeOK
<1>6. \A v \in Workers : v # w /\ pc[v] \in Uncounted => task[v] # t /\ task[v] \in Tasks
  BY <1>1 DEF IInv, OneWorkerPerTask, WorkInv
<1> HIDE DEF t
<1>7. ASSUME NEW verdict \in Finished
      PROVE  Written(verdict)' = Written(verdict)
  <2>1. ASSUME NEW s \in Tasks
        PROVE  s \in Written(verdict)' <=> s \in Written(verdict)
    <3>1. CASE s = t
      <4>1. s \notin Written(verdict)'
        BY <1>1, <1>4, <3>1 DEF Written, t
      <4>2. s \notin Written(verdict)
        BY <1>2, <3>1 DEF Written, Finished
      <4> QED BY <4>1, <4>2
    <3>2. CASE s # t
      <4>1. state'[s] = state[s] /\ task[w] # s
        BY <1>5, <3>2 DEF t
      <4> QED BY <1>1, <1>4, <4>1 DEF Written
    <3> QED BY <3>1, <3>2
  <2> QED BY <2>1 DEF Written
<1>8. ASSUME NEW verdict \in Finished, NEW v \in Workers,
             pc'[v] = "writeStat", state'[task'[v]] = verdict
      PROVE  pc[v] = "writeStat" /\ state[task[v]] = verdict
  <2>1. v # w /\ pc[v] = "writeStat"
    BY <1>4, <1>8
  <2>2. task[v] # t /\ task[v] \in Tasks
    BY <1>6, <2>1 DEF Uncounted
  <2> QED BY <1>1, <1>5, <1>8, <2>1, <2>2
<1> QED BY <1>1, <1>7, <1>8 DEF StatInv, Count

\* What a worker loads is no more than what has been written, and that only
\* grows until it stores.
LEMMA ReadStat_Stat ==
  ASSUME IInv, StatInv, NEW w \in Workers, ReadStat(w)
  PROVE  StatInv'
<1>1. /\ pc[w] = "readStat" /\ Goto(w, "writeStat")
      /\ reg' = [reg EXCEPT ![w] = IF state[task[w]] = "DONE" THEN ran ELSE failed]
      /\ UNCHANGED <<state, task, ran, failed>>
  BY DEF ReadStat, stats
<1>2. \A v \in Workers : pc'[v] = IF v = w THEN "writeStat" ELSE pc[v]
  BY <1>1, GotoPlace
<1>3. ASSUME NEW verdict \in Finished
      PROVE  Written(verdict)' = Written(verdict)
  BY <1>1, <1>2 DEF Written
<1>4. ASSUME NEW verdict \in Finished, NEW v \in Workers,
             pc'[v] = "writeStat", state[task[v]] = verdict
      PROVE  reg'[v] <= Cardinality(Written(verdict))
  <2>1. CASE v = w
    <3>1. reg'[w] = Count(verdict)
      BY <1>1, <1>4, <2>1 DEF Count, Finished, IInv, TypeOK
    <3> QED BY <2>1, <3>1 DEF StatInv
  <2>2. CASE v # w
    <3>1. reg'[v] = reg[v] /\ pc[v] = "writeStat"
      BY <1>1, <1>2, <1>4, <2>2 DEF IInv, TypeOK
    <3> QED BY <1>4, <3>1 DEF StatInv
  <2> QED BY <2>1, <2>2
<1> QED BY <1>1, <1>3, <1>4 DEF StatInv, Count

\* The store counts the worker's own task, whoever else's it overwrites.
LEMMA WriteStat_Stat ==
  ASSUME IInv, StatInv, NEW w \in Workers, WriteStat(w)
  PROVE  StatInv'
<1> DEFINE t == task[w]
<1>0. PICK end : end = state[t]
  OBVIOUS
<1>1. /\ pc[w] = "writeStat" /\ UNCHANGED <<state, task, reg>>
      /\ \/ end = "DONE" /\ ran' = reg[w] + 1 /\ failed' = failed /\ Goto(w, "decrement")
         \/ end = "FAILED" /\ failed' = reg[w] + 1 /\ ran' = ran /\ Goto(w, "raise")
  BY <1>0 DEF WriteStat
<1>2. t \in Tasks /\ end \in Finished
  BY <1>0, <1>1 DEF IInv, WorkInv, Uncounted
<1>3. PICK place \in {"decrement", "raise"} :
        \A v \in Workers : pc'[v] = IF v = w THEN place ELSE pc[v]
  BY <1>1, GotoPlace
<1>4. \A v \in Workers : v # w /\ pc[v] \in Uncounted => task[v] # t
  BY <1>1 DEF IInv, OneWorkerPerTask, Uncounted
<1>5. /\ Count(end)' = reg[w] + 1
      /\ \A verdict \in Finished : verdict # end => Count(verdict)' = Count(verdict)
  BY <1>1 DEF Count, Finished
<1> HIDE DEF t
<1>6. Written(end)' = Written(end) \cup {t} /\ t \notin Written(end)
  <2>1. ASSUME NEW s \in Tasks
        PROVE  s \in Written(end)' <=> s \in Written(end) \/ s = t
    <3>1. CASE s = t
      <4>1. \A v \in Workers : pc'[v] \in {"readStat", "writeStat"} => task[v] # t
        BY <1>3, <1>4 DEF Uncounted
      <4> QED BY <1>0, <1>1, <1>2, <3>1, <4>1 DEF Written
    <3>2. CASE s # t
      <4>1. task[w] # s
        BY <3>2 DEF t
      <4> QED BY <1>1, <1>3, <3>2, <4>1 DEF Written
    <3> QED BY <3>1, <3>2
  <2>2. t \notin Written(end)
    BY <1>1 DEF Written, t
  <2>3. Written(end)' \subseteq Tasks /\ Written(end) \subseteq Tasks
    BY DEF Written
  <2> QED BY <1>2, <2>1, <2>2, <2>3
<1>7. Cardinality(Written(end)') = Cardinality(Written(end)) + 1
  BY <1>6, WrittenFacts, FS_AddElement
<1>8. ASSUME NEW verdict \in Finished, verdict # end
      PROVE  Written(verdict)' = Written(verdict)
  <2>1. ASSUME NEW s \in Tasks, state[s] = verdict
        PROVE  s \in Written(verdict)' <=> s \in Written(verdict)
    <3>1. s # t
      BY <1>0, <1>8, <2>1
    <3>2. task[w] # s
      BY <3>1 DEF t
    <3> QED BY <1>1, <1>3, <3>2 DEF Written
  <2> QED BY <1>1, <2>1 DEF Written
<1>9. reg[w] \in Nat /\ reg[w] <= Cardinality(Written(end))
  BY <1>0, <1>1, <1>2 DEF StatInv, IInv, TypeOK, t
<1>10. ASSUME NEW v \in Workers, pc'[v] = "writeStat"
       PROVE  pc[v] = "writeStat" /\ reg'[v] = reg[v] /\ reg[v] \in Nat
  BY <1>1, <1>3, <1>10 DEF IInv, TypeOK
<1>11. ASSUME NEW verdict \in Finished
       PROVE  /\ Count(verdict)' <= Cardinality(Written(verdict)')
              /\ Written(verdict)' # {} => Count(verdict)' # 0
              /\ \A v \in Workers : pc'[v] = "writeStat" /\ state'[task'[v]] = verdict =>
                                      reg'[v] <= Cardinality(Written(verdict)')
  <2>1. CASE verdict = end
    <3> DEFINE n == Cardinality(Written(end))
    <3>1. n \in Nat /\ Cardinality(Written(verdict)') = n + 1
      BY <1>7, <2>1, WrittenFacts
    <3>2. \A v \in Workers : pc[v] = "writeStat" /\ state[task[v]] = end => reg[v] <= n
      BY <1>2 DEF StatInv
    <3> HIDE DEF n
    <3>3. \A v \in Workers : pc'[v] = "writeStat" /\ state'[task'[v]] = verdict =>
                               reg'[v] <= n + 1
      BY <1>1, <1>10, <2>1, <3>1, <3>2
    <3>4. Count(verdict)' = reg[w] + 1 /\ reg[w] <= n
      BY <1>5, <1>9, <2>1 DEF n
    <3> QED BY <1>9, <3>1, <3>3, <3>4
  <2>2. CASE verdict # end
    <3>1. Written(verdict)' = Written(verdict) /\ Count(verdict)' = Count(verdict)
      BY <1>5, <1>8, <2>2
    <3> QED BY <1>1, <1>10, <3>1 DEF StatInv
  <2> QED BY <2>1, <2>2
<1> QED BY <1>11 DEF StatInv

LEMMA StatStep == IInv /\ StatInv /\ [Next]_vars => StatInv'
<1> SUFFICES ASSUME IInv, StatInv, [Next]_vars PROVE StatInv'
  OBVIOUS
<1>1. CASE Seed \/ Return \/ Done \/ UNCHANGED vars
  BY <1>1, QuietStat DEF Seed, Return, Done, vars, stats
<1>2. ASSUME NEW w \in Workers, Pop(w)
      PROVE  StatInv'
  <2> DEFINE t == Head(readyQueue)
  <2>1. pc[w] = "pop" /\ readyQueue \in Seq(Tasks) /\ readyQueue # <<>>
        /\ UNCHANGED <<ran, failed, reg>>
    BY <1>2 DEF Pop, stats, IInv, TypeOK, QueueInv
  <2>2. t \in Tasks
    BY <2>1
  <2> HIDE DEF t
  <2>3. PICK place \in {"run", "acquire"} :
          /\ Goto(w, place)
          /\ \/ /\ state[t] = "PENDING" /\ state' = [state EXCEPT ![t] = "RUNNING"]
                /\ task' = [task EXCEPT ![w] = t]
             \/ state' = state /\ task' = task
    BY <1>2 DEF Pop, t
  <2>4. \A v \in Workers : /\ pc'[v] = IF v = w THEN place ELSE pc[v]
                           /\ v # w => task'[v] = task[v]
    BY <2>3, GotoPlace DEF IInv, TypeOK
  <2>5. \A s \in Tasks : state'[s] = state[s] \/ (state[s] = "PENDING" /\ state'[s] = "RUNNING")
    BY <2>2, <2>3 DEF IInv, TypeOK
  <2>6. \A s \in Tasks : \A verdict \in Finished : state'[s] = verdict <=> state[s] = verdict
    BY <2>5 DEF Finished
  <2> QED BY <2>1, <2>4, <2>6, QuietStat
<1>3. ASSUME NEW w \in Workers,
             \/ Acquire(w) \/ DispatchLock(w) \/ SpuriousWakeup(w) \/ TestPredicate(w) \/ Block(w)
             \/ Check(w) \/ RaiseFailed(w) \/ Decrement(w) \/ IsZero(w)
      PROVE  StatInv'
  <2>1. PICK place \in Places \ {"readStat", "writeStat"} : Goto(w, place)
    BY <1>3 DEF Acquire, DispatchLock, SpuriousWakeup, TestPredicate, Block, Check, RaiseFailed,
      Decrement, IsZero, Places, Locked, Uncounted
  <2>2. /\ pc[w] \notin {"readStat", "writeStat"}
        /\ UNCHANGED <<ran, failed, reg, state, task>>
    BY <1>3 DEF Acquire, DispatchLock, SpuriousWakeup, TestPredicate, Block, Check, RaiseFailed,
      Decrement, IsZero, stats
  <2>3. \A v \in Workers : pc'[v] = IF v = w THEN place ELSE pc[v]
    BY <2>1, GotoPlace
  <2> QED BY <2>1, <2>2, <2>3, QuietStat
<1>4. ASSUME NEW w \in Workers, NotifyEnd(w) \/ DispatchEnd(w) \/ DispatchOne(w)
      PROVE  StatInv'
  <2>1. pc[w] \in {"notify", "scan"} /\ UNCHANGED <<ran, failed, reg, state, task>>
    BY <1>4 DEF NotifyEnd, DispatchEnd, DispatchOne, stats
  <2>2. \A v \in Workers : \/ pc'[v] = pc[v]
                           \/ /\ v = w \/ pc[v] = "asleep"
                              /\ pc'[v] \in {"exited", "acquire"}
    BY <1>4 DEF NotifyEnd, DispatchEnd, DispatchOne, NotifyAll
  <2> QED BY <2>1, <2>2, QuietStat
<1>5. CASE \E w \in Workers : Lock(w) \/ Run(w) \/ SpuriousWakeup(w)
  BY <1>2, <1>3, <1>4, <1>5, FinishStat, ReadStat_Stat, WriteStat_Stat DEF Lock, Run
<1> QED BY <1>1, <1>5 DEF Next

\* No step of the scheduler counts a task as skipped.
LEMMA SkippedKeeps == ASSUME [Next]_vars PROVE skipped' = skipped
<1>1. CASE Seed \/ Return \/ Done \/ UNCHANGED vars
  BY <1>1 DEF Seed, Return, Done, vars, stats
<1>2. ASSUME NEW w \in Workers, Lock(w) \/ SpuriousWakeup(w)
      PROVE  skipped' = skipped
  BY <1>2 DEF Lock, Acquire, DispatchLock, SpuriousWakeup, stats
<1>3. ASSUME NEW w \in Workers, Run(w)
      PROVE  skipped' = skipped
  BY <1>3 DEF Run, TestPredicate, Block, Check, Pop, FinishTask, ReadStat, WriteStat, RaiseFailed,
    Decrement, IsZero, NotifyEnd, DispatchOne, DispatchEnd, stats
<1> QED BY <1>1, <1>2, <1>3 DEF Next

\* The summary's counters never claim more than there was, and are not 0 when
\* there was one, although concurrent increments lose counts; that of the skipped
\* tasks is always 0.
THEOREM SummaryIsPlausible == Spec => []StatsPlausible
<1>1. Init => IInv /\ StatInv /\ skipped = 0
  BY InitIInv, InitStat DEF Init
<1>2. IInv /\ StatInv /\ skipped = 0 /\ [Next]_vars => IInv' /\ StatInv' /\ (skipped = 0)'
  BY StepIInv, StatStep, SkippedKeeps
<1>3. ASSUME IInv, StatInv, skipped = 0 PROVE StatsPlausible
  <2> DEFINE those(verdict) == {t \in Tasks : state[t] = verdict}
  <2>1. ASSUME result # "none", NEW verdict \in Finished
        PROVE  /\ Count(verdict) <= Cardinality(those(verdict))
               /\ Count(verdict) = 0 <=> those(verdict) = {}
    <3>1. Tasks = {} \/ \A w \in Workers : pc[w] = "exited"
      BY <1>3, <2>1 DEF IInv, EndInv, Tasks, Elements
    <3>2. Written(verdict) = those(verdict)
      BY <3>1 DEF Written
    <3>3. Count(verdict) \in Nat
      BY <1>3 DEF Count, IInv, TypeOK
    <3>4. /\ Count(verdict) <= Cardinality(those(verdict))
          /\ those(verdict) # {} => Count(verdict) # 0
      BY <1>3, <3>2 DEF StatInv
    <3> HIDE DEF those
    <3>5. those(verdict) = {} => Count(verdict) = 0
      <4>1. Cardinality({}) = 0
        BY FS_EmptySet
      <4> QED BY <3>3, <3>4, <4>1
    <3> QED BY <3>4, <3>5
  <2> HIDE DEF those
  <2>2. result # "none" =>
          /\ ran <= Cardinality(those("DONE")) /\ (ran = 0 <=> those("DONE") = {})
          /\ failed <= Cardinality(those("FAILED")) /\ (failed = 0 <=> those("FAILED") = {})
    BY <2>1 DEF Count, Finished
  <2> QED BY <1>3, <2>2 DEF StatsPlausible, those
<1> QED BY <1>1, <1>2, <1>3, PTL DEF Spec

-------------------------------------------------------------------------------
(* Action properties and refinement *)

\* What a step does to the states of the tasks: nothing, a start of a PENDING
\* task whose dependencies are DONE, or the end of a RUNNING one.
LEMMA StateSteps ==
  ASSUME IInv, [Next]_vars
  PROVE  \/ state' = state
         \/ \E t \in Tasks : /\ state[t] = "PENDING" /\ \A d \in deps[t] : state[d] = "DONE"
                             /\ state' = [state EXCEPT ![t] = "RUNNING"]
                             /\ Sorted # <<>> /\ (\E w \in Workers : pc[w] = "pop")
                             /\ t \in Committed /\ UNCHANGED <<deps, continueOnError, result>>
         \/ \E t \in Tasks : /\ state[t] = "RUNNING"
                             /\ \E verdict \in Finished : state' = [state EXCEPT ![t] = verdict]
                             /\ UNCHANGED <<deps, continueOnError, result>>
<1>1. CASE Seed \/ Return \/ Done \/ UNCHANGED vars
  BY <1>1 DEF Seed, Return, Done, vars
<1>2. ASSUME NEW w \in Workers, Pop(w), state' # state
      PROVE  \E t \in Tasks : /\ state[t] = "PENDING" /\ \A d \in deps[t] : state[d] = "DONE"
                             /\ state' = [state EXCEPT ![t] = "RUNNING"]
                             /\ Sorted # <<>> /\ (\E v \in Workers : pc[v] = "pop")
                             /\ t \in Committed /\ UNCHANGED <<deps, continueOnError, result>>
  <2> DEFINE t == Head(readyQueue)
  <2>1. /\ pc[w] = "pop" /\ UNCHANGED <<deps, continueOnError, result>>
        /\ state[t] = "PENDING" /\ state' = [state EXCEPT ![t] = "RUNNING"]
    BY <1>2 DEF Pop, graphVars, mainVars
  <2>2. readyQueue \in Seq(Tasks) /\ readyQueue # <<>>
    BY <2>1 DEF IInv, TypeOK, QueueInv
  <2>3. t \in Tasks /\ t = readyQueue[1] /\ 1 \in DOMAIN readyQueue
    BY <2>2
  <2>4. \A d \in deps[t] : state[d] = "DONE"
    BY <2>3 DEF IInv, QueueInv
  <2>5. t \in Committed
    BY <2>1, <2>3 DEF Committed
  <2>6. Sorted # <<>>
    BY <2>3 DEF Tasks, Elements
  <2> HIDE DEF t
  <2> QED BY <2>1, <2>3, <2>4, <2>5, <2>6
<1>3. ASSUME NEW w \in Workers, FinishTask(w)
      PROVE  \E t \in Tasks : /\ state[t] = "RUNNING"
                             /\ \E verdict \in Finished : state' = [state EXCEPT ![t] = verdict]
                             /\ UNCHANGED <<deps, continueOnError, result>>
  BY <1>3 DEF FinishTask, IInv, WorkInv, graphVars, mainVars
<1>4. ASSUME NEW w \in Workers, Lock(w) \/ Run(w) \/ SpuriousWakeup(w),
             ~Pop(w), ~FinishTask(w)
      PROVE  state' = state
  BY <1>4 DEF Lock, Run, SpuriousWakeup, Acquire, DispatchLock, TestPredicate, Block, Check,
       ReadStat, WriteStat, RaiseFailed, Decrement, IsZero, NotifyEnd, DispatchOne, DispatchEnd
<1>5. CASE \E w \in Workers : Lock(w) \/ Run(w) \/ SpuriousWakeup(w)
  BY <1>2, <1>3, <1>4, <1>5
<1> QED BY <1>1, <1>5 DEF Next

\* A finished task is never run again and never changes its verdict.
THEOREM FinishedStays == Spec => FinishedIsFinal
<1>1. IInv /\ [Next]_vars => [\A t \in Tasks : state[t] \in Finished => state'[t] = state[t]]_vars
  <2> SUFFICES ASSUME IInv, [Next]_vars, NEW t \in Tasks, state[t] \in Finished
               PROVE  state'[t] = state[t]
    OBVIOUS
  <2>1. state \in [Tasks -> States] /\ state[t] \notin {"PENDING", "RUNNING"}
    BY DEF IInv, TypeOK, Finished
  <2> QED BY <2>1, StateSteps
<1> QED BY <1>1, Invariant, PTL DEF Spec, FinishedIsFinal

\* Once hasFailed is set and failures are not tolerated, nothing more starts:
\* only a task that a worker was about to pop still does.
THEOREM StopsAfterFailure == Spec => StopsOnFailure
<1>1. Init => IInv /\ StartInv
  BY InitIInv, InitDispatch
<1>2. IInv /\ StartInv /\ [Next]_vars => IInv' /\ StartInv'
  BY StepIInv, StartStep
<1>3. IInv /\ StartInv /\ [Next]_vars => [Stopping => Committed' \subseteq Committed]_vars
  <2> SUFFICES ASSUME IInv, StartInv, [Next]_vars, Stopping
               PROVE  Committed' \subseteq Committed
    OBVIOUS
  <2>1. ASSUME NEW t \in Tasks, state'[t] = "RUNNING"
        PROVE  t \in Committed
    <3>1. state[t] = "RUNNING" \/ t \in Committed
      BY <2>1, StateSteps DEF IInv, TypeOK, Finished
    <3> QED BY <3>1 DEF Committed
  <2>2. ASSUME NEW v \in Workers, pc'[v] = "pop"
        PROVE  pc[v] = "pop" /\ readyQueue' = readyQueue
    <3>1. CASE Seed
      <4>1. pc'[v] = "acquire"
        BY <3>1 DEF Seed, StartInv
      <4> QED BY <2>2, <4>1
    <3>2. CASE Return \/ Done \/ UNCHANGED vars
      BY <2>2, <3>2 DEF Return, Done, vars
    <3>3. ASSUME NEW w \in Workers, Lock(w) \/ Run(w) \/ SpuriousWakeup(w)
          PROVE  pc[v] = "pop" /\ readyQueue' = readyQueue
      <4>1. CASE NotifyEnd(w) \/ DispatchEnd(w)
        BY <2>2, <4>1 DEF NotifyEnd, DispatchEnd, NotifyAll
      <4>2. CASE DispatchOne(w)
        <5>1. pc[w] = "scan" /\ pc[v] = "pop"
          BY <2>2, <4>2 DEF DispatchOne
        <5> QED BY <5>1 DEF IInv, MutexInv, Locked
      <4>3. CASE Check(w)
        <5>1. PICK place \in {"exited", "acquire"} : Goto(w, place) /\ readyQueue' = readyQueue
          BY <4>3 DEF Check
        <5> QED BY <2>2, <5>1, GotoPlace
      <4>4. CASE Pop(w)
        <5>1. PICK place \in {"run", "acquire"} : pc[w] = "pop" /\ Goto(w, place)
          BY <4>4 DEF Pop
        <5>2. pc[v] = "pop" /\ v # w
          BY <2>2, <5>1, GotoPlace
        <5> QED BY <5>1, <5>2 DEF IInv, MutexInv, Locked
      <4>5. ASSUME \/ Lock(w) \/ TestPredicate(w) \/ Block(w) \/ FinishTask(w) \/ ReadStat(w)
                   \/ WriteStat(w) \/ RaiseFailed(w) \/ Decrement(w) \/ IsZero(w)
                   \/ SpuriousWakeup(w)
            PROVE  pc[v] = "pop" /\ readyQueue' = readyQueue
        <5>1. PICK place \in Places \ {"pop"} : Goto(w, place) /\ readyQueue' = readyQueue
          BY <4>5 DEF Lock, Acquire, DispatchLock, TestPredicate, Block, FinishTask, ReadStat,
            WriteStat, RaiseFailed, Decrement, IsZero, SpuriousWakeup, Places, Locked, Uncounted
        <5> QED BY <2>2, <5>1, GotoPlace
      <4> QED BY <3>3, <4>1, <4>2, <4>3, <4>4, <4>5 DEF Run
    <3> QED BY <3>1, <3>2, <3>3 DEF Next
  <2> QED BY <2>1, <2>2 DEF Committed
<1> QED BY <1>1, <1>2, <1>3, PTL DEF Spec, StopsOnFailure

\* run() does what BuildExecution promises, step by step.
THEOREM RefinesBuildExecution == Spec => Implements
<1>0. Promise!Tasks = Tasks
  BY DEF Promise!Tasks, Tasks, Promise!Elements, Elements
<1>1. Init => Promise!Init
  BY <1>0 DEF Init, Promise!Init, Promise!IsTopologicalOrder, IsTopologicalOrder,
       Promise!Elements, Elements, Promise!NoRepeats, NoRepeats, Promise!DepsFirst, DepsFirst
<1>2. ASSUME IInv, [Next]_vars
      PROVE  [Promise!Next]_(Promise!vars)
  <2>1. CASE Return
    <3>1. /\ result = "none" /\ (Sorted = <<>> \/ \A w \in Workers : pc[w] = "exited")
          /\ result' = IF Stopping THEN "failure" ELSE "success"
          /\ UNCHANGED <<deps, continueOnError, state>>
      BY <2>1 DEF Return, graphVars
    <3>2. /\ \A t \in Tasks : state[t] # "RUNNING"
          /\ Stopping \/ \A t \in Tasks : state[t] \in Finished
          /\ \A t \in Tasks : state[t] = "FAILED" => hasFailed
      BY <1>2, <3>1, AllGone
    <3>3. hasFailed => \E t \in Tasks : state[t] = "FAILED"
      BY <1>2 DEF IInv, FailInv
    <3>4. Promise!SomeFailed <=> hasFailed
      BY <1>0, <3>2, <3>3 DEF Promise!SomeFailed
    <3>5. Promise!Stopped <=> Stopping
      BY <3>4 DEF Promise!Stopped, Stopping
    <3>6. Promise!Stopped \/ \A t \in Promise!Tasks : ~Promise!Ready(t)
      BY <1>0, <3>2, <3>5 DEF Promise!Ready, Finished
    <3>7. result' = IF Promise!Stopped THEN "failure" ELSE "success"
      BY <3>1, <3>5
    <3>8. \A t \in Promise!Tasks : state[t] # "RUNNING"
      BY <1>0, <3>2
    <3>9. Promise!Return
      BY <3>1, <3>6, <3>7, <3>8 DEF Promise!Return
    <3> QED BY <3>9 DEF Promise!Next
  <2>2. CASE ~Return
    <3>1. UNCHANGED <<deps, continueOnError, result>>
      BY <1>2, <2>2 DEF Next, Seed, Done, vars, graphVars, mainVars, Lock, Run, SpuriousWakeup,
           Acquire, DispatchLock, TestPredicate, Block, Check, Pop, FinishTask, ReadStat,
           WriteStat, RaiseFailed, Decrement, IsZero, NotifyEnd, DispatchOne, DispatchEnd
    <3>2. CASE state' = state
      BY <3>1, <3>2 DEF Promise!vars
    <3>3. ASSUME NEW t \in Tasks, state[t] = "PENDING", \A d \in deps[t] : state[d] = "DONE",
                 state' = [state EXCEPT ![t] = "RUNNING"], Sorted # <<>>,
                 \E w \in Workers : pc[w] = "pop"
          PROVE  Promise!Next
      <4>1. result = "none"
        BY <1>2, <3>3 DEF IInv, EndInv
      <4>2. Promise!Start(t)
        BY <3>1, <3>3, <4>1 DEF Promise!Start, Promise!Ready
      <4>3. t \in Promise!Tasks
        BY <1>0
      <4> QED BY <4>2, <4>3 DEF Promise!Next
    <3>4. ASSUME NEW t \in Tasks, state[t] = "RUNNING",
                 \E verdict \in Finished : state' = [state EXCEPT ![t] = verdict]
          PROVE  Promise!Next
      <4>1. Promise!Finish(t)
        BY <3>1, <3>4 DEF Promise!Finish, Finished
      <4>2. t \in Promise!Tasks
        BY <1>0
      <4> QED BY <4>1, <4>2 DEF Promise!Next
    <3> QED BY <1>2, <3>2, <3>3, <3>4, StateSteps
  <2> QED BY <2>1, <2>2
<1> QED BY <1>1, <1>2, Invariant, PTL DEF Spec, Implements, Promise!Spec
===============================================================================
