----------------------------- MODULE TaskScheduler ----------------------------
(***************************************************************************)
(* TaskScheduler::run of src/src/engine/core/TaskScheduler.cpp: worker     *)
(* threads that share a ready queue under a mutex and a condition variable,*)
(* and talk to each other through the atomics state, pendingCount and      *)
(* hasFailed, most of which are written without the mutex.                 *)
(*                                                                         *)
(* Grain of atomicity.  A step of a worker makes one access to shared state*)
(* that another thread can interfere with:                                 *)
(*  - the wait predicate is one step, and releasing the mutex to sleep is  *)
(*    another: notify_all at line 120 is called without the mutex and can  *)
(*    fall between them.  The three reads of the predicate need no steps of*)
(*    their own: the queue is under the mutex, the other two only ever go  *)
(*    from false to true, so "all false" holds when the first one is read; *)
(*  - lines 89-91 are one step, popping and the compare-exchange another;  *)
(*  - stats_.ran++ and stats_.failed++ on plain ints are a read and a write*)
(*  - dispatchReady looks at one task per step: other workers store DONE   *)
(*    and FAILED without the mutex while it scans.                         *)
(* The queue holds task ids; progressCb_ and the log lines are left out.   *)
(***************************************************************************)
EXTENDS TaskGraphs, FiniteSets

CONSTANTS Workers,  \* the threads, parallelism_ of them
          NoWorker, \* the owner of a free mutex
          Sorted,   \* BuildGraph::sorted()
          NoTask,   \* the null Task*
          Unchanged \* the tasks whose action finds its input up to date and returns

Tasks == Elements(Sorted)

\* The constructor makes parallelism_ at least 1.
ASSUME WorkersAssumption == Workers # {} /\ IsFiniteSet(Workers) /\ NoWorker \notin Workers
ASSUME SortedAssumption == Sorted \in Seq(Tasks) /\ NoRepeats(Sorted) /\ NoTask \notin Tasks
ASSUME UnchangedAssumption == Unchanged \subseteq Tasks

VARIABLES deps,             \* Task::dependencies, fixed while run() is active
          continueOnError,  \* parameter of run()
          state,            \* Task::state
          readyQueue, pendingCount, hasFailed,  \* locals of run() shared by the workers
          mtx,              \* owner of the mutex
          ran, failed, skipped,  \* the fields of stats_
          seeded,           \* the caller of run(): tasks of Sorted it has looked at
          pc, task,         \* of each worker: its place in the loop, its task
          reg,              \* of each worker: the stats_ field it has read
          cursor,           \* of each worker: position of dispatchReady in Sorted
          result            \* what run() returned

graphVars == <<deps, continueOnError>>
stats     == <<ran, failed, skipped>>
mainVars  == <<seeded, result>>
vars      == <<deps, continueOnError, state, readyQueue, pendingCount, hasFailed, mtx,
               ran, failed, skipped, seeded, pc, task, reg, cursor, result>>

States   == {"PENDING", "SKIPPED", "RUNNING", "DONE", "FAILED"}
Finished == {"DONE", "FAILED"}
NumTasks == Len(Sorted)

Locked    == {"test", "block", "check", "pop", "scan"}
\* The worker's task is over, but pendingCount still counts it.
Uncounted == {"readStat", "writeStat", "raise", "decrement"}
Places    == Locked \cup Uncounted \cup
             {"acquire", "asleep", "run", "isZero", "notify", "relock", "exited"}

\* Mutated DepsDone: a failed dependency no longer holds a task back.
DepsDone_orFailed(t) == \A d \in deps[t] : state[d] \notin {"PENDING", "RUNNING"}

\* The test of dispatchReady on t's dependencies.
DepsDone(t) == \A d \in deps[t] : state[d] \in {"DONE", "SKIPPED"}
Stopping    == hasFailed /\ ~continueOnError

Init ==
  /\ deps \in [Tasks -> SUBSET Tasks]
  /\ IsTopologicalOrder(Sorted, Tasks, deps)
  /\ continueOnError \in BOOLEAN
  /\ state = [t \in Tasks |-> "PENDING"]
  /\ readyQueue = <<>>
  /\ pendingCount = NumTasks
  /\ hasFailed = FALSE
  /\ mtx = NoWorker
  /\ ran = 0 /\ failed = 0 /\ skipped = 0
  /\ seeded = 0
  /\ pc = [w \in Workers |-> "acquire"]
  /\ task = [w \in Workers |-> NoTask]
  /\ reg = [w \in Workers |-> 0]
  /\ cursor = [w \in Workers |-> 1]
  /\ result = "none"

Goto(w, place) == pc' = [pc EXCEPT ![w] = place]

\* cv.notify_all() by w, which goes on at place: every sleeper has to take the
\* mutex again before it re-evaluates the predicate.
NotifyAll(w, place) ==
  pc' = [v \in Workers |-> IF v = w THEN place
                           ELSE IF pc[v] = "asleep" THEN "acquire" ELSE pc[v]]

-------------------------------------------------------------------------------
(* The thread that called run() *)

\* Before it starts the threads: queue the tasks that have no dependencies.
Seed ==
  /\ seeded < NumTasks
  /\ seeded' = seeded + 1
  /\ readyQueue' = IF deps[Sorted[seeded + 1]] = {}
                     THEN Append(readyQueue, Sorted[seeded + 1]) ELSE readyQueue
  /\ UNCHANGED <<graphVars, state, pendingCount, hasFailed, mtx, stats, pc, task, reg,
                 cursor, result>>

\* join() on every thread, then the result; with nothing to do run() returns
\* before it makes any thread.
Return ==
  /\ result = "none"
  /\ Sorted = <<>> \/ \A w \in Workers : pc[w] = "exited"
  /\ result' = IF Stopping THEN "failure" ELSE "success"
  /\ UNCHANGED <<graphVars, state, readyQueue, pendingCount, hasFailed, mtx, stats,
                 seeded, pc, task, reg, cursor>>

-------------------------------------------------------------------------------
(* A worker: waiting for a task *)

\* Lock the mutex, on entry to cv.wait or on the way out of its sleep.  Threads
\* exist once the queue is seeded; those not started yet are still here.
Acquire(w) ==
  /\ pc[w] = "acquire"
  /\ seeded = NumTasks /\ Sorted # <<>>
  /\ mtx = NoWorker
  /\ mtx' = w
  /\ Goto(w, "test")
  /\ UNCHANGED <<graphVars, state, readyQueue, pendingCount, hasFailed, stats, mainVars,
                 task, reg, cursor>>

\* Mutated TestPredicate: a failure does not end the wait.
TestPredicate_noFailed(w) ==
  /\ pc[w] = "test"
  /\ Goto(w, IF readyQueue # <<>> \/ pendingCount = 0 THEN "check" ELSE "block")
  /\ UNCHANGED <<graphVars, state, readyQueue, pendingCount, hasFailed, mtx, stats,
                 mainVars, task, reg, cursor>>

TestPredicate(w) ==
  /\ pc[w] = "test"
  /\ Goto(w, IF readyQueue # <<>> \/ pendingCount = 0 \/ Stopping
               THEN "check" ELSE "block")
  /\ UNCHANGED <<graphVars, state, readyQueue, pendingCount, hasFailed, mtx, stats,
                 mainVars, task, reg, cursor>>

\* Release the mutex and join the waiters of cv, as one step.
Block(w) ==
  /\ pc[w] = "block"
  /\ mtx' = NoWorker
  /\ Goto(w, "asleep")
  /\ UNCHANGED <<graphVars, state, readyQueue, pendingCount, hasFailed, stats, mainVars,
                 task, reg, cursor>>

\* C++ lets a wait end without a notification.
SpuriousWakeup(w) ==
  /\ pc[w] = "asleep"
  /\ Goto(w, "acquire")
  /\ UNCHANGED <<graphVars, state, readyQueue, pendingCount, hasFailed, mtx, stats,
                 mainVars, task, reg, cursor>>

\* Mutated Check: the worker goes on after a failure.
Check_noFailed(w) ==
  /\ pc[w] = "check"
  /\ \/ pendingCount = 0 /\ mtx' = NoWorker /\ Goto(w, "exited")
     \/ pendingCount # 0 /\ readyQueue = <<>> /\ mtx' = NoWorker /\ Goto(w, "acquire")
     \/ pendingCount # 0 /\ readyQueue # <<>> /\ UNCHANGED mtx /\ Goto(w, "pop")
  /\ UNCHANGED <<graphVars, state, readyQueue, pendingCount, hasFailed, stats, mainVars,
                 task, reg, cursor>>

\* The tests that follow the wait.
Check(w) ==
  /\ pc[w] = "check"
  /\ \/ /\ pendingCount = 0 \/ Stopping
        /\ mtx' = NoWorker
        /\ Goto(w, "exited")
     \/ /\ pendingCount # 0 /\ ~Stopping /\ readyQueue = <<>>
        /\ mtx' = NoWorker
        /\ Goto(w, "acquire")
     \/ /\ pendingCount # 0 /\ ~Stopping /\ readyQueue # <<>>
        /\ Goto(w, "pop")
        /\ UNCHANGED mtx
  /\ UNCHANGED <<graphVars, state, readyQueue, pendingCount, hasFailed, stats, mainVars,
                 task, reg, cursor>>

\* Pop the front task; the compare-exchange drops it if it is not PENDING.
Pop(w) ==
  /\ pc[w] = "pop"
  /\ readyQueue' = Tail(readyQueue)
  /\ mtx' = NoWorker
  /\ LET t == Head(readyQueue)
     IN \/ /\ state[t] = "PENDING"
           /\ state' = [state EXCEPT ![t] = "RUNNING"]
           /\ task' = [task EXCEPT ![w] = t]
           /\ Goto(w, "run")
        \/ /\ state[t] # "PENDING"
           /\ Goto(w, "acquire")
           /\ UNCHANGED <<state, task>>
  /\ UNCHANGED <<graphVars, pendingCount, hasFailed, stats, mainVars, reg, cursor>>

-------------------------------------------------------------------------------
(* A worker: running its task and accounting for it *)

\* task->action() has returned; the worker stores DONE or FAILED.  To an action
\* that found nothing to do the scheduler gives no verdict of its own.
FinishTask(w) ==
  /\ pc[w] = "run"
  /\ \E verdict \in Finished :
       /\ task[w] \in Unchanged => verdict = "DONE"
       /\ state' = [state EXCEPT ![task[w]] = verdict]
  /\ Goto(w, "readStat")
  /\ UNCHANGED <<graphVars, readyQueue, pendingCount, hasFailed, mtx, stats, mainVars,
                 task, reg, cursor>>

\* Mutated ReadStat: a failure counts on from the wrong counter.
ReadStat_wrongCounter(w) ==
  /\ pc[w] = "readStat"
  /\ reg' = [reg EXCEPT ![w] = ran]
  /\ Goto(w, "writeStat")
  /\ UNCHANGED <<graphVars, state, readyQueue, pendingCount, hasFailed, mtx, stats,
                 mainVars, task, cursor>>

\* stats_.ran++ or stats_.failed++: the load ...
ReadStat(w) ==
  /\ pc[w] = "readStat"
  /\ reg' = [reg EXCEPT ![w] = IF state[task[w]] = "DONE" THEN ran ELSE failed]
  /\ Goto(w, "writeStat")
  /\ UNCHANGED <<graphVars, state, readyQueue, pendingCount, hasFailed, mtx, stats,
                 mainVars, task, cursor>>

\* ... and the store.
WriteStat(w) ==
  /\ pc[w] = "writeStat"
  /\ \/ /\ state[task[w]] = "DONE"
        /\ ran' = reg[w] + 1
        /\ Goto(w, "decrement")
        /\ UNCHANGED <<failed, skipped>>
     \/ /\ state[task[w]] = "FAILED"
        /\ failed' = reg[w] + 1
        /\ Goto(w, "raise")
        /\ UNCHANGED <<ran, skipped>>
  /\ UNCHANGED <<graphVars, state, readyQueue, pendingCount, hasFailed, mtx, mainVars,
                 task, reg, cursor>>

\* Mutated RaiseFailed: a failed task is not taken off pendingCount.
RaiseFailed_uncounted(w) ==
  /\ pc[w] = "raise"
  /\ hasFailed' = TRUE
  /\ Goto(w, "isZero")
  /\ UNCHANGED <<graphVars, state, readyQueue, pendingCount, mtx, stats, mainVars, task,
                 reg, cursor>>

RaiseFailed(w) ==
  /\ pc[w] = "raise"
  /\ hasFailed' = TRUE
  /\ Goto(w, "decrement")
  /\ UNCHANGED <<graphVars, state, readyQueue, pendingCount, mtx, stats, mainVars, task,
                 reg, cursor>>

\* Mutated Decrement: a failed task is taken off twice.
Decrement_twice(w) ==
  /\ pc[w] = "decrement"
  /\ pendingCount' = pendingCount - (IF state[task[w]] = "FAILED" THEN 2 ELSE 1)
  /\ Goto(w, "isZero")
  /\ UNCHANGED <<graphVars, state, readyQueue, hasFailed, mtx, stats, mainVars, task, reg,
                 cursor>>

Decrement(w) ==
  /\ pc[w] = "decrement"
  /\ pendingCount' = pendingCount - 1
  /\ Goto(w, "isZero")
  /\ UNCHANGED <<graphVars, state, readyQueue, hasFailed, mtx, stats, mainVars, task, reg,
                 cursor>>

\* Mutated IsZero: the worker goes for its next task without dispatchReady.
IsZero_noDispatch(w) ==
  /\ pc[w] = "isZero"
  /\ Goto(w, IF pendingCount = 0 THEN "notify" ELSE "acquire")
  /\ UNCHANGED <<graphVars, state, readyQueue, pendingCount, hasFailed, mtx, stats,
                 mainVars, task, reg, cursor>>

\* A second access: another worker may have decremented in between.
IsZero(w) ==
  /\ pc[w] = "isZero"
  /\ Goto(w, IF pendingCount = 0 THEN "notify" ELSE "relock")
  /\ UNCHANGED <<graphVars, state, readyQueue, pendingCount, hasFailed, mtx, stats,
                 mainVars, task, reg, cursor>>

\* cv.notify_all() without the mutex, then the thread ends.
NotifyEnd(w) ==
  /\ pc[w] = "notify"
  /\ NotifyAll(w, "exited")
  /\ UNCHANGED <<graphVars, state, readyQueue, pendingCount, hasFailed, mtx, stats,
                 mainVars, task, reg, cursor>>

-------------------------------------------------------------------------------
(* A worker: dispatchReady *)

DispatchLock(w) ==
  /\ pc[w] = "relock"
  /\ mtx = NoWorker
  /\ mtx' = w
  /\ cursor' = [cursor EXCEPT ![w] = 1]
  /\ Goto(w, "scan")
  /\ UNCHANGED <<graphVars, state, readyQueue, pendingCount, hasFailed, stats, mainVars,
                 task, reg>>

\* One round of the loop over sorted; a task may be in the queue already.
DispatchOne(w) ==
  /\ pc[w] = "scan" /\ cursor[w] <= NumTasks
  /\ LET t == Sorted[cursor[w]]
     IN readyQueue' = IF state[t] = "PENDING" /\ DepsDone(t)
                        THEN Append(readyQueue, t) ELSE readyQueue
  /\ cursor' = [cursor EXCEPT ![w] = @ + 1]
  /\ UNCHANGED <<graphVars, state, pendingCount, hasFailed, mtx, stats, mainVars, pc, task,
                 reg>>

\* Mutated DispatchEnd: nobody is notified.
DispatchEnd_silent(w) ==
  /\ pc[w] = "scan" /\ cursor[w] > NumTasks
  /\ mtx' = NoWorker
  /\ Goto(w, "acquire")
  /\ UNCHANGED <<graphVars, state, readyQueue, pendingCount, hasFailed, stats, mainVars,
                 task, reg, cursor>>

\* cv.notify_all() under the mutex, which is then released.
DispatchEnd(w) ==
  /\ pc[w] = "scan" /\ cursor[w] > NumTasks
  /\ mtx' = NoWorker
  /\ NotifyAll(w, "acquire")
  /\ UNCHANGED <<graphVars, state, readyQueue, pendingCount, hasFailed, stats, mainVars,
                 task, reg, cursor>>

-------------------------------------------------------------------------------
Lock(w) == Acquire(w) \/ DispatchLock(w)

\* The steps of a worker that nothing can hold up.
Run(w) == \/ TestPredicate(w) \/ Block(w) \/ Check(w) \/ Pop(w)
          \/ FinishTask(w) \/ ReadStat(w) \/ WriteStat(w) \/ RaiseFailed(w)
          \/ Decrement(w) \/ IsZero(w) \/ NotifyEnd(w)
          \/ DispatchOne(w) \/ DispatchEnd(w)

\* Nothing is left to do after run() has returned.
Done == result # "none" /\ UNCHANGED vars

Next == \/ Seed \/ Return
        \/ \E w \in Workers : Lock(w) \/ Run(w) \/ SpuriousWakeup(w)
        \/ Done

Spec == Init /\ [][Next]_vars

\* Every thread is scheduled, every action returns (a hung compiler is not
\* modelled), and a thread that keeps finding the mutex free gets it in the
\* end.  No wakeup is owed to a sleeper that nobody notifies.
Fairness == /\ WF_vars(Seed) /\ WF_vars(Return)
            /\ \A w \in Workers : WF_vars(Run(w)) /\ SF_vars(Lock(w))

FairSpec == Spec /\ Fairness

-------------------------------------------------------------------------------
(* Properties *)

TypeOK ==
  /\ deps \in [Tasks -> SUBSET Tasks]
  /\ continueOnError \in BOOLEAN
  /\ state \in [Tasks -> States]
  /\ readyQueue \in Seq(Tasks)
  /\ pendingCount \in Nat
  /\ hasFailed \in BOOLEAN
  /\ mtx \in Workers \cup {NoWorker}
  /\ ran \in Nat /\ failed \in Nat /\ skipped \in Nat
  /\ seeded \in 0 .. NumTasks
  /\ pc \in [Workers -> Places]
  /\ task \in [Workers -> Tasks \cup {NoTask}]
  /\ reg \in [Workers -> Nat]
  /\ cursor \in [Workers -> 1 .. NumTasks + 1]
  /\ result \in {"none", "success", "failure"}

\* A task runs only after everything it depends on is DONE ("Tasks that MUST
\* complete before this", BuildGraph.h): a link never starts on objects that
\* are missing, being written, or failed to compile, also with continueOnError.
DepsBeforeRun ==
  \A t \in Tasks : state[t] # "PENDING" => \A d \in deps[t] : state[d] = "DONE"

\* The queue may hold a task twice, yet no two workers ever run one task: two
\* compilers would write the same object file.
OneWorkerPerTask ==
  \A w1, w2 \in Workers :
    (w1 # w2 /\ {pc[w1], pc[w2]} \subseteq Uncounted \cup {"run"}) => task[w1] # task[w2]

\* A task that is over stays as it ended: none runs again, none changes from
\* FAILED to DONE behind the summary's back.
FinishedIsFinal ==
  [][\A t \in Tasks : state[t] \in Finished => state'[t] = state[t]]_vars

\* pendingCount is the number of tasks that are not over, plus those a worker
\* has finished and not yet counted.  It reaches 0 only when all are over, and
\* a worker that sees 0 may leave.
Unfinished == {t \in Tasks : state[t] \notin Finished}
Counting   == {w \in Workers : pc[w] \in Uncounted}
PendingCountExact == pendingCount = Cardinality(Unfinished) + Cardinality(Counting)

\* w's dispatchReady has yet to look at Sorted[i], after w's own task was DONE.
WillReach(w, i) ==
  \/ pc[w] \in Uncounted \cup {"isZero", "relock"} /\ state[task[w]] = "DONE"
  \/ pc[w] = "scan" /\ cursor[w] <= i

\* No task is forgotten: once its dependencies are DONE, a PENDING task is in
\* the queue or some worker's dispatchReady has yet to reach it, whichever of
\* its dependencies finishes last and however their scans interleave.
NoLostDispatch ==
  \A i \in 1 .. NumTasks :
    state[Sorted[i]] = "PENDING" /\ DepsDone(Sorted[i]) =>
      \/ i > seeded
      \/ Sorted[i] \in Elements(readyQueue)
      \/ \E w \in Workers : WillReach(w, i)

\* When every thread left sleeps, pendingCount is 0 (or the graph has run dry
\* behind a tolerated failure): no task, and no failure, is ever slept through.
\* That the end of the build can be slept through is SuccessIsReported.
NoSleepOnWork ==
  (/\ \A w \in Workers : pc[w] \in {"asleep", "exited"}
   /\ \E w \in Workers : pc[w] = "asleep")
  => \/ pendingCount = 0
     \/ continueOnError /\ readyQueue = <<>>

\* Success means every task is DONE, or continueOnError was set and every task
\* is over; failure means a task failed.  BuildOrchestrator::run saves the hash
\* cache and reports "Build Complete" on the strength of it.
ResultIsHonest ==
  /\ result = "success" => \A t \in Tasks : state[t] \in Finished
  /\ result = "success" /\ ~continueOnError => \A t \in Tasks : state[t] = "DONE"
  /\ result = "failure" => \E t \in Tasks : state[t] = "FAILED"

\* No task is still running when run() returns: its action captures locals of
\* the caller.
QuietReturn == result # "none" => \A t \in Tasks : state[t] # "RUNNING"

\* "Stops on first failure" (TaskScheduler.h): once hasFailed is set, the tasks
\* that are running or that a worker is past the check with never become more.
Committed ==
  {t \in Tasks : state[t] = "RUNNING"} \cup
  {readyQueue[1] : w \in {v \in Workers : pc[v] = "pop"}}
StopsOnFailure == [][Stopping => Committed' \subseteq Committed]_vars

\* What the summary prints.  ran counts every task that is DONE, those found up to date too,
\* and skipped is 0 whatever was skipped, unlike in the README's example ("Ran: 5, Skipped:
\* 18").  Workers that increment ran or failed at the same time lose counts, yet they never
\* claim more than there was, and never say that none ran or none failed when one did.
StatsPlausible ==
  LET plausible(count, verdict) ==
        LET those == {t \in Tasks : state[t] = verdict}
        IN count <= Cardinality(those) /\ (count = 0 <=> those = {})
  IN result # "none" => plausible(ran, "DONE") /\ plausible(failed, "FAILED") /\ skipped = 0

\* "Ran: 5, Skipped: 18" (README.md): the summary of a successful build counts the
\* tasks that were found up to date as skipped.
SkippedAreCounted == result = "success" => skipped = Cardinality(Unchanged)

-------------------------------------------------------------------------------
(* Liveness and refinement *)

\* When every task is DONE, run() returns and the summary is printed.
SuccessIsReported == (\A t \in Tasks : state[t] = "DONE") ~> result = "success"

\* run() returns, or what keeps it is one of two things: a worker that sleeps
\* through the end of the build (SuccessIsReported) or, with continueOnError,
\* tasks that never become ready behind one that failed.  No dispatch is lost
\* for good, no queued task and no failure slept through.
RunEnds ==
  <>[](\/ result # "none"
       \/ pendingCount = 0 /\ \E w \in Workers : pc[w] = "asleep"
       \/ /\ continueOnError /\ \E t \in Tasks : state[t] = "FAILED"
          /\ \A t \in Tasks : state[t] \in Finished \/ ~DepsDone(t))

Promise == INSTANCE BuildExecution

\* Every step of the threads is a step of BuildExecution or invisible to it.
Implements == Promise!Spec

===============================================================================
