# A TLA+ model of abt, the Android build tool without Gradle

`abt` compiles C/C++ sources with the NDK, links one `libmain.so` per ABI,
compiles resources, packages and signs an APK, and does so in parallel,
incrementally, and on demand when files change. This directory holds a model of
it, from the command line to the signed APK and the three example applications,
TLC configurations that check the model on small instances, and proofs for
instances of any size. Everything is translated from `src/src`, `src/include`
and `src/abt-tests`; the documentation (`src/README.md`) is used only as the
source of promises to hold the code to.

## 1. The system

| Component | Code | State it keeps | Operations |
|---|---|---|---|
| Command line | `main.cpp` | options, command | `main`, `info`, `clean`, `build`, `watch` |
| Configuration | `engine/config/ConfigParser.cpp` | `BuildConfig`, `vars_`, the line being put together | `parse`, `substituteVars`, one handler per directive |
| NDK bridge | `toolchain/ndk/NDKBridge.cpp` | NDK paths | `probe`, flags, `runtimeLibsToBundle` |
| SDK bridge | `toolchain/sdk/SDKBridge.cpp` | tool paths; files in the output directory | `probe`, `compileResources`, `packageApk`, `signApk` |
| Dependency resolver | `depman/resolver/Resolver.cpp` | download cache, extracted archives | `fetch`, `extractAar`, `resolve` |
| Build graph | `engine/core/BuildGraph.cpp` | tasks and their dependencies, `sorted_`, `nextId_` | `addTask`, `addEdge`, `reset`, `topologicalSort` (recursive `dfsVisit`) |
| Task scheduler | `engine/core/TaskScheduler.cpp` | `Task::state`, ready queue, `pendingCount`, `hasFailed`, mutex and condition variable, `stats_` | `run` and its worker threads |
| Incremental builds | `main.cpp` (`BuildOrchestrator`), `engine/fs/xxHasher.cpp` (`HashCache`) | `cache_`, `hashes.bin`, objects, libraries, `resources.ap_` | `run`, `buildGraph`, task actions, `load`, `isUpToDate`, `save`, `abt clean` |
| Process spawner, pool | `engine/process/ProcessPool.cpp` | pipes, child, two reading threads | `spawnProcess`; `ProcessPool`, which nothing uses |
| Watch mode | `main.cpp` (`runWatch`), `engine/fs/Watcher_inotify.cpp` | `needsRebuild`, `building`, `running_`, stop pipe, the kernel's queue | the loop, the callback, `eventLoop`, `addWatch`, `stop` |
| Signals | `engine/process/SignalHandler.cpp` | `g_interrupted` | `signalHandler`, `installSignalHandlers` |
| simple-native | `abt-tests/01-simple-native` | lifecycle, pointer slots, event queue | `onAppCmd`, input handlers, `tick` |
| gl-triangle | `abt-tests/02-gl-triangle` | EGL surface and context, names of OpenGL objects | `init`, `recreateSurface`, `draw`, `shutdown` |
| audio-sink | `abt-tests/03-audio-sink` | engine, ring buffer, capture file | `init`, `shutdown`, capture, the audio callback |
| Logger | `common/Logger.h` | | |

How they interact. `main` parses the options, installs the signal handlers, has
the configuration parsed and the NDK and the SDK found, and either calls
`BuildOrchestrator::run` once (`build`) or starts `runWatch`, which calls it again
and again. `run` resolves the dependencies, loads the hash cache, builds a
`BuildGraph`, sorts it and hands it to `TaskScheduler::run`; the workers call the
tasks' actions, which share the hash cache, call tools through `spawnProcess` and
write files that later tasks read. If all went well the APK is packaged and
signed and the cache is saved. In watch mode a second thread turns inotify events into calls of a
callback that shares two atomics with the main loop. The examples are programs
of their own: a thread that polls for what Android's main thread sends it, which
waits meanwhile, and in audio-sink the thread of the audio callback.

Hard behaviours, and what each component has to guarantee:

- *Configuration.* A directive may span lines and hold comments. Guarantee: the
  file means what its directives mean however it is laid out; what is looked for
  in several places is found in the same one; commands that belong together agree.
- *Dependencies, packaging.* Files outlive the run that made them, whole or not.
  Guarantee: what is taken from an earlier run is complete, the APK has all that
  the project needs, and nothing left behind blocks a build.
- *Graph.* A cycle has to be told from a diamond or a duplicate edge whatever
  order an `unordered_map` is walked in. Guarantee: `sorted()` is a topological
  order exactly when there is no cycle.
- *Scheduler.* Most atomics are written without the mutex that the condition
  variable uses. Guarantee: a task starts once, after all its dependencies; none
  is lost; the result is right; and `run` returns (which it does not always do).
- *Incremental builds.* A hash is taken before the compiler reads the file, the
  new hash is entered before the compiler has succeeded, several workers do so at
  once, and the cache file may be cut. Guarantee: a build that reports success
  has linked the sources as they are.
- *Spawner.* Children inherit the pipes of other workers' children, and a signal
  ends a read. Guarantee: a call has the verdict and the output of its own child;
  it returns (which two of them may not).
- *Watch mode.* Two atomics are tested and set by two threads. Guarantee: no edit
  is lost between them, Ctrl+C ends it.
- *Examples.* Windows come and go while calls fail, and two threads use one
  engine. Guarantee: nothing is used after it is gone, and the system, which
  waits for the application, is always answered.

## 2. The modules

    TaskGraphs ----> BuildGraph ------> BuildGraphProofs
        |     \
        |      `---> TaskScheduler ---> TaskSchedulerProofs
        |                | implements
        `----------> BuildExecution
                         | INSTANCE (Sched)
                     IncrementalBuild -> IncrementalBuildProofs
                     WatchMode --------> WatchModeProofs
                     SpawnProcess -----> SpawnProcessProofs
    ApkPackaging, Resolver ------------> MCBuildArtifacts -> BuildArtifactsProofs
    Configuration ---------------------> ConfigurationProofs
    NativeApp -> SimpleNative, GlTriangle, AudioSink -> MCExamples -> ExamplesProofs

Each `MC...` module is the instance of a component for TLC. `MCBuildArtifacts`
extends ApkPackaging and Resolver, and `MCExamples` the three applications: a
behavior is one of one component, with the others' variables as they were. The
proof modules extend the same modules (for these two the `MC` module itself, whose
type invariant is that of all its components), so that a theorem is about the very
formula a run checks. No module declares a RECURSIVE operator.

**BuildGraph.** One action per call; `topologicalSort` is `SortBegin`,
`SortRoot` (the range-for reaches a task: any task not reached yet, since the
order of an `unordered_map` is unspecified), `Enter`, `VisitDependency`,
`Return`, `FinishVisit`, `Unwind`, `SortEnd`. The recursion is a stack of frames
`[id, next]`. A task's label, files and action are left out: the graph never
looks at them.

**TaskScheduler.** The caller of `run` and one process per worker, `pc[w]` being
its place in the loop. The grain: one access to shared state per step; the
comment at the head of the module gives the reason for each merged pair. The
wait predicate and the release of the mutex are two steps, because `notify_all`
(line 120) is called without the mutex. `stats_.ran++` is a read and a write.
`dispatchReady` looks at one task per step. `Unchanged` are the tasks whose action
finds its input up to date and returns: to the scheduler they are DONE like others,
and `stats_.skipped` is a variable that no action changes.

**BuildExecution.** The scheduler's promise without threads: `Start`, `Finish`,
`Return` over `state` and `result`. TaskScheduler implements it
(`Implements`, model-checked and proved), and IncrementalBuild uses it in the
place of the threads.

**IncrementalBuild.** Successive runs of abt in one project. A file is a number,
its contents' version (0: there is none); `xxHash` is taken to be injective. The
disk is `content`, `unhashed` (headers, flags, `res/`: read by every task, hashed
by none), `cacheFile`, `out` (what each object was made from) and `lib`. A run is
`StartBuild`, then for each unit `HashInput` (`hashFile`), `Lookup` (the rest of
`isUpToDate`) and `Build` (the tool, which reads the file as it is *by then*),
`Link`, `PackOrSign`, `Return`, and `Save` or `Fail`. `Edit` may happen at any
moment, to any contents: new ones, ones the file had before, or none; `Kill` and
`TornSave` too, with `Crashes`. A tool that fails leaves its old output or none. Two
lookups of which one inserts are a data race on an `unordered_map`; of what undefined
behaviour can do the model has the loss of the entry, and the crash (`Kill`). Two
history variables name the exceptions: `reverted`, the files put back or deleted since
`abt clean`, and `raced`, the units looked up in a race and not made since.

**ApkPackaging.** The same runs seen from the packaging side: the resource task,
one `Link` per architecture with its runtime libraries, then `CopyResources`,
`AddDex`, `AddLibs`, `Align`, `Move`, `EnsureKeystore` and `Sign`, with everything they leave in
`build/`. A resource file is the set of the resources in it: `aapt2 compile` writes
one `.flat` file for each file that is there, those of files that are gone stay, and
`aapt2 link` takes them all, unless two have the same resource (`Clash`). What
`libmain.so` needs depends on the version of the sources. An APK is the set of its entries. Each tool may fail, noticed or not as
in the code, each step may be the last before a kill, and between two runs
resources come, go or move to another file, sources and architectures change, or
`abt clean` is called.

**Resolver.** Phase 2: for each dependency and architecture `Resolve`, `Fetch`
from two repositories, `Receive` (curl's writes), `Downloaded`, `Unzip`. The
cache holds whole files, cut ones and empty ones; both directories stay from run
to run. The server has, or lacks, any archive in either repository.

**Configuration.** `main` up to where a command ends or a build begins: `ParseArg`
(an option per step), `ArgsParsed`, the parser (`NextLine`, a line per step), the override
by the command line, and both probes. A line is a sequence of tokens: blanks, quotation
marks, parentheses, `#`, references to variables and texts. `Arguments` splits what is
between the outermost parentheses at its blanks as the loop of `parseLine` does, token by
token, so that a word may hold a variable, a quoted blank or, in a file whose parentheses do
not pair, a parenthesis. `Meaning` defines what a list of directives says without a
parser's state, and `CompileCommand` and `LinkCommand` are the commands as
sequences of arguments.

**SpawnProcess.** Each worker is in `spawnProcess` or not: two `Pipe`, `Fork`,
`CloseWriteEnd`, `StartReaders`, `Join`, `Wait`, beside its reading threads (`Read`,
`ReadInterrupted`) and its child (`Exec`, `Write`, `Exit`, `Killed`). A pipe is a
count of writes and the sets of those who have its ends open; `Fork` copies all
that abt has open.

**WatchMode.** The main loop, one access to an atomic per step; the event loop
(`Select`, `Callback`, `CallbackStore`); the kernel's queue, which may merge an event
with an equal last one and drops events when it is full; the developer. All
sources are one number, the count of edits; a build reads it at some moment
(`BuildRead`) and writes its output (`BuildWrite`), if it gets there.

**NativeApp** is what the examples share: Android's main thread and
`android_native_app_glue`, external to the repository, and the polling of
`android_main`. **SimpleNative** adds the lifecycle flags, pointer slots, event
queue and `tick`; a tap is pushed as the code pushes it, as a `TOUCH_UP` whose
`pointerId` is the default 0, before the release itself; **GlTriangle** surfaces, contexts and names of OpenGL objects,
which belong to a context; **AudioSink** the application's thread, step by step
within its handlers, the callback, the lock it only tries, the ring buffer whose
counters wrap, and the capture file, whose stream goes bad when the disk is full and
from then on neither takes a block nor writes a header.

## 3. The runs

Each property of a passing run has a mutated definition (`..._suffix` in the
modules, listed in `PROJECT.json`) under which TLC finds it violated: the bug it
is there to catch.

| Run | Instance | Checks |
|---|---|---|
| `build_graph` | every sequence of calls making graphs of up to 3 tasks with up to 3 edges each, with self edges, duplicates and cycles | `TypeOK`, `SortedIsTopological`, `CycleIsReal`, `SortReturns` |
| `scheduler_safety` | 3 workers, all graphs of 3 tasks, the last one up to date, any failures of the others, both values of `continueOnError` | `TypeOK`, `PendingCountExact`, `NoLostDispatch`, `NoSleepOnWork`, `StatsPlausible`, `StopsOnFailure`, refinement `Implements` |
| `scheduler_progress` | 2 workers, all graphs of 3 tasks, fairness | `RunEnds` |
| `incremental` | 2 workers, 1 source, the manifest, 1 ABI, 2 versions of each file that come and go in any order, failures, races, kills, torn saves; once a header has changed or Ctrl+C was pressed, 1 version (`OneVersion`) | `SuccessIsCurrent`, `CacheIsHonest`, `LinkHasObjects`, `ResourcesAreCurrent`, `CleanRebuildsAll` |
| `watch` | 3 edits, a queue of 3, reads of 2 events, fairness | `NoEditForgotten`, `NoCallbackAfterReturn`, `InterruptEnds`, `EditsAreBuilt` |
| `spawn` | 2 workers, up to 2 writes of each child, pipes that hold 1, 6 descriptors, 2 signals, fairness | `TypeOK`, `ResultIsComplete`, `CallLeavesNothing`, `EverySpawnReturns` |
| `configuration` | files of up to 3 directives in 5 layouts, files of up to 5 lines whose parentheses and quotation marks do not pair, and one file with many command lines and environments | `TypeOK`, `ConfigIsMeaning`, `ToolsAgree`, `CommandsCohere` |
| `artifacts` | 2 runs of the resolver; 3 of the packaging with 2 architectures, a resource in either of 2 files, 2 failures or kills | `TypesOK`, `CacheIsWhole`, `IncludesAreComplete`, `ApkIsExact`, `BlockedOnlyAfterFailure` |
| `examples` | 2 windows (simple-native 1), 2 pointers, 3 inputs, 3 audio blocks, 1 failing call, fairness | `TypeOK`, `TouchesArePaired`, `FramesHaveTarget`, `CallbackIsSafe`, `CaptureIsWhole`, `SystemIsAnswered` |

and these, in which the formula is what the repository says and TLC finds a behavior
of the code that is otherwise:

| Run | Instance | Violated |
|---|---|---|
| `scheduler_lost_wakeup` | 2 workers, fairness | `SuccessIsReported` |
| `spawn_deadlock` | as `spawn`, children that fill a pipe | `NoDeadlock` |
| `runtime_libs_32bit` | as `artifacts`, without failures | `RuntimeLibsBundled` |

Why the bounds are enough. Three tasks give chains, forks, joins and the cycles
through one, two and three tasks; three edges of one task allow a duplicate
beside a self edge. In the scheduler, three tasks make the join (two
dependencies that finish at the same time) and the fork, and three workers let
one sleep while two race; the proofs cover every other size. In IncrementalBuild
two versions and "not there" give "the file as it was" and "as it is", a change while an
edited file is being built, and the return of old contents; the source and the manifest
suffice for a race. `OneVersion` keeps headers and Ctrl+C from multiplying all that:
`CleanRebuildsAll` is about what no hash sees, for which one version is enough. In WatchMode the edits
can fall before, during and after a build, a queue of 3 can overflow and a read
of 2 leaves events behind. In SpawnProcess two writes through a pipe that holds one
make a child wait, on either pipe first; six descriptors let one worker have its
pipes and a second one half of them, so that every creation of a pipe can be the
one that fails, and let each child inherit the end of the pipe that the other fills; with
two signals the deadlock of `spawn_deadlock` is therefore in the instance in which
`EverySpawnReturns` passes. In Configuration three directives allow
one that sets a variable, one that uses it through another and one that is lost
after an open parenthesis; five lines without an order let a directive begin in the
parentheses of one that closed too often, or have parentheses and quotation marks among
its words. What `ConfigIsMeaning` compares the parser
with is defined on the text: `WordsOf` takes the words as the parts between blanks outside of
quotation marks. Where a directive's name and its outermost parentheses are, both sides
take from `ParseLine`; so `MCConfiguration` assumes, and TLC evaluates, that the reference
gives each file that was put together from directives these directives, with words that are
given and not read off the text, among them a file whose words are parentheses. In ApkPackaging
a third run meets what the first and a failing second left, and a resource has two files
to be moved between. In the resolver the third job is the first dependency again,
which is what a second architecture means, and a second run finds what a killed one
left. gl-triangle and audio-sink need a second window for everything that goes
wrong with the names of the first, and a block more than the ring holds for its
counters to wrap; simple-native, which keeps nothing of a window, has one, and two
pointers, since a tap of the one is pushed as a release of the other.
All constants whose name begins with `Max` are bounds that are not in the code,
save `MaxPointers`, `MaxQueued` (`SimpleNative`) and `MaxFds` (a limit of the system).

Deadlock is checked everywhere; in IncrementalBuild, where the developer can always
edit, that says nothing.

Fairness. TaskScheduler: weak fairness of the caller and of every step of a
worker except taking the mutex, for which it is strong (a lock is handed out
again and again and everybody gets it in the end); tasks end. No fairness of
spurious wakeups: the standard allows them and promises none. WatchMode: weak
fairness of each of the two threads and of the main loop between builds; none of a build,
which may never return, as `scheduler_lost_wakeup` and `spawn_deadlock` show, and none of
the developer, who need neither edit nor press Ctrl+C. `InterruptEnds` and `EditsAreBuilt`
hence say "unless the build under way never returns". BuildGraph: weak fairness of the steps of a sort that has begun.
SpawnProcess: weak fairness of every worker, reading thread and child, that is
tools end; none of signals. Examples: weak fairness of the application's thread
and of a callback that has begun; none of the system, the user, or the stream's next call.

### What the code does not keep

Three disagreements have a run of their own:

- **The end of a build can be slept through** (`TaskScheduler.cpp:119`). The last
  decrement of `pendingCount` and its `notify_all` happen without the mutex. A
  worker that has tested the predicate and has not gone to sleep yet is not
  woken; `join` waits for it for ever after all tasks are DONE.
- **32-bit builds lack their runtime libraries** (`NDKBridge.cpp:226`). Every
  library is read as an ELF64 file. In a 32-bit one no `DT_NEEDED` entry is
  found, and `libc++_shared.so` is not bundled for `armeabi-v7a` and `x86`,
  against `README.md:295`. `Required`, which `ApkIsExact` uses, asks for these libraries
  on 64-bit architectures only, and allows them on the others.
- **Two compilers can keep each other waiting** (`ProcessPool.cpp:92`). A signal makes
  `readAll` take `EINTR` for the end and close its read end, but the other worker's
  child has inherited that end, so the tool gets no `EPIPE` and waits on a full pipe.
  When it happens to two at once, neither call returns. `ProcessPool.cpp:98` says that reading
  both pipes at once avoids the deadlock. `EverySpawnReturns` says that this is the only
  way not to return.

Others were seen by checking the formula given, which is in its module where it has a
name, on the instance of the component's run with the constants given; no run repeats it:

| Formula | with | What happens |
|---|---|---|
| `<>(result # "none")` (TaskScheduler) | `continueOnError` | the failed task's dependents stay PENDING and are counted for ever (`TaskScheduler.cpp:83`; no caller passes `true` yet). `RunEnds` says that it is this and the lost wakeup and nothing else |
| what `SuccessIsCurrent` says of `content`, for `unhashed` | `MaxUnhashed = 1` | headers are not tracked (`main.cpp:203`) although `README.md:338` names `.h` files among those whose change triggers a build |
| `InterruptSaves` | `Interrupts = TRUE` | Ctrl+C does not save the cache (`main.cpp:532`), `README.md:315` notwithstanding |
| `<>[](built = version \/ interrupted)` (WatchMode) | 1 edit | changes during a build are disregarded (`main.cpp:410`); `README.md:340` says they are queued |
| builds stop when edits stop | `OutputMatches = TRUE` | with `--project DIR` the output directory is watched too, object files have names like `src_main.cpp.o`, and each build sets off the next |
| `SkippedIsUpToDate` (IncrementalBuild) | 1 worker, no crash | a source edited between its hash and its compilation and then put back counts as up to date (`README.md:313`); its object is of the other contents |
| `LinkHasObjects` for files put back | 1 worker, no crash | a failed compilation removes the object, the source is put back, counts as up to date, and every link fails until `abt clean`, with `--jobs 1` too |
| `LinkHasObjects`, `ResourcesAreCurrent` for units in a race | `Jobs = 2` | two workers insert into `cache_` at once (`xxHasher.cpp:195`); a unit that was up to date is built again, fails, and is still vouched for by `hashes.bin` |
| `SkippedAreCounted` (TaskScheduler) | `Unchanged = {2, 3}` | tasks found up to date are counted by `stats_.ran` and nothing increments `stats_.skipped`: the summary says "Skipped: 0", unlike the one of `README.md:299-306` |
| exact counts in `stats_` | 2 workers | `stats_.ran++` on a plain `int` loses counts (`TaskScheduler.cpp:107`); `StatsPlausible` is what remains true |
| `CacheIsWhole` without its exceptions | kills, a full disk | a cut download is a file that exists, and is taken for finished by every later run (`Resolver.cpp:85`) |
| `BlockedOnlyAfterFailure` without its exceptions | kills, moved resources | a left `.aligned` file or half a keystore fails every build until `abt clean` (`SDKBridge.cpp:308`), and so do the two `.flat` files of a resource that was moved from one file to another (`SDKBridge.cpp:236`) |
| `ResourcesOfProject` (ApkPackaging) | no failures | the `.flat` file of a deleted resource file is linked into all later APKs, against `README.md:325` |
| `SuccessIsWhole` (ApkPackaging) | 1 failure | a failed `cp` of a runtime library (`main.cpp:304`) or of `resources.ap_` (`SDKBridge.cpp:285`) does not fail the build, whose APK lacks what `README.md:327` lists |
| `apk` has no more than the project says | architectures change | `lib/` of an architecture that is no longer built for is packed again (`SDKBridge.cpp:256`) |
| `TapsAreCounted` (SimpleNative) | 1 pointer | every release counts as a tap (`StateManager.cpp:84`), and a tap, pushed as a release of pointer 0 before its own release (`InputHandler.cpp:73`), counts twice |
| `HeaderIsWritten` (AudioSink) | a disk that gets full | after a failed write `close()` returns without writing the header (`WaveWriter.cpp:35`), against `WaveWriter.h:24` |
| `MeshesAreTheirOwn` (GlTriangle) | 2 windows | vertex array names of a lost context are kept, so from the second window on every mesh is drawn with the sphere's vertices |

Met while modelling, in the model as they are, and of no property:

- `${ANDROID_NDK}` falls back to `assets/android_NDK` in the usage text
  (`main.cpp:458`), to `asserts/android_NDK` in the parser (`ConfigParser.cpp:31`) and
  to `assets/android-ndk` in the bridge (`NDKBridge.cpp:37`); an environment variable
  that is set and empty counts for one and not for the other. `ToolsAgree` holds
  where a variable is set. The newest build-tools are the last in
  lexicographic order (`SDKBridge.cpp:86`): 9.0.0 goes before 34.0.0.
- A parenthesis that is never closed drops the rest of the file, and `parse`
  succeeds. `abt clean` removes `build/` whatever `abt_output_dir` says.
- `include/abt/engine/ProcessPool.h:31` has the pool used by the scheduler; nothing uses it. `SIGPIPE` is ignored by the
  children too, which inherit that. `spawnProcess` with `extraEnv` would hand
  `execvpe` pointers into strings that have moved (`ProcessPool.cpp:67-73`); nobody passes any.
- The examples compute the poll's timeout once, before the inner loop: after the
  window is there, nothing is drawn until something else wakes the thread.
- simple-native: the glue takes input before the application's own reading; lost
  releases keep their slots; Back ends
  `android_main` without finishing the activity. gl-triangle: `recreateSurface`'s case of a
  context that survives never occurs, as `INIT_WINDOW` makes a new one. audio-sink: a PAUSE
  before LOST_FOCUS lets a chord start in the background; a lost stream leaves the
  application silent; a capture once stopped is not started again.

## 4. The proofs

All are safety proofs by an inductive invariant per component, called `IInv`
where there is one per module, and by layers on top of it; TLC has checked each
on the instances above first. Steps are proved action by action, one lemma each.
The invariants stand before the proofs about their component.

**BuildGraphProofs**, any number of tasks and edges: `TypeOK`, `DfsInvariant`,
`SortedIsTopological`, `CycleIsReal`, `CycleIsFound`. The invariant says that
`inStack` is the set of active frames, that these form a path of dependencies,
that what is visited and not in `inStack` is in `order`, and that `order` puts
dependencies first. A task met again in `inStack` closes the path to a cycle.
That success excludes cycles needs well-founded induction on positions of a
topological order.

**TaskSchedulerProofs**, any number of workers and any graph: `TypeOK`,
`DepsBeforeRun`, `OneWorkerPerTask`, `PendingCountExact`, `QuietReturn`,
`ResultIsHonest`, `FinishedIsFinal`, `NoLostDispatch`, `NoSleepOnWork`,
`StatsPlausible`, `StopsOnFailure`, and `Implements`. `IInv` adds to the
properties who holds the mutex (`MutexInv`), that whatever is queued may run
(`QueueInv`), what each worker's place says of its task (`WorkInv`), where a
failure is that `hasFailed` does not show yet (`FailInv`), and why a worker may
leave (`EndInv`). `PendingCountExact` needs the cardinality theorems: it counts
the unfinished tasks and the workers between the end of a task and its decrement.
Four layers carry the rest, so that each is proved from those below it only.
`StartInv`: the caller seeds the queue before any thread runs. `DispatchInv`: a
worker on its way to `dispatchReady` knows which task it has finished; whoever
finishes a task's last dependency, in whatever order the scans interleave, will
reach it (`WillReach`). `SleepInv`: a worker goes to sleep on an empty queue, a
queue that is filled has its filler on the way to `notify_all`, and so has a
failure. It says nothing of the last decrement, which is where the code loses its
wakeup. `StatInv`: what a lost update leaves in a counter was written by somebody,
so it is at most the number of tasks of that verdict and never 0 again.

**IncrementalBuildProofs**, any sources, ABIs, jobs, failures, kills and races.
Whatever is edited, put back or deleted: `TypeOK`, and `LibraryComplete`, that a
build that succeeds has in each library the objects of all its sources as they are on
disk, with none missing. `ShapeInv` is behind it: a unit is in its action exactly
while its task runs, what has started had its dependencies done, and a success has every
task done. `CacheIsHonest` and `SuccessIsCurrent` hold of every file that was not put back
or deleted since `abt clean` (`reverted`); of the others they are false, see
`SkippedIsUpToDate` above. `IInv` says of the former (`Steady`) that no
stored hash or output is ahead of its file (`BehindInv`), so an edit makes every
older hash differ for ever; that before its lookup a unit's entry in memory is
that of the disk (`LoadInv`); and that a unit that is done is as honest in memory
as `hashes.bin` is on disk (`DoneInv`), so that saving is safe.
`LinkHasObjects`, `ResourcesAreCurrent` and `CleanRebuildsAll` say that what is
skipped is there and is current. They hold of the units that are `Undisturbed`: their file was not
put back, and they were not looked up in a race on `cache_` without having been made since. For
both exceptions the table above has a behavior in which they are false. The proof shows that nothing else
breaks them, for any number of workers, failures and kills, by `WholeInv`: what
`hashes.bin` vouches for is whole, and until its save a build touches only what
`hashes.bin` does not know as it is. With `Jobs <= 1` there is never a race
(`OneJobNeverRaces`), so that one exception is left: `--jobs 1` is safe of races, not of
files that are put back.

**WatchModeProofs**, any number of edits and any sizes of queue and reads:
`TypeOK`, `NoEditForgotten`, `NoCallbackAfterReturn`. `NoEditForgotten` says where
an edit that is not built yet can be; it needs that `building` is set exactly
during a build and that the event loop's batch still has, at its head, the event
it is storing for. The lemmas say that appending to, cutting and shortening a
sequence of events loses none.

**SpawnProcessProofs**, any number of workers, writes, descriptors and signals:
`TypeOK`, `ResultIsComplete`, `CallLeavesNothing`, the last with the descriptors that are
lost for good: at most four for each call whose second `pipe()` or whose `fork()` failed, and
none when there is no such call. The invariant has three parts
per worker: what is running at each place of the call (`StageInv`), how long abt
and the child hold which ends of its pipes (`EndsInv`), and that what a child has
written was read or is still in the pipe, which is empty once it was read to its
end (`FlowInv`).

**BuildArtifactsProofs**. ApkPackaging, any architectures, resource files, libraries,
runs, failures and kills: `TypeOK`, `ApkIsExact`, `BlockedOnlyAfterFailure`. The APK has
all that is `Required` and besides at most what is `Stale`, which are not empty words: the code
does pack stale entries, and the exact APK is what it does not promise. The
invariant says that `build/lib` has only what was linked, or copied for what was linked, since
`build/` was removed (`LibInv`), that `resources.ap_` has the resources it was made from and
others only of files that are gone (`ResInv`), that the architectures no longer on a run's list have their libraries
of these sources there (`LinkInv`), what the APK has after each step (`PackInv`),
and what lies beside it as long as nothing has failed (`LeftInv`). That `zip`
adds entries and replaces none of another kind needs the kinds of entries to have
different names, which is what the assumption on `Abis` is for. Resolver, any
dependencies, servers, runs and kills: `ResolverTypeOK`, `CacheIsWhole`,
`IncludesAreComplete`. `TypesOK` of `MCBuildArtifacts`, where the two take turns, follows
from both. The invariant says which repository may have given a file at
each place (`PlaceInv`) and that every dependency the run has passed is warned of,
has its modules among the include directories, or is being resolved again for a
further architecture (`PassedInv`).

**ConfigurationProofs**, any command line, file and environment: `TypeOK`,
`CommandsCohere`, `ToolsAgree`, `ConfigIsMeaning`. The types are the content of the first: what
`parseLine` cuts out of balanced or unbalanced lines are words, never an empty one
or a comment, what is in a numeric field was read as a number, and an architecture in
`BuildConfig` is one that abt knows. That needs what filtering
a sequence keeps; the prover knows nothing of `SelectSeq`, so `Kept`
orders its indices by rank (`InOrder`), and the lemmas say that rank is one to one and
reaches every index. `CommandsCohere` follows from the types and from which flags stand
at which index of the two commands. `ToolsAgree` needs `SearchInv`, what the
probes have found when `main` goes on, and that a finite set of versions has a greatest
one, by counting those below each: the order is lexicographic, hence total and transitive.

`ConfigIsMeaning` compares a parser that goes from line to line with a meaning that is read
off the whole file. `ReadInv` says, for some number `n` of lines read (`Reading(n)`), that
`config` is the meaning of the directives that end among the first `n` lines, that every
word expands to its value after them, that `accum` is the text since the last line that
ended a directive and `depth` the balance of its parentheses, and that no earlier line left
fewer open than that one did (`Lowest`). The last is the heart of it: the parser ends a
directive when its own count is not positive, the reference when no line before left fewer
open, and `EndNext` shows that these are the same lines, also after a line that closes
too much. `MeaningAppend` and `DirectiveDoes` say that one directive more does to the
meaning what its branch of `parseLine` does to `config`. That the words are the same is
`SplitNext` and its neighbours: after `i` tokens the loop has the parts between the first
cuts, and in its hand what stands since the last one. What a file of any length says is
a recursive function or a `FlattenSeq`, so the lemmas need induction over its
length. The library's induction theorem cannot be used, but a set of numbers that contains 0
and the successor of each of its members is all of them (`Inductive`, from `NatLessThanWellFounded`
and `WFMin`), and for each statement such a set can be written down.

**ExamplesProofs**, any numbers of windows, commands, inputs, failing calls and
audio blocks, any ring whose counters wrap at a multiple of its capacity.

- The glue (`GlueInv`, used by the next two): the system waits for the last command it wrote,
  and `android_app::window` is the system's but for a window not yet told of.
- gl-triangle: `FramesHaveTarget` and the types. `ReadyInv` says that a surface is
  one of the window the application knows, and that `ready` means there is a
  current context with a surface and a program of that context or none. That the
  surface is gone before the system destroys the window needs `WindowInv`.
- audio-sink: `CallbackIsSafe`, `CaptureIsWhole` and the types. `Handlers` are the
  possible remainders of a handler, so that each place of the application's thread
  is a case; `LockInv` says who holds the lock, `EngineInv` that a callback that may
  run has an open stream and the mixer it began with, and that the mixer goes only
  after the stream; `RingInv` that the ring holds exactly the block between its rendering
  and its reading, also when the counters have wrapped; `WavInv` that an open
  capture ends with the block before the present one, which is why closing it
  inside a callback leaves no gap, or, when the disk got full, is a beginning of what
  there was (`DiskFullKeeps`) that takes no more. The header counts the blocks then no longer: it
  says 0.
- simple-native: `TouchesArePaired` and the types, among them that the queue has at most
  `MaxQueued` events whatever is pushed. `SlotsArePressed` relates the slots to the
  queue, `Times` counts an event in the first `n` entries of a queue, and the lemmas about it say
  what appending an event, and looking at one entry more, adds. An input pushes up
  to two events, of which a full queue takes one or none; then `lost` is set. Pointer 0 may be
  released once more for every tap (`ExtraUps`), which `Owed` adds to what is down.
- `TypeOK` of `MCExamples`, where each behavior is one of one application: from the above.

Assumptions. Each module's assumptions type its constants; they also say that
`Sorted` is what `BuildGraph::sorted()` promises, which BuildGraphProofs proves,
that an architecture has one ELF class and no other entry's name, that the
NDK has no `libmain.so` among its runtime libraries, that no dependency is both
remote and local, that a ring's counters wrap at a multiple of its capacity, that no NDK lies
under the empty name and that an SDK has finitely many build-tools. `Strings`
are the strings, of whose literals TLAPS knows nothing unless it is told.

Some theorems state what no run repeats, since the proof says more: the type
invariants of IncrementalBuild and WatchMode, and `LibraryComplete`, `DfsInvariant`, `CycleIsFound`,
`DepsBeforeRun`, `OneWorkerPerTask`, `QuietReturn`, `ResultIsHonest`, `FinishedIsFinal`
and `OneJobNeverRaces`.

Only model-checked is what needs fairness, which TLAPS cannot reach: `SortReturns`,
`RunEnds`, `InterruptEnds`, `EditsAreBuilt`, `EverySpawnReturns` and `SystemIsAnswered`.
Every invariant, action property and refinement of a passing run is proved, with the
exceptions that its formula names and no other condition.

## 5. What is not modelled, and the plan

Not modelled, with the reasons in `PROJECT.json`: the logger and the wording of
output; that the signal handler logs; references to variables that are never closed or lie
in one another; flags on which nothing else depends; `--jobs`, `--project`
and `--verbose`; `adb install`; the slots of `ProcessPool`, which nothing makes;
directories that appear while abt watches, and `addWatch`; compilers that outlive
an abt that was killed; two abt processes in one project; of the examples,
geometry, textures, samples and effects, which are data. `PROJECT.json` lists the hazards
of each, also those that no property covers.

Within the prover's reach, no property that a run checks is left to prove.

## 6. Running it

    tlc -workers 2 -config MCTaskScheduler.cfg MCTaskScheduler
    tlapm TaskSchedulerProofs.tla
