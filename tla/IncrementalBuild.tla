--------------------------- MODULE IncrementalBuild ---------------------------
(***************************************************************************)
(* Successive runs of abt in one project: BuildOrchestrator::run and the   *)
(* tasks that its buildGraph makes (src/src/main.cpp), with HashCache      *)
(* (xxHasher.cpp) deciding which of them are skipped, while the developer  *)
(* edits files between runs and during them, and runs fail, are interrupted*)
(* or are killed.                                                          *)
(*                                                                         *)
(* A file is a number: its contents' version, 0 when there is no file.     *)
(* hashFile gives 0 for an unreadable file and is taken to be injective on *)
(* the rest, so a hash is a version too; 0 in the cache is "no entry".  An *)
(* object (or resources.ap_) is known by what it was made from.  The       *)
(* threads are those of TaskScheduler, of which only the promise that it   *)
(* keeps, BuildExecution, is used here.                                    *)
(***************************************************************************)
EXTENDS TaskGraphs, FiniteSets

CONSTANTS Sources, Abis,  \* cfg_.cppSources, cfg_.architectures
          Manifest,       \* AndroidManifest.xml
          Sorted,         \* BuildGraph::sorted()
          Jobs,           \* threads of the scheduler
          MaxVersion,     \* bound: versions of a file
          MaxUnhashed,    \* bound: versions of what is read and not hashed
          Crashes,        \* whether a run may be killed or a save cut short
          Interrupts      \* whether Ctrl+C is pressed

Files    == Sources \cup {Manifest}
Versions == 0 .. MaxVersion

CompileTask(s, a) == <<"compile", s, a>>
LinkTask(a)       == <<"link", a>>
ResTask           == <<"res">>
PackTask          == <<"pack">>
SignTask          == <<"sign">>

CompileTasks == {CompileTask(s, a) : s \in Sources, a \in Abis}
LinkTasks    == {LinkTask(a) : a \in Abis}

\* The tasks whose action asks isUpToDate; their cache keys are src@abi and the
\* path of the manifest, so the task stands for its key.
Units     == CompileTasks \cup {ResTask}
ToolTasks == LinkTasks \cup {PackTask, SignTask}
AllTasks  == Units \cup ToolTasks

\* The one file a unit hashes.
Input == [u \in Units |-> IF u = ResTask THEN Manifest ELSE u[2]]

\* The edges addEdge makes.
Deps == [t \in AllTasks |->
           IF t \in LinkTasks THEN {CompileTask(s, t[2]) : s \in Sources}
           ELSE IF t = PackTask THEN LinkTasks \cup {ResTask}
           ELSE IF t = SignTask THEN {PackTask} ELSE {}]

ASSUME FilesAssumption == Manifest \notin Sources
ASSUME BoundsAssumption == /\ Jobs \in Nat /\ MaxVersion \in Nat /\ MaxVersion >= 1
                           /\ MaxUnhashed \in Nat
                           /\ Crashes \in BOOLEAN /\ Interrupts \in BOOLEAN
ASSUME SortedAssumption == /\ Sorted \in Seq(AllTasks)
                           /\ IsTopologicalOrder(Sorted, AllTasks, Deps)

VARIABLES content,    \* of each file on disk
          unhashed,   \* headers, flags and res/: read by every unit, hashed by none
          cacheFile,  \* hashes.bin
          out,        \* of each unit: what its object or resources.ap_ was made from
          lib,        \* of each ABI: what the objects in libmain.so were made from
          proc,       \* whether abt is running
          cache,      \* HashCache::cache_ of the running abt
          state, result,  \* of the scheduler
          place,      \* of each unit: how far its action has got
          hashed,     \* of each unit: the hash it computed
          interrupted,    \* g_interrupted
          touched,    \* history: the files edited since the last run started
          headers,    \* history: when what is not hashed was last edited
          reverted,   \* history: the files put back or deleted since abt clean
          raced       \* history: the units looked up in a race and not made since

disk    == <<content, unhashed, cacheFile, out, lib>>
process == <<proc, cache, state, result, place, hashed, interrupted>>
history == <<touched, headers, reverted, raced>>
vars    == <<content, unhashed, cacheFile, out, lib, proc, cache, state, result, place,
             hashed, interrupted, touched, headers, reverted, raced>>

Sched == INSTANCE BuildExecution WITH deps <- Deps, continueOnError <- FALSE

NoOut   == [input |-> 0, rest |-> 0]
Outs    == [input : Versions, rest : 0 .. MaxUnhashed]
NoLib   == [s \in Sources |-> NoOut]
NoCache == [u \in Units |-> 0]

Init ==
  /\ content \in [Files -> {1}] \cup {[f \in Files |-> IF f = Manifest THEN 0 ELSE 1]}
  /\ unhashed = 0
  /\ cacheFile = NoCache
  /\ out = [u \in Units |-> NoOut]
  /\ lib = [a \in Abis |-> NoLib]
  /\ proc = "off"
  /\ cache = NoCache
  /\ state = [t \in AllTasks |-> "PENDING"]
  /\ result = "none"
  /\ place = [u \in Units |-> "idle"]
  /\ hashed = NoCache
  /\ interrupted = FALSE
  /\ touched = {}
  /\ headers = "clean"
  /\ reverted = {} /\ raced = {}

-------------------------------------------------------------------------------
(* The developer *)

\* A file gets new contents, or ones it had before (git checkout), or is deleted.
Edit(f) ==
  /\ \E v \in Versions \ {content[f]} :
       /\ content' = [content EXCEPT ![f] = v]
       /\ reverted' = IF v > content[f] THEN reverted ELSE reverted \cup {f}
  /\ touched' = touched \cup {f}
  /\ UNCHANGED <<unhashed, cacheFile, out, lib, process, headers, raced>>

\* A header, a define, --release, a file of res/.
EditUnhashed ==
  /\ unhashed < MaxUnhashed
  /\ unhashed' = unhashed + 1
  /\ headers' = "during run"
  /\ UNCHANGED <<content, cacheFile, out, lib, process, touched, reverted, raced>>

\* Mutated Clean: the objects and the cache that speaks of them are left.
Clean_keepsCache ==
  /\ proc = "off"
  /\ out' = [u \in Units |-> IF u = ResTask THEN NoOut ELSE out[u]]
  /\ lib' = [a \in Abis |-> NoLib]
  /\ headers' = "clean" /\ reverted' = {} /\ raced' = {}
  /\ UNCHANGED <<content, unhashed, cacheFile, process, touched>>

\* abt clean, with the output in its default place.
Clean ==
  /\ proc = "off"
  /\ cacheFile' = NoCache
  /\ out' = [u \in Units |-> NoOut]
  /\ lib' = [a \in Abis |-> NoLib]
  /\ headers' = "clean" /\ reverted' = {} /\ raced' = {}
  /\ UNCHANGED <<content, unhashed, process, touched>>

-------------------------------------------------------------------------------
(* A run *)

\* Load the cache, probe, resolve, build the graph, call the scheduler.  A run that
\* the probe ends has changed nothing and is no step.
StartBuild ==
  /\ proc = "off" /\ proc' = "on"
  /\ cache' = cacheFile
  /\ touched' = {}
  /\ headers' = IF headers = "clean" THEN "clean" ELSE "before run"
  /\ UNCHANGED <<disk, state, result, place, hashed, interrupted, reverted, raced>>

\* The process ends and its memory is gone.
Exit ==
  /\ proc = "on" /\ proc' = "off"
  /\ cache' = NoCache
  /\ state' = [t \in AllTasks |-> "PENDING"]
  /\ result' = "none"
  /\ place' = [u \in Units |-> "idle"]
  /\ hashed' = NoCache
  /\ interrupted' = FALSE
  /\ UNCHANGED <<content, unhashed, out, lib, history>>

Running == {t \in AllTasks : state[t] = "RUNNING"}

\* A worker takes a task that may run.
Begin(t) == proc = "on" /\ Cardinality(Running) < Jobs /\ Sched!Start(t)

\* isUpToDate hashes the file first.
HashInput(u) ==
  /\ Begin(u)
  /\ hashed' = [hashed EXCEPT ![u] = content[Input[u]]]
  /\ place' = [place EXCEPT ![u] = "lookup"]
  /\ UNCHANGED <<disk, proc, cache, interrupted, history>>

\* cache_ is an unordered_map that no lock protects.  Two lookups at once, one
\* of which inserts, are undefined behaviour.
Racing(u) == \E v \in Units \ {u} : /\ place[v] = "lookup" /\ hashed[v] # 0
                                    /\ 0 \in {cache[u], cache[v]}

\* The comparison: up to date and skipped; or unreadable, new or changed, and
\* to be built, the new hash being entered at once.  Of what a race may do, the
\* model has the loss of the entry (that it may also crash abt is Kill).
Lookup(u) ==
  /\ proc = "on" /\ place[u] = "lookup"
  /\ \/ /\ hashed[u] # 0 /\ cache[u] = hashed[u]
        /\ Sched!Finish(u) /\ state'[u] = "DONE"
        /\ place' = [place EXCEPT ![u] = "idle"]
        /\ UNCHANGED cache
     \/ /\ hashed[u] = 0 \/ cache[u] # hashed[u] \/ Racing(u)
        /\ \/ hashed[u] # 0 /\ cache' = [cache EXCEPT ![u] = hashed[u]]
           \/ (hashed[u] = 0 \/ Racing(u)) /\ UNCHANGED cache
        /\ place' = [place EXCEPT ![u] = "build"]
        /\ UNCHANGED <<state, result>>
  /\ raced' = IF Racing(u) THEN raced \cup {u} ELSE raced
  /\ UNCHANGED <<disk, proc, hashed, interrupted, touched, headers, reverted>>

\* generateManifestIfNeeded writes the template, version 1, when there is none.
InputRead(u) == IF u = ResTask /\ content[Manifest] = 0 THEN 1 ELSE content[Input[u]]

\* Mutated Build: a task whose compiler failed counts as done.
Build_ignoresFailure(u) ==
  /\ proc = "on" /\ place[u] = "build"
  /\ Sched!Finish(u) /\ state'[u] = "DONE"
  /\ \/ /\ InputRead(u) # 0 /\ raced' = raced \ {u}
        /\ out' = [out EXCEPT ![u] = [input |-> InputRead(u), rest |-> unhashed]]
     \/ UNCHANGED raced /\ \E left \in {out[u], NoOut} : out' = [out EXCEPT ![u] = left]
  /\ content' = [content EXCEPT ![Input[u]] = InputRead(u)]
  /\ place' = [place EXCEPT ![u] = "idle"]
  /\ UNCHANGED <<unhashed, cacheFile, lib, proc, cache, hashed, interrupted, touched, headers,
                 reverted>>

\* compileSource or compileResources: the tool reads the file as it is by now.
\* One that fails leaves the old output or removes it.
Build(u) ==
  /\ proc = "on" /\ place[u] = "build"
  /\ Sched!Finish(u)
  /\ \/ /\ state'[u] = "DONE" /\ InputRead(u) # 0
        /\ out' = [out EXCEPT ![u] = [input |-> InputRead(u), rest |-> unhashed]]
        /\ raced' = raced \ {u}
     \/ /\ state'[u] = "FAILED" /\ UNCHANGED raced
        /\ \E left \in {out[u], NoOut} : out' = [out EXCEPT ![u] = left]
  /\ content' = [content EXCEPT ![Input[u]] = InputRead(u)]
  /\ place' = [place EXCEPT ![u] = "idle"]
  /\ UNCHANGED <<unhashed, cacheFile, lib, proc, cache, hashed, interrupted, touched, headers,
                 reverted>>

BeginTool(t) ==
  /\ Begin(t)
  /\ UNCHANGED <<disk, proc, cache, place, hashed, interrupted, history>>

ObjectsPresent(a) == \A s \in Sources : out[CompileTask(s, a)].input # 0

\* linkObjects: a missing object is an error.
Link(a) ==
  /\ proc = "on" /\ Sched!Finish(LinkTask(a))
  /\ \/ /\ state'[LinkTask(a)] = "DONE" /\ ObjectsPresent(a)
        /\ lib' = [lib EXCEPT ![a] = [s \in Sources |-> out[CompileTask(s, a)]]]
     \/ /\ state'[LinkTask(a)] = "FAILED"
        /\ \E left \in {lib[a], NoLib} : lib' = [lib EXCEPT ![a] = left]
  /\ UNCHANGED <<content, unhashed, cacheFile, out, proc, cache, place, hashed,
                 interrupted, history>>

\* packageApk, signApk: what they leave behind is not modelled here.
PackOrSign(t) ==
  /\ proc = "on" /\ Sched!Finish(t)
  /\ UNCHANGED <<disk, proc, cache, place, hashed, interrupted, history>>

\* TaskScheduler::run returns.
Return ==
  /\ proc = "on" /\ Sched!Return
  /\ UNCHANGED <<disk, proc, cache, place, hashed, interrupted, history>>

\* HashCache::save, reached only by a successful run.
Save ==
  /\ result = "success"
  /\ cacheFile' = cache
  /\ Exit

\* hashes.bin is truncated and rewritten in place, in any order of keys: a kill
\* or a full disk leaves some of the entries, a cut entry being dropped by load.
TornSave ==
  /\ Crashes
  /\ result = "success"
  /\ \E kept \in SUBSET Units : cacheFile' = [u \in Units |-> IF u \in kept THEN cache[u] ELSE 0]
  /\ Exit

\* Mutated Fail: the cache is saved although the build failed.
Fail_saves ==
  /\ result = "failure"
  /\ cacheFile' = cache
  /\ Exit

\* A failed run returns without saving.
Fail ==
  /\ result = "failure"
  /\ UNCHANGED cacheFile
  /\ Exit

\* The first SIGINT: the handler sets a flag that abt build never reads, and the
\* run goes on, whatever becomes of the tools it has started.
Interrupt ==
  /\ Interrupts
  /\ proc = "on" /\ ~interrupted
  /\ interrupted' = TRUE
  /\ UNCHANGED <<disk, proc, cache, state, result, place, hashed, history>>

\* The second SIGINT, SIGKILL, a crash.
Kill ==
  /\ Crashes
  /\ UNCHANGED cacheFile
  /\ Exit

Next ==
  \/ \E f \in Files : Edit(f)
  \/ EditUnhashed \/ Clean \/ StartBuild
  \/ \E u \in Units : HashInput(u) \/ Lookup(u) \/ Build(u)
  \/ \E t \in ToolTasks : BeginTool(t)
  \/ \E a \in Abis : Link(a)
  \/ \E t \in {PackTask, SignTask} : PackOrSign(t)
  \/ Return \/ Save \/ TornSave \/ Fail \/ Interrupt \/ Kill

Spec == Init /\ [][Next]_vars

-------------------------------------------------------------------------------
(* Properties *)

TypeOK ==
  /\ content \in [Files -> Versions]
  /\ unhashed \in 0 .. MaxUnhashed
  /\ cacheFile \in [Units -> Versions]
  /\ out \in [Units -> Outs]
  /\ lib \in [Abis -> [Sources -> Outs]]
  /\ proc \in {"off", "on"}
  /\ cache \in [Units -> Versions]
  /\ state \in [AllTasks -> {"PENDING", "RUNNING", "DONE", "FAILED"}]
  /\ result \in {"none", "success", "failure"}
  /\ place \in [Units -> {"idle", "lookup", "build"}]
  /\ hashed \in [Units -> Versions]
  /\ interrupted \in BOOLEAN
  /\ touched \subseteq Files
  /\ headers \in {"clean", "before run", "during run"}
  /\ reverted \subseteq Files /\ raced \subseteq Units

Succeeded == proc = "on" /\ result = "success"

\* A build that reports success has linked, for every ABI, objects made from
\* the sources as they are, however earlier runs failed or were killed, lookups
\* raced and files were edited meanwhile.  A source edited during this run may
\* be newer (its hash will differ next time), and one that was put back since
\* abt clean may be known to hashes.bin from the first time.
SuccessIsCurrent ==
  Succeeded => \A s \in Sources \ (touched \cup reverted), a \in Abis :
                 lib[a][s].input = content[s]

\* hashes.bin never flatters, at whatever moment abt is killed: if it has the
\* hash of the file as it is, the output was made from that file or is missing.
CacheIsHonest ==
  \A u \in Units : cacheFile[u] = content[Input[u]] /\ Input[u] \notin reverted =>
    out[u].input \in {content[Input[u]], 0}

\* The units that no file put back and no race on cache_ has come near since abt
\* clean, or since they were last made.
Undisturbed == {u \in Units \ raced : Input[u] \notin reverted}

\* A build that reports success has resources.ap_ made from the manifest as it
\* is, unless that was edited meanwhile.
ResourcesAreCurrent ==
  Succeeded /\ ResTask \in Undisturbed /\ Manifest \notin touched =>
    out[ResTask].input = content[Manifest]

\* After abt clean ("forcing a full rebuild", README) a successful run has made
\* its outputs from the headers, flags and resources as they are, until one of
\* them is edited.
CleanRebuildsAll ==
  Succeeded /\ headers = "clean" => \A u \in Undisturbed : out[u].rest = unhashed

\* A link that starts finds its objects: whatever fails, is killed or edited, no
\* source counts as up to date and has no object, so that no build could succeed
\* until abt clean.  The exceptions are the sources that were put back, and
\* those whose object a build in a race replaced.
LinkHasObjects ==
  \A s \in Sources, a \in Abis :
    state[LinkTask(a)] = "RUNNING" /\ CompileTask(s, a) \in Undisturbed =>
      out[CompileTask(s, a)].input # 0

\* "If the hash matches, the task is skipped with a (up to date) message"
\* (README.md:313): what is skipped is up to date, its output there and made from
\* the contents that were hashed.
SkippedIsUpToDate ==
  [][\A u \in Units : place[u] = "lookup" /\ state'[u] = "DONE" =>
       out[u].input = hashed[u]]_vars

\* "If the build is interrupted (Ctrl+C), ABT catches the signal and saves the
\* cache before exiting so progress is not lost" (README.md:315).
InterruptSaves ==
  [][interrupted /\ proc = "on" /\ proc' = "off" => cacheFile' = cache]_vars
===============================================================================
