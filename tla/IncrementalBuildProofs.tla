------------------------ MODULE IncrementalBuildProofs ------------------------
(***************************************************************************)
(* Proofs about IncrementalBuild, with any number of threads, races        *)
(* included, and with runs that are killed at any step.  ShapeInv is an    *)
(* inductive invariant, IInv strengthens it for the units whose file was   *)
(* not put back since abt clean, and WholeInv for those that were not      *)
(* looked up in a race either.                                             *)
(***************************************************************************)
EXTENDS IncrementalBuild, TLAPS, FiniteSetTheorems

-------------------------------------------------------------------------------
(* The inductive invariants *)

\* A unit is in its action exactly while its task runs.
PlaceInv == \A u \in Units : place[u] # "idle" <=> state[u] = "RUNNING"

\* What has started had its dependencies done.
GraphInv == \A t \in AllTasks : state[t] # "PENDING" => \A d \in Deps[t] : state[d] = "DONE"

\* What is linked has the objects as they are.
LinkInv ==
  \A a \in Abis : state[LinkTask(a)] = "DONE" => \A s \in Sources :
    lib[a][s] = out[CompileTask(s, a)] /\ out[CompileTask(s, a)].input # 0

\* A run that has not begun has done nothing, one that succeeded everything.
EndInv == /\ proc = "off" => /\ result = "none" /\ \A t \in AllTasks : state[t] = "PENDING"
                             /\ cache = NoCache /\ hashed = NoCache
          /\ result = "success" => \A t \in AllTasks : state[t] = "DONE"

ShapeInv == TypeOK /\ PlaceInv /\ GraphInv /\ LinkInv /\ EndInv

Now(u) == content[Input[u]]

\* The units whose file was not put back since abt clean.
Steady == {u \in Units : Input[u] \notin reverted}

\* Nothing is known of a version that has not been written yet.
BehindInv == \A u \in Steady : {cacheFile[u], cache[u], hashed[u], out[u].input} \subseteq 0 .. Now(u)

\* What is in memory of a unit before its lookup is what was loaded.
LoadInv ==
  proc = "on" => \A u \in Units :
    /\ state[u] = "PENDING" \/ place[u] = "lookup" => cache[u] = cacheFile[u]
    /\ place[u] = "lookup" /\ Input[u] \notin touched => hashed[u] = Now(u)

\* A unit that is done is as honest in memory as hashes.bin is on disk.
DoneInv ==
  \A u \in Steady : state[u] = "DONE" /\ (cache[u] = Now(u) \/ Input[u] \notin touched)
    => out[u].input \in {Now(u), 0}

IInv == ShapeInv /\ BehindInv /\ CacheIsHonest /\ LoadInv /\ DoneInv

Whole(u) == out[u].input # 0 /\ (headers = "clean" => out[u].rest = unhashed)

\* What is skipped is there, and after abt clean is made from the headers as
\* they are: until its save a build changes only units that hashes.bin knows an
\* older version of, or none.  A race can break it: it may have a unit built
\* that is up to date, and when that build fails, hashes.bin still has its entry.
WholeInv ==
  \A u \in Undisturbed :
    /\ cacheFile[u] # 0 /\ cacheFile[u] = Now(u) => Whole(u)
    /\ place[u] = "lookup" => /\ cacheFile[u] <= hashed[u]
                              /\ hashed[u] # 0 /\ cacheFile[u] = hashed[u] => Whole(u)
    /\ place[u] = "build" => cacheFile[u] = 0 \/ cacheFile[u] # Now(u)
    /\ state[u] = "DONE" => Whole(u)

\* With one thread no two tasks run at a time.
OneAtATime == \A t1, t2 \in Running : t1 = t2

LEMMA Shapes ==
  /\ ResTask \in Units /\ Units \subseteq AllTasks
  /\ \A s \in Sources, a \in Abis : CompileTask(s, a) \in Units
  /\ \A a \in Abis : LinkTask(a) \in ToolTasks /\ LinkTask(a) \notin Units
  /\ PackTask \in ToolTasks /\ PackTask \notin Units
  /\ SignTask \in ToolTasks /\ SignTask \notin Units
  /\ ToolTasks \subseteq AllTasks /\ ToolTasks \cap Units = {}
  /\ AllTasks = Units \cup ToolTasks
  /\ ToolTasks = LinkTasks \cup {PackTask, SignTask}
  BY DEF ResTask, Units, AllTasks, ToolTasks, CompileTasks, LinkTasks, CompileTask, LinkTask,
         PackTask, SignTask

LEMMA Inputs ==
  /\ Input \in [Units -> Files]
  /\ Input[ResTask] = Manifest
  /\ \A s \in Sources, a \in Abis : Input[CompileTask(s, a)] = s
  /\ \A u \in Units : Input[u] = Manifest => u = ResTask
<1>1. \A s \in Sources, a \in Abis : CompileTask(s, a) # ResTask /\ CompileTask(s, a)[2] = s
  BY DEF CompileTask, ResTask
<1>2. \A u \in Units : u = ResTask \/ \E s \in Sources, a \in Abis : u = CompileTask(s, a)
  BY DEF Units, CompileTasks
<1>3. \A u \in Units : (IF u = ResTask THEN Manifest ELSE u[2]) \in Files
  BY <1>1, <1>2 DEF Files
<1>4. \A s \in Sources, a \in Abis : Input[CompileTask(s, a)] = s
  BY <1>1, Shapes DEF Input
<1>5. \A u \in Units : Input[u] = Manifest => u = ResTask
  BY <1>2, <1>4, FilesAssumption
<1>6. Input \in [Units -> Files] /\ Input[ResTask] = Manifest
  BY <1>3, Shapes DEF Input
<1> QED BY <1>4, <1>5, <1>6

LEMMA Edges ==
  /\ \A u \in Units : Deps[u] = {}
  /\ \A a \in Abis : Deps[LinkTask(a)] = {CompileTask(s, a) : s \in Sources}
  /\ Deps[PackTask] = LinkTasks \cup {ResTask}
  /\ Deps[SignTask] = {PackTask}
<1>1. \A a \in Abis : LinkTask(a) \in LinkTasks /\ LinkTask(a)[2] = a
  BY DEF LinkTasks, LinkTask
<1>2. PackTask \notin LinkTasks /\ SignTask \notin LinkTasks /\ SignTask # PackTask
  BY DEF LinkTasks, LinkTask, PackTask, SignTask
<1>3. \A u \in Units : u \notin LinkTasks /\ u # PackTask /\ u # SignTask
  BY Shapes
<1> QED BY <1>1, <1>2, <1>3, Shapes DEF Deps

LEMMA DepsType == \A t \in AllTasks : Deps[t] \subseteq AllTasks
<1>1. \A t \in LinkTasks : \E a \in Abis : t = LinkTask(a)
  BY DEF LinkTasks
<1> QED BY <1>1, Shapes, Edges

\* The scheduler's tasks are those of the graph.
LEMMA SchedTasks == Sched!Tasks = AllTasks
  BY SortedAssumption DEF Sched!Tasks, Sched!Elements, IsTopologicalOrder, Elements

LEMMA Starts ==
  ASSUME NEW t, Sched!Start(t)
  PROVE  /\ result = "none" /\ result' = result
         /\ state[t] = "PENDING" /\ \A d \in Deps[t] : state[d] = "DONE"
         /\ state' = [state EXCEPT ![t] = "RUNNING"]
  BY DEF Sched!Start, Sched!Ready

LEMMA Finishes ==
  ASSUME NEW t, Sched!Finish(t)
  PROVE  /\ result' = result
         /\ state[t] = "RUNNING"
         /\ \E verdict \in {"DONE", "FAILED"} : state' = [state EXCEPT ![t] = verdict]
  BY DEF Sched!Finish

LEMMA VersionsAreNat == Versions = 0 .. MaxVersion /\ MaxVersion \in Nat /\ MaxVersion >= 1
  BY BoundsAssumption DEF Versions

-------------------------------------------------------------------------------
(* What holds whatever is edited: ShapeInv *)

LEMMA InitShape == Init => ShapeInv
<1> SUFFICES ASSUME Init PROVE ShapeInv
  OBVIOUS
<1> USE DEF Init
<1>1. content \in [Files -> Versions]
  BY VersionsAreNat DEF Files
<1>2. NoOut \in Outs /\ NoCache \in [Units -> Versions] /\ NoLib \in [Sources -> Outs]
  BY VersionsAreNat, BoundsAssumption DEF NoOut, Outs, NoCache, NoLib
<1>3. TypeOK
  <2>1. unhashed \in 0 .. MaxUnhashed
    BY BoundsAssumption
  <2>2. out \in [Units -> Outs] /\ lib \in [Abis -> [Sources -> Outs]]
    BY <1>2
  <2>3. /\ cacheFile \in [Units -> Versions] /\ cache \in [Units -> Versions]
        /\ hashed \in [Units -> Versions]
    BY <1>2
  <2> QED BY <1>1, <2>1, <2>2, <2>3 DEF TypeOK
<1>4. PlaceInv /\ GraphInv /\ LinkInv /\ EndInv
  BY Shapes DEF PlaceInv, GraphInv, LinkInv, EndInv
<1> QED BY <1>3, <1>4 DEF ShapeInv

LEMMA EditShape == ASSUME ShapeInv, NEW f \in Files, Edit(f) PROVE ShapeInv'
<1> USE DEF Edit, disk, process
<1>1. PICK v \in Versions : content' = [content EXCEPT ![f] = v]
  OBVIOUS
<1>2. content' \in [Files -> Versions]
  BY <1>1 DEF ShapeInv, TypeOK
<1>3. TypeOK'
  BY <1>2 DEF ShapeInv, TypeOK
<1>4. (PlaceInv /\ GraphInv /\ LinkInv /\ EndInv)'
  BY DEF ShapeInv, PlaceInv, GraphInv, LinkInv, EndInv
<1> QED BY <1>3, <1>4 DEF ShapeInv

\* Steps that leave alone everything the invariants relate.
LEMMA QuietFacts ==
  ASSUME ShapeInv, EditUnhashed \/ Interrupt \/ UNCHANGED vars
  PROVE  /\ UNCHANGED <<content, cacheFile, out, lib, proc, cache, state, result, place,
                        hashed, touched, reverted, raced>>
         /\ unhashed' \in 0 .. MaxUnhashed /\ interrupted' \in BOOLEAN
         /\ headers' \in {"clean", "before run", "during run"}
<1>1. CASE EditUnhashed
  <2>1. unhashed \in 0 .. MaxUnhashed /\ MaxUnhashed \in Nat
    BY BoundsAssumption DEF ShapeInv, TypeOK
  <2>2. unhashed < MaxUnhashed /\ unhashed' = unhashed + 1
    BY <1>1 DEF EditUnhashed
  <2>3. unhashed' \in 0 .. MaxUnhashed
    BY <2>1, <2>2
  <2>4. interrupted \in BOOLEAN
    BY DEF ShapeInv, TypeOK
  <2> QED BY <1>1, <2>3, <2>4 DEF EditUnhashed, process
<1>2. CASE Interrupt
  BY <1>2 DEF ShapeInv, TypeOK, Interrupt, disk, history
<1>3. CASE UNCHANGED vars
  BY <1>3 DEF ShapeInv, TypeOK, vars
<1> QED BY <1>1, <1>2, <1>3

LEMMA QuietShape ==
  ASSUME ShapeInv, EditUnhashed \/ Interrupt \/ UNCHANGED vars
  PROVE  ShapeInv'
<1>1. TypeOK'
  BY QuietFacts DEF ShapeInv, TypeOK
<1>2. (PlaceInv /\ GraphInv /\ LinkInv /\ EndInv)'
  BY QuietFacts DEF ShapeInv, PlaceInv, GraphInv, LinkInv, EndInv
<1> QED BY <1>1, <1>2 DEF ShapeInv

LEMMA CleanShape == ASSUME ShapeInv, Clean PROVE ShapeInv'
<1> USE DEF Clean, process
<1>1. NoOut \in Outs /\ NoCache \in [Units -> Versions] /\ NoLib \in [Sources -> Outs]
  BY VersionsAreNat, BoundsAssumption DEF NoOut, Outs, NoCache, NoLib
<1>2. TypeOK'
  BY <1>1 DEF ShapeInv, TypeOK
<1>3. LinkInv'
  BY Shapes DEF ShapeInv, EndInv, LinkInv
<1>4. (PlaceInv /\ GraphInv /\ EndInv)'
  BY DEF ShapeInv, PlaceInv, GraphInv, EndInv
<1> QED BY <1>2, <1>3, <1>4 DEF ShapeInv

LEMMA StartShape == ASSUME ShapeInv, StartBuild PROVE ShapeInv'
<1> USE DEF StartBuild, disk
<1>1. TypeOK'
  BY DEF ShapeInv, TypeOK
<1>2. (PlaceInv /\ GraphInv /\ LinkInv /\ EndInv)'
  BY DEF ShapeInv, PlaceInv, GraphInv, LinkInv, EndInv
<1> QED BY <1>1, <1>2 DEF ShapeInv

\* What a run may leave in hashes.bin as it ends.
LEMMA SavedEntries ==
  ASSUME ShapeInv, Save \/ TornSave \/ Fail \/ Kill
  PROVE  /\ cacheFile' \in [Units -> Versions]
         /\ \A u \in Units : \/ cacheFile'[u] = cacheFile[u]
                             \/ state[u] = "DONE" /\ cacheFile'[u] = cache[u]
                             \/ cacheFile'[u] = 0
<1>0. 0 \in Versions
  BY VersionsAreNat
<1>1. cacheFile \in [Units -> Versions] /\ cache \in [Units -> Versions]
  BY DEF ShapeInv, TypeOK
<1>2. result = "success" => \A u \in Units : state[u] = "DONE"
  BY Shapes DEF ShapeInv, EndInv
<1>3. CASE Save
  BY <1>1, <1>2, <1>3 DEF Save
<1>4. CASE TornSave
  BY <1>0, <1>1, <1>2, <1>4 DEF TornSave
<1>5. CASE Fail \/ Kill
  BY <1>1, <1>5 DEF Fail, Kill
<1> QED BY <1>3, <1>4, <1>5

LEMMA EndFacts ==
  ASSUME Save \/ TornSave \/ Fail \/ Kill
  PROVE  /\ proc' = "off" /\ cache' = NoCache /\ hashed' = NoCache /\ result' = "none"
         /\ state' = [t \in AllTasks |-> "PENDING"] /\ place' = [u \in Units |-> "idle"]
         /\ interrupted' = FALSE
         /\ UNCHANGED <<content, unhashed, out, lib, touched, headers, reverted, raced>>
BY DEF Save, TornSave, Fail, Kill, Exit, history

LEMMA EndShape ==
  ASSUME ShapeInv, Save \/ TornSave \/ Fail \/ Kill
  PROVE  ShapeInv'
<1>1. cacheFile' \in [Units -> Versions]
  BY SavedEntries
<1>2. NoCache \in [Units -> Versions]
  BY VersionsAreNat DEF NoCache
<1>3. TypeOK'
  BY <1>1, <1>2, EndFacts, Shapes DEF ShapeInv, TypeOK
<1>4. (PlaceInv /\ GraphInv /\ LinkInv /\ EndInv)'
  BY EndFacts, Shapes DEF PlaceInv, GraphInv, LinkInv, EndInv
<1> QED BY <1>3, <1>4 DEF ShapeInv

\* What the scheduler does to a task keeps the shape of a run.
LEMMA GraphStart ==
  ASSUME ShapeInv, NEW t \in AllTasks, Sched!Start(t)
  PROVE  GraphInv' /\ state' \in [AllTasks -> {"PENDING", "RUNNING", "DONE", "FAILED"}]
         /\ state'[t] = "RUNNING" /\ \A v \in AllTasks \ {t} : state'[v] = state[v]
<1>1. state \in [AllTasks -> {"PENDING", "RUNNING", "DONE", "FAILED"}]
  BY DEF ShapeInv, TypeOK
<1>2. /\ state[t] = "PENDING" /\ \A d \in Deps[t] : state[d] = "DONE"
      /\ state' = [state EXCEPT ![t] = "RUNNING"]
  BY Starts
<1> QED BY <1>1, <1>2, DepsType DEF ShapeInv, GraphInv

LEMMA GraphFinish ==
  ASSUME ShapeInv, NEW t \in AllTasks, Sched!Finish(t)
  PROVE  GraphInv' /\ state' \in [AllTasks -> {"PENDING", "RUNNING", "DONE", "FAILED"}]
         /\ state'[t] \in {"DONE", "FAILED"} /\ \A v \in AllTasks \ {t} : state'[v] = state[v]
<1>1. state \in [AllTasks -> {"PENDING", "RUNNING", "DONE", "FAILED"}]
  BY DEF ShapeInv, TypeOK
<1>2. /\ state[t] = "RUNNING"
      /\ \E verdict \in {"DONE", "FAILED"} : state' = [state EXCEPT ![t] = verdict]
  BY Finishes
<1> QED BY <1>1, <1>2, DepsType DEF ShapeInv, GraphInv

\* A task that starts or ends while the scheduler runs changes no verdict on it.
LEMMA EndKept ==
  ASSUME ShapeInv, proc = "on", NEW t \in AllTasks, Sched!Start(t) \/ Sched!Finish(t), proc' = proc
  PROVE  EndInv' /\ result # "success" /\ result' = result
<1>1. result' = result /\ state[t] \in {"PENDING", "RUNNING"}
  BY Starts, Finishes
<1>2. result # "success"
  BY <1>1 DEF ShapeInv, EndInv
<1> QED BY <1>1, <1>2 DEF EndInv

\* What hashing does to its unit.
LEMMA HashFacts ==
  ASSUME ShapeInv, NEW u \in Units, HashInput(u)
  PROVE  /\ GraphInv' /\ state' \in [AllTasks -> {"PENDING", "RUNNING", "DONE", "FAILED"}]
         /\ state'[u] = "RUNNING" /\ \A v \in AllTasks \ {u} : state'[v] = state[v]
         /\ state[u] = "PENDING" /\ EndInv' /\ result' = result
         /\ Now(u) \in Versions
         /\ hashed' = [hashed EXCEPT ![u] = Now(u)] /\ place' = [place EXCEPT ![u] = "lookup"]
         /\ hashed \in [Units -> Versions] /\ place \in [Units -> {"idle", "lookup", "build"}]
         /\ UNCHANGED <<content, cacheFile, out, lib, proc, cache, touched, reverted, raced>>
<1> USE DEF HashInput, Begin, disk, history
<1>0. Sched!Start(u) /\ u \in AllTasks
  BY Shapes
<1>1. /\ GraphInv' /\ state' \in [AllTasks -> {"PENDING", "RUNNING", "DONE", "FAILED"}]
      /\ state'[u] = "RUNNING" /\ \A v \in AllTasks \ {u} : state'[v] = state[v]
      /\ state[u] = "PENDING" /\ EndInv' /\ result' = result
  BY <1>0, GraphStart, EndKept, Starts
<1>2. Now(u) \in Versions
  BY Inputs DEF ShapeInv, TypeOK, Now
<1>3. /\ hashed' = [hashed EXCEPT ![u] = Now(u)] /\ place' = [place EXCEPT ![u] = "lookup"]
      /\ hashed \in [Units -> Versions] /\ place \in [Units -> {"idle", "lookup", "build"}]
      /\ UNCHANGED <<content, cacheFile, out, lib, proc, cache, touched, reverted, raced>>
  BY DEF ShapeInv, TypeOK, Now
<1> QED BY <1>1, <1>2, <1>3

LEMMA HashShape == ASSUME ShapeInv, NEW u \in Units, HashInput(u) PROVE ShapeInv'
<1>1. TypeOK'
  BY HashFacts DEF ShapeInv, TypeOK, HashInput, disk, history
<1>2. PlaceInv'
  BY HashFacts, Shapes DEF ShapeInv, PlaceInv
<1>3. LinkInv'
  BY HashFacts, Shapes DEF ShapeInv, LinkInv
<1> QED BY <1>1, <1>2, <1>3, HashFacts DEF ShapeInv

\* A lookup ends in a skip, or in a build with or without an entry.
Skips(u) ==
  /\ GraphInv' /\ state' \in [AllTasks -> {"PENDING", "RUNNING", "DONE", "FAILED"}]
  /\ state'[u] = "DONE" /\ \A v \in AllTasks \ {u} : state'[v] = state[v]
  /\ EndInv' /\ result' = result
  /\ cache' = cache /\ cache[u] = hashed[u] /\ place' = [place EXCEPT ![u] = "idle"]

Misses(u) ==
  /\ state' = state /\ result' = result
  /\ cache' \in [Units -> Versions] /\ place' \in [Units -> {"idle", "lookup", "build"}]
  /\ cache'[u] \in {cache[u], hashed[u]} /\ place'[u] = "build"
  /\ \A v \in Units \ {u} : cache'[v] = cache[v] /\ place'[v] = place[v]

LEMMA LookupFacts ==
  ASSUME ShapeInv, NEW u \in Units, Lookup(u)
  PROVE  /\ proc = "on" /\ place[u] = "lookup" /\ state[u] = "RUNNING" /\ u \in AllTasks
         /\ UNCHANGED <<content, unhashed, cacheFile, out, lib, proc, hashed, interrupted,
                        touched, headers, reverted>>
         /\ place \in [Units -> {"idle", "lookup", "build"}]
         /\ Skips(u) \/ Misses(u)
         /\ raced' = IF Racing(u) THEN raced \cup {u} ELSE raced
<1> USE DEF Lookup, disk
<1>1. /\ proc = "on" /\ place[u] = "lookup" /\ state[u] = "RUNNING" /\ u \in AllTasks
      /\ UNCHANGED <<content, unhashed, cacheFile, out, lib, proc, hashed, interrupted,
                     touched, headers, reverted>>
  BY Shapes DEF ShapeInv, PlaceInv
<1>2. /\ cache \in [Units -> Versions] /\ hashed \in [Units -> Versions]
      /\ place \in [Units -> {"idle", "lookup", "build"}]
  BY DEF ShapeInv, TypeOK
<1>3. ASSUME Sched!Finish(u), state'[u] = "DONE", cache' = cache, cache[u] = hashed[u],
             place' = [place EXCEPT ![u] = "idle"]
      PROVE  Skips(u)
  BY <1>1, <1>3, GraphFinish, EndKept DEF Skips
<1>4. ASSUME state' = state, result' = result,
             cache' = [cache EXCEPT ![u] = hashed[u]] \/ cache' = cache,
             place' = [place EXCEPT ![u] = "build"]
      PROVE  Misses(u)
  BY <1>2, <1>4 DEF Misses
<1> QED BY <1>1, <1>2, <1>3, <1>4

LEMMA LookupShape == ASSUME ShapeInv, NEW u \in Units, Lookup(u) PROVE ShapeInv'
<1>1. CASE Skips(u)
  <2> USE <1>1 DEF Skips
  <2>1. TypeOK'
    BY LookupFacts DEF ShapeInv, TypeOK
  <2>2. PlaceInv'
    BY LookupFacts, Shapes DEF ShapeInv, PlaceInv
  <2>3. LinkInv'
    <3>1. out' = out /\ lib' = lib
      BY LookupFacts
    <3>2. \A a \in Abis : state'[LinkTask(a)] = state[LinkTask(a)]
      BY Shapes
    <3>3. LinkInv
      BY DEF ShapeInv
    <3> QED BY <3>1, <3>2, <3>3 DEF LinkInv
  <2> QED BY <2>1, <2>2, <2>3 DEF ShapeInv
<1>2. CASE Misses(u)
  <2> USE <1>2 DEF Misses
  <2>1. TypeOK'
    BY LookupFacts DEF ShapeInv, TypeOK
  <2>2. PlaceInv'
    BY LookupFacts DEF ShapeInv, PlaceInv
  <2>3. (GraphInv /\ LinkInv /\ EndInv)'
    BY LookupFacts DEF ShapeInv, GraphInv, LinkInv, EndInv
  <2> QED BY <2>1, <2>2, <2>3 DEF ShapeInv
<1> QED BY <1>1, <1>2, LookupFacts

\* What a build does to its unit, and to nothing else.
LEMMA BuildFacts ==
  ASSUME ShapeInv, NEW u \in Units, Build(u)
  PROVE  /\ proc = "on" /\ place[u] = "build" /\ Sched!Finish(u) /\ u \in AllTasks
         /\ UNCHANGED <<unhashed, cacheFile, lib, proc, cache, hashed, interrupted, touched,
                        headers, reverted>>
         /\ place' = [place EXCEPT ![u] = "idle"]
         /\ Now(u) \in Versions /\ InputRead(u) \in Versions
         /\ InputRead(u) = Now(u) \/ (u = ResTask /\ Now(u) = 0 /\ InputRead(u) = 1)
         /\ Now(u)' = InputRead(u) /\ content' \in [Files -> Versions]
         /\ \A v \in Units \ {u} : Now(v)' = Now(v)
         /\ \E o \in Outs :
              /\ out' = [out EXCEPT ![u] = o]
              /\ \/ /\ state'[u] = "DONE" /\ InputRead(u) # 0
                    /\ o = [input |-> InputRead(u), rest |-> unhashed]
                    /\ raced' = raced \ {u}
                 \/ state'[u] = "FAILED" /\ o.input \in {out[u].input, 0} /\ raced' = raced
<1>1. /\ proc = "on" /\ place[u] = "build" /\ Sched!Finish(u) /\ u \in AllTasks
      /\ UNCHANGED <<unhashed, cacheFile, lib, proc, cache, hashed, interrupted, touched,
                     headers, reverted>>
      /\ content' = [content EXCEPT ![Input[u]] = InputRead(u)]
      /\ place' = [place EXCEPT ![u] = "idle"]
  BY Shapes DEF Build
<1>2. content \in [Files -> Versions] /\ Input[u] \in Files /\ Now(u) \in Versions
  BY Inputs DEF ShapeInv, TypeOK, Now
<1>3. /\ InputRead(u) \in Versions
      /\ InputRead(u) = Now(u) \/ (u = ResTask /\ Now(u) = 0 /\ InputRead(u) = 1)
  BY <1>2, Inputs, VersionsAreNat DEF InputRead, Now
<1>4. Now(u)' = InputRead(u) /\ content' \in [Files -> Versions]
  BY <1>1, <1>2, <1>3 DEF Now
<1>5. \A v \in Units \ {u} : Now(v)' = Now(v)
  <2>1. CASE InputRead(u) = Now(u)
    BY <1>1, <1>2, <2>1, Inputs DEF Now
  <2>2. CASE u = ResTask
    BY <1>1, <1>2, <2>2, Inputs DEF Now
  <2> QED BY <1>3, <2>1, <2>2
<1>6. \E o \in Outs :
        /\ out' = [out EXCEPT ![u] = o]
        /\ \/ /\ state'[u] = "DONE" /\ InputRead(u) # 0
              /\ o = [input |-> InputRead(u), rest |-> unhashed]
              /\ raced' = raced \ {u}
           \/ state'[u] = "FAILED" /\ o.input \in {out[u].input, 0} /\ raced' = raced
  <2>1. unhashed \in 0 .. MaxUnhashed /\ out[u] \in Outs
    BY DEF ShapeInv, TypeOK
  <2>2. [input |-> InputRead(u), rest |-> unhashed] \in Outs
    BY <1>3, <2>1 DEF Outs
  <2>3. NoOut \in Outs /\ NoOut.input = 0
    BY VersionsAreNat, BoundsAssumption DEF NoOut, Outs
  <2> QED BY <2>1, <2>2, <2>3 DEF Build
<1> QED BY <1>1, <1>2, <1>3, <1>4, <1>5, <1>6

LEMMA BuildShape == ASSUME ShapeInv, NEW u \in Units, Build(u) PROVE ShapeInv'
<1>1. /\ proc = "on" /\ Sched!Finish(u) /\ u \in AllTasks
      /\ UNCHANGED <<unhashed, cacheFile, lib, proc, cache, hashed, interrupted, touched,
                     headers, reverted>>
      /\ place' = [place EXCEPT ![u] = "idle"] /\ content' \in [Files -> Versions]
  BY BuildFacts
<1>2. /\ GraphInv' /\ state' \in [AllTasks -> {"PENDING", "RUNNING", "DONE", "FAILED"}]
      /\ state'[u] \in {"DONE", "FAILED"} /\ \A v \in AllTasks \ {u} : state'[v] = state[v]
      /\ state[u] = "RUNNING" /\ EndInv' /\ result' = result
  BY <1>1, GraphFinish, EndKept, Finishes
<1>3. PICK o \in Outs : out' = [out EXCEPT ![u] = o] /\ raced' \in {raced, raced \ {u}}
  BY BuildFacts
<1>4. /\ out \in [Units -> Outs] /\ out' \in [Units -> Outs]
      /\ \A v \in Units \ {u} : out'[v] = out[v]
      /\ place \in [Units -> {"idle", "lookup", "build"}]
  BY <1>3 DEF ShapeInv, TypeOK
<1>5. TypeOK'
  BY <1>1, <1>2, <1>3, <1>4 DEF ShapeInv, TypeOK
<1>6. PlaceInv'
  BY <1>1, <1>2, <1>4, Shapes DEF ShapeInv, PlaceInv
<1>7. LinkInv'
  <2> SUFFICES ASSUME NEW a \in Abis, state'[LinkTask(a)] = "DONE", NEW s \in Sources
               PROVE  lib[a][s] = out'[CompileTask(s, a)] /\ out'[CompileTask(s, a)].input # 0
    BY <1>1 DEF LinkInv
  <2>1. state[LinkTask(a)] = "DONE"
    BY <1>2, Shapes
  <2>2. state[CompileTask(s, a)] = "DONE"
    BY <2>1, Edges, Shapes DEF ShapeInv, GraphInv
  <2>3. out'[CompileTask(s, a)] = out[CompileTask(s, a)]
    BY <1>2, <1>4, <2>2, Shapes
  <2> QED BY <2>1, <2>3 DEF ShapeInv, LinkInv
<1> QED BY <1>2, <1>5, <1>6, <1>7 DEF ShapeInv

\* Linking, packing and signing.
Tools(t) == \/ BeginTool(t) \/ (t \in {PackTask, SignTask} /\ PackOrSign(t))
            \/ \E a \in Abis : t = LinkTask(a) /\ Link(a)

LEMMA ToolFacts ==
  ASSUME ShapeInv, NEW t \in ToolTasks, Tools(t)
  PROVE  /\ proc = "on"
         /\ Sched!Start(t) \/ Sched!Finish(t)
         /\ t \in AllTasks /\ t \notin Units
         /\ UNCHANGED <<content, unhashed, cacheFile, out, proc, cache, place, hashed,
                        interrupted, touched, headers, reverted, raced>>
         /\ GraphInv' /\ state' \in [AllTasks -> {"PENDING", "RUNNING", "DONE", "FAILED"}]
         /\ \A v \in AllTasks \ {t} : state'[v] = state[v]
         /\ EndInv' /\ result' = result
         /\ \A u \in Units : state'[u] = state[u] /\ Now(u)' = Now(u)
<1>1. /\ proc = "on"
      /\ Sched!Start(t) \/ Sched!Finish(t)
      /\ t \in AllTasks /\ t \notin Units
      /\ UNCHANGED <<content, unhashed, cacheFile, out, proc, cache, place, hashed,
                     interrupted, touched, headers, reverted, raced>>
  BY Shapes DEF Tools, BeginTool, Begin, PackOrSign, Link, disk, history
<1>2. /\ GraphInv' /\ state' \in [AllTasks -> {"PENDING", "RUNNING", "DONE", "FAILED"}]
      /\ \A v \in AllTasks \ {t} : state'[v] = state[v]
      /\ EndInv' /\ result' = result
  BY <1>1, GraphStart, GraphFinish, EndKept
<1>3. \A u \in Units : state'[u] = state[u] /\ Now(u)' = Now(u)
  BY <1>1, <1>2, Shapes DEF Now
<1> QED BY <1>1, <1>2, <1>3

LEMMA ToolShape == ASSUME ShapeInv, NEW t \in ToolTasks, Tools(t) PROVE ShapeInv'
<1>1. /\ t \in AllTasks
      /\ UNCHANGED <<content, unhashed, cacheFile, out, proc, cache, place, hashed,
                     interrupted, touched, headers, reverted, raced>>
      /\ GraphInv' /\ state' \in [AllTasks -> {"PENDING", "RUNNING", "DONE", "FAILED"}]
      /\ \A v \in AllTasks \ {t} : state'[v] = state[v]
      /\ EndInv' /\ result' = result
      /\ \A u \in Units : state'[u] = state[u]
  BY ToolFacts
<1>2. PlaceInv'
  BY <1>1 DEF ShapeInv, PlaceInv
<1>3. lib \in [Abis -> [Sources -> Outs]] /\ out \in [Units -> Outs]
  BY DEF ShapeInv, TypeOK
<1>4. CASE BeginTool(t) \/ (t \in {PackTask, SignTask} /\ PackOrSign(t))
  <2>1. lib' = lib
    BY <1>4 DEF BeginTool, PackOrSign, disk
  <2>2. \A a \in Abis : state'[LinkTask(a)] = "DONE" => state[LinkTask(a)] = "DONE"
    <3>1. CASE BeginTool(t)
      <4>1. state'[t] = "RUNNING"
        BY <1>1, <3>1, GraphStart DEF BeginTool, Begin
      <4> QED BY <1>1, <4>1, Shapes
    <3>2. CASE t \in {PackTask, SignTask}
      <4>1. \A a \in Abis : LinkTask(a) # t
        BY <3>2 DEF LinkTask, PackTask, SignTask
      <4> QED BY <1>1, <4>1, Shapes
    <3> QED BY <1>4, <3>1, <3>2
  <2>3. LinkInv'
    BY <1>1, <2>1, <2>2 DEF ShapeInv, LinkInv
  <2>4. TypeOK'
    BY <1>1, <1>3, <2>1 DEF ShapeInv, TypeOK
  <2> QED BY <1>1, <1>2, <2>3, <2>4 DEF ShapeInv
<1>5. ASSUME NEW a \in Abis, t = LinkTask(a), Link(a) PROVE ShapeInv'
  <2>1. \A b \in Abis \ {a} : LinkTask(b) # t
    BY <1>5 DEF LinkTask
  <2>2. NoLib \in [Sources -> Outs]
    BY VersionsAreNat, BoundsAssumption DEF NoLib, NoOut, Outs
  <2>3. [s \in Sources |-> out[CompileTask(s, a)]] \in [Sources -> Outs]
    BY <1>3, Shapes
  <2>4. PICK l \in [Sources -> Outs] :
          /\ lib' = [lib EXCEPT ![a] = l]
          /\ state'[t] = "DONE" => /\ ObjectsPresent(a)
                                   /\ l = [s \in Sources |-> out[CompileTask(s, a)]]
    BY <1>3, <1>5, <2>2, <2>3 DEF Link
  <2>5. lib'[a] = l /\ \A b \in Abis \ {a} : lib'[b] = lib[b]
    BY <1>3, <2>4
  <2>6. \A b \in Abis \ {a} : state'[LinkTask(b)] = state[LinkTask(b)]
    BY <1>1, <2>1, Shapes
  <2>7. LinkInv'
    BY <1>1, <1>5, <2>4, <2>5, <2>6 DEF ShapeInv, LinkInv, ObjectsPresent
  <2>8. lib' \in [Abis -> [Sources -> Outs]]
    BY <1>3, <2>4
  <2>9. TypeOK'
    BY <1>1, <2>8 DEF ShapeInv, TypeOK
  <2> QED BY <1>1, <1>2, <2>7, <2>9 DEF ShapeInv
<1> QED BY <1>4, <1>5 DEF Tools

\* A run that returns success has run every task: with nothing running, failed
\* or ready, no task of this graph can have been left out.
LEMMA ReturnShape == ASSUME ShapeInv, Return PROVE ShapeInv'
<1>1. /\ proc = "on" /\ result' \in {"success", "failure"} /\ state' = state
      /\ UNCHANGED <<content, unhashed, cacheFile, out, lib, proc, cache, place, hashed,
                     interrupted, touched, headers, reverted, raced>>
  BY DEF Return, disk, history, Sched!Return
<1>2. TypeOK'
  BY <1>1 DEF ShapeInv, TypeOK
<1>3. (PlaceInv /\ GraphInv /\ LinkInv)'
  BY <1>1 DEF ShapeInv, PlaceInv, GraphInv, LinkInv
<1>4. ASSUME result' = "success" PROVE \A t \in AllTasks : state[t] = "DONE"
  <2>1. /\ \A t \in AllTasks : state[t] \notin {"RUNNING", "FAILED"}
        /\ \A t \in AllTasks : ~(state[t] = "PENDING" /\ \A d \in Deps[t] : state[d] = "DONE")
    BY <1>4, SchedTasks DEF Return, Sched!Return, Sched!Stopped, Sched!SomeFailed, Sched!Ready
  <2>2. \A t \in AllTasks : (\A d \in Deps[t] : state[d] = "DONE") => state[t] = "DONE"
    BY <2>1 DEF ShapeInv, TypeOK
  <2>3. \A u \in Units : state[u] = "DONE"
    BY <2>2, Edges, Shapes
  <2>4. \A a \in Abis : state[LinkTask(a)] = "DONE"
    BY <2>2, <2>3, Edges, Shapes
  <2>5. \A t \in LinkTasks : state[t] = "DONE"
    BY <2>4 DEF LinkTasks
  <2>6. state[PackTask] = "DONE"
    BY <2>2, <2>3, <2>5, Edges, Shapes
  <2>7. state[SignTask] = "DONE"
    BY <2>2, <2>6, Edges, Shapes
  <2> QED BY <2>3, <2>5, <2>6, <2>7, Shapes
<1>5. EndInv'
  BY <1>1, <1>4 DEF EndInv
<1> QED BY <1>2, <1>3, <1>5 DEF ShapeInv

\* What a step can be.
LEMMA Steps ==
  ASSUME [Next]_vars
  PROVE  \/ \E f \in Files : Edit(f)
         \/ EditUnhashed \/ Interrupt \/ UNCHANGED vars
         \/ Clean \/ StartBuild \/ Return
         \/ \E u \in Units : HashInput(u) \/ Lookup(u) \/ Build(u)
         \/ \E t \in ToolTasks : Tools(t)
         \/ Save \/ TornSave \/ Fail \/ Kill
BY Shapes DEF Next, Tools

LEMMA ShapeStep == ASSUME ShapeInv, [Next]_vars PROVE ShapeInv'
BY Steps, EditShape, QuietShape, CleanShape, StartShape, EndShape, HashShape, LookupShape,
   BuildShape, ToolShape, ReturnShape

LEMMA ShapeInvariant == Spec => []ShapeInv
<1>1. ShapeInv /\ [Next]_vars => ShapeInv'
  BY ShapeStep
<1> QED BY <1>1, InitShape, PTL DEF Spec

-------------------------------------------------------------------------------
(* IInv *)

LEMMA InitInv == Init => IInv
<1> SUFFICES ASSUME Init PROVE IInv
  OBVIOUS
<1>1. ShapeInv
  BY InitShape
<1> USE DEF Init
<1>2. \A u \in Units : Now(u) \in Nat
  BY <1>1, Inputs, VersionsAreNat DEF Now, ShapeInv, TypeOK
<1>3. BehindInv
  BY <1>2 DEF BehindInv, Steady, NoCache, NoOut
<1>4. CacheIsHonest
  BY DEF CacheIsHonest, NoCache, NoOut
<1>5. LoadInv /\ DoneInv
  BY Shapes DEF LoadInv, DoneInv, Steady
<1> QED BY <1>1, <1>3, <1>4, <1>5 DEF IInv

\* What was behind a file stays behind it when it is given new contents, and what
\* claims to be equal to it no longer is.
LEMMA EditStep == ASSUME IInv, NEW f \in Files, Edit(f) PROVE IInv'
<1>1. ShapeInv'
  BY EditShape DEF IInv
<1> USE DEF Edit, process
<1>2. PICK v \in Versions : /\ content' = [content EXCEPT ![f] = v]
                          /\ reverted' = IF v > content[f] THEN reverted
                                                           ELSE reverted \cup {f}
  OBVIOUS
<1>3. content \in [Files -> Versions] /\ content' \in [Files -> Versions]
  BY <1>2 DEF IInv, ShapeInv, TypeOK
<1>4. \A u \in Units : Now(u) \in Nat /\ Now(u)' \in Nat
  BY <1>3, Inputs, VersionsAreNat DEF Now
<1>5. \A u \in Steady' : /\ u \in Steady
                         /\ Input[u] = f => Now(u)' > Now(u)
                         /\ Input[u] # f => Now(u)' = Now(u)
  BY <1>2, <1>3, Inputs, VersionsAreNat DEF Now, Steady
<1>6. BehindInv'
  <2> SUFFICES ASSUME NEW u \in Steady'
               PROVE  {cacheFile[u], cache[u], hashed[u], out[u].input} \subseteq 0 .. Now(u)'
    BY DEF BehindInv
  <2>1. u \in Units
    BY DEF Steady
  <2> QED BY <1>4, <1>5, <2>1 DEF IInv, BehindInv
<1>7. \A u \in Steady' : Input[u] # f =>
        /\ cacheFile[u] = Now(u) => out[u].input \in {Now(u), 0}
        /\ state[u] = "DONE" /\ (cache[u] = Now(u) \/ Input[u] \notin touched)
             => out[u].input \in {Now(u), 0}
  BY <1>5 DEF IInv, CacheIsHonest, DoneInv, Steady, Now
<1>8. \A u \in Steady' : Input[u] = f => cacheFile[u] # Now(u)' /\ cache[u] # Now(u)'
  <2> SUFFICES ASSUME NEW u \in Steady', Input[u] = f
               PROVE  cacheFile[u] # Now(u)' /\ cache[u] # Now(u)'
    OBVIOUS
  <2>1. u \in Units
    BY DEF Steady
  <2> QED BY <1>4, <1>5, <2>1 DEF IInv, BehindInv
<1>9. CacheIsHonest'
  BY <1>5, <1>7, <1>8 DEF CacheIsHonest, Steady, Now
<1>10. DoneInv'
  BY <1>5, <1>7, <1>8 DEF DoneInv
<1>11. LoadInv'
  <2>1. \A u \in Units : Input[u] # f => Now(u)' = Now(u)
    BY <1>2, <1>3, Inputs DEF Now
  <2> QED BY <2>1 DEF IInv, LoadInv
<1> QED BY <1>1, <1>6, <1>9, <1>10, <1>11 DEF IInv

LEMMA QuietStep ==
  ASSUME IInv, EditUnhashed \/ Interrupt \/ UNCHANGED vars
  PROVE  IInv'
<1>1. ShapeInv'
  BY QuietShape DEF IInv
<1>2. UNCHANGED <<content, cacheFile, out, proc, cache, state, place, hashed, touched, reverted>>
  BY QuietFacts DEF IInv
<1>3. \A u \in Units : Now(u)' = Now(u)
  BY <1>2 DEF Now
<1>4. (BehindInv /\ CacheIsHonest /\ DoneInv /\ LoadInv)'
  BY <1>2, <1>3 DEF IInv, BehindInv, CacheIsHonest, DoneInv, LoadInv, Steady
<1> QED BY <1>1, <1>4 DEF IInv

LEMMA CleanStep == ASSUME IInv, Clean PROVE IInv'
<1>1. ShapeInv'
  BY CleanShape DEF IInv
<1> USE DEF Clean, process
<1>2. \A u \in Units :
        /\ Now(u)' = Now(u) /\ Now(u) \in Nat /\ state[u] = "PENDING"
        /\ cache[u] = 0 /\ hashed[u] = 0
  <2>1. content \in [Files -> Versions]
    BY DEF IInv, ShapeInv, TypeOK
  <2>2. (\A t \in AllTasks : state[t] = "PENDING") /\ cache = NoCache /\ hashed = NoCache
    BY DEF IInv, ShapeInv, EndInv
  <2> QED BY <2>1, <2>2, Inputs, VersionsAreNat, Shapes DEF Now, NoCache
<1>3. \A u \in Units : cacheFile'[u] = 0 /\ out'[u].input = 0
  BY DEF NoCache, NoOut
<1>4. BehindInv'
  BY <1>2, <1>3 DEF BehindInv, Steady
<1>5. CacheIsHonest' /\ DoneInv'
  BY <1>2, <1>3 DEF CacheIsHonest, DoneInv, Steady
<1>6. LoadInv'
  BY DEF IInv, LoadInv
<1> QED BY <1>1, <1>4, <1>5, <1>6 DEF IInv

LEMMA StartStep == ASSUME IInv, StartBuild PROVE IInv'
<1>1. ShapeInv'
  BY StartShape DEF IInv
<1> USE DEF StartBuild, disk
<1>2. \A u \in Units : Now(u)' = Now(u) /\ state[u] = "PENDING" /\ place[u] = "idle"
  BY Shapes DEF IInv, ShapeInv, Now, EndInv, PlaceInv, TypeOK
<1>3. BehindInv' /\ CacheIsHonest'
  <2>1. Steady' = Steady /\ cacheFile' = cacheFile /\ cache' = cacheFile /\ hashed' = hashed
        /\ out' = out
    BY DEF Steady
  <2>2. BehindInv'
    BY <1>2, <2>1 DEF IInv, BehindInv, Steady
  <2>3. CacheIsHonest'
    BY <1>2, <2>1 DEF IInv, CacheIsHonest, Now
  <2> QED BY <2>2, <2>3
<1>4. LoadInv' /\ DoneInv'
  BY <1>2 DEF LoadInv, DoneInv, Steady
<1> QED BY <1>1, <1>3, <1>4 DEF IInv

\* A run that ends saves nothing, or what it has in memory of units that are all
\* done, or a part of it.
LEMMA EndStep ==
  ASSUME IInv, Save \/ TornSave \/ Fail \/ Kill
  PROVE  IInv'
<1>0. /\ cache' = NoCache /\ hashed' = NoCache /\ proc' = "off"
      /\ state' = [t \in AllTasks |-> "PENDING"] /\ place' = [u \in Units |-> "idle"]
      /\ UNCHANGED <<content, out, touched, reverted>>
  BY EndFacts
<1>1. ShapeInv'
  BY EndShape DEF IInv
<1>2. \A u \in Units : Now(u)' = Now(u) /\ Now(u) \in Nat
  <2>1. content \in [Files -> Versions]
    BY DEF IInv, ShapeInv, TypeOK
  <2> QED BY <1>0, <2>1, Inputs, VersionsAreNat DEF Now
<1>3. \A u \in Units : \/ cacheFile'[u] = cacheFile[u]
                       \/ state[u] = "DONE" /\ cacheFile'[u] = cache[u]
                       \/ cacheFile'[u] = 0
  BY SavedEntries DEF IInv
<1>4. BehindInv'
  <2>1. \A u \in Units : cache'[u] = 0 /\ hashed'[u] = 0
    BY <1>0 DEF NoCache
  <2>2. \A u \in Steady : cacheFile'[u] \in 0 .. Now(u) /\ out[u].input \in 0 .. Now(u)
    BY <1>2, <1>3 DEF IInv, BehindInv, Steady
  <2> QED BY <1>0, <1>2, <2>1, <2>2 DEF BehindInv, Steady
<1>5. CacheIsHonest'
  <2> SUFFICES ASSUME NEW u \in Steady, u \in Units, cacheFile'[u] = Now(u)
               PROVE  out[u].input \in {Now(u), 0}
    BY <1>0 DEF CacheIsHonest, Now, Steady
  <2>1. CASE cacheFile'[u] = cacheFile[u]
    BY <2>1 DEF IInv, CacheIsHonest, Now, Steady
  <2>2. CASE state[u] = "DONE" /\ cacheFile'[u] = cache[u]
    BY <2>2 DEF IInv, DoneInv
  <2>3. CASE cacheFile'[u] = 0
    <3>1. Now(u) = 0 /\ out[u].input \in 0 .. Now(u)
      BY <2>3 DEF IInv, BehindInv
    <3> QED BY <3>1
  <2> QED BY <1>3, <2>1, <2>2, <2>3
<1>6. LoadInv' /\ DoneInv'
  BY <1>0, Shapes DEF LoadInv, DoneInv, Steady
<1> QED BY <1>1, <1>4, <1>5, <1>6 DEF IInv

LEMMA HashStep == ASSUME IInv, NEW u \in Units, HashInput(u) PROVE IInv'
<1>1. ShapeInv'
  BY HashShape DEF IInv
<1>2. /\ state'[u] = "RUNNING" /\ \A v \in AllTasks \ {u} : state'[v] = state[v]
      /\ state[u] = "PENDING" /\ Now(u) \in Versions
      /\ hashed' = [hashed EXCEPT ![u] = Now(u)] /\ place' = [place EXCEPT ![u] = "lookup"]
      /\ hashed \in [Units -> Versions] /\ place \in [Units -> {"idle", "lookup", "build"}]
      /\ UNCHANGED <<content, cacheFile, out, lib, proc, cache, touched, reverted>>
  BY HashFacts DEF IInv
<1>3. \A v \in Units : Now(v)' = Now(v)
  BY <1>2 DEF Now
<1>4. BehindInv'
  <2>1. Now(u) \in 0 .. Now(u)
    BY <1>2, VersionsAreNat
  <2> QED BY <1>2, <1>3, <2>1 DEF IInv, BehindInv, Steady
<1>5. CacheIsHonest'
  BY <1>2, <1>3 DEF IInv, CacheIsHonest, Now, Steady
<1>6. LoadInv'
  BY <1>2, <1>3, Shapes DEF IInv, LoadInv
<1>7. DoneInv'
  BY <1>2, <1>3, Shapes DEF IInv, DoneInv, Steady
<1> QED BY <1>1, <1>4, <1>5, <1>6, <1>7 DEF IInv

\* A skip is honest because hashes.bin is; an entry made now is kept only if
\* what it announces is built.
LEMMA LookupStep == ASSUME IInv, NEW u \in Units, Lookup(u) PROVE IInv'
<1>1. ShapeInv'
  BY LookupShape DEF IInv
<1>2. /\ proc = "on" /\ place[u] = "lookup" /\ state[u] = "RUNNING" /\ u \in AllTasks
      /\ UNCHANGED <<content, unhashed, cacheFile, out, lib, proc, hashed, interrupted,
                     touched, headers, reverted>>
      /\ place \in [Units -> {"idle", "lookup", "build"}]
      /\ Skips(u) \/ Misses(u)
  BY LookupFacts DEF IInv
<1>3. cache[u] = cacheFile[u] /\ (Input[u] \notin touched => hashed[u] = Now(u))
  BY <1>2 DEF IInv, LoadInv
<1>4. \A v \in Units : Now(v)' = Now(v)
  BY <1>2 DEF Now
<1>5. CacheIsHonest'
  BY <1>2, <1>4 DEF IInv, CacheIsHonest, Now, Steady
<1>6. CASE Skips(u)
  <2>1. BehindInv'
    BY <1>2, <1>4, <1>6 DEF IInv, BehindInv, Skips, Steady
  <2>2. u \in Steady /\ (cache[u] = Now(u) \/ Input[u] \notin touched)
          => out[u].input \in {Now(u), 0}
    BY <1>3, <1>6 DEF IInv, CacheIsHonest, Now, Skips, Steady
  <2>3. DoneInv'
    BY <1>2, <1>4, <1>6, <2>2, Shapes DEF IInv, DoneInv, Skips, Steady
  <2>4. LoadInv'
    BY <1>2, <1>4, <1>6, Shapes DEF IInv, LoadInv, Skips
  <2> QED BY <1>1, <1>5, <2>1, <2>3, <2>4 DEF IInv
<1>7. CASE Misses(u)
  <2>1. BehindInv'
    BY <1>2, <1>4, <1>7 DEF IInv, BehindInv, Misses, Steady
  <2>2. LoadInv'
    BY <1>2, <1>4, <1>7 DEF IInv, LoadInv, Misses
  <2>3. DoneInv'
    BY <1>2, <1>4, <1>7 DEF IInv, DoneInv, Misses, Steady
  <2> QED BY <1>1, <1>5, <2>1, <2>2, <2>3 DEF IInv
<1> QED BY <1>2, <1>6, <1>7

\* The tool reads the file as it is, which is not older than what was hashed.
LEMMA BuildStep == ASSUME IInv, NEW u \in Units, Build(u) PROVE IInv'
<1>0. ShapeInv /\ ShapeInv'
  BY BuildShape DEF IInv
<1>1. /\ proc = "on" /\ place[u] = "build" /\ Sched!Finish(u) /\ u \in AllTasks
      /\ UNCHANGED <<unhashed, cacheFile, lib, proc, cache, hashed, interrupted, touched,
                     headers, reverted>>
      /\ place' = [place EXCEPT ![u] = "idle"]
  BY <1>0, BuildFacts
<1>2. /\ state'[u] \in {"DONE", "FAILED"} /\ \A v \in AllTasks \ {u} : state'[v] = state[v]
      /\ state[u] = "RUNNING"
  BY <1>0, <1>1, GraphFinish, Finishes
<1>3. Now(u) \in Versions
  BY <1>0, BuildFacts
<1>4. InputRead(u) = Now(u) \/ (u = ResTask /\ Now(u) = 0 /\ InputRead(u) = 1)
  BY <1>0, BuildFacts
<1>5. Now(u)' = InputRead(u) /\ InputRead(u) \in Versions
  BY <1>0, BuildFacts
<1>6. \A v \in Units \ {u} : Now(v)' = Now(v)
  BY <1>0, BuildFacts
<1>8. PICK o \in Outs :
        /\ out' = [out EXCEPT ![u] = o]
        /\ \/ state'[u] = "DONE" /\ o.input = InputRead(u)
           \/ state'[u] = "FAILED" /\ o.input \in {out[u].input, 0}
  BY <1>0, BuildFacts
<1>9. /\ out'[u] = o /\ \A v \in Units \ {u} : out'[v] = out[v]
      /\ place \in [Units -> {"idle", "lookup", "build"}]
  BY <1>0, <1>8 DEF ShapeInv, TypeOK
<1>11. BehindInv'
  <2>1. Now(u) \in Nat /\ Now(u)' \in Nat /\ Now(u) <= Now(u)'
    BY <1>3, <1>4, <1>5, VersionsAreNat
  <2>2. u \in Steady => {cacheFile[u], cache[u], hashed[u], out[u].input} \subseteq 0 .. Now(u)'
    BY <2>1 DEF IInv, BehindInv, Steady
  <2>3. u \in Steady => o.input \in 0 .. Now(u)'
    BY <1>5, <1>8, <2>1, <2>2
  <2>4. u \in Steady => {cacheFile[u], cache[u], hashed[u], o.input} \subseteq 0 .. Now(u)'
    BY <2>2, <2>3
  <2>5. \A v \in Steady \ {u} :
          {cacheFile[v], cache[v], hashed[v], out[v].input} \subseteq 0 .. Now(v)'
    BY <1>6 DEF IInv, BehindInv, Steady
  <2> QED BY <1>1, <1>9, <2>4, <2>5 DEF BehindInv, Steady
<1>12. CacheIsHonest'
  <2>1. ASSUME u \in Steady, cacheFile[u] = Now(u)' PROVE o.input \in {Now(u)', 0}
    <3>1. CASE InputRead(u) = Now(u)
      <4>1. out[u].input \in {Now(u), 0}
        BY <1>5, <2>1, <3>1 DEF IInv, CacheIsHonest, Now, Steady
      <4> QED BY <1>5, <1>8, <3>1, <4>1
    <3>2. CASE Now(u) = 0 /\ InputRead(u) = 1
      <4>1. cacheFile[u] \in 0 .. 0
        BY <2>1, <3>2 DEF IInv, BehindInv
      <4> QED BY <1>5, <2>1, <3>2, <4>1
    <3> QED BY <1>4, <3>1, <3>2
  <2>2. \A v \in Steady \ {u} : cacheFile[v] = Now(v)' => out'[v].input \in {Now(v)', 0}
    BY <1>6, <1>9 DEF IInv, CacheIsHonest, Now, Steady
  <2> QED BY <1>1, <1>9, <2>1, <2>2 DEF CacheIsHonest, Now, Steady
<1>13. DoneInv'
  <2>1. state'[u] = "DONE" => o.input = Now(u)'
    BY <1>5, <1>8
  <2> QED BY <1>1, <1>2, <1>6, <1>9, <2>1, Shapes DEF IInv, DoneInv, Steady
<1>14. LoadInv'
  <2>1. state'[u] # "PENDING" /\ place'[u] = "idle"
    BY <1>1, <1>2, <1>9
  <2>2. \A v \in Units \ {u} : state'[v] = state[v] /\ place'[v] = place[v]
    BY <1>1, <1>2, <1>9, Shapes
  <2> QED BY <1>1, <1>6, <2>1, <2>2 DEF IInv, LoadInv
<1> QED BY <1>0, <1>11, <1>12, <1>13, <1>14 DEF IInv

LEMMA ToolStep == ASSUME IInv, NEW t \in ToolTasks, Tools(t) PROVE IInv'
<1>1. ShapeInv /\ ShapeInv'
  BY ToolShape DEF IInv
<1>2. /\ UNCHANGED <<content, unhashed, cacheFile, out, proc, cache, place, hashed,
                     interrupted, touched, headers, reverted, raced>>
      /\ \A u \in Units : state'[u] = state[u] /\ Now(u)' = Now(u)
  BY <1>1, ToolFacts
<1>3. (BehindInv /\ CacheIsHonest /\ LoadInv /\ DoneInv)'
  BY <1>2 DEF IInv, BehindInv, CacheIsHonest, LoadInv, DoneInv, Now, Steady
<1> QED BY <1>1, <1>3 DEF IInv

LEMMA ReturnStep == ASSUME IInv, Return PROVE IInv'
<1>1. ShapeInv'
  BY ReturnShape DEF IInv
<1>2. /\ state' = state
      /\ UNCHANGED <<content, unhashed, cacheFile, out, lib, proc, cache, place, hashed,
                     interrupted, touched, headers, reverted, raced>>
  BY DEF Return, disk, history, Sched!Return
<1>3. \A u \in Units : Now(u)' = Now(u)
  BY <1>2 DEF Now
<1>4. (BehindInv /\ CacheIsHonest /\ LoadInv /\ DoneInv)'
  BY <1>2, <1>3 DEF IInv, BehindInv, CacheIsHonest, LoadInv, DoneInv, Now, Steady
<1> QED BY <1>1, <1>4 DEF IInv

-------------------------------------------------------------------------------
(* What is skipped is whole: WholeInv on top of IInv *)

LEMMA InitWhole == Init => WholeInv
BY Shapes DEF Init, WholeInv, NoCache, Undisturbed

\* An edit makes what hashes.bin knows of the file older than the file.
LEMMA EditWhole ==
  ASSUME IInv, WholeInv, NEW f \in Files, Edit(f) PROVE WholeInv'
<1>1. PICK v \in Versions : /\ content' = [content EXCEPT ![f] = v]
                          /\ reverted' = IF v > content[f] THEN reverted
                                                           ELSE reverted \cup {f}
  BY DEF Edit
<1>2. UNCHANGED <<unhashed, headers, cacheFile, out, hashed, place, state, raced>>
  BY DEF Edit, process
<1>3. content \in [Files -> Versions]
  BY DEF IInv, ShapeInv, TypeOK
<1>4. \A u \in Undisturbed' :
        /\ u \in Undisturbed /\ u \in Steady /\ Now(u) \in Nat /\ Now(u)' \in Nat
        /\ Input[u] = f => Now(u)' > Now(u)
        /\ Input[u] # f => Now(u)' = Now(u)
  BY <1>1, <1>2, <1>3, Inputs, VersionsAreNat DEF Now, Undisturbed, Steady
<1>5. \A u \in Units : Whole(u)' <=> Whole(u)
  BY <1>2 DEF Whole
<1>6. \A u \in Steady : cacheFile[u] \in 0 .. Now(u)
  BY DEF IInv, BehindInv
<1>7. \A u \in Undisturbed' : cacheFile[u] = Now(u)' => Now(u)' = Now(u)
  BY <1>4, <1>6
<1> QED BY <1>2, <1>4, <1>5, <1>7 DEF WholeInv, Undisturbed

\* Steps that leave every unit alone.
LEMMA QuietWhole ==
  ASSUME IInv, WholeInv,
         \/ EditUnhashed \/ Interrupt \/ StartBuild \/ Return \/ UNCHANGED vars
         \/ \E t \in ToolTasks : BeginTool(t)
         \/ \E a \in Abis : Link(a)
         \/ \E t \in {PackTask, SignTask} : PackOrSign(t)
  PROVE  WholeInv'
<1>1. /\ UNCHANGED <<content, cacheFile, out, hashed, place, reverted, raced>>
      /\ headers' = "clean" => headers = "clean" /\ unhashed' = unhashed
  <2>1. CASE EditUnhashed
    BY <2>1 DEF EditUnhashed, process
  <2>2. CASE StartBuild
    BY <2>2 DEF StartBuild, disk
  <2>3. CASE Interrupt \/ Return \/ UNCHANGED vars
    BY <2>3 DEF Interrupt, Return, vars, disk, history
  <2>4. CASE \/ \E t \in ToolTasks : BeginTool(t)
             \/ \E a \in Abis : Link(a)
             \/ \E t \in {PackTask, SignTask} : PackOrSign(t)
    BY <2>4 DEF BeginTool, Link, PackOrSign, disk, history
  <2> QED BY <2>1, <2>2, <2>3, <2>4
<1>2. \A u \in Units : state'[u] = state[u]
  <2>1. CASE EditUnhashed \/ Interrupt \/ StartBuild \/ Return \/ UNCHANGED vars
    BY <2>1 DEF EditUnhashed, Interrupt, StartBuild, Return, vars, process, Sched!Return
  <2>2. ASSUME NEW t \in ToolTasks, Sched!Start(t) \/ Sched!Finish(t)
        PROVE  \A u \in Units : state'[u] = state[u]
    BY <2>2, GraphStart, GraphFinish, Shapes DEF IInv
  <2>3. CASE \E t \in ToolTasks : BeginTool(t)
    BY <2>2, <2>3 DEF BeginTool, Begin
  <2>4. CASE \E a \in Abis : Link(a)
    BY <2>2, <2>4, Shapes DEF Link
  <2>5. CASE \E t \in {PackTask, SignTask} : PackOrSign(t)
    BY <2>2, <2>5, Shapes DEF PackOrSign
  <2> QED BY <2>1, <2>3, <2>4, <2>5
<1>3. \A u \in Units : (Whole(u) => Whole(u)') /\ Now(u)' = Now(u)
  BY <1>1 DEF Whole, Now
<1> QED BY <1>1, <1>2, <1>3 DEF WholeInv, Undisturbed

LEMMA CleanWhole == ASSUME IInv, Clean PROVE WholeInv'
<1>1. /\ \A u \in Units : cacheFile'[u] = 0 /\ state'[u] = "PENDING" /\ place'[u] = "idle"
  BY Shapes DEF Clean, process, NoCache, IInv, ShapeInv, EndInv, PlaceInv, TypeOK
<1> QED BY <1>1 DEF WholeInv, Undisturbed

\* What a run saves of a unit is what it has done.
LEMMA EndWhole ==
  ASSUME IInv, WholeInv, Save \/ TornSave \/ Fail \/ Kill PROVE WholeInv'
<1>1. /\ \A u \in Units : state'[u] = "PENDING" /\ place'[u] = "idle"
      /\ UNCHANGED <<content, unhashed, out, headers, reverted, raced>>
  BY Shapes DEF Save, TornSave, Fail, Kill, Exit, history
<1>2. \A u \in Units : (Whole(u)' <=> Whole(u)) /\ Now(u)' = Now(u)
  BY <1>1 DEF Whole, Now
<1>3. \A u \in Units : \/ cacheFile'[u] = cacheFile[u] \/ state[u] = "DONE" \/ cacheFile'[u] = 0
  BY SavedEntries DEF IInv
<1>4. \A u \in Undisturbed : cacheFile'[u] # 0 /\ cacheFile'[u] = Now(u) => Whole(u)
  BY <1>3 DEF WholeInv, Undisturbed
<1> QED BY <1>1, <1>2, <1>4 DEF WholeInv, Undisturbed

LEMMA HashWhole ==
  ASSUME IInv, WholeInv, NEW u \in Units, HashInput(u) PROVE WholeInv'
<1>1. /\ hashed' = [hashed EXCEPT ![u] = Now(u)] /\ place' = [place EXCEPT ![u] = "lookup"]
      /\ hashed \in [Units -> Versions] /\ place \in [Units -> {"idle", "lookup", "build"}]
      /\ UNCHANGED <<content, unhashed, headers, cacheFile, out, reverted, raced>>
  BY DEF HashInput, disk, history, IInv, ShapeInv, TypeOK, Now
<1>2. Sched!Start(u) /\ u \in AllTasks
  BY Shapes DEF HashInput, Begin
<1>3. state'[u] = "RUNNING" /\ \A v \in Units \ {u} : state'[v] = state[v]
  BY <1>2, GraphStart, Shapes DEF IInv
<1>4. \A v \in Units : (Whole(v)' <=> Whole(v)) /\ Now(v)' = Now(v)
  BY <1>1 DEF Whole, Now
<1>5. u \in Undisturbed => cacheFile[u] \in 0 .. Now(u) /\ Now(u) \in Nat
  <2>1. content \in [Files -> Versions]
    BY DEF IInv, ShapeInv, TypeOK
  <2> QED BY <2>1, Inputs, VersionsAreNat DEF IInv, BehindInv, Steady, Undisturbed, Now
<1>6. /\ cacheFile'[u] = cacheFile[u] /\ hashed'[u] = Now(u) /\ place'[u] = "lookup"
      /\ u \in Undisturbed =>
           /\ cacheFile[u] <= Now(u)
           /\ cacheFile[u] # 0 /\ cacheFile[u] = Now(u) => Whole(u)
  BY <1>1, <1>5 DEF WholeInv
<1>7. \A v \in Units \ {u} : /\ cacheFile'[v] = cacheFile[v] /\ hashed'[v] = hashed[v]
                             /\ place'[v] = place[v]
  BY <1>1
<1> QED BY <1>1, <1>3, <1>4, <1>6, <1>7 DEF WholeInv, Undisturbed

\* A skip leaves what hashes.bin promised; without a race only what is new or
\* changed is built.
LEMMA LookupWhole ==
  ASSUME IInv, WholeInv, NEW u \in Units, Lookup(u) PROVE WholeInv'
<1>1. /\ proc = "on" /\ place[u] = "lookup" /\ u \in AllTasks
      /\ UNCHANGED <<content, unhashed, headers, cacheFile, out, hashed, reverted>>
      /\ place \in [Units -> {"idle", "lookup", "build"}]
  BY LookupFacts DEF IInv
<1>2. cache[u] = cacheFile[u]
  BY <1>1 DEF IInv, LoadInv
<1>3. \A v \in Units : (Whole(v)' <=> Whole(v)) /\ Now(v)' = Now(v)
  BY <1>1 DEF Whole, Now
<1>4. /\ Undisturbed' \subseteq Undisturbed
      /\ u \in Undisturbed' => ~Racing(u)
  <2>1. raced' = IF Racing(u) THEN raced \cup {u} ELSE raced
    BY LookupFacts DEF IInv
  <2> QED BY <1>1, <2>1 DEF Undisturbed
<1>5. u \in Undisturbed =>
        /\ cacheFile[u] <= hashed[u]
        /\ hashed[u] # 0 /\ cacheFile[u] = hashed[u] => Whole(u)
  BY <1>1 DEF WholeInv
<1>6. CASE /\ hashed[u] # 0 /\ cache[u] = hashed[u]
           /\ Sched!Finish(u) /\ place' = [place EXCEPT ![u] = "idle"]
  <2>1. \A v \in Units \ {u} : state'[v] = state[v] /\ place'[v] = place[v]
    BY <1>1, <1>6, GraphFinish, Shapes DEF IInv
  <2>2. place'[u] = "idle" /\ (u \in Undisturbed => Whole(u))
    BY <1>1, <1>2, <1>5, <1>6
  <2> QED BY <1>1, <1>3, <1>4, <2>1, <2>2 DEF WholeInv, Undisturbed
<1>7. CASE /\ hashed[u] = 0 \/ cache[u] # hashed[u] \/ Racing(u)
           /\ place' = [place EXCEPT ![u] = "build"] /\ state' = state
  <2>1. place'[u] = "build" /\ \A v \in Units \ {u} : place'[v] = place[v]
    BY <1>1, <1>7
  <2>2. u \in Undisturbed =>
          cacheFile[u] \in 0 .. Now(u) /\ hashed[u] \in 0 .. Now(u) /\ Now(u) \in Nat
    <3>1. content \in [Files -> Versions]
      BY DEF IInv, ShapeInv, TypeOK
    <3> QED BY <3>1, Inputs, VersionsAreNat DEF IInv, BehindInv, Steady, Undisturbed, Now
  <2>3. u \in Undisturbed' => cacheFile[u] = 0 \/ cacheFile[u] # Now(u)
    BY <1>2, <1>4, <1>5, <1>7, <2>2
  <2>4. u \in Undisturbed => (cacheFile[u] # 0 /\ cacheFile[u] = Now(u) => Whole(u))
    BY DEF WholeInv
  <2>5. state[u] # "DONE"
    BY <1>1 DEF IInv, ShapeInv, PlaceInv
  <2> QED BY <1>1, <1>3, <1>4, <1>7, <2>1, <2>3, <2>4, <2>5 DEF WholeInv, Undisturbed
<1> QED BY <1>1, <1>6, <1>7 DEF Lookup

\* What is built is whole if the tool succeeds; if it fails, hashes.bin has no
\* entry for the file as it is.
LEMMA BuildWhole ==
  ASSUME IInv, WholeInv, NEW u \in Units, Build(u) PROVE WholeInv'
<1>1. /\ place[u] = "build" /\ Sched!Finish(u) /\ u \in AllTasks
      /\ UNCHANGED <<unhashed, cacheFile, hashed, headers, reverted>>
      /\ place' = [place EXCEPT ![u] = "idle"]
  BY BuildFacts DEF IInv
<1>2. \A v \in Units \ {u} : Now(v)' = Now(v)
  BY BuildFacts DEF IInv
<1>3. PICK o \in Outs :
        /\ out' = [out EXCEPT ![u] = o]
        /\ \/ /\ state'[u] = "DONE" /\ InputRead(u) # 0
              /\ o = [input |-> InputRead(u), rest |-> unhashed]
              /\ raced' = raced \ {u}
           \/ state'[u] = "FAILED" /\ o.input \in {out[u].input, 0} /\ raced' = raced
  BY BuildFacts DEF IInv
<1>4. /\ out'[u] = o /\ place'[u] = "idle"
      /\ \A v \in Units \ {u} : out'[v] = out[v] /\ place'[v] = place[v]
  BY <1>1, <1>3 DEF IInv, ShapeInv, TypeOK
<1>5. \A v \in Units \ {u} : state'[v] = state[v]
  BY <1>1, GraphFinish, Shapes DEF IInv
<1>6. \A v \in Units \ {u} : Whole(v)' <=> Whole(v)
  BY <1>1, <1>4 DEF Whole
<1>7. state'[u] = "DONE" => Whole(u)'
  BY <1>1, <1>3, <1>4 DEF Whole
<1>8. /\ Undisturbed' \subseteq Undisturbed \cup {u}
      /\ state'[u] # "DONE" => Undisturbed' = Undisturbed
      /\ Undisturbed' \subseteq Units
  BY <1>1, <1>3 DEF Undisturbed
<1>9. CASE state'[u] # "DONE"
  <2>1. u \in Undisturbed => cacheFile[u] = 0 \/ cacheFile[u] # Now(u)
    BY <1>1 DEF WholeInv
  <2>2. Now(u)' = Now(u) \/ Now(u) = 0
    BY BuildFacts DEF IInv
  <2>3. u \in Undisturbed => cacheFile[u] \in 0 .. Now(u)
    BY DEF IInv, BehindInv, Steady, Undisturbed
  <2>4. u \in Undisturbed /\ Now(u) = 0 => cacheFile[u] = 0
    BY <2>3
  <2>5. u \in Undisturbed => cacheFile'[u] = 0 \/ cacheFile'[u] # Now(u)'
    BY <1>1, <2>1, <2>2, <2>4
  <2>6. \A v \in Undisturbed' : v \in Units /\ v \in Undisturbed
    BY <1>8, <1>9
  <2> QED BY <1>1, <1>2, <1>4, <1>5, <1>6, <1>9, <2>5, <2>6 DEF WholeInv
<1>10. CASE state'[u] = "DONE"
  <2>1. \A v \in Undisturbed' : v \in Units /\ (v # u => v \in Undisturbed)
    BY <1>8
  <2> QED BY <1>1, <1>2, <1>4, <1>5, <1>6, <1>7, <1>10, <2>1 DEF WholeInv
<1> QED BY <1>9, <1>10

LEMMA WholeStep == ASSUME IInv, WholeInv, [Next]_vars PROVE WholeInv'
<1>1. CASE UNCHANGED vars
  BY <1>1, QuietWhole
<1>2. CASE Next
  BY <1>2, EditWhole, QuietWhole, CleanWhole, EndWhole, HashWhole, LookupWhole, BuildWhole DEF Next
<1> QED BY <1>1, <1>2

\* A scheduler with one thread starts a task only when none is running.
LEMMA InitOne == Init => OneAtATime
BY DEF Init, OneAtATime, Running

LEMMA FiniteTasks == IsFiniteSet(AllTasks)
<1>1. Len(Sorted) \in Nat /\ DOMAIN Sorted = 1 .. Len(Sorted)
  BY SortedAssumption
<1>2. AllTasks = {Sorted[i] : i \in 1 .. Len(Sorted)}
  BY <1>1, SortedAssumption DEF IsTopologicalOrder, Elements
<1>3. IsFiniteSet(1 .. Len(Sorted))
  BY <1>1, FS_Interval
<1> DEFINE f == [i \in 1 .. Len(Sorted) |-> Sorted[i]]
<1>4. f \in Surjection(1 .. Len(Sorted), AllTasks)
  BY <1>2 DEF Surjection
<1> QED BY <1>3, <1>4, FS_Surjection

LEMMA OneStep == ASSUME Jobs <= 1, ShapeInv, OneAtATime, [Next]_vars PROVE OneAtATime'
<1>1. state \in [AllTasks -> {"PENDING", "RUNNING", "DONE", "FAILED"}]
  BY DEF ShapeInv, TypeOK
<1>2. ASSUME NEW t \in AllTasks, Begin(t) PROVE OneAtATime'
  <2>1. IsFiniteSet(Running)
    BY FiniteTasks, FS_Subset DEF Running
  <2>2. Cardinality(Running) \in Nat /\ Cardinality(Running) < Jobs
    BY <1>2, <2>1, FS_CardinalityType DEF Begin
  <2>3. Cardinality(Running) = 0
    BY <2>2, BoundsAssumption
  <2>4. Running = {}
    BY <2>1, <2>3, FS_EmptySet
  <2>5. \A v \in AllTasks \ {t} : state'[v] = state[v]
    BY <1>2, GraphStart DEF Begin
  <2> QED BY <2>4, <2>5 DEF OneAtATime, Running
<1>3. ASSUME \A t \in AllTasks : state'[t] = "RUNNING" => state[t] = "RUNNING"
      PROVE  OneAtATime'
  BY <1>3 DEF OneAtATime, Running
<1>4. ASSUME NEW t \in AllTasks, Sched!Finish(t) PROVE OneAtATime'
  <2>1. state'[t] # "RUNNING" /\ \A v \in AllTasks \ {t} : state'[v] = state[v]
    BY <1>4, GraphFinish
  <2> QED BY <1>3, <2>1
<1>5. CASE state' = state
  BY <1>3, <1>5
<1>6. CASE Save \/ TornSave \/ Fail \/ Kill
  BY <1>3, <1>6 DEF Save, TornSave, Fail, Kill, Exit
<1>7. CASE \/ \E f \in Files : Edit(f)
           \/ EditUnhashed \/ Clean \/ StartBuild \/ Return \/ Interrupt \/ UNCHANGED vars
  BY <1>5, <1>7 DEF Edit, EditUnhashed, Clean, StartBuild, Return, Interrupt, vars, process,
       Sched!Return
<1>8. CASE \E u \in Units : HashInput(u) \/ Lookup(u) \/ Build(u)
  BY <1>2, <1>4, <1>5, <1>8, Shapes DEF HashInput, Lookup, Build
<1>9. CASE \/ \E t \in ToolTasks : BeginTool(t)
           \/ \E a \in Abis : Link(a)
           \/ \E t \in {PackTask, SignTask} : PackOrSign(t)
  BY <1>2, <1>4, <1>9, Shapes DEF BeginTool, Link, PackOrSign
<1> QED BY <1>6, <1>7, <1>8, <1>9 DEF Next

-------------------------------------------------------------------------------
(* The theorems *)

LEMMA Inductive == ASSUME IInv, [Next]_vars PROVE IInv'
BY Steps, EditStep, QuietStep, CleanStep, StartStep, HashStep, LookupStep, BuildStep, ToolStep,
   ReturnStep, EndStep

LEMMA Invariant == Spec => []IInv
<1>1. IInv /\ [Next]_vars => IInv'
  BY Inductive
<1> QED BY <1>1, InitInv, PTL DEF Spec

LEMMA WholeInvariant == Spec => []WholeInv
<1>1. IInv /\ WholeInv /\ [Next]_vars => WholeInv'
  BY WholeStep
<1> QED BY <1>1, InitWhole, Invariant, PTL DEF Spec

\* IncrementalBuild's variables keep their types.
THEOREM TypeCorrect == Spec => []TypeOK
<1>1. ShapeInv => TypeOK
  BY DEF ShapeInv
<1> QED BY <1>1, ShapeInvariant, PTL

\* Whatever is edited, put back or deleted while abt builds, whatever fails and
\* however lookups race: when a build succeeds, each library is linked of the
\* objects of all its sources, as they are on disk, and none is missing.
THEOREM LibraryComplete ==
  Spec => [](Succeeded => \A a \in Abis, s \in Sources :
               lib[a][s] = out[CompileTask(s, a)] /\ out[CompileTask(s, a)].input # 0)
<1>1. ShapeInv => (Succeeded => \A a \in Abis, s \in Sources :
               lib[a][s] = out[CompileTask(s, a)] /\ out[CompileTask(s, a)].input # 0)
  BY Shapes DEF ShapeInv, Succeeded, EndInv, LinkInv
<1> QED BY <1>1, ShapeInvariant, PTL

\* hashes.bin never claims more than what is on disk, whenever abt is killed.
THEOREM CacheHonest == Spec => []CacheIsHonest
<1>1. IInv => CacheIsHonest
  BY DEF IInv
<1> QED BY <1>1, Invariant, PTL

\* A successful build has linked what the sources say.
THEOREM SuccessCurrent == Spec => []SuccessIsCurrent
<1>1. IInv => SuccessIsCurrent
  <2> SUFFICES ASSUME IInv, Succeeded, NEW s \in Sources \ (touched \cup reverted), NEW a \in Abis
               PROVE  lib[a][s].input = content[s]
    BY DEF SuccessIsCurrent
  <2>1. state[LinkTask(a)] = "DONE" /\ state[CompileTask(s, a)] = "DONE"
    BY Shapes DEF IInv, ShapeInv, EndInv, Succeeded
  <2>2. lib[a][s] = out[CompileTask(s, a)] /\ out[CompileTask(s, a)].input # 0
    BY <2>1 DEF IInv, ShapeInv, LinkInv
  <2>3. Input[CompileTask(s, a)] = s /\ CompileTask(s, a) \in Units
    BY Inputs, Shapes
  <2>4. out[CompileTask(s, a)].input \in {content[s], 0}
    BY <2>1, <2>3 DEF IInv, DoneInv, Steady, Now
  <2> QED BY <2>2, <2>4
<1> QED BY <1>1, Invariant, PTL

\* A successful build has resources.ap_ as the manifest says, unless it was edited
\* during the run, put back since abt clean, or looked up in a race and not made
\* since.
THEOREM ResourcesCurrent == Spec => []ResourcesAreCurrent
<1>1. IInv /\ WholeInv => ResourcesAreCurrent
  <2> SUFFICES ASSUME IInv, WholeInv, Succeeded, ResTask \in Undisturbed, Manifest \notin touched
               PROVE  out[ResTask].input = content[Manifest]
    BY DEF ResourcesAreCurrent
  <2>1. state[ResTask] = "DONE" /\ Input[ResTask] = Manifest /\ ResTask \in Units
    BY Shapes, Inputs DEF IInv, ShapeInv, EndInv, Succeeded
  <2>2. out[ResTask].input \in {content[Manifest], 0} /\ out[ResTask].input # 0
    BY <2>1 DEF IInv, DoneInv, Steady, Undisturbed, Now, WholeInv, Whole
  <2> QED BY <2>2
<1> QED BY <1>1, Invariant, WholeInvariant, PTL

\* Every link that starts has the objects of the undisturbed sources: no failure,
\* kill or edit leaves one that counts as up to date and has no object.
THEOREM ObjectsForEveryLink == Spec => []LinkHasObjects
<1>1. IInv /\ WholeInv => LinkHasObjects
  <2> SUFFICES ASSUME IInv, WholeInv, NEW s \in Sources, NEW a \in Abis,
                      state[LinkTask(a)] = "RUNNING", CompileTask(s, a) \in Undisturbed
               PROVE  out[CompileTask(s, a)].input # 0
    BY DEF LinkHasObjects
  <2>1. state[CompileTask(s, a)] = "DONE" /\ CompileTask(s, a) \in Units
    BY Edges, Shapes DEF IInv, ShapeInv, GraphInv
  <2> QED BY <2>1 DEF WholeInv, Whole
<1> QED BY <1>1, Invariant, WholeInvariant, PTL

\* abt clean does force a full rebuild of every undisturbed unit, however many
\* runs fail or are killed before one succeeds.
THEOREM CleanIsFull == Spec => []CleanRebuildsAll
<1>1. IInv /\ WholeInv => CleanRebuildsAll
  <2>1. IInv /\ Succeeded => \A u \in Units : state[u] = "DONE"
    BY Shapes DEF IInv, ShapeInv, EndInv, Succeeded
  <2> QED BY <2>1 DEF CleanRebuildsAll, WholeInv, Whole, Undisturbed
<1> QED BY <1>1, Invariant, WholeInvariant, PTL

NoneRaced == raced = {}

\* With --jobs 1 no lookup ever races, so that of the exceptions of the three only
\* the files that were put back are left.
THEOREM OneJobNeverRaces == Jobs <= 1 => (Spec => [](raced = {}))
<1> SUFFICES ASSUME Jobs <= 1 PROVE Spec => [](raced = {})
  OBVIOUS
<1>1. OneAtATime /\ ShapeInv /\ [Next]_vars => OneAtATime'
  BY OneStep
<1>2. OneAtATime /\ ShapeInv => \A u \in Units : place[u] = "lookup" => ~Racing(u)
  BY Shapes DEF OneAtATime, ShapeInv, PlaceInv, Racing, Running
<1>3. OneAtATime /\ ShapeInv /\ NoneRaced /\ [Next]_vars => NoneRaced'
  BY <1>2 DEF NoneRaced, Next, Edit, EditUnhashed, Clean, StartBuild, HashInput, Lookup, Build, BeginTool,
       Link, PackOrSign, Return, Save, TornSave, Fail, Interrupt, Kill, Exit, vars, history
<1>4. (Init => NoneRaced) /\ (NoneRaced => raced = {})
  BY DEF Init, NoneRaced
<1> QED BY <1>1, <1>3, <1>4, InitOne, ShapeInvariant, PTL DEF Spec
===============================================================================
