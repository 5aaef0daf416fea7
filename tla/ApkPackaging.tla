------------------------------ MODULE ApkPackaging ----------------------------
(***************************************************************************)
(* The tasks after compilation (src/src/main.cpp, SDKBridge, NDKBridge)    *)
(* and what they leave on the disk, over several runs of abt with changes  *)
(* in between, tools that fail, and kills: resources, links with their     *)
(* runtime libraries, package, sign.                                       *)
(*                                                                         *)
(* A resource file is the set of the resources in it, as pairs <<file,     *)
(* resource>>; the sources that are linked are a version.  An APK is the   *)
(* set of its entries, with two marks: zipalign and apksigner have worked  *)
(* on exactly these entries.                                               *)
(***************************************************************************)
EXTENDS Naturals, FiniteSets

CONSTANTS Abis64, Abis32,  \* architectures, by the class of their ELF files
          ResFiles, Resources,  \* files under res/, resources that may be in them
          Needed,          \* DT_NEEDED of libmain.so, by version of the sources
          System,          \* kAndroidSystemLibs
          InNdk,           \* libraries in runtimeLibDir
          MaxVersion,      \* bound: versions of the sources
          MaxRuns, MaxFailures  \* bounds: runs, tools that fail, kills

Abis == Abis64 \cup Abis32
\* An ABI has one class, and its name is not one of the other tags of an entry; the NDK has no
\* libmain.so; the bounds are numbers.
ASSUME ApkAssumption == /\ Abis64 \cap Abis32 = {} /\ {"res", "dex", "manifest"} \cap Abis = {}
                        /\ "libmain.so" \notin InNdk
                        /\ {MaxVersion, MaxRuns, MaxFailures} \subseteq Nat
Versions == 0..MaxVersion

\* Two files have the same resource: aapt2 link takes no such files.
Clash(pairs) == \E p, q \in pairs : p[2] = q[2] /\ p # q
Projects == {r \in SUBSET (ResFiles \X Resources) : ~Clash(r)}

VARIABLES res, source, archs,          \* the project: resource files, version, architectures
          flat, resApk,                \* build/aapt_flat, resources.ap_ (a set, or NoFile)
          lib,                         \* build/lib: entries <<abi, name, version>>
          apk, aligned, signed,        \* the APK (a set, or NoFile) and its marks
          leftover, keystore,          \* the .aligned file; "none", "cut" or "whole"
          known,                       \* the manifest's hash is in the saved cache
          pc, todo, outcome, runs,     \* tasks of the run
          failures, ignored,           \* tools that failed or were killed; whether this run
                                       \* has had one whose failure nobody looks at
          made,                        \* res when resources.ap_ was made
          built, had, disturbed        \* since build/ was removed: <<architecture, version>>
                                       \* built for, resources the project had, and whether
                                       \* a tool failed or was killed

project == <<res, source, archs>>
disk    == <<flat, resApk, lib, apk, aligned, signed, leftover, keystore, known>>
run     == <<pc, todo, outcome, runs>>
past    == <<failures, ignored, made, built, had, disturbed>>
vars    == <<project, disk, run, past>>

\* Entries: a resource as a file defines it, and what every APK has.
Entry(p) == <<"res", p[2], p[1]>>
Manifest == <<"manifest", "AndroidManifest.xml", 0>>
Dex == <<"dex", "classes.dex", 0>>
NoFile == {<<"none", "none", 0>>}

Init ==
  /\ res \in Projects /\ source = 0 /\ archs \in (SUBSET Abis) \ {{}}
  /\ flat = {} /\ resApk = NoFile /\ lib = {}
  /\ apk = NoFile /\ aligned = FALSE /\ signed = FALSE
  /\ leftover = FALSE /\ keystore = "none" /\ known = FALSE
  /\ pc = "off" /\ todo = {} /\ outcome = "none" /\ runs = 0
  /\ failures = 0 /\ ignored = FALSE
  /\ made = {} /\ built = {} /\ had = res /\ disturbed = FALSE

\* A tool fails and the task with it: the run has failed.
ToolFails ==
  /\ failures < MaxFailures /\ failures' = failures + 1 /\ disturbed' = TRUE
  /\ pc' = "off" /\ outcome' = "failed" /\ UNCHANGED <<todo, runs, ignored, made, built, had>>
\* A tool fails and nobody looks.
Unnoticed ==
  /\ failures < MaxFailures /\ failures' = failures + 1 /\ disturbed' = TRUE
  /\ ignored' = TRUE /\ UNCHANGED <<made, built, had>>
\* A tool cannot work on what is there.
Blocked == pc' = "off" /\ outcome' = "blocked" /\ UNCHANGED <<todo, runs, past>>

-------------------------------------------------------------------------------

\* A run: the resource task and, for each architecture, the compilations and the link.
Start ==
  /\ pc = "off" /\ runs < MaxRuns
  /\ pc' = "tasks" /\ todo' = {"res"} \cup archs /\ outcome' = "none" /\ runs' = runs + 1
  /\ ignored' = FALSE /\ built' = built \cup (archs \X {source})
  /\ UNCHANGED <<project, disk, failures, made, had, disturbed>>

Did(task) == todo' = todo \ {task} /\ UNCHANGED <<pc, outcome, runs>>

\* aapt2 compile writes a .flat file for each of some files of res/, in the place of the one
\* it had; those of other files stay.
Compiled(files) ==
  LET written == {p \in res : p[1] \in files} IN written \cup {p \in flat : \A q \in written : q[1] # p[1]}

\* aapt2 compile, then aapt2 link of every .flat file that is there, which fails when two have
\* the same resource; neither is called when the manifest is up to date.
CompileResources ==
  /\ pc = "tasks" /\ "res" \in todo
  /\ \/ known /\ Did("res") /\ UNCHANGED <<flat, resApk, past>>
     \/ /\ ~known /\ flat' = Compiled(ResFiles) /\ ~Clash(flat')
        /\ Did("res") /\ resApk' = {Manifest} \cup {Entry(p) : p \in flat'} /\ made' = res
        /\ UNCHANGED <<failures, ignored, built, had, disturbed>>
     \/ /\ ~known /\ flat' = Compiled(ResFiles) /\ Clash(flat')
        /\ Blocked /\ UNCHANGED resApk
     \/ /\ ~known /\ ToolFails
        /\ \E files \in SUBSET ResFiles : flat' = Compiled(files)
        /\ UNCHANGED resApk
  /\ UNCHANGED <<project, lib, apk, aligned, signed, leftover, keystore, known>>

\* elfNeededLibs reads the file as ELF64: in a file of the other class e_shentsize lies
\* where the first program header has the upper half of an offset, and is 0.
NeededLibs(abi, version) == IF abi \in Abis64 THEN Needed[version] ELSE {}
RuntimeLibs(abi, version) == {l \in NeededLibs(abi, version) : l \notin System /\ l \in InNdk}

\* Mutated Link: the runtime libraries are not copied.
Link_noBundle(abi) ==
  /\ pc = "tasks" /\ abi \in todo
  /\ lib' = {e \in lib : e[1] # abi \/ e[2] # "libmain.so"} \cup {<<abi, "libmain.so", source>>}
  /\ Did(abi)
  /\ UNCHANGED <<project, flat, resApk, apk, aligned, signed, leftover, keystore, known, past>>

\* linkObjects: libmain.so, then a copy of each runtime library, unless cp fails.  Copies for
\* earlier versions stay.
Link(abi) ==
  /\ pc = "tasks" /\ abi \in todo
  /\ LET linked == {e \in lib : e[1] # abi \/ e[2] # "libmain.so"} \cup {<<abi, "libmain.so", source>>}
         copied(ls) == linked \cup {<<abi, l, 0>> : l \in ls}
         runtime == RuntimeLibs(abi, source)
     IN  \/ Did(abi) /\ lib' = copied(runtime) /\ UNCHANGED past
         \/ Did(abi) /\ Unnoticed /\ \E l \in runtime : lib' = copied(runtime \ {l})
         \/ ToolFails /\ UNCHANGED lib
  /\ UNCHANGED <<project, flat, resApk, apk, aligned, signed, leftover, keystore, known>>

Goto(step) == pc' = step /\ UNCHANGED <<todo, outcome, runs>>

\* Mutated CopyResources: the package task does not wait for the links.
CopyResources_early ==
  /\ pc = "tasks" /\ "res" \notin todo
  /\ Goto("dex")
  /\ apk' = resApk /\ aligned' = FALSE /\ signed' = FALSE
  /\ UNCHANGED <<project, flat, resApk, lib, leftover, keystore, known, past>>

\* packageApk: cp, whose failure leaves the APK of the run before and is not looked at.
CopyResources ==
  /\ pc = "tasks" /\ todo = {}
  /\ Goto("dex")
  /\ \/ apk' = resApk /\ aligned' = FALSE /\ signed' = FALSE /\ UNCHANGED past
     \/ Unnoticed /\ UNCHANGED <<apk, aligned, signed>>
  /\ UNCHANGED <<project, flat, resApk, lib, leftover, keystore, known>>

\* zip writes entries, in the place of those with their name, and makes the archive when
\* there is none; what it changes is neither aligned nor signed.
Zip(entries) ==
  /\ apk' = entries \cup {e \in apk \ NoFile : \A n \in entries : e[1] # n[1] \/ e[2] # n[2]}
  /\ aligned' = FALSE /\ signed' = FALSE

AddDex ==
  /\ pc = "dex"
  /\ \/ Goto("lib") /\ Zip({Dex}) /\ UNCHANGED past
     \/ ToolFails /\ UNCHANGED <<apk, aligned, signed>>
  /\ UNCHANGED <<project, flat, resApk, lib, leftover, keystore, known>>

\* zip -r of the whole directory.
AddLibs ==
  /\ pc = "lib"
  /\ \/ Goto("align") /\ Zip(lib) /\ UNCHANGED past
     \/ ToolFails /\ UNCHANGED <<apk, aligned, signed>>
  /\ UNCHANGED <<project, flat, resApk, lib, leftover, keystore, known>>

\* zipalign writes beside the APK, and does not do so over a file that is there.
Align ==
  /\ pc = "align"
  /\ \/ ~leftover /\ Goto("mv") /\ leftover' = TRUE /\ UNCHANGED past
     \/ leftover /\ Blocked /\ UNCHANGED leftover
     \/ ToolFails /\ leftover' \in {leftover, TRUE}
  /\ UNCHANGED <<project, flat, resApk, lib, apk, aligned, signed, keystore, known>>

\* Mutated Move: the file is copied.
Move_copies ==
  /\ pc = "mv" /\ Goto("key") /\ aligned' = TRUE
  /\ UNCHANGED <<project, flat, resApk, lib, apk, signed, leftover, keystore, known, past>>

\* mv over the APK; its failure is not looked at.
Move ==
  /\ pc = "mv" /\ Goto("key")
  /\ \/ aligned' = TRUE /\ leftover' = FALSE /\ UNCHANGED past
     \/ Unnoticed /\ UNCHANGED <<aligned, leftover>>
  /\ UNCHANGED <<project, flat, resApk, lib, apk, signed, keystore, known>>

\* ensureDebugKeystore: any file will do; keytool's failure is not looked at.
EnsureKeystore ==
  /\ pc = "key" /\ Goto("sign")
  /\ \/ keystore # "none" /\ UNCHANGED <<keystore, past>>
     \/ keystore = "none" /\ keystore' = "whole" /\ UNCHANGED past
     \/ keystore = "none" /\ Unnoticed /\ keystore' \in {"none", "cut"}
  /\ UNCHANGED <<project, flat, resApk, lib, apk, aligned, signed, leftover, known>>

\* signApk, the end of a run that succeeds: the cache is saved with the manifest's hash.
\* apksigner needs a keystore and an APK with a manifest.
Sign ==
  /\ pc = "sign"
  /\ \/ /\ keystore = "whole" /\ Manifest \in apk
        /\ pc' = "off" /\ outcome' = "ok" /\ signed' = TRUE /\ known' = TRUE
        /\ UNCHANGED <<todo, runs, past>>
     \/ (keystore # "whole" \/ Manifest \notin apk) /\ Blocked /\ UNCHANGED <<signed, known>>
     \/ ToolFails /\ UNCHANGED <<signed, known>>
  /\ UNCHANGED <<project, flat, resApk, lib, apk, aligned, leftover, keystore>>

-------------------------------------------------------------------------------

\* abt is killed, and the tool it waits for: aapt2, zipalign and keytool may leave what they
\* have written so far.
Kill ==
  /\ pc # "off" /\ failures < MaxFailures
  /\ failures' = failures + 1 /\ disturbed' = TRUE
  /\ pc' = "off" /\ outcome' = "killed"
  /\ \E files \in SUBSET ResFiles :
       /\ files # {} => pc = "tasks" /\ "res" \in todo /\ ~known
       /\ flat' = Compiled(files)
  /\ leftover' \in {leftover} \cup (IF pc = "align" THEN {TRUE} ELSE {})
  /\ keystore' \in {keystore} \cup (IF pc = "key" /\ keystore = "none" THEN {"cut"} ELSE {})
  /\ UNCHANGED <<project, resApk, lib, apk, aligned, signed, known, todo, runs, ignored,
                 made, built, had>>

\* Between runs: resources come, go or move to another file, a source or the manifest
\* changes, or AbtProject.cmake names other architectures.
Edit ==
  /\ pc = "off" /\ runs < MaxRuns
  /\ \/ res' \in Projects \ {res} /\ UNCHANGED <<source, archs, known>>
     \/ known' = FALSE /\ UNCHANGED project
     \/ source < MaxVersion /\ source' = source + 1 /\ UNCHANGED <<res, archs, known>>
     \/ archs' \in (SUBSET Abis) \ {{}, archs} /\ UNCHANGED <<res, source, known>>
  /\ outcome' = "none" /\ had' = had \cup res'
  /\ UNCHANGED <<flat, resApk, lib, apk, aligned, signed, leftover, keystore, pc, todo, runs,
                 failures, ignored, made, built, disturbed>>

\* abt clean removes build/.
Clean ==
  /\ pc = "off" /\ runs < MaxRuns
  /\ flat' = {} /\ resApk' = NoFile /\ lib' = {} /\ apk' = NoFile
  /\ aligned' = FALSE /\ signed' = FALSE /\ leftover' = FALSE /\ keystore' = "none" /\ known' = FALSE
  /\ made' = {} /\ built' = {} /\ had' = res /\ disturbed' = FALSE /\ outcome' = "none"
  /\ UNCHANGED <<project, pc, todo, runs, failures, ignored>>

Next ==
  \/ Start \/ CompileResources \/ (\E a \in Abis : Link(a))
  \/ CopyResources \/ AddDex \/ AddLibs \/ Align \/ Move \/ EnsureKeystore \/ Sign
  \/ Kill \/ Edit \/ Clean
  \/ pc = "off" /\ runs = MaxRuns /\ UNCHANGED vars

Spec == Init /\ [][Next]_vars

-------------------------------------------------------------------------------

\* Every variable has its type; packaging begins when no task is left, a run that succeeds
\* has made an APK.
TypeOK ==
  /\ res \in Projects /\ source \in Versions /\ archs \subseteq Abis /\ archs # {}
  /\ flat \cup made \cup had \subseteq ResFiles \X Resources /\ built \subseteq Abis \X Versions
  /\ resApk = NoFile \/ resApk \subseteq {Manifest} \cup {Entry(p) : p \in ResFiles \X Resources}
  /\ \A e \in lib : e[1] \in Abis
  /\ {aligned, signed, leftover, known, ignored, disturbed} \subseteq BOOLEAN
  /\ keystore \in {"none", "cut", "whole"}
  /\ pc \in {"off", "tasks", "dex", "lib", "align", "mv", "key", "sign"}
  /\ todo \subseteq {"res"} \cup Abis /\ (pc \notin {"off", "tasks"} => todo = {})
  /\ outcome \in {"none", "ok", "failed", "blocked", "killed"}
  /\ (outcome = "ok" => apk # NoFile) /\ runs \in 0..MaxRuns /\ failures \in 0..MaxFailures

\* What an APK has to have: the resources of res/ as it was when resources.ap_ was made (the
\* manifest's change or a new build/), and for every architecture the library of these
\* sources and, of the 64-bit ones, the libraries it needs from the NDK.
Required ==
  {Manifest, Dex} \cup {Entry(p) : p \in made}
  \cup {<<a, "libmain.so", source>> : a \in archs}
  \cup UNION {{<<a, l, 0>> : l \in (Needed[source] \ System) \cap InNdk} : a \in archs \ Abis32}

\* What build/ may have left in it, since it was removed last: resources of files that are
\* gone, libraries of architectures that are no longer built for, and runtime libraries
\* that some version of the sources needed.
Stale ==
  {Entry(p) : p \in {q \in had : \A m \in made : m[1] # q[1]}}
  \cup {<<b[1], "libmain.so", b[2]>> : b \in {c \in built : c[1] \notin archs}}
  \cup UNION {{<<b[1], l, 0>> : l \in (Needed[b[2]] \ System) \cap InNdk} : b \in built}

\* A run that succeeds, with no failure that nobody looked at, has made an APK that is
\* aligned and signed, has all that is required, and no more but what is stale: no library of
\* other sources for an architecture it is built for, no resource of another state of a file
\* that is there, nothing from before build/ was last removed.
ApkIsExact ==
  outcome = "ok" /\ ~ignored =>
    aligned /\ signed /\ Required \subseteq apk /\ apk \subseteq Required \cup Stale

\* A build fails on what an earlier one has left in build/ only after a tool failed or was
\* killed, or after a resource was moved from one file to another, since build/ was removed:
\* no other change of resources, sources, architectures or the manifest needs abt clean.
BlockedOnlyAfterFailure == outcome = "blocked" => disturbed \/ Clash(had)

\* "Any NDK runtime libraries (such as libc++_shared.so) that are not guaranteed to be
\* present on-device are automatically copied into build/lib/<abi>/ and get bundled into
\* the APK alongside libmain.so" (README.md:295), for every architecture.
RuntimeLibsBundled ==
  outcome = "ok" /\ ~ignored =>
    \A a \in archs, l \in (Needed[source] \ System) \cap InNdk : <<a, l, 0>> \in apk

\* The same of a build that reports success, whatever the tools do: what is required, of 64-bit
\* architectures, is "zipped together into build/<ProjectName>.apk" (README.md:327).
SuccessIsWhole == outcome = "ok" => Required \subseteq apk

\* "aapt2 compile flattens your res/ directory into .flat files, then aapt2 link combines them"
\* (README.md:325): the APK has the resources of that res/ and no others.
ResourcesOfProject ==
  outcome = "ok" /\ ~ignored => {e \in apk : e[1] = "res"} = {Entry(p) : p \in made}
===============================================================================
