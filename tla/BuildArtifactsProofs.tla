-------------------------- MODULE BuildArtifactsProofs -------------------------
(***************************************************************************)
(* Proofs about ApkPackaging and Resolver, what phases 4 and 2 of a build  *)
(* leave on the disk: for any architectures, resources, libraries,         *)
(* dependencies, archives, repositories' answers and number of runs, with  *)
(* tools that fail, full disks and kills anywhere.                         *)
(***************************************************************************)
EXTENDS MCBuildArtifacts, TLAPS

-------------------------------------------------------------------------------
(* ApkPackaging *)

\* build/lib has nothing but what was linked, or copied for what was linked, since build/ was
\* removed.
LibInv ==
  \A e \in lib :
    /\ e = <<e[1], e[2], e[3]>>
    /\ \/ e[2] = "libmain.so" /\ <<e[1], e[3]>> \in built
       \/ e[3] = 0 /\ \E b \in built : b[1] = e[1] /\ e[2] \in RuntimeLibs(b[1], b[2])

\* resources.ap_ has the resources it was made from and, besides, some that the project had
\* in files that were not there any more.
ResInv ==
  /\ flat \cup made \cup res \subseteq had
  /\ resApk # NoFile =>
       /\ Manifest \in resApk /\ \A p \in made : Entry(p) \in resApk
       /\ \A e \in resApk :
            \/ e = Manifest
            \/ \E p \in had : e = Entry(p) /\ (p \in made \/ \A m \in made : m[1] # p[1])

\* A run has linked the architectures that are not on its list any more, of these sources.
LinkInv ==
  pc # "off" =>
    /\ outcome = "none" /\ todo \subseteq {"res"} \cup archs
    /\ \A a \in archs : <<a, source>> \in built
    /\ "res" \in todo \/ resApk # NoFile
    /\ ~ignored =>
         \A a \in archs \ todo :
           /\ <<a, "libmain.so", source>> \in lib
           /\ \A e \in lib : e[1] = a /\ e[2] = "libmain.so" => e[3] = source
           /\ \A l \in RuntimeLibs(a, source) : <<a, l, 0>> \in lib

\* What the APK has at each step.
PackInv ==
  /\ known => resApk # NoFile
  /\ pc \in {"lib", "align", "mv", "key", "sign"} => Dex \in apk
  /\ ~ignored =>
       /\ pc = "dex" => apk = resApk
       /\ pc = "lib" => apk = resApk \cup {Dex}
       /\ pc \in {"align", "mv", "key", "sign"} => apk = resApk \cup {Dex} \cup lib
       /\ pc \in {"key", "sign"} => aligned

\* While nothing fails there is an .aligned file only until it is moved, and no half keystore.
LeftInv ==
  ~disturbed => /\ leftover => pc = "mv"
                /\ keystore # "cut" /\ (pc = "sign" => keystore = "whole")
                /\ pc # "off" => ~ignored

IInv == TypeOK /\ LibInv /\ ResInv /\ LinkInv /\ PackInv /\ LeftInv /\ ApkIsExact /\ BlockedOnlyAfterFailure

LEMMA TagsApart ==
  /\ {"res", "dex", "manifest"} \cap Abis = {}
  /\ \A a \in Abis, v \in Versions : "libmain.so" \notin RuntimeLibs(a, v)
  /\ \A a \in Abis, v \in Versions : RuntimeLibs(a, v) \subseteq (Needed[v] \ System) \cap InNdk
  /\ \A a \in Abis \ Abis32, v \in Versions : RuntimeLibs(a, v) = (Needed[v] \ System) \cap InNdk
  /\ MaxVersion \in Nat /\ MaxRuns \in Nat /\ MaxFailures \in Nat
BY ApkAssumption DEF RuntimeLibs, NeededLibs, Abis

\* The entries of resources.ap_, and that a set with the manifest or the dex is a file.
LEMMA FilesApart ==
  /\ \A x : Manifest \in x \/ Dex \in x => x # NoFile
  /\ Dex[1] = "dex" /\ Dex[2] = "classes.dex" /\ Dex \notin NoFile
  /\ Manifest[1] = "manifest" /\ Manifest \notin NoFile
  /\ \A p : Entry(p)[1] = "res" /\ Entry(p) \notin NoFile
<1>1. \A p : Entry(p)[1] = "res"
  BY DEF Entry
<1>2. Dex[1] = "dex" /\ Dex[2] = "classes.dex" /\ Manifest[1] = "manifest"
  BY DEF Dex, Manifest
<1>3. \A e \in NoFile : e[1] = "none"
  BY DEF NoFile
<1> QED BY <1>1, <1>2, <1>3

\* What resources.ap_ has is neither the dex nor a library.
LEMMA ResourcesApart ==
  ASSUME IInv, NEW e \in resApk, resApk # NoFile
  PROVE  e[1] \in {"res", "manifest"} /\ e \notin NoFile
<1>1. e = Manifest \/ \E p \in had : e = Entry(p)
  BY DEF IInv, ResInv
<1> QED BY <1>1, FilesApart

LEMMA InitKeeps == ASSUME Init PROVE IInv
<1>1. 0 \in 0..MaxVersion /\ 0 \in 0..MaxRuns /\ 0 \in 0..MaxFailures
  BY TagsApart
<1>2. TypeOK
  <2>1. archs \subseteq Abis /\ archs # {} /\ res \in Projects /\ res \subseteq ResFiles \X Resources
    BY DEF Init, Projects
  <2> QED BY <1>1, <2>1 DEF Init, TypeOK, Versions
<1>3. LibInv /\ ResInv /\ LinkInv /\ PackInv /\ LeftInv /\ ApkIsExact /\ BlockedOnlyAfterFailure
  BY DEF Init, LibInv, ResInv, LinkInv, PackInv, LeftInv, ApkIsExact, BlockedOnlyAfterFailure
<1> QED BY <1>2, <1>3 DEF IInv

LEMMA StutterKeeps == ASSUME IInv, UNCHANGED vars PROVE IInv'
<1>1. UNCHANGED <<res, source, archs, flat, resApk, lib, apk, aligned, signed, leftover,
                  keystore, known, pc, todo, outcome, runs, failures, ignored, made, built, had,
                  disturbed>>
  BY DEF vars, project, disk, run, past
<1>2. TypeOK' /\ LibInv' /\ ResInv' /\ LinkInv'
  BY <1>1 DEF IInv, TypeOK, LibInv, ResInv, LinkInv
<1>3. PackInv' /\ LeftInv' /\ ApkIsExact' /\ BlockedOnlyAfterFailure'
  BY <1>1 DEF IInv, PackInv, LeftInv, ApkIsExact, Required, Stale, BlockedOnlyAfterFailure
<1> QED BY <1>2, <1>3 DEF IInv

LEMMA OneMoreFailure ==
  ASSUME IInv, failures < MaxFailures, failures' = failures + 1
  PROVE  failures' \in 0..MaxFailures
<1>1. failures \in 0..MaxFailures /\ MaxFailures \in Nat
  BY TagsApart DEF IInv, TypeOK
<1> QED BY <1>1

-------------------------------------------------------------------------------
(* The end of a run *)

\* A run that has failed or was killed leaves only the disk to be right.
LEMMA FailedKeeps ==
  ASSUME IInv, TypeOK', pc' = "off", outcome' \in {"failed", "killed"}, disturbed' = TRUE,
         UNCHANGED <<res, lib, made, built, had, known>>, resApk' = resApk, flat' \subseteq had
  PROVE  IInv'
<1>1. LibInv'
  BY DEF IInv, LibInv
<1>2. ResInv'
  BY DEF IInv, ResInv
<1>3. LinkInv'
  BY DEF LinkInv
<1>4. PackInv'
  BY DEF IInv, PackInv
<1>5. LeftInv' /\ ApkIsExact' /\ BlockedOnlyAfterFailure'
  BY DEF LeftInv, ApkIsExact, BlockedOnlyAfterFailure
<1> QED BY <1>1, <1>2, <1>3, <1>4, <1>5 DEF IInv

\* A tool cannot work on what is there, after a failure or a move.
LEMMA BlockedKeeps ==
  ASSUME IInv, Blocked, pc # "mv", disturbed \/ Clash(had), flat' \subseteq had,
         UNCHANGED <<project, resApk, lib, apk, aligned, signed, leftover, keystore, known>>
  PROVE  IInv'
<1>1. /\ UNCHANGED <<res, source, archs, todo, runs, failures, ignored, made, built, had, disturbed>>
      /\ pc' = "off" /\ outcome' = "blocked"
  BY DEF Blocked, project, past
<1>2. flat' \subseteq ResFiles \X Resources
  BY DEF IInv, TypeOK
<1>3. TypeOK'
  BY <1>1, <1>2 DEF IInv, TypeOK
<1>4. LibInv' /\ ResInv'
  BY <1>1 DEF IInv, LibInv, ResInv
<1>5. LinkInv' /\ PackInv'
  BY <1>1 DEF IInv, LinkInv, PackInv
<1>6. LeftInv'
  BY <1>1 DEF IInv, LeftInv
<1>7. ApkIsExact' /\ BlockedOnlyAfterFailure'
  BY <1>1 DEF ApkIsExact, BlockedOnlyAfterFailure, Clash
<1> QED BY <1>3, <1>4, <1>5, <1>6, <1>7 DEF IInv

\* Every .flat file is of a resource that the project had; when all of res/ was compiled, the
\* rest is of files that are gone.
LEMMA CompiledFlat ==
  ASSUME IInv, NEW files \in SUBSET ResFiles
  PROVE  /\ Compiled(files) \subseteq had /\ Compiled({}) = flat
         /\ res \subseteq Compiled(ResFiles)
         /\ \A p \in Compiled(ResFiles) : p \in res \/ \A m \in res : m[1] # p[1]
<1>1. res \subseteq ResFiles \X Resources /\ flat \subseteq had /\ res \subseteq had
  BY DEF IInv, TypeOK, ResInv, Projects
<1>2. \A p \in res : p[1] \in ResFiles
  BY <1>1
<1> QED BY <1>1, <1>2 DEF Compiled

LEMMA ToolFailsType ==
  ASSUME IInv, ToolFails
  PROVE  /\ failures' \in 0..MaxFailures /\ pc' = "off" /\ outcome' = "failed"
         /\ disturbed' = TRUE /\ UNCHANGED <<todo, runs, ignored, made, built, had>>
BY OneMoreFailure DEF ToolFails

LEMMA KillKeeps == ASSUME IInv, Kill PROVE IInv'
<1>1. /\ UNCHANGED <<res, source, archs, resApk, lib, apk, aligned, signed, known, todo,
                     runs, ignored, made, built, had>>
      /\ pc' = "off" /\ outcome' = "killed" /\ disturbed' = TRUE
      /\ \E files \in SUBSET ResFiles : flat' = Compiled(files)
      /\ leftover' \in {leftover, TRUE} /\ keystore' \in {keystore, "cut"}
  BY DEF Kill, project
<1>2. failures' \in 0..MaxFailures
  BY OneMoreFailure DEF Kill
<1>3. flat' \subseteq had
  BY <1>1, CompiledFlat
<1>4. flat' \subseteq ResFiles \X Resources
  BY <1>3 DEF IInv, TypeOK
<1>5. TypeOK'
  BY <1>1, <1>2, <1>4 DEF IInv, TypeOK
<1> QED BY <1>1, <1>3, <1>5, FailedKeeps

-------------------------------------------------------------------------------
(* Between runs *)

LEMMA StartKeeps == ASSUME IInv, Start PROVE IInv'
<1>1. /\ UNCHANGED <<res, source, archs, flat, resApk, lib, apk, aligned, signed, leftover,
                     keystore, known, failures, made, had, disturbed>>
      /\ pc = "off" /\ runs < MaxRuns /\ pc' = "tasks" /\ todo' = {"res"} \cup archs
      /\ outcome' = "none" /\ runs' = runs + 1 /\ ignored' = FALSE 
      /\ built' = built \cup (archs \X {source})
  BY DEF Start, project, disk
<1>2. runs' \in 0..MaxRuns
  <2>1. runs \in 0..MaxRuns /\ MaxRuns \in Nat
    BY TagsApart DEF IInv, TypeOK
  <2> QED BY <1>1, <2>1
<1>3. TypeOK'
  <2>1. built' \subseteq Abis \X Versions
    BY <1>1 DEF IInv, TypeOK
  <2> QED BY <1>1, <1>2, <2>1 DEF IInv, TypeOK
<1>4. LibInv'
  <2>1. built \subseteq built'
    BY <1>1
  <2> QED BY <1>1, <2>1 DEF IInv, LibInv
<1>5. ResInv'
  BY <1>1 DEF IInv, ResInv
<1>6. LinkInv'
  BY <1>1 DEF LinkInv
<1>7. PackInv' /\ LeftInv'
  BY <1>1 DEF IInv, PackInv, LeftInv
<1>8. ApkIsExact' /\ BlockedOnlyAfterFailure'
  BY <1>1 DEF ApkIsExact, BlockedOnlyAfterFailure
<1> QED BY <1>3, <1>4, <1>5, <1>6, <1>7, <1>8 DEF IInv

LEMMA EditKeeps == ASSUME IInv, Edit PROVE IInv'
<1>1. /\ UNCHANGED <<flat, resApk, lib, apk, aligned, signed, leftover, keystore, pc, todo, runs,
                     failures, ignored, made, built, disturbed>>
      /\ pc = "off" /\ outcome' = "none" /\ known' \in {known, FALSE} /\ had' = had \cup res'
  BY DEF Edit, project
<1>2. res' \in Projects /\ had' \subseteq ResFiles \X Resources
  <2>1. res' \in Projects
    BY DEF IInv, TypeOK, Edit, project
  <2> QED BY <1>1, <2>1 DEF IInv, TypeOK, Projects
<1>3. source' \in Versions
  <2>1. source \in 0..MaxVersion /\ MaxVersion \in Nat
    BY TagsApart DEF IInv, TypeOK, Versions
  <2>2. source' = source \/ (source < MaxVersion /\ source' = source + 1)
    BY DEF Edit, project
  <2> QED BY <2>1, <2>2 DEF Versions
<1>4. archs' \subseteq Abis /\ archs' # {}
  <2>1. archs' = archs \/ archs' \in (SUBSET Abis) \ {{}, archs}
    BY DEF Edit, project
  <2> QED BY <2>1 DEF IInv, TypeOK
<1>5. TypeOK'
  BY <1>1, <1>2, <1>3, <1>4 DEF IInv, TypeOK
<1>6. LibInv' /\ ResInv'
  BY <1>1 DEF IInv, LibInv, ResInv
<1>7. known' => known
  BY <1>1
<1>8. PackInv'
  BY <1>1, <1>7 DEF IInv, PackInv
<1>9. LinkInv' /\ ApkIsExact' /\ BlockedOnlyAfterFailure'
  BY <1>1 DEF LinkInv, ApkIsExact, BlockedOnlyAfterFailure
<1>10. LeftInv'
  BY <1>1 DEF IInv, LeftInv
<1> QED BY <1>5, <1>6, <1>8, <1>9, <1>10 DEF IInv

LEMMA CleanKeeps == ASSUME IInv, Clean PROVE IInv'
<1>1. /\ UNCHANGED <<res, source, archs, pc, todo, runs, failures, ignored>> /\ pc = "off"
      /\ flat' = {} /\ resApk' = NoFile /\ lib' = {} /\ apk' = NoFile /\ aligned' = FALSE
      /\ signed' = FALSE /\ leftover' = FALSE /\ keystore' = "none" /\ known' = FALSE
      /\ made' = {} /\ built' = {} /\ had' = res /\ disturbed' = FALSE /\ outcome' = "none"
  BY DEF Clean, project
<1>2. TypeOK'
  <2>1. res \subseteq ResFiles \X Resources
    BY DEF IInv, TypeOK, Projects
  <2> QED BY <1>1, <2>1 DEF IInv, TypeOK
<1>3. LibInv' /\ ResInv' /\ LinkInv' /\ PackInv' /\ LeftInv' /\ ApkIsExact' /\ BlockedOnlyAfterFailure'
  BY <1>1 DEF LibInv, ResInv, LinkInv, PackInv, LeftInv, ApkIsExact, BlockedOnlyAfterFailure
<1> QED BY <1>2, <1>3 DEF IInv

-------------------------------------------------------------------------------
(* The tasks *)

LEMMA CompileResourcesKeeps == ASSUME IInv, CompileResources PROVE IInv'
<1>1. /\ UNCHANGED <<res, source, archs, lib, apk, aligned, signed, leftover, keystore, known>>
      /\ pc = "tasks" /\ "res" \in todo
  BY DEF CompileResources, project
<1>2. ASSUME Did("res"), UNCHANGED <<failures, ignored, built, had, disturbed>>,
             flat' \subseteq had, made' \subseteq had, ResInv', resApk' # NoFile
      PROVE  IInv'
  <2>1. todo' = todo \ {"res"} /\ UNCHANGED <<pc, outcome, runs>>
    BY <1>2 DEF Did
  <2>2. flat' \cup made' \subseteq ResFiles \X Resources
    BY <1>2 DEF IInv, TypeOK
  <2>3. resApk' \subseteq {Manifest} \cup {Entry(p) : p \in ResFiles \X Resources}
    <3>1. ASSUME NEW e \in resApk' PROVE e = Manifest \/ \E p \in ResFiles \X Resources : e = Entry(p)
      <4>1. e = Manifest \/ \E p \in had' : e = Entry(p)
        BY <1>2, <3>1 DEF ResInv
      <4> QED BY <1>2, <4>1 DEF IInv, TypeOK
    <3> QED BY <3>1
  <2>4. TypeOK'
    BY <1>1, <1>2, <2>1, <2>2, <2>3 DEF IInv, TypeOK
  <2>5. LibInv'
    BY <1>1, <1>2 DEF IInv, LibInv
  <2>6. archs \ todo' = archs \ todo
    BY <2>1, TagsApart DEF IInv, TypeOK
  <2>7. LinkInv'
    BY <1>1, <1>2, <2>1, <2>6 DEF IInv, LinkInv
  <2>8. PackInv' /\ LeftInv' /\ BlockedOnlyAfterFailure' /\ ApkIsExact'
    BY <1>1, <1>2, <2>1
       DEF IInv, LinkInv, PackInv, LeftInv, BlockedOnlyAfterFailure, ApkIsExact
  <2> QED BY <1>2, <2>4, <2>5, <2>7, <2>8 DEF IInv
<1>3. CASE known /\ Did("res") /\ UNCHANGED <<flat, resApk, past>>
  <2>1. UNCHANGED <<failures, ignored, made, built, had, disturbed>>
    BY <1>3 DEF past
  <2>2. flat' \subseteq had /\ made' \subseteq had /\ ResInv'
    BY <1>1, <1>3, <2>1 DEF IInv, ResInv
  <2>3. resApk' # NoFile
    BY <1>3 DEF IInv, PackInv
  <2> QED BY <1>2, <1>3, <2>1, <2>2, <2>3
<1>4. CASE /\ ~known /\ flat' = Compiled(ResFiles) /\ ~Clash(flat')
           /\ Did("res") /\ resApk' = {Manifest} \cup {Entry(p) : p \in flat'} /\ made' = res
           /\ UNCHANGED <<failures, ignored, built, had, disturbed>>
  <2>1. flat' \subseteq had /\ res \subseteq flat' /\ res \subseteq had
    BY <1>4, CompiledFlat DEF IInv, ResInv
  <2>2. \A p \in flat' : p \in res \/ \A m \in res : m[1] # p[1]
    BY <1>4, CompiledFlat
  <2>3. resApk' # NoFile
    BY <1>4, FilesApart
  <2>4. \A e \in resApk' : e = Manifest \/ \E p \in flat' : e = Entry(p)
    BY <1>4
  <2>5. \A e \in resApk' :
          \/ e = Manifest
          \/ \E p \in had : e = Entry(p) /\ (p \in res \/ \A m \in res : m[1] # p[1])
    BY <2>1, <2>2, <2>4
  <2>6. Manifest \in resApk' /\ \A p \in res : Entry(p) \in resApk'
    BY <1>4, <2>1
  <2>7. ResInv'
    BY <1>1, <1>4, <2>1, <2>5, <2>6 DEF ResInv
  <2> QED BY <1>2, <1>4, <2>1, <2>3, <2>7
<1>5. CASE ~known /\ flat' = Compiled(ResFiles) /\ Clash(flat') /\ Blocked /\ UNCHANGED resApk
  <2>1. flat' \subseteq had
    BY <1>5, CompiledFlat
  <2>2. Clash(had)
    BY <1>5, <2>1 DEF Clash
  <2>3. UNCHANGED project
    BY <1>1 DEF project
  <2> QED BY <1>1, <1>5, <2>1, <2>2, <2>3, BlockedKeeps
<1>6. CASE /\ ~known /\ ToolFails
           /\ \E files \in SUBSET ResFiles : flat' = Compiled(files)
           /\ UNCHANGED resApk
  <2>1. flat' \subseteq had
    BY <1>6, CompiledFlat
  <2>2. flat' \subseteq ResFiles \X Resources
    BY <2>1 DEF IInv, TypeOK
  <2>3. TypeOK'
    BY <1>1, <1>6, <2>2, ToolFailsType DEF IInv, TypeOK
  <2> QED BY <1>1, <1>6, <2>1, <2>3, ToolFailsType, FailedKeeps
<1> QED BY <1>3, <1>4, <1>5, <1>6 DEF CompileResources

LEMMA LinkKeeps == ASSUME IInv, NEW a \in Abis, Link(a) PROVE IInv'
<1> DEFINE linked == {e \in lib : e[1] # a \/ e[2] # "libmain.so"} \cup {<<a, "libmain.so", source>>}
           copied(ls) == linked \cup {<<a, l, 0>> : l \in ls}
           runtime == RuntimeLibs(a, source)
<1>1. /\ UNCHANGED <<res, source, archs, flat, resApk, apk, aligned, signed, leftover, keystore,
                     known>>
      /\ pc = "tasks" /\ a \in todo
  BY DEF Link, project
<1>2. ASSUME Did(a), UNCHANGED <<made, built, had>>, disturbed' \in {disturbed, TRUE}, ignored' \in BOOLEAN,
             failures' \in 0..MaxFailures,
             NEW ls \in SUBSET runtime, lib' = copied(ls), disturbed \/ ~ignored => disturbed' \/ ~ignored',
             ~disturbed' => ~disturbed, ~ignored' => ~ignored /\ ls = runtime
      PROVE  IInv'
  <2>1. todo' = todo \ {a} /\ UNCHANGED <<pc, outcome, runs>>
    BY <1>2 DEF Did
  <2>2. \A e \in lib' : \/ e \in lib /\ (e[1] # a \/ e[2] # "libmain.so")
                        \/ e = <<a, "libmain.so", source>>
                        \/ \E l \in ls : e = <<a, l, 0>>
    BY <1>2
  <2>3. disturbed' \in BOOLEAN
    BY <1>2 DEF IInv, TypeOK
  <2>4. a \in archs /\ <<a, source>> \in built /\ source \in Versions
    BY <1>1, TagsApart DEF IInv, LinkInv, TypeOK
  <2>5. \A e \in lib' : e[1] \in Abis
    BY <2>2 DEF IInv, TypeOK
  <2>6. TypeOK'
    BY <1>1, <1>2, <2>1, <2>3, <2>5 DEF IInv, TypeOK
  <2>7. LibInv'
    <3>1. SUFFICES ASSUME NEW e \in lib'
                   PROVE  /\ e = <<e[1], e[2], e[3]>>
                          /\ \/ e[2] = "libmain.so" /\ <<e[1], e[3]>> \in built
                             \/ e[3] = 0 /\ \E b \in built : b[1] = e[1] /\ e[2] \in RuntimeLibs(b[1], b[2])
      BY <1>2 DEF LibInv
    <3>2. CASE e \in lib
      BY <3>2 DEF IInv, LibInv
    <3>3. CASE e = <<a, "libmain.so", source>>
      BY <2>4, <3>3
    <3>4. CASE \E l \in ls : e = <<a, l, 0>>
      <4>1. PICK l \in ls : e = <<a, l, 0>>
        BY <3>4
      <4>2. <<a, source>>[1] = a /\ <<a, source>>[2] = source
        OBVIOUS
      <4> QED BY <2>4, <4>1, <4>2
    <3> QED BY <2>2, <3>2, <3>3, <3>4
  <2>8. LinkInv'
    <3>1. /\ outcome' = "none" /\ todo' \subseteq {"res"} \cup archs'
          /\ \A b \in archs' : <<b, source'>> \in built'
          /\ "res" \in todo' \/ resApk' # NoFile
      BY <1>1, <1>2, <2>1, TagsApart DEF IInv, LinkInv
    <3>2. ASSUME ~ignored', NEW b \in archs \ todo'
          PROVE  /\ <<b, "libmain.so", source>> \in lib'
                 /\ \A e \in lib' : e[1] = b /\ e[2] = "libmain.so" => e[3] = source
                 /\ \A l \in RuntimeLibs(b, source) : <<b, l, 0>> \in lib'
      <4>1. CASE b = a
        <5>1. \A l \in ls : l # "libmain.so"
          BY <2>4, TagsApart
        <5>2. ASSUME NEW e \in lib', e[1] = b, e[2] = "libmain.so" PROVE e[3] = source
          BY <2>2, <4>1, <5>1, <5>2
        <5> QED BY <1>2, <3>2, <4>1, <5>2
      <4>2. CASE b # a
        <5>1. b \in archs \ todo /\ ~ignored
          BY <1>2, <2>1, <3>2, <4>2
        <5>2. /\ <<b, "libmain.so", source>> \in lib
              /\ \A e \in lib : e[1] = b /\ e[2] = "libmain.so" => e[3] = source
              /\ \A l \in RuntimeLibs(b, source) : <<b, l, 0>> \in lib
          BY <1>1, <5>1 DEF IInv, LinkInv
        <5>3. \A e \in lib : e[1] # a => e \in lib'
          BY <1>2
        <5>4. \A e \in lib' : e[1] = b => e \in lib
          BY <2>2, <4>2
        <5> QED BY <4>2, <5>2, <5>3, <5>4
      <4> QED BY <4>1, <4>2
    <3> QED BY <1>1, <3>1, <3>2 DEF LinkInv
  <2>9. PackInv'
    BY <1>1, <2>1 DEF IInv, PackInv
  <2>10. LeftInv'
    <3>1. ~disturbed' => ~disturbed /\ ~ignored'
      BY <1>1, <1>2 DEF IInv, LeftInv
    <3> QED BY <1>1, <2>1, <3>1 DEF IInv, LeftInv
  <2>11. ApkIsExact' /\ BlockedOnlyAfterFailure'
    BY <1>1, <2>1 DEF IInv, LinkInv, ApkIsExact, BlockedOnlyAfterFailure
  <2>12. ResInv'
    BY <1>1, <1>2 DEF IInv, ResInv
  <2> QED BY <2>6, <2>7, <2>8, <2>9, <2>10, <2>11, <2>12 DEF IInv
<1>3. ignored \in BOOLEAN /\ failures \in 0..MaxFailures
  BY DEF IInv, TypeOK
<1>4. CASE Did(a) /\ lib' = copied(runtime) /\ UNCHANGED past
  BY <1>2, <1>3, <1>4 DEF past, IInv, TypeOK
<1>5. CASE Did(a) /\ Unnoticed /\ \E l \in runtime : lib' = copied(runtime \ {l})
  <2>1. /\ ignored' = TRUE /\ disturbed' = TRUE /\ UNCHANGED <<made, built, had>>
        /\ failures' \in 0..MaxFailures
    BY <1>5, OneMoreFailure DEF Unnoticed
  <2>2. PICK l \in runtime : lib' = copied(runtime \ {l})
    BY <1>5
  <2>3. runtime \ {l} \in SUBSET runtime
    OBVIOUS
  <2> QED BY <1>2, <1>5, <2>1, <2>2, <2>3
<1>6. CASE ToolFails /\ UNCHANGED lib
  <2>1. TypeOK'
    BY <1>1, <1>6, ToolFailsType DEF IInv, TypeOK
  <2>2. flat' \subseteq had
    BY <1>1 DEF IInv, ResInv
  <2> QED BY <1>1, <1>6, <2>1, <2>2, ToolFailsType, FailedKeeps
<1> QED BY <1>4, <1>5, <1>6 DEF Link

-------------------------------------------------------------------------------
(* Packaging *)

\* A step of packaging after which the run goes on: what is left to show is what it does to
\* the APK and to the files beside it.
LEMMA PackagingKeeps ==
  ASSUME IInv, pc # "off", todo = {}, pc' \in {"dex", "lib", "align", "mv", "key", "sign"},
         UNCHANGED <<res, source, archs, flat, resApk, lib, known, todo, outcome, runs>>,
         UNCHANGED <<made, built, had>>,
         failures' \in 0..MaxFailures, {aligned', signed', leftover', ignored', disturbed'} \subseteq BOOLEAN,
         keystore' \in {"none", "cut", "whole"}, ~ignored' => ~ignored, PackInv', LeftInv'
  PROVE  IInv'
<1>1. outcome = "none"
  BY DEF IInv, LinkInv
<1>2. TypeOK'
  BY <1>1 DEF IInv, TypeOK
<1>3. LibInv' /\ ResInv'
  BY DEF IInv, LibInv, ResInv
<1>4. LinkInv'
  BY DEF IInv, LinkInv
<1>5. ApkIsExact' /\ BlockedOnlyAfterFailure'
  BY <1>1 DEF ApkIsExact, BlockedOnlyAfterFailure
<1> QED BY <1>2, <1>3, <1>4, <1>5 DEF IInv

\* A tool of packaging fails.
LEMMA PackagingFails ==
  ASSUME IInv, ToolFails,
         UNCHANGED <<res, source, archs, flat, resApk, lib, apk, aligned, signed, known, keystore>>,
         leftover' \in BOOLEAN
  PROVE  IInv'
<1>1. TypeOK'
  BY ToolFailsType DEF IInv, TypeOK
<1>2. flat' \subseteq had
  BY DEF IInv, ResInv
<1> QED BY <1>1, <1>2, ToolFailsType, FailedKeeps

LEMMA PastType ==
  ASSUME IInv, Unnoticed \/ UNCHANGED past
  PROVE  /\ failures' \in 0..MaxFailures /\ {ignored', disturbed'} \subseteq BOOLEAN
         /\ UNCHANGED <<made, built, had>> /\ (~ignored' => ~ignored) /\ (~disturbed' => ~disturbed /\ (ignored' => ignored))
<1>1. failures \in 0..MaxFailures /\ ignored \in BOOLEAN /\ disturbed \in BOOLEAN
  BY DEF IInv, TypeOK
<1>2. CASE Unnoticed
  <2>1. ignored' = TRUE /\ disturbed' = TRUE /\ UNCHANGED <<made, built, had>>
    BY <1>2 DEF Unnoticed
  <2>2. failures' \in 0..MaxFailures
    BY <1>2, OneMoreFailure DEF Unnoticed
  <2> QED BY <2>1, <2>2
<1>3. CASE UNCHANGED past
  BY <1>1, <1>3 DEF past
<1> QED BY <1>2, <1>3

LEMMA CopyResourcesKeeps == ASSUME IInv, CopyResources PROVE IInv'
<1>1. /\ UNCHANGED <<res, source, archs, flat, resApk, lib, leftover, keystore, known, todo,
                     outcome, runs>>
      /\ pc = "tasks" /\ todo = {} /\ pc' = "dex"
      /\ \/ apk' = resApk /\ aligned' = FALSE /\ signed' = FALSE /\ UNCHANGED past
         \/ Unnoticed /\ UNCHANGED <<aligned, signed>>
  BY DEF CopyResources, Goto, project
<1>2. /\ failures' \in 0..MaxFailures /\ {ignored', disturbed'} \subseteq BOOLEAN
      /\ UNCHANGED <<made, built, had>> /\ (~ignored' => ~ignored) /\ (~disturbed' => ~disturbed /\ (ignored' => ignored))
  BY <1>1, PastType
<1>3. ~ignored' => apk' = resApk
  BY <1>1 DEF Unnoticed
<1>4. PackInv'
  BY <1>1, <1>3 DEF IInv, PackInv
<1>5. LeftInv'
  BY <1>1, <1>2 DEF IInv, LeftInv
<1>6. {aligned', signed', leftover'} \subseteq BOOLEAN /\ keystore' \in {"none", "cut", "whole"}
  BY <1>1 DEF IInv, TypeOK
<1> QED BY <1>1, <1>2, <1>4, <1>5, <1>6, PackagingKeeps

LEMMA AddDexKeeps == ASSUME IInv, AddDex PROVE IInv'
<1>1. /\ UNCHANGED <<res, source, archs, flat, resApk, lib, leftover, keystore, known>>
      /\ pc = "dex"
  BY DEF AddDex, project
<1>2. CASE Goto("lib") /\ Zip({Dex}) /\ UNCHANGED past
  <2>1. UNCHANGED <<todo, outcome, runs>> /\ pc' = "lib" /\ aligned' = FALSE /\ signed' = FALSE
    BY <1>2 DEF Goto, Zip
  <2>2. /\ failures' \in 0..MaxFailures /\ {ignored', disturbed'} \subseteq BOOLEAN
        /\ UNCHANGED <<made, built, had>> /\ (~ignored' => ~ignored) /\ (~disturbed' => ~disturbed /\ (ignored' => ignored))
    BY <1>2, PastType
  <2>3. todo = {} /\ {leftover', aligned', signed'} \subseteq BOOLEAN /\ keystore' \in {"none", "cut", "whole"}
    BY <1>1, <2>1 DEF IInv, TypeOK
  <2>4. Dex \in apk'
    BY <1>2 DEF Zip
  <2>5. ASSUME ~ignored' PROVE apk' = resApk \cup {Dex}
    <3>1. apk = resApk /\ resApk # NoFile
      BY <1>1, <2>2, <2>3, <2>5 DEF IInv, PackInv, LinkInv
    <3>2. \A e \in apk : e[1] \in {"res", "manifest"} /\ e \notin NoFile
      BY <3>1, ResourcesApart
    <3>3. \A e \in apk : e[1] # Dex[1]
      BY <3>2, FilesApart
    <3> QED BY <1>2, <3>1, <3>2, <3>3 DEF Zip
  <2>6. PackInv'
    BY <1>1, <2>1, <2>4, <2>5 DEF IInv, PackInv
  <2>7. LeftInv'
    BY <1>1, <2>1, <2>2 DEF IInv, LeftInv
  <2> QED BY <1>1, <2>1, <2>2, <2>3, <2>6, <2>7, PackagingKeeps
<1>3. CASE ToolFails /\ UNCHANGED <<apk, aligned, signed>>
  <2>1. leftover' \in BOOLEAN
    BY <1>1 DEF IInv, TypeOK
  <2> QED BY <1>1, <1>3, <2>1, PackagingFails
<1> QED BY <1>2, <1>3 DEF AddDex

LEMMA AddLibsKeeps == ASSUME IInv, AddLibs PROVE IInv'
<1>1. /\ UNCHANGED <<res, source, archs, flat, resApk, lib, leftover, keystore, known>>
      /\ pc = "lib"
  BY DEF AddLibs, project
<1>2. CASE Goto("align") /\ Zip(lib) /\ UNCHANGED past
  <2>1. UNCHANGED <<todo, outcome, runs>> /\ pc' = "align" /\ aligned' = FALSE /\ signed' = FALSE
    BY <1>2 DEF Goto, Zip
  <2>2. /\ failures' \in 0..MaxFailures /\ {ignored', disturbed'} \subseteq BOOLEAN
        /\ UNCHANGED <<made, built, had>> /\ (~ignored' => ~ignored) /\ (~disturbed' => ~disturbed /\ (ignored' => ignored))
    BY <1>2, PastType
  <2>3. todo = {} /\ {leftover', aligned', signed'} \subseteq BOOLEAN /\ keystore' \in {"none", "cut", "whole"}
    BY <1>1, <2>1 DEF IInv, TypeOK
  <2>4. \A e \in lib : e[1] \in Abis
    BY DEF IInv, TypeOK
  <2>5. Dex \in apk'
    <3>1. Dex \in apk \ NoFile
      BY <1>1, FilesApart DEF IInv, PackInv
    <3>2. \A n \in lib : Dex[1] # n[1]
      BY <2>4, FilesApart, TagsApart
    <3> QED BY <1>2, <3>1, <3>2 DEF Zip
  <2>6. ASSUME ~ignored' PROVE apk' = resApk \cup {Dex} \cup lib
    <3>1. apk = resApk \cup {Dex} /\ resApk # NoFile
      BY <1>1, <2>2, <2>3, <2>6 DEF IInv, PackInv, LinkInv
    <3>2. \A e \in resApk : e[1] \in {"res", "manifest"} /\ e \notin NoFile
      BY <3>1, ResourcesApart
    <3>3. \A e \in apk : e[1] \notin Abis /\ e \notin NoFile
      BY <3>1, <3>2, FilesApart, TagsApart
    <3>4. \A e \in apk, n \in lib : e[1] # n[1]
      BY <2>4, <3>3
    <3> QED BY <1>2, <3>1, <3>3, <3>4 DEF Zip
  <2>7. PackInv'
    BY <1>1, <2>1, <2>5, <2>6 DEF IInv, PackInv
  <2>8. LeftInv'
    BY <1>1, <2>1, <2>2 DEF IInv, LeftInv
  <2> QED BY <1>1, <2>1, <2>2, <2>3, <2>7, <2>8, PackagingKeeps
<1>3. CASE ToolFails /\ UNCHANGED <<apk, aligned, signed>>
  <2>1. leftover' \in BOOLEAN
    BY <1>1 DEF IInv, TypeOK
  <2> QED BY <1>1, <1>3, <2>1, PackagingFails
<1> QED BY <1>2, <1>3 DEF AddLibs

LEMMA AlignKeeps == ASSUME IInv, Align PROVE IInv'
<1>1. /\ UNCHANGED <<res, source, archs, flat, resApk, lib, apk, aligned, signed, keystore, known>>
      /\ pc = "align"
  BY DEF Align, project
<1>2. CASE ~leftover /\ Goto("mv") /\ leftover' = TRUE /\ UNCHANGED past
  <2>1. UNCHANGED <<todo, outcome, runs>> /\ pc' = "mv" /\ leftover' = TRUE
    BY <1>2 DEF Goto
  <2>2. /\ failures' \in 0..MaxFailures /\ {ignored', disturbed'} \subseteq BOOLEAN
        /\ UNCHANGED <<made, built, had>> /\ (~ignored' => ~ignored) /\ (~disturbed' => ~disturbed /\ (ignored' => ignored))
    BY <1>2, PastType
  <2>3. todo = {} /\ {leftover', aligned', signed'} \subseteq BOOLEAN /\ keystore' \in {"none", "cut", "whole"}
    BY <1>1, <2>1 DEF IInv, TypeOK
  <2>4. PackInv'
    BY <1>1, <2>1, <2>2 DEF IInv, PackInv
  <2>5. LeftInv'
    BY <1>1, <2>1, <2>2 DEF IInv, LeftInv
  <2> QED BY <1>1, <2>1, <2>2, <2>3, <2>4, <2>5, PackagingKeeps
<1>3. CASE leftover /\ Blocked /\ UNCHANGED leftover
  <2>1. disturbed
    BY <1>1, <1>3 DEF IInv, LeftInv
  <2>2. flat' \subseteq had /\ UNCHANGED project
    BY <1>1 DEF IInv, ResInv, project
  <2> QED BY <1>1, <1>3, <2>1, <2>2, BlockedKeeps
<1>4. CASE ToolFails /\ leftover' \in {leftover, TRUE}
  <2>1. leftover' \in BOOLEAN
    BY <1>4 DEF IInv, TypeOK
  <2> QED BY <1>1, <1>4, <2>1, PackagingFails
<1> QED BY <1>2, <1>3, <1>4 DEF Align

LEMMA MoveKeeps == ASSUME IInv, Move PROVE IInv'
<1>1. /\ UNCHANGED <<res, source, archs, flat, resApk, lib, apk, signed, keystore, known, todo,
                     outcome, runs>>
      /\ pc = "mv" /\ pc' = "key"
      /\ \/ aligned' = TRUE /\ leftover' = FALSE /\ UNCHANGED past
         \/ Unnoticed /\ UNCHANGED <<aligned, leftover>>
  BY DEF Move, Goto, project
<1>2. /\ failures' \in 0..MaxFailures /\ {ignored', disturbed'} \subseteq BOOLEAN
      /\ UNCHANGED <<made, built, had>> /\ (~ignored' => ~ignored) /\ (~disturbed' => ~disturbed /\ (ignored' => ignored))
  BY <1>1, PastType
<1>3. todo = {} /\ {leftover', aligned', signed'} \subseteq BOOLEAN /\ keystore' \in {"none", "cut", "whole"}
  BY <1>1 DEF IInv, TypeOK
<1>4. (~ignored' => aligned') /\ (~disturbed' => ~leftover')
  BY <1>1 DEF Unnoticed
<1>5. PackInv'
  BY <1>1, <1>2, <1>4 DEF IInv, PackInv
<1>6. LeftInv'
  BY <1>1, <1>2, <1>4 DEF IInv, LeftInv
<1> QED BY <1>1, <1>2, <1>3, <1>5, <1>6, PackagingKeeps

LEMMA EnsureKeystoreKeeps == ASSUME IInv, EnsureKeystore PROVE IInv'
<1>1. /\ UNCHANGED <<res, source, archs, flat, resApk, lib, apk, aligned, signed, leftover, known,
                     todo, outcome, runs>>
      /\ pc = "key" /\ pc' = "sign"
      /\ \/ keystore # "none" /\ keystore' = keystore /\ UNCHANGED past
         \/ keystore' = "whole" /\ UNCHANGED past
         \/ Unnoticed /\ keystore' \in {"none", "cut"}
  BY DEF EnsureKeystore, Goto, project
<1>2. /\ failures' \in 0..MaxFailures /\ {ignored', disturbed'} \subseteq BOOLEAN
      /\ UNCHANGED <<made, built, had>> /\ (~ignored' => ~ignored) /\ (~disturbed' => ~disturbed /\ (ignored' => ignored))
  BY <1>1, PastType
<1>3. todo = {} /\ {leftover', aligned', signed'} \subseteq BOOLEAN /\ keystore' \in {"none", "cut", "whole"}
  BY <1>1 DEF IInv, TypeOK
<1>4. ~disturbed' => keystore' = "whole"
  BY <1>1, <1>2 DEF IInv, LeftInv, TypeOK, Unnoticed
<1>5. PackInv'
  BY <1>1, <1>2 DEF IInv, PackInv
<1>6. LeftInv'
  BY <1>1, <1>2, <1>4 DEF IInv, LeftInv
<1> QED BY <1>1, <1>2, <1>3, <1>5, <1>6, PackagingKeeps

\* What the invariant says of the libraries when nothing is left to do, as ApkIsExact says it.
LEMMA LibsAreExact ==
  ASSUME IInv, pc = "sign", ~ignored
  PROVE  /\ \A a \in archs : <<a, "libmain.so", source>> \in lib
         /\ \A a \in archs \ Abis32, l \in (Needed[source] \ System) \cap InNdk : <<a, l, 0>> \in lib
         /\ lib \subseteq Required \cup Stale
<1>1. todo = {} /\ archs \subseteq Abis /\ source \in Versions /\ built \subseteq Abis \X Versions
  BY DEF IInv, TypeOK
<1>2. \A a \in archs : /\ <<a, "libmain.so", source>> \in lib
                       /\ \A e \in lib : e[1] = a /\ e[2] = "libmain.so" => e[3] = source
                       /\ \A l \in RuntimeLibs(a, source) : <<a, l, 0>> \in lib
  BY <1>1 DEF IInv, LinkInv
<1>3. ASSUME NEW a \in archs \ Abis32, NEW l \in (Needed[source] \ System) \cap InNdk
      PROVE  <<a, l, 0>> \in lib
  <2>1. a \in archs /\ a \in Abis \ Abis32
    BY <1>1
  <2>2. l \in RuntimeLibs(a, source)
    BY <1>1, <2>1, TagsApart
  <2> QED BY <1>2, <2>1, <2>2
<1>4. ASSUME NEW e \in lib PROVE e \in Required \cup Stale
  <2>1. e = <<e[1], e[2], e[3]>>
    BY DEF IInv, LibInv
  <2>2. CASE e[2] = "libmain.so" /\ <<e[1], e[3]>> \in built
    <3>1. CASE e[1] \in archs
      <4>1. e[3] = source
        BY <1>2, <2>2, <3>1
      <4>2. e = <<e[1], "libmain.so", source>>
        BY <2>1, <2>2, <4>1
      <4> QED BY <3>1, <4>2 DEF Required
    <3>2. CASE e[1] \notin archs
      <4> DEFINE b == <<e[1], e[3]>>
      <4>1. b \in built /\ b[1] \notin archs /\ e = <<b[1], "libmain.so", b[2]>>
        BY <2>1, <2>2, <3>2
      <4>2. e \in {<<c[1], "libmain.so", c[2]>> : c \in {d \in built : d[1] \notin archs}}
        BY <4>1
      <4> QED BY <4>2 DEF Stale
    <3> QED BY <3>1, <3>2
  <2>3. CASE e[3] = 0 /\ \E b \in built : b[1] = e[1] /\ e[2] \in RuntimeLibs(b[1], b[2])
    <3>1. PICK b \in built : b[1] = e[1] /\ e[2] \in RuntimeLibs(b[1], b[2])
      BY <2>3
    <3>2. b[1] \in Abis /\ b[2] \in Versions
      BY <1>1
    <3>3. e[2] \in (Needed[b[2]] \ System) \cap InNdk
      BY <3>1, <3>2, TagsApart
    <3>4. e = <<b[1], e[2], 0>>
      BY <2>1, <2>3, <3>1
    <3>5. e \in {<<b[1], l, 0>> : l \in (Needed[b[2]] \ System) \cap InNdk}
      BY <3>3, <3>4
    <3> QED BY <3>5 DEF Stale
  <2> QED BY <2>2, <2>3 DEF IInv, LibInv
<1> QED BY <1>2, <1>3, <1>4

\* The same of the resources.
LEMMA ResourcesAreExact ==
  ASSUME IInv, resApk # NoFile
  PROVE  /\ Manifest \in resApk /\ \A p \in made : Entry(p) \in resApk
         /\ resApk \subseteq Required \cup Stale
<1>1. ASSUME NEW e \in resApk PROVE e \in Required \cup Stale
  <2>1. CASE e = Manifest
    BY <2>1 DEF Required
  <2>2. CASE \E p \in had : e = Entry(p) /\ (p \in made \/ \A m \in made : m[1] # p[1])
    <3>1. PICK p \in had : e = Entry(p) /\ (p \in made \/ \A m \in made : m[1] # p[1])
      BY <2>2
    <3>2. CASE p \in made
      BY <3>1, <3>2 DEF Required
    <3>3. CASE \A m \in made : m[1] # p[1]
      BY <3>1, <3>3 DEF Stale
    <3> QED BY <3>1, <3>2, <3>3
  <2> QED BY <2>1, <2>2 DEF IInv, ResInv
<1> QED BY <1>1 DEF IInv, ResInv

LEMMA SignKeeps == ASSUME IInv, Sign PROVE IInv'
<1>1. /\ UNCHANGED <<res, source, archs, flat, resApk, lib, apk, aligned, leftover, keystore>>
      /\ pc = "sign"
  BY DEF Sign, project
<1>2. todo = {} /\ resApk # NoFile /\ Dex \in apk
  BY <1>1 DEF IInv, TypeOK, LinkInv, PackInv
<1>3. CASE /\ pc' = "off" /\ outcome' = "ok" /\ signed' = TRUE /\ known' = TRUE
           /\ UNCHANGED <<todo, runs, past>>
  <2>1. UNCHANGED <<failures, ignored, made, built, had, disturbed>>
    BY <1>3 DEF past
  <2>2. apk # NoFile
    BY <1>2, FilesApart
  <2>3. TypeOK'
    BY <1>1, <1>3, <2>1, <2>2 DEF IInv, TypeOK
  <2>4. LibInv' /\ ResInv'
    BY <1>1, <1>3, <2>1 DEF IInv, LibInv, ResInv
  <2>5. LinkInv'
    BY <1>3 DEF LinkInv
  <2>6. PackInv'
    BY <1>1, <1>2, <1>3 DEF PackInv
  <2>7. LeftInv'
    BY <1>1, <1>3, <2>1 DEF IInv, LeftInv
  <2>8. ASSUME ~ignored PROVE Required \subseteq apk /\ apk \subseteq Required \cup Stale
    <3>1. apk = resApk \cup {Dex} \cup lib
      BY <1>1, <2>8 DEF IInv, PackInv
    <3>2. apk \subseteq Required \cup Stale
      BY <1>1, <1>2, <2>8, <3>1, LibsAreExact, ResourcesAreExact DEF Required
    <3>3. Required \subseteq apk
      BY <1>1, <1>2, <2>8, <3>1, LibsAreExact, ResourcesAreExact DEF Required
    <3> QED BY <3>2, <3>3
  <2>9. ~ignored => aligned
    BY <1>1 DEF IInv, PackInv
  <2>10. UNCHANGED <<Required, Stale>>
    BY <1>1, <2>1 DEF Required, Stale
  <2>11. ApkIsExact'
    BY <1>1, <1>3, <2>1, <2>8, <2>9, <2>10 DEF ApkIsExact
  <2>12. BlockedOnlyAfterFailure'
    BY <1>3 DEF BlockedOnlyAfterFailure
  <2> QED BY <2>3, <2>4, <2>5, <2>6, <2>7, <2>11, <2>12 DEF IInv
<1>4. CASE (keystore # "whole" \/ Manifest \notin apk) /\ Blocked /\ UNCHANGED <<signed, known>>
  <2>1. disturbed
    <3>1. ASSUME ~disturbed PROVE FALSE
      <4>1. keystore = "whole" /\ ~ignored
        BY <1>1, <3>1 DEF IInv, LeftInv
      <4>2. apk = resApk \cup {Dex} \cup lib
        BY <1>1, <4>1 DEF IInv, PackInv
      <4> QED BY <1>2, <1>4, <4>1, <4>2, ResourcesAreExact
    <3> QED BY <3>1 DEF IInv, TypeOK
  <2>2. flat' \subseteq had /\ UNCHANGED project
    BY <1>1 DEF IInv, ResInv, project
  <2> QED BY <1>1, <1>4, <2>1, <2>2, BlockedKeeps
<1>5. CASE ToolFails /\ UNCHANGED <<signed, known>>
  <2>1. leftover' \in BOOLEAN
    BY <1>1 DEF IInv, TypeOK
  <2> QED BY <1>1, <1>5, <2>1, PackagingFails
<1> QED BY <1>3, <1>4, <1>5 DEF Sign

-------------------------------------------------------------------------------

LEMMA StepKeeps == ASSUME IInv, [Next]_vars PROVE IInv'
BY StutterKeeps, StartKeeps, CompileResourcesKeeps, LinkKeeps, CopyResourcesKeeps, AddDexKeeps,
   AddLibsKeeps, AlignKeeps, MoveKeeps, EnsureKeystoreKeeps, SignKeeps, KillKeeps, EditKeeps,
   CleanKeeps DEF Next

LEMMA Invariant == Spec => []IInv
<1>1. Init => IInv
  BY InitKeeps
<1>2. IInv /\ [Next]_vars => IInv'
  BY StepKeeps
<1> QED BY <1>1, <1>2, PTL DEF Spec

\* Every variable of the packaging has its type.
THEOREM TypeCorrect == Spec => []TypeOK
BY Invariant, PTL DEF IInv

\* A run that succeeds with no failure that nobody looked at has made an APK that is aligned
\* and signed and has all that is required - which the runtime libraries of 32-bit ABIs are
\* not - and besides no more than what build/ had left: resources of files that are gone,
\* libraries of architectures no longer built for, runtime libraries no longer needed.
THEOREM ApkExact == Spec => []ApkIsExact
BY Invariant, PTL DEF IInv

\* Builds fail on what earlier ones left in build/ only after something failed or was killed,
\* or after a resource was moved to another file, since build/ was last removed.
THEOREM BlockedOnlyAfter == Spec => []BlockedOnlyAfterFailure
BY Invariant, PTL DEF IInv

-------------------------------------------------------------------------------
(* Resolver *)

Gave(r, d) == cache[r][d] \notin {Absent, Empty}

\* What each place of the run knows: only coordinates are fetched, the second repository is
\* asked after the first gave nothing, and there is a file to unzip unless the disk was full.
PlaceInv ==
  /\ phase \in {"fetch", "download"} => dep \in Remote
  /\ phase \in {"fetch", "download", "unzip"} /\ dep \in Remote =>
       /\ repo = 2 => ~Gave(1, dep)
       /\ phase = "unzip" => full \/ Gave(repo, dep)

\* The archive of a dependency: the file of the first repository that gave one.
Archive(d) == IF d \in Local THEN aar[d] ELSE IF Gave(1, d) THEN cache[1][d] ELSE cache[2][d]

Complete(d) ==
  \/ failedUnzip \/ (d \in Remote /\ full)
  \/ /\ d \in Remote => Gave(1, d) \/ Gave(2, d)
     /\ Archive(d) = Cut \/ Archive(d)[2] \subseteq includeDirs[d]

\* The dependencies the run has been through.
Passed == {Jobs[i] : i \in {n \in DOMAIN Jobs : n < job \/ (phase = "done" /\ n = job)}}

\* Each is complete or warned of, or is just being resolved for another architecture.
PassedInv ==
  /\ phase = "done" => job = Len(Jobs)
  /\ phase # "off" =>
       \A d \in Passed \ warned :
         Complete(d) \/ (d = dep /\ phase \in {"fetch", "download", "unzip"})

ResolverInv == ResolverTypeOK /\ CacheIsWhole /\ PlaceInv /\ PassedInv

\* The kinds of files are told apart by their tag.
LEMMA Kinds ==
  /\ Absent # Empty /\ Absent # Cut /\ Empty # Cut
  /\ \A f \in Archives : f # Empty /\ f # Cut
  /\ \A f \in Files : f # Absent /\ f # Empty /\ f # Cut /\ f[2] \subseteq Modules
  /\ Absent[2] = {} /\ Empty[2] = {} /\ Cut[2] = {}
BY DEF Absent, Empty, Cut, Archives, Files

LEMMA TwoRepos == 1 \in Repos /\ 2 \in Repos /\ \A r \in Repos : r = 1 \/ r = 2
BY DEF Repos

\* The job at hand is a dependency.
LEMMA DepIsDep ==
  ASSUME ResolverTypeOK
  PROVE  dep \in Deps /\ job \in DOMAIN Jobs /\ (dep \notin Remote => dep \in Local)
         /\ (dep \in Local => dep \notin Remote)
<1>1. Jobs \in Seq(Deps) /\ job \in 1..Len(Jobs) /\ Remote \cap Local = {}
  BY ResolverAssumption DEF ResolverTypeOK
<1> QED BY <1>1 DEF dep, Deps

LEMMA ResolverInitKeeps == ASSUME ResolverInit PROVE ResolverInv
<1>1. Jobs \in Seq(Deps) /\ Jobs # <<>> /\ MaxBuilds \in Nat
  BY ResolverAssumption
<1>2. 1 \in 1..Len(Jobs) /\ 0 \in 0..MaxBuilds
  BY <1>1
<1>3. ResolverTypeOK
  BY <1>2, TwoRepos DEF ResolverInit, ResolverTypeOK, Archives
<1>4. CacheIsWhole
  BY Kinds DEF ResolverInit, CacheIsWhole
<1>5. PlaceInv /\ PassedInv
  BY DEF ResolverInit, PlaceInv, PassedInv
<1> QED BY <1>3, <1>4, <1>5 DEF ResolverInv

LEMMA ResolverStutterKeeps == ASSUME ResolverInv, UNCHANGED resolver PROVE ResolverInv'
<1>1. UNCHANGED <<server, aar, cache, extracted, phase, job, repo, includeDirs, warned, builds,
                  killed, full, failedUnzip>>
  BY DEF resolver, stored, progress, history
<1> QED
  BY <1>1 DEF ResolverInv, ResolverTypeOK, CacheIsWhole, PlaceInv, PassedInv, Passed,
              Complete, Archive, Gave, dep

-------------------------------------------------------------------------------
(* Between the runs *)

LEMMA ResolverStartKeeps == ASSUME ResolverInv, StartResolver PROVE ResolverInv'
<1> USE DEF ResolverInv
<1>1. /\ UNCHANGED <<server, aar, cache, extracted, killed, full, failedUnzip>>
      /\ phase' = "resolve" /\ job' = 1 /\ repo' = 1 /\ warned' = {} /\ builds' = builds + 1
      /\ includeDirs' = [d \in Deps |-> {}] /\ phase \in {"off", "done"} /\ builds < MaxBuilds
  BY DEF StartResolver, stored, history
<1>2. Jobs \in Seq(Deps) /\ Jobs # <<>> /\ MaxBuilds \in Nat /\ builds \in 0..MaxBuilds
  BY ResolverAssumption DEF ResolverTypeOK
<1>3. 1 \in 1..Len(Jobs) /\ builds + 1 \in 0..MaxBuilds
  BY <1>1, <1>2
<1>4. ResolverTypeOK'
  BY <1>1, <1>3, TwoRepos DEF ResolverTypeOK
<1>5. CacheIsWhole'
  BY <1>1 DEF CacheIsWhole
<1>6. PlaceInv'
  BY <1>1 DEF PlaceInv
<1>7. Passed' = {}
  BY <1>1, <1>2 DEF Passed
<1>8. PassedInv'
  BY <1>1, <1>7 DEF PassedInv
<1> QED BY <1>4, <1>5, <1>6, <1>8

\* A run that is not on has nothing to keep but the cache.
LEMMA OffKeeps ==
  ASSUME ResolverInv, ResolverTypeOK', phase' = "off", UNCHANGED <<cache, full>>,
         killed' = TRUE \/ (killed' = killed /\ phase \in {"off", "done"})
  PROVE  ResolverInv'
<1> USE DEF ResolverInv
<1>1. CacheIsWhole'
  BY DEF CacheIsWhole
<1>2. PlaceInv' /\ PassedInv'
  BY DEF PlaceInv, PassedInv
<1> QED BY <1>1, <1>2

LEMMA ReplaceKeeps == ASSUME ResolverInv, Replace PROVE ResolverInv'
<1>1. ResolverTypeOK'
  BY DEF ResolverInv, ResolverTypeOK, Replace, history
<1> QED BY <1>1, OffKeeps DEF Replace, history

-------------------------------------------------------------------------------
(* Where the run goes next *)

\* Resolve, Fetch, Receive and Downloaded pass no dependency: what was complete may be in
\* doubt only for the one at hand.
LEMMA SameJob ==
  ASSUME ResolverInv, ResolverTypeOK', job' = job,
         UNCHANGED <<aar, includeDirs, warned, failedUnzip>>,
         full => full',
         phase \in {"resolve", "fetch", "download"}, phase' \in {"fetch", "download", "unzip"},
         \A r \in Repos, d \in Remote : d # dep => cache'[r][d] = cache[r][d]
  PROVE  PassedInv'
<1>1. Passed' = Passed /\ dep' = dep
  BY DEF Passed, dep
<1>2. SUFFICES ASSUME NEW d \in Passed \ warned, d # dep
               PROVE  Complete(d)'
  BY <1>1 DEF PassedInv
<1>3. Complete(d)
  BY <1>2 DEF ResolverInv, PassedInv
<1>4. d \in Deps
  <2>1. Jobs \in Seq(Deps)
    BY ResolverAssumption
  <2> QED BY <1>2, <2>1 DEF Passed
<1>5. d \in Remote => cache'[1][d] = cache[1][d] /\ cache'[2][d] = cache[2][d]
  BY <1>2, TwoRepos
<1>6. d \notin Local => d \in Remote
  BY <1>4 DEF Deps
<1>7. Archive(d)' = Archive(d)
  BY <1>5, <1>6 DEF Archive, Gave
<1> QED BY <1>3, <1>5, <1>7 DEF Complete, Gave

\* Step: the dependency at hand is passed, and those before it stay so.
LEMMA StepPasses ==
  ASSUME ResolverTypeOK, Step, phase \notin {"off", "done"}
  PROVE  /\ phase' \in {"resolve", "done"} /\ job' \in 1..Len(Jobs)
         /\ phase' = "done" => job' = Len(Jobs)
         /\ Passed' = Passed \cup {dep}
<1>1. Jobs \in Seq(Deps) /\ job \in 1..Len(Jobs) /\ Len(Jobs) \in Nat /\ job \in Nat
      /\ DOMAIN Jobs = 1..Len(Jobs)
  BY ResolverAssumption DEF ResolverTypeOK
<1>2. Passed = {Jobs[i] : i \in {n \in 1..Len(Jobs) : n < job}}
  BY <1>1 DEF Passed
<1>3. CASE job < Len(Jobs)
  <2>1. phase' = "resolve" /\ job' = job + 1
    BY <1>3 DEF Step
  <2>2. Passed' = {Jobs[i] : i \in {n \in 1..Len(Jobs) : n < job + 1}}
    BY <1>1, <2>1 DEF Passed
  <2>3. {n \in 1..Len(Jobs) : n < job + 1} = {n \in 1..Len(Jobs) : n < job} \cup {job}
    BY <1>1
  <2>4. Passed' = Passed \cup {dep}
    BY <1>2, <2>2, <2>3 DEF dep
  <2>5. job + 1 \in 1..Len(Jobs)
    BY <1>1, <1>3
  <2> QED BY <2>1, <2>4, <2>5
<1>4. CASE ~(job < Len(Jobs))
  <2>a. job = Len(Jobs)
    <3>1. \A n \in Nat : \A i \in 1..n : ~(i < n) => i = n
      OBVIOUS
    <3>2. Len(Jobs) \in Nat /\ job \in 1..Len(Jobs)
      BY <1>1
    <3> QED BY <3>1, <3>2, <1>4
  <2>b. phase' = "done" /\ job' = job
    BY <1>4 DEF Step
  <2>1. phase' = "done" /\ job' = job /\ job = Len(Jobs)
    BY <2>a, <2>b
  <2>2. Passed' = {Jobs[i] : i \in {n \in 1..Len(Jobs) : n < job \/ n = job}}
    BY <1>1, <2>1 DEF Passed
  <2>3. {n \in 1..Len(Jobs) : n < job \/ n = job} = {n \in 1..Len(Jobs) : n < job} \cup {job}
    BY <1>1
  <2>4. Passed' = Passed \cup {dep}
    BY <1>2, <2>2, <2>3 DEF dep
  <2> QED BY <1>1, <2>1, <2>4
<1> QED BY <1>3, <1>4

\* A dependency is passed, complete or with a warning.
LEMMA NextJob ==
  ASSUME ResolverInv, ResolverTypeOK', Step,
         phase \in {"fetch", "download", "unzip"}, aar' = aar, full' = full,
         \A r \in Repos, d \in Remote : d # dep => cache'[r][d] = cache[r][d],
         \A d \in Deps : d # dep => includeDirs'[d] = includeDirs[d],
         failedUnzip => failedUnzip',
         warned \subseteq warned',
         NEW e, e = dep, e \in warned' \/ Complete(e)'
  PROVE  PassedInv'
<1>1. /\ phase' \in {"resolve", "done"} /\ Passed' = Passed \cup {dep}
      /\ phase' = "done" => job' = Len(Jobs)
  BY StepPasses DEF ResolverInv
<1>2. SUFFICES ASSUME NEW d \in Passed, d \notin warned', d # dep
               PROVE  Complete(d)'
  BY <1>1 DEF PassedInv
<1>3. Complete(d)
  BY <1>2 DEF ResolverInv, PassedInv
<1>4. d \in Deps
  <2>1. Jobs \in Seq(Deps)
    BY ResolverAssumption
  <2> QED BY <1>2, <2>1 DEF Passed
<1>5. d \in Remote => cache'[1][d] = cache[1][d] /\ cache'[2][d] = cache[2][d]
  BY <1>2, TwoRepos
<1>6. d \notin Local => d \in Remote
  BY <1>4 DEF Deps
<1>7. Archive(d)' = Archive(d) /\ includeDirs'[d] = includeDirs[d]
  BY <1>2, <1>4, <1>5, <1>6 DEF Archive, Gave
<1> QED BY <1>3, <1>5, <1>7 DEF Complete, Gave

-------------------------------------------------------------------------------
(* The actions of a run *)

LEMMA ResolveKeeps == ASSUME ResolverInv, Resolve PROVE ResolverInv'
<1>1. /\ UNCHANGED <<job, includeDirs, warned, builds, server, aar, cache, extracted, killed,
                     full, failedUnzip>>
      /\ phase = "resolve" /\ phase' = IF dep \in Local THEN "unzip" ELSE "fetch"
      /\ repo' = 1 /\ dep' = dep
  BY DEF Resolve, stored, history, dep
<1>2. ResolverTypeOK'
  BY <1>1, TwoRepos DEF ResolverInv, ResolverTypeOK
<1>3. CacheIsWhole'
  BY <1>1 DEF ResolverInv, CacheIsWhole
<1>4. PlaceInv'
  BY <1>1, DepIsDep DEF ResolverInv, PlaceInv
<1>5. PassedInv'
  BY <1>1, <1>2, SameJob
<1> QED BY <1>2, <1>3, <1>4, <1>5 DEF ResolverInv

\* A repository that did not have it, when nothing but the file at hand has changed.
LEMMA GiveUpKeeps ==
  ASSUME ResolverInv, GiveUp, phase \in {"fetch", "download"},
         UNCHANGED <<includeDirs, builds, server, aar, extracted, killed, full, failedUnzip>>,
         cache' \in [Repos -> [Remote -> Archives \cup {Empty, Cut}]],
         \A r \in Repos, d \in Remote : r # repo \/ d # dep => cache'[r][d] = cache[r][d],
         cache'[repo][dep] \in {Absent, Empty}
  PROVE  ResolverInv'
<1>1. /\ dep \in Remote /\ dep \in Deps /\ repo \in Repos /\ warned \subseteq Deps
      /\ (phase = "fetch" \/ phase = "download") /\ job \in 1..Len(Jobs)
  BY DepIsDep DEF ResolverInv, PlaceInv, ResolverTypeOK
<1>2. CASE repo = 1
  <2>1. repo' = 2 /\ phase' = "fetch" /\ job' = job /\ warned' = warned /\ dep' = dep
    BY <1>2 DEF GiveUp, dep
  <2>2. ResolverTypeOK'
    BY <2>1, TwoRepos DEF ResolverInv, ResolverTypeOK
  <2>3. CacheIsWhole'
    BY <1>1, <2>1, Kinds DEF ResolverInv, CacheIsWhole
  <2>4. PlaceInv'
    BY <1>1, <1>2, <2>1 DEF PlaceInv, Gave
  <2>5. PassedInv'
    BY <1>1, <2>1, <2>2, SameJob
  <2> QED BY <2>2, <2>3, <2>4, <2>5 DEF ResolverInv
<1>3. CASE repo # 1
  <2>1. Step /\ warned' = warned \cup {dep} /\ repo' = repo
    BY <1>3 DEF GiveUp
  <2>2. phase' \in {"resolve", "done"} /\ job' \in 1..Len(Jobs)
    BY <1>1, <2>1, StepPasses DEF ResolverInv
  <2>3. ResolverTypeOK'
    BY <1>1, <2>1, <2>2 DEF ResolverInv, ResolverTypeOK
  <2>4. CacheIsWhole'
    BY <1>1, Kinds DEF ResolverInv, CacheIsWhole
  <2>5. PlaceInv'
    BY <2>2 DEF PlaceInv
  <2>6. PassedInv'
    <3>1. dep \in warned' /\ warned \subseteq warned'
      BY <2>1
    <3> QED BY <1>1, <2>1, <2>3, <3>1, NextJob
  <2> QED BY <2>3, <2>4, <2>5, <2>6 DEF ResolverInv
<1> QED BY <1>2, <1>3

LEMMA FetchKeeps == ASSUME ResolverInv, Fetch PROVE ResolverInv'
<1>1. /\ UNCHANGED <<includeDirs, builds, server, aar, extracted, killed, full, failedUnzip>>
      /\ phase = "fetch"
  BY DEF Fetch, history
<1>2. dep \in Remote /\ repo \in Repos /\ cache \in [Repos -> [Remote -> Archives \cup {Empty, Cut}]]
  BY <1>1 DEF ResolverInv, PlaceInv, ResolverTypeOK
<1>3. CASE IsCached
  <2>1. phase' = "unzip" /\ UNCHANGED <<job, repo, warned, cache>> /\ dep' = dep
    BY <1>3 DEF Fetch, dep
  <2>2. ResolverTypeOK'
    BY <1>1, <2>1 DEF ResolverInv, ResolverTypeOK
  <2>3. CacheIsWhole'
    BY <1>1, <2>1 DEF ResolverInv, CacheIsWhole
  <2>4. PlaceInv'
    BY <1>1, <1>2, <1>3, <2>1 DEF ResolverInv, PlaceInv, Gave, IsCached
  <2>5. PassedInv'
    BY <1>1, <2>1, <2>2, SameJob
  <2> QED BY <2>2, <2>3, <2>4, <2>5 DEF ResolverInv
<1>4. CASE ~IsCached /\ phase' = "download"
           /\ cache' = [cache EXCEPT ![repo][dep] = Empty] /\ UNCHANGED <<job, repo, warned>>
  <2>1. dep' = dep
    BY <1>4 DEF dep
  <2>2. cache' \in [Repos -> [Remote -> Archives \cup {Empty, Cut}]]
    BY <1>2, <1>4
  <2>3. ResolverTypeOK'
    BY <1>1, <1>4, <2>2 DEF ResolverInv, ResolverTypeOK
  <2>4. CacheIsWhole'
    BY <1>1, <1>2, <1>4, Kinds DEF ResolverInv, CacheIsWhole
  <2>5. PlaceInv'
    BY <1>1, <1>2, <1>4, <2>1, TwoRepos DEF ResolverInv, PlaceInv, Gave
  <2>6. PassedInv'
    BY <1>1, <1>2, <1>4, <2>3, SameJob
  <2> QED BY <2>3, <2>4, <2>5, <2>6 DEF ResolverInv
<1>5. CASE ~IsCached /\ GiveUp /\ UNCHANGED cache
  <2>1. cache'[repo][dep] \in {Absent, Empty}
    BY <1>5 DEF IsCached
  <2> QED BY <1>1, <1>2, <1>5, <2>1, GiveUpKeeps
<1> QED BY <1>3, <1>4, <1>5 DEF Fetch

LEMMA ReceiveKeeps == ASSUME ResolverInv, Receive PROVE ResolverInv'
<1>1. /\ UNCHANGED <<phase, job, repo, includeDirs, warned, builds, server, aar, extracted, killed,
                     full, failedUnzip>>
      /\ phase = "download" /\ cache' = [cache EXCEPT ![repo][dep] = Cut] /\ dep' = dep
  BY DEF Receive, progress, history, dep
<1>2. dep \in Remote /\ repo \in Repos /\ cache \in [Repos -> [Remote -> Archives \cup {Empty, Cut}]]
  BY <1>1 DEF ResolverInv, PlaceInv, ResolverTypeOK
<1>3. cache' \in [Repos -> [Remote -> Archives \cup {Empty, Cut}]]
  BY <1>1, <1>2
<1>4. ResolverTypeOK'
  BY <1>1, <1>3 DEF ResolverInv, ResolverTypeOK
<1>5. CacheIsWhole'
  BY <1>1, <1>2 DEF ResolverInv, CacheIsWhole
<1>6. PlaceInv'
  BY <1>1, <1>2, TwoRepos DEF ResolverInv, PlaceInv, Gave
<1>7. PassedInv'
  BY <1>1, <1>2, <1>4, SameJob
<1> QED BY <1>4, <1>5, <1>6, <1>7 DEF ResolverInv

LEMMA DownloadedKeeps == ASSUME ResolverInv, Downloaded PROVE ResolverInv'
<1>1. /\ UNCHANGED <<includeDirs, builds, server, aar, extracted, killed, failedUnzip>>
      /\ phase = "download"
  BY DEF Downloaded
<1>2. /\ dep \in Remote /\ repo \in Repos /\ server[repo][dep] \in Archives
      /\ cache \in [Repos -> [Remote -> Archives \cup {Empty, Cut}]]
  BY <1>1 DEF ResolverInv, PlaceInv, ResolverTypeOK
<1>3. CASE /\ server[repo][dep] # Absent /\ phase' = "unzip"
           /\ cache' = [cache EXCEPT ![repo][dep] = server[repo][dep]]
           /\ UNCHANGED <<job, repo, warned, full>>
  <2>1. dep' = dep
    BY <1>3 DEF dep
  <2>2. cache' \in [Repos -> [Remote -> Archives \cup {Empty, Cut}]]
    BY <1>2, <1>3
  <2>3. ResolverTypeOK'
    BY <1>1, <1>3, <2>2 DEF ResolverInv, ResolverTypeOK
  <2>4. CacheIsWhole'
    BY <1>1, <1>2, <1>3, Kinds DEF ResolverInv, CacheIsWhole
  <2>5. PlaceInv'
    BY <1>1, <1>2, <1>3, <2>1, TwoRepos, Kinds DEF ResolverInv, PlaceInv, Gave
  <2>6. PassedInv'
    BY <1>1, <1>2, <1>3, <2>3, SameJob
  <2> QED BY <2>3, <2>4, <2>5, <2>6 DEF ResolverInv
<1>4. CASE phase' = "unzip" /\ full' = TRUE /\ UNCHANGED <<cache, job, repo, warned>>
  <2>1. dep' = dep
    BY <1>4 DEF dep
  <2>2. ResolverTypeOK'
    BY <1>1, <1>4 DEF ResolverInv, ResolverTypeOK
  <2>3. CacheIsWhole'
    BY <1>4 DEF CacheIsWhole
  <2>4. PlaceInv'
    BY <1>1, <1>2, <1>4, <2>1 DEF ResolverInv, PlaceInv, Gave
  <2>5. PassedInv'
    BY <1>1, <1>4, <2>2, SameJob
  <2> QED BY <2>2, <2>3, <2>4, <2>5 DEF ResolverInv
<1>5. CASE GiveUp /\ UNCHANGED full /\ cache' = [cache EXCEPT ![repo][dep] = Absent]
  <2>1. cache' \in [Repos -> [Remote -> Archives \cup {Empty, Cut}]]
    BY <1>2, <1>5 DEF Archives
  <2>2. cache'[repo][dep] = Absent
    BY <1>2, <1>5
  <2>3. \A r \in Repos, d \in Remote : r # repo \/ d # dep => cache'[r][d] = cache[r][d]
    BY <1>2, <1>5
  <2> QED BY <1>1, <1>5, <2>1, <2>2, <2>3, GiveUpKeeps
<1> QED BY <1>3, <1>4, <1>5 DEF Downloaded

\* An archive that unzip takes apart without an error is complete.
\* An archive has modules, whichever file it is.
LEMMA AarType == ASSUME ResolverInv PROVE Aar[2] \subseteq Modules
<1>1. /\ dep \in Deps /\ (dep \notin Remote => dep \in Local) /\ repo \in Repos
      /\ (dep \in Local => dep \notin Remote)
      /\ aar \in [Local -> Files] /\ cache \in [Repos -> [Remote -> Archives \cup {Empty, Cut}]]
  BY DepIsDep DEF ResolverInv, ResolverTypeOK
<1>2. Aar \in Files \cup {Absent, Empty, Cut}
  BY <1>1 DEF Archives, Aar
<1> QED BY <1>2, Kinds

LEMMA ResolverKillKeeps == ASSUME ResolverInv, KillResolver PROVE ResolverInv'
<1>1. extracted' \in [Deps -> SUBSET Modules]
  BY AarType, DepIsDep DEF ResolverInv, ResolverTypeOK, KillResolver
<1>2. ResolverTypeOK'
  BY <1>1 DEF ResolverInv, ResolverTypeOK, KillResolver
<1> QED BY <1>2, OffKeeps DEF KillResolver

LEMMA UnzipKeeps == ASSUME ResolverInv, Unzip PROVE ResolverInv'
<1> DEFINE f == IF dep \in Local THEN aar[dep] ELSE cache[repo][dep]
<1>1. /\ UNCHANGED <<repo, warned, builds, server, aar, cache, killed, full>>
      /\ phase = "unzip" /\ Step
  BY DEF Unzip
<1>2. PICK got \in SUBSET f[2] :
        /\ extracted' = [extracted EXCEPT ![dep] = @ \cup got]
        /\ failedUnzip' = (failedUnzip \/ (got # f[2]))
        /\ includeDirs' = [includeDirs EXCEPT ![dep] = @ \cup extracted[dep] \cup got]
  BY DEF Unzip, Aar
<1>3. /\ dep \in Deps /\ (dep \notin Remote => dep \in Local)
      /\ (dep \in Local => dep \notin Remote) /\ repo \in Repos
      /\ aar \in [Local -> Files] /\ cache \in [Repos -> [Remote -> Archives \cup {Empty, Cut}]]
      /\ extracted \in [Deps -> SUBSET Modules] /\ includeDirs \in [Deps -> SUBSET Modules]
      /\ failedUnzip \in BOOLEAN
  BY DepIsDep DEF ResolverInv, ResolverTypeOK
<1>4. phase' \in {"resolve", "done"} /\ job' \in 1..Len(Jobs)
  BY <1>1, StepPasses DEF ResolverInv
<1>5. got \subseteq Modules
  BY <1>2, AarType DEF Aar
<1>6. ResolverTypeOK'
  <2>1. extracted' \in [Deps -> SUBSET Modules] /\ includeDirs' \in [Deps -> SUBSET Modules]
    BY <1>2, <1>3, <1>5
  <2>2. failedUnzip' \in BOOLEAN
    BY <1>2, <1>3
  <2> QED BY <1>1, <1>4, <2>1, <2>2 DEF ResolverInv, ResolverTypeOK
<1>7. CacheIsWhole'
  BY <1>1 DEF ResolverInv, CacheIsWhole
<1>8. PlaceInv'
  BY <1>4 DEF PlaceInv
<1>9. PassedInv'
  <2>1. PICK e : e = dep
    OBVIOUS
  <2>2. failedUnzip' \/ f[2] \subseteq includeDirs'[dep]
    BY <1>2, <1>3
  <2>3. dep \in Remote => full \/ (Gave(repo, dep) /\ Archive(dep) = cache[repo][dep])
    BY <1>1, <1>3, TwoRepos DEF ResolverInv, PlaceInv, Archive
  <2>4. dep \in Local => Archive(dep) = f
    BY DEF Archive
  <2>5. Archive(e)' = Archive(dep) /\ full' = full
        /\ (Gave(1, e) <=> Gave(1, e)') /\ (Gave(2, e) <=> Gave(2, e)')
    BY <1>1, <2>1 DEF Archive, Gave
  <2>6. dep \in Local => Complete(e)'
    BY <1>3, <2>1, <2>2, <2>4, <2>5 DEF Complete
  <2>7. dep \in Remote => Complete(e)'
    BY <1>3, <2>1, <2>2, <2>3, <2>5, TwoRepos DEF Complete
  <2>8. Complete(e)'
    BY <1>3, <2>6, <2>7
  <2>9. \A d \in Deps : d # dep => includeDirs'[d] = includeDirs[d]
    BY <1>2, <1>3
  <2> QED BY <1>1, <1>2, <1>6, <2>1, <2>8, <2>9, NextJob
<1> QED BY <1>6, <1>7, <1>8, <1>9 DEF ResolverInv

-------------------------------------------------------------------------------

LEMMA ResolverStepKeeps == ASSUME ResolverInv, [ResolverNext]_resolver PROVE ResolverInv'
BY ResolverStutterKeeps, ResolverStartKeeps, ResolveKeeps, FetchKeeps, ReceiveKeeps, DownloadedKeeps,
   UnzipKeeps, ResolverKillKeeps, ReplaceKeeps DEF ResolverNext

LEMMA ResolverInvariant == ResolverSpec => []ResolverInv
<1>1. ResolverInit => ResolverInv
  BY ResolverInitKeeps
<1>2. ResolverInv /\ [ResolverNext]_resolver => ResolverInv'
  BY ResolverStepKeeps
<1> QED BY <1>1, <1>2, PTL DEF ResolverSpec

\* Every variable of the resolver keeps its type.
THEOREM ResolverTypeCorrect == ResolverSpec => []ResolverTypeOK
BY ResolverInvariant, PTL DEF ResolverInv

\* What later runs take for a finished download is one, unless abt was killed or the disk
\* was full, or it is the file that is being downloaded.
THEOREM CacheWhole == ResolverSpec => []CacheIsWhole
BY ResolverInvariant, PTL DEF ResolverInv

\* When phase 2 is over, each dependency that was not warned of has all its modules among
\* the include directories, unless its file is cut, an unzip failed or the disk was full.
THEOREM IncludesComplete == ResolverSpec => []IncludesAreComplete
<1>1. ResolverInv => IncludesAreComplete
  <2> SUFFICES ASSUME ResolverInv,
                      phase = "done", NEW i \in DOMAIN Jobs, Jobs[i] \notin warned
               PROVE  LET d == Jobs[i]
                          gave == {r \in Repos : d \in Remote /\ cache[r][d] \notin {Absent, Empty}}
                          file == IF d \in Local THEN aar[d]
                                  ELSE cache[CHOOSE r \in gave : \A q \in gave : r <= q][d]
                      IN  failedUnzip \/ (d \in Remote /\ full) \/ file = Cut
                            \/ file[2] \subseteq includeDirs[d]
    BY DEF IncludesAreComplete
  <2> DEFINE d == Jobs[i]
             gave == {r \in Repos : d \in Remote /\ cache[r][d] \notin {Absent, Empty}}
  <2>1. Jobs \in Seq(Deps) /\ DOMAIN Jobs = 1..Len(Jobs) /\ Len(Jobs) \in Nat
    BY ResolverAssumption
  <2>2. d \in Passed
    BY <2>1 DEF ResolverInv, PassedInv, Passed
  <2>3. Complete(d)
    BY <2>2 DEF ResolverInv, PassedInv
  <2>4. d \in Deps /\ (d \in Local => d \notin Remote)
    BY <2>1, ResolverAssumption
  <2>5. CASE d \in Local
    BY <2>3, <2>5 DEF Complete, Archive
  <2>6. CASE d \in Remote /\ Gave(1, d)
    <3>1. 1 \in gave /\ gave \subseteq 1..2
      BY <2>6 DEF Gave, Repos
    <3>2. (CHOOSE r \in gave : \A q \in gave : r <= q) = 1
      BY <3>1
    <3> QED BY <2>3, <2>4, <2>6, <3>2 DEF Complete, Archive
  <2>7. CASE d \in Remote /\ ~Gave(1, d) /\ Gave(2, d)
    <3>1. gave = {2}
      BY <2>7 DEF Gave, Repos
    <3>2. (CHOOSE r \in gave : \A q \in gave : r <= q) = 2
      BY <3>1
    <3> QED BY <2>3, <2>4, <2>7, <3>2 DEF Complete, Archive
  <2>8. CASE d \in Remote /\ ~Gave(1, d) /\ ~Gave(2, d)
    BY <2>3, <2>8 DEF Complete
  <2> QED BY <2>4, <2>5, <2>6, <2>7, <2>8 DEF Deps
<1>2. ResolverSpec => []ResolverInv
  BY ResolverInvariant
<1> QED BY <1>1, <1>2, PTL

-------------------------------------------------------------------------------
(* The two together, as MCBuildArtifacts has them *)

\* Whichever phase a behavior is of: the variables of both keep their types (TypesOK of
\* MCBuildArtifacts).
THEOREM ArtifactsTypeCorrect == MCSpec => []TypesOK
<1>1. MCInit => IInv /\ ResolverInv
  BY InitKeeps, ResolverInitKeeps DEF MCInit
<1>2. IInv /\ ResolverInv /\ [MCNext]_<<part, resolver, vars>> => (IInv /\ ResolverInv)'
  BY StepKeeps, ResolverStepKeeps DEF MCNext
<1>3. IInv /\ ResolverInv => TypesOK
  BY DEF IInv, ResolverInv, TypesOK
<1> QED BY <1>1, <1>2, <1>3, PTL DEF MCSpec
===============================================================================
