-------------------------------- MODULE Resolver ------------------------------
(***************************************************************************)
(* Phase 2 of a build (src/src/main.cpp): Resolver and Fetcher             *)
(* (src/src/depman/resolver/Resolver.cpp) over several runs of abt, any of *)
(* which may be killed at any step.                                        *)
(*                                                                         *)
(* An archive is the set of the prefab modules it has; a file of the       *)
(* download cache is such a set, or "cut": a part of an archive, or of an  *)
(* error page.                                                             *)
(***************************************************************************)
EXTENDS Naturals, Sequences, FiniteSets

CONSTANTS Remote,      \* dependencies given as group:artifact:version
          Local,       \* dependencies given as a path (MavenCoord::parse)
          Modules,     \* modules an archive may have
          Jobs,        \* sequence of the dependencies to resolve, one for each architecture
          MaxBuilds    \* bound: runs of abt

Deps == Remote \cup Local
Repos == 1..2                            \* Maven Central, then Google Maven
Absent == <<"absent", {}>>                     \* no such file
Empty == <<"empty", {}>>                       \* opened and nothing written yet
Cut == <<"cut", {}>>
Files == {<<"whole", m>> : m \in SUBSET Modules}  \* whole archives

\* A dependency is a path or a coordinate, and there is one to resolve.
ASSUME ResolverAssumption == /\ Remote \cap Local = {} /\ MaxBuilds \in Nat
                             /\ Jobs \in Seq(Deps) /\ Jobs # <<>>

VARIABLES server,       \* what each repository has of each remote dependency
          aar,          \* the archive at each local path
          cache,        \* file of the download cache, by repository and dependency
          extracted,    \* modules that lie in a dependency's directory
          phase, job, repo,
          includeDirs,  \* modules added to cfg_.includeDirs, by dependency
          warned,       \* dependencies the run gave up
          builds,
          killed, full, failedUnzip   \* history: a kill, a full disk, an unzip that failed

stored   == <<server, aar, cache, extracted>>
progress == <<phase, job, repo, includeDirs, warned, builds>>
history  == <<killed, full, failedUnzip>>
resolver == <<stored, progress, history>>

dep == Jobs[job]
Archives == {Absent} \cup Files

ResolverInit ==
  /\ server \in [Repos -> [Remote -> {f \in Archives : f # <<"whole", {}>>}]]
  /\ aar \in [Local -> Files]
  /\ cache = [r \in Repos |-> [d \in Remote |-> Absent]]
  /\ extracted = [d \in Deps |-> {}]
  /\ phase = "off" /\ job = 1 /\ repo = 1
  /\ includeDirs = [d \in Deps |-> {}] /\ warned = {}
  /\ builds = 0
  /\ killed = FALSE /\ full = FALSE /\ failedUnzip = FALSE

-------------------------------------------------------------------------------

\* A build begins: the directories are made and what was resolved before is not known.
StartResolver ==
  /\ phase \in {"off", "done"} /\ builds < MaxBuilds
  /\ phase' = "resolve" /\ job' = 1 /\ repo' = 1
  /\ includeDirs' = [d \in Deps |-> {}] /\ warned' = {}
  /\ builds' = builds + 1
  /\ UNCHANGED <<stored, history>>

\* Another dependency or architecture, or the end of the phase.
Step ==
  IF job < Len(Jobs) THEN phase' = "resolve" /\ job' = job + 1
  ELSE phase' = "done" /\ UNCHANGED job

Resolve ==
  /\ phase = "resolve"
  /\ phase' = IF dep \in Local THEN "unzip" ELSE "fetch"
  /\ repo' = 1
  /\ UNCHANGED <<job, includeDirs, warned, builds, stored, history>>

\* A repository that did not have it: the next, or a warning and no result.
GiveUp ==
  IF repo = 1 THEN repo' = 2 /\ phase' = "fetch" /\ UNCHANGED <<job, warned>>
  ELSE Step /\ warned' = warned \cup {dep} /\ UNCHANGED repo

IsCached == cache[repo][dep] \notin {Absent, Empty}

\* fetch, up to curl_easy_perform: a hit, an error, or a file that is open and empty.
Fetch ==
  /\ phase = "fetch"
  /\ IF IsCached
     THEN phase' = "unzip" /\ UNCHANGED <<job, repo, warned, cache>>
     ELSE \/ /\ phase' = "download"
             /\ cache' = [cache EXCEPT ![repo][dep] = Empty]
             /\ UNCHANGED <<job, repo, warned>>
          \/ GiveUp /\ UNCHANGED cache
  /\ UNCHANGED <<includeDirs, builds, server, aar, extracted, history>>

\* writeCallback: bytes of the archive or of what the server says instead.
Receive ==
  /\ phase = "download" /\ cache[repo][dep] = Empty
  /\ cache' = [cache EXCEPT ![repo][dep] = Cut]
  /\ UNCHANGED <<progress, server, aar, extracted, history>>

\* Mutated Downloaded: nothing is removed after an error.
Downloaded_noRemove ==
  /\ phase = "download"
  /\ \/ /\ server[repo][dep] # Absent /\ cache[repo][dep] = Cut
        /\ phase' = "unzip" /\ cache' = [cache EXCEPT ![repo][dep] = server[repo][dep]]
        /\ UNCHANGED <<job, repo, warned>>
     \/ GiveUp /\ UNCHANGED cache
  /\ UNCHANGED <<includeDirs, builds, server, aar, extracted, history>>

\* curl_easy_perform returns: the archive with status 200 - of which the callback may have
\* lost a part, since it does not look at what write() does - or an error or another status,
\* and the file is removed.
Downloaded ==
  /\ phase = "download"
  /\ \/ /\ server[repo][dep] # Absent /\ cache[repo][dep] = Cut
        /\ phase' = "unzip"
        /\ cache' = [cache EXCEPT ![repo][dep] = server[repo][dep]]
        /\ UNCHANGED <<job, repo, warned, full>>
     \/ /\ server[repo][dep] # Absent
        /\ phase' = "unzip" /\ full' = TRUE
        /\ UNCHANGED <<cache, job, repo, warned>>
     \/ /\ GiveUp /\ UNCHANGED full
        /\ cache' = [cache EXCEPT ![repo][dep] = Absent]
  /\ UNCHANGED <<includeDirs, builds, server, aar, extracted, killed, failedUnzip>>

\* The archive that is extracted.
Aar == IF dep \in Local THEN aar[dep] ELSE cache[repo][dep]

\* Mutated Unzip: what an earlier extraction has left is not looked at.
Unzip_onlyNew ==
  /\ phase = "unzip"
  /\ extracted' = [extracted EXCEPT ![dep] = @ \cup Aar[2]]
  /\ includeDirs' = [includeDirs EXCEPT ![dep] = @ \cup (extracted'[dep] \ extracted[dep])]
  /\ Step
  /\ UNCHANGED <<repo, warned, builds, server, aar, cache, history>>

\* extractAar: unzip adds to what earlier extractions have left; that it failed is only
\* warned of; every module that lies in the directory is an include directory.
Unzip ==
  /\ phase = "unzip"
  /\ \E got \in SUBSET Aar[2] :
       /\ extracted' = [extracted EXCEPT ![dep] = @ \cup got]
       /\ failedUnzip' = (failedUnzip \/ (got # Aar[2]))
       /\ includeDirs' = [includeDirs EXCEPT ![dep] = @ \cup extracted[dep] \cup got]
  /\ Step
  /\ UNCHANGED <<repo, warned, builds, server, aar, cache, killed, full>>

\* abt is killed; a second Ctrl+C does that.  The unzip it waits for may have begun.
KillResolver ==
  /\ phase \notin {"off", "done"}
  /\ phase' = "off" /\ killed' = TRUE
  /\ \/ UNCHANGED extracted
     \/ /\ phase = "unzip"
        /\ \E got \in SUBSET Aar[2] : extracted' = [extracted EXCEPT ![dep] = @ \cup got]
  /\ UNCHANGED <<job, repo, includeDirs, warned, builds, server, aar, cache, full, failedUnzip>>

\* Between two runs a local archive is replaced.
Replace ==
  /\ phase \in {"off", "done"} /\ builds < MaxBuilds
  /\ \E d \in Local, f \in Files : aar[d] # f /\ aar' = [aar EXCEPT ![d] = f]
  /\ phase' = "off"
  /\ UNCHANGED <<job, repo, includeDirs, warned, builds, server, cache, extracted, history>>

ResolverNext ==
  \/ StartResolver \/ Resolve \/ Fetch \/ Receive \/ Downloaded \/ Unzip \/ KillResolver \/ Replace
  \/ phase \in {"off", "done"} /\ builds = MaxBuilds /\ UNCHANGED resolver

ResolverSpec == ResolverInit /\ [][ResolverNext]_resolver

-------------------------------------------------------------------------------

\* Every variable has its type.
ResolverTypeOK ==
  /\ server \in [Repos -> [Remote -> Archives]] /\ aar \in [Local -> Files]
  /\ cache \in [Repos -> [Remote -> Archives \cup {Empty, Cut}]]
  /\ extracted \in [Deps -> SUBSET Modules] /\ includeDirs \in [Deps -> SUBSET Modules]
  /\ phase \in {"off", "resolve", "fetch", "download", "unzip", "done"}
  /\ job \in 1..Len(Jobs) /\ repo \in Repos /\ warned \subseteq Deps /\ builds \in 0..MaxBuilds
  /\ {killed, full, failedUnzip} \subseteq BOOLEAN

\* A file of the cache that later runs take for a finished download is one: unless abt was
\* once killed, the disk was once full, or that file is being downloaded.
CacheIsWhole ==
  \A r \in Repos, d \in Remote :
    cache[r][d] = Cut => \/ killed \/ full
                         \/ phase = "download" /\ r = repo /\ d = dep

\* The include directories a run ends with for a dependency it did not warn of have all
\* modules of its archive - of the one of the first repository that gave a file - unless
\* that file is not whole, an unzip failed or the disk was full.
IncludesAreComplete ==
  phase = "done" =>
    \A d \in {Jobs[i] : i \in DOMAIN Jobs} \ warned :
      LET gave == {r \in Repos : d \in Remote /\ cache[r][d] \notin {Absent, Empty}}
          file == IF d \in Local THEN aar[d] ELSE cache[CHOOSE r \in gave : \A q \in gave : r <= q][d]
      IN  failedUnzip \/ (d \in Remote /\ full) \/ file = Cut
            \/ file[2] \subseteq includeDirs[d]
===============================================================================
