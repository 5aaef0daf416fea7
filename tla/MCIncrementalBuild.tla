-------------------------- MODULE MCIncrementalBuild --------------------------
(***************************************************************************)
(* Instances of IncrementalBuild: the order topologicalSort gives the graph*)
(* of buildGraph, units first, for any choice of sources and ABIs.         *)
(***************************************************************************)
EXTENDS IncrementalBuild, SequencesExt

MCSorted == SetToSeq(CompileTasks) \o <<ResTask>> \o SetToSeq(LinkTasks) \o <<PackTask, SignTask>>

\* A bound: once a header has changed or Ctrl+C was pressed, files come and go but have no
\* second version.
OneVersion ==
  unhashed # 0 \/ interrupted =>
    /\ \A f \in Files : content[f] <= 1
    /\ \A u \in Units : {cacheFile[u], cache[u], out[u].input} \subseteq 0..1
===============================================================================
