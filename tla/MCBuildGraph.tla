----------------------------- MODULE MCBuildGraph -----------------------------
(***************************************************************************)
(* BuildGraph for TLC: every graph of up to MaxTasks tasks with up to      *)
(* MaxDeps dependencies each, built by every sequence of calls and sorted  *)
(* with every iteration order of the unordered_map.                        *)
(***************************************************************************)
EXTENDS BuildGraph
===============================================================================
