---------------------------- MODULE MCTaskScheduler ---------------------------
(***************************************************************************)
(* TaskScheduler for TLC.  Naming the tasks by their place in sorted()     *)
(* loses nothing, and Init ranges over every graph that this order sorts:  *)
(* with N tasks 2^(N(N-1)/2) graphs, chains, forks, diamonds, no edges.    *)
(***************************************************************************)
EXTENDS TaskScheduler, TLC

ThreeTasks == <<1, 2, 3>>
TwoTasks   == <<1, 2>>

Symmetry == Permutations(Workers)
===============================================================================
