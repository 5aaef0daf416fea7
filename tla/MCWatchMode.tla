------------------------------ MODULE MCWatchMode -----------------------------
(***************************************************************************)
(* Instances of WatchMode: three edits, so that one can come before, one   *)
(* during and one after a build, and a queue short enough to overflow.     *)
(***************************************************************************)
EXTENDS WatchMode
===============================================================================
