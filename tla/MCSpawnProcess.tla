----------------------------- MODULE MCSpawnProcess ---------------------------
(***************************************************************************)
(* Instances of SpawnProcess: two workers, and pipes shorter than what a   *)
(* child writes.  Six descriptors are fewer than two calls at the same     *)
(* time may need, and enough for each child to inherit the other's pipe.   *)
(***************************************************************************)
EXTENDS SpawnProcess

TwoWrites == UNION {[1..n -> Streams] : n \in 0..2}

\* The children that fill a pipe.
Blocking == {<<"out", "out">>, <<"err", "err">>}
===============================================================================
