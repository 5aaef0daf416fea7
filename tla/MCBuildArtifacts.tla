--------------------------- MODULE MCBuildArtifacts ---------------------------
(***************************************************************************)
(* Instances of ApkPackaging and Resolver: what phases 4 and 2 of a build  *)
(* leave on the disk.  They share no state, so a behavior is one of the    *)
(* first or one of the second, the other's variables as they were.         *)
(***************************************************************************)
EXTENDS ApkPackaging, Resolver

VARIABLE part

\* The first version of the sources uses the C++ library, the second does not.
MCNeeded == [v \in 0..1 |-> IF v = 0 THEN {"libc++_shared.so", "liblog.so", "libfoo.so"} ELSE {"liblog.so"}]

\* A library for two architectures, a local archive between.
MCJobs == <<"r", "l", "r">>

MCInit ==
  /\ ResolverInit /\ Init
  /\ \/ part = "dependencies" /\ res = {} /\ archs = Abis32
     \/ part = "package" /\ server = [r \in Repos |-> [d \in Remote |-> Absent]]
                         /\ aar = [d \in Local |-> <<"whole", {}>>]

MCNext ==
  \/ part = "dependencies" /\ ResolverNext /\ UNCHANGED <<part, vars>>
  \/ part = "package" /\ Next /\ UNCHANGED <<part, resolver>>

MCSpec == MCInit /\ [][MCNext]_<<part, resolver, vars>>

\* The types of both modules' variables.
TypesOK == ResolverTypeOK /\ TypeOK
===============================================================================
