------------------------------ MODULE SpawnProcess ----------------------------
(***************************************************************************)
(* spawnProcess (src/src/engine/process/ProcessPool.cpp), called by        *)
(* several workers at the same time: two pipes, fork, exec, two threads    *)
(* that read the child's output to its end, waitpid.                       *)
(*                                                                         *)
(* A pipe is what it holds and who has its ends open.  Nothing is opened   *)
(* with O_CLOEXEC, so a child gets every end that abt has open when it     *)
(* forks, those of the other workers' pipes too, and has them until it     *)
(* exits.  Output is counted in units of one write.                        *)
(***************************************************************************)
EXTENDS Naturals, Sequences, FiniteSets

CONSTANTS Threads,     \* workers; the child of a worker has the worker's name
          Abt,         \* abt itself, as the owner of descriptors
          PipeSize,    \* writes a pipe holds (64 KB)
          Scripts,     \* what a child may write: sequences of streams, one for each write
          MaxCalls,    \* bound: calls of one worker
          MaxFds,      \* descriptors abt may have open (RLIMIT_NOFILE)
          MaxSignals   \* signals that come while a read waits; each kind comes once

Streams == {"out", "err"}

ASSUME SpawnAssumption == /\ Abt \notin Threads
                          /\ PipeSize \in Nat /\ PipeSize > 0
                          /\ Scripts \subseteq Seq(Streams)
                          /\ {MaxCalls, MaxFds, MaxSignals} \subseteq Nat


VARIABLES pc, calls, result,              \* of each worker
          reader, got,                    \* its reading threads: state, writes read
          child, script, status, sent,    \* its child: state, writes to come, exit status,
                                          \* writes made
          buf, writers, readers,          \* its pipes: writes held, who has which end open
          leaked,                         \* descriptors nobody will close any more
          failures,                       \* history: calls that failed with a pipe open
          signals                         \* signals so far

worker  == <<pc, calls, result>>
reading == <<reader, got, signals>>
process == <<child, script, status, sent>>
pipes   == <<buf, writers, readers, leaked, failures>>
vars    == <<worker, reading, process, pipes>>

Owners == Threads \cup {Abt}
PerStream(x) == [s \in Streams |-> x]

Init ==
  /\ pc = [t \in Threads |-> "idle"]
  /\ calls = [t \in Threads |-> 0]
  /\ result = [t \in Threads |-> "none"]
  /\ reader = [t \in Threads |-> PerStream("off")]
  /\ got = [t \in Threads |-> PerStream(0)]
  /\ child = [t \in Threads |-> "none"]
  /\ script = [t \in Threads |-> <<>>]
  /\ status = [t \in Threads |-> "none"]
  /\ sent = [t \in Threads |-> PerStream(0)]
  /\ buf = [t \in Threads |-> PerStream(0)]
  /\ writers = [t \in Threads |-> PerStream({})]
  /\ readers = [t \in Threads |-> PerStream({})]
  /\ leaked = 0 /\ failures = 0
  /\ signals = 0

\* Descriptors of its own pipes that abt has open for a worker, and all it has open.
OpenFor(t) == Cardinality({s \in Streams : Abt \in writers[t][s]})
              + Cardinality({s \in Streams : Abt \in readers[t][s]})
OpenFds == leaked + Cardinality({p \in Threads \X Streams : Abt \in writers[p[1]][p[2]]})
                  + Cardinality({p \in Threads \X Streams : Abt \in readers[p[1]][p[2]]})

Without(ends, o) == [t \in Threads |-> [s \in Streams |-> ends[t][s] \ {o}]]
Inherit(ends, o) == [t \in Threads |-> [s \in Streams |->
                      IF Abt \in ends[t][s] THEN ends[t][s] \cup {o} ELSE ends[t][s]]]

-------------------------------------------------------------------------------
(* The worker *)

Call(t) ==
  /\ pc[t] = "idle" /\ calls[t] < MaxCalls
  /\ pc' = [pc EXCEPT ![t] = "out"]
  /\ calls' = [calls EXCEPT ![t] = @ + 1]
  /\ result' = [result EXCEPT ![t] = "none"]
  /\ reader' = [reader EXCEPT ![t] = PerStream("off")]
  /\ got' = [got EXCEPT ![t] = PerStream(0)]
  /\ UNCHANGED <<signals, process, pipes>>

\* A return without close(): whatever was opened for the call stays open.
Fail(t) ==
  /\ pc' = [pc EXCEPT ![t] = "idle"]
  /\ result' = [result EXCEPT ![t] = "failed"]
  /\ leaked' = leaked + OpenFor(t)
  /\ failures' = failures + (IF OpenFor(t) > 0 THEN 1 ELSE 0)
  /\ writers' = [writers EXCEPT ![t] = PerStream({})]
  /\ readers' = [readers EXCEPT ![t] = PerStream({})]
  /\ UNCHANGED <<calls, reading, process, buf>>

\* pipe(pipeOut), then pipe(pipeErr): it fails when there are no descriptors left.
Pipe(t, s) ==
  /\ pc[t] = s
  /\ \/ /\ OpenFds + 2 <= MaxFds
        /\ pc' = [pc EXCEPT ![t] = IF s = "out" THEN "err" ELSE "fork"]
        /\ buf' = [buf EXCEPT ![t][s] = 0]
        /\ writers' = [writers EXCEPT ![t][s] = {Abt}]
        /\ readers' = [readers EXCEPT ![t][s] = {Abt}]
        /\ UNCHANGED <<calls, result, leaked, failures, reading, process>>
     \/ OpenFds + 2 > MaxFds /\ Fail(t)

\* The child has a copy of every descriptor abt has open.
Fork(t) ==
  /\ pc[t] = "fork"
  /\ \/ /\ pc' = [pc EXCEPT ![t] = "closeOut"]
        /\ child' = [child EXCEPT ![t] = "forked"]
        /\ sent' = [sent EXCEPT ![t] = PerStream(0)]
        /\ writers' = Inherit(writers, t)
        /\ readers' = Inherit(readers, t)
        /\ UNCHANGED <<calls, result, script, status, buf, leaked, failures, reading>>
     \/ Fail(t)

\* The parent closes its write ends, one after the other: a worker that forks in between
\* passes on the second only ...
CloseWriteEnd(t, s) ==
  /\ pc[t] = IF s = "out" THEN "closeOut" ELSE "closeErr"
  /\ pc' = [pc EXCEPT ![t] = IF s = "out" THEN "closeErr" ELSE "start"]
  /\ writers' = [writers EXCEPT ![t][s] = @ \ {Abt}]
  /\ UNCHANGED <<calls, result, reading, process, buf, readers, leaked, failures>>

\* ... and starts both reading threads; the second may be slow to begin.
StartReaders(t) ==
  /\ pc[t] = "start"
  /\ pc' = [pc EXCEPT ![t] = "read"]
  /\ reader' = [reader EXCEPT ![t] = PerStream("reading")]
  /\ UNCHANGED <<calls, result, got, signals, process, pipes>>

\* tOut.join(), tErr.join()
Join(t) ==
  /\ pc[t] = "read"
  /\ \A s \in Streams : reader[t][s] \in {"eof", "cut"}
  /\ pc' = [pc EXCEPT ![t] = "wait"]
  /\ UNCHANGED <<calls, result, reading, process, pipes>>

\* waitpid, called again when a signal interrupts it, and the result.
Wait(t) ==
  /\ pc[t] = "wait" /\ child[t] = "exited"
  /\ pc' = [pc EXCEPT ![t] = "idle"]
  /\ child' = [child EXCEPT ![t] = "none"]
  /\ result' = [result EXCEPT ![t] = IF status[t] = "zero" THEN "ok" ELSE "bad"]
  /\ UNCHANGED <<calls, script, status, sent, reading, pipes>>

-------------------------------------------------------------------------------
(* The reading threads: readAll *)

\* The end of the loop: close(fd), return.
Leave(t, s, how) ==
  /\ reader' = [reader EXCEPT ![t][s] = how]
  /\ readers' = [readers EXCEPT ![t][s] = @ \ {Abt}]

\* Mutated Read: standard error is read after standard output.
Read_sequential(t, s) ==
  /\ reader[t][s] = "reading"
  /\ s = "err" => reader[t]["out"] # "reading"
  /\ \/ /\ buf[t][s] > 0
        /\ buf' = [buf EXCEPT ![t][s] = @ - 1]
        /\ got' = [got EXCEPT ![t][s] = @ + 1]
        /\ UNCHANGED <<reader, readers>>
     \/ /\ buf[t][s] = 0 /\ writers[t][s] = {}
        /\ Leave(t, s, "eof")
        /\ UNCHANGED <<buf, got>>
  /\ UNCHANGED <<worker, signals, process, writers, leaked, failures>>

\* Mutated Read: an empty pipe is taken for the end.
Read_emptyIsEnd(t, s) ==
  /\ reader[t][s] = "reading"
  /\ \/ /\ buf[t][s] > 0
        /\ buf' = [buf EXCEPT ![t][s] = @ - 1]
        /\ got' = [got EXCEPT ![t][s] = @ + 1]
        /\ UNCHANGED <<reader, readers>>
     \/ /\ buf[t][s] = 0
        /\ Leave(t, s, "eof")
        /\ UNCHANGED <<buf, got>>
  /\ UNCHANGED <<worker, signals, process, writers, leaked, failures>>

\* read() returns data, or 0 when the pipe is empty and has no writer.
Read(t, s) ==
  /\ reader[t][s] = "reading"
  /\ \/ /\ buf[t][s] > 0
        /\ buf' = [buf EXCEPT ![t][s] = @ - 1]
        /\ got' = [got EXCEPT ![t][s] = @ + 1]
        /\ UNCHANGED <<reader, readers>>
     \/ /\ buf[t][s] = 0 /\ writers[t][s] = {}
        /\ Leave(t, s, "eof")
        /\ UNCHANGED <<buf, got>>
  /\ UNCHANGED <<worker, signals, process, writers, leaked, failures>>

\* Mutated ReadInterrupted: the loop goes on while read() != 0 and appends -1 bytes.
ReadInterrupted_notZero(t, s) ==
  /\ reader[t][s] = "reading" /\ buf[t][s] = 0 /\ writers[t][s] # {}
  /\ signals < MaxSignals
  /\ signals' = signals + 1
  /\ got' = [got EXCEPT ![t][s] = @ - 1]
  /\ UNCHANGED <<worker, reader, process, pipes>>

\* Mutated ReadInterrupted: return without close().
ReadInterrupted_noClose(t, s) ==
  /\ reader[t][s] = "reading" /\ buf[t][s] = 0 /\ writers[t][s] # {}
  /\ signals < MaxSignals
  /\ signals' = signals + 1
  /\ reader' = [reader EXCEPT ![t][s] = "cut"]
  /\ UNCHANGED <<worker, got, process, pipes>>

\* A waiting read() fails with EINTR, which the loop takes for the end: sigaction is
\* called without SA_RESTART (SignalHandler.cpp:28).
ReadInterrupted(t, s) ==
  /\ reader[t][s] = "reading" /\ buf[t][s] = 0 /\ writers[t][s] # {}
  /\ signals < MaxSignals
  /\ signals' = signals + 1
  /\ Leave(t, s, "cut")
  /\ UNCHANGED <<worker, got, process, buf, writers, leaked, failures>>

-------------------------------------------------------------------------------
(* The child *)

\* It closes its own read ends and becomes the tool, or reports with perror that it
\* cannot (chdir, execvpe) and exits with 127.
Exec(t) ==
  /\ child[t] = "forked"
  /\ child' = [child EXCEPT ![t] = "running"]
  /\ \/ \E w \in Scripts, v \in {"zero", "other"} :
          script' = [script EXCEPT ![t] = w] /\ status' = [status EXCEPT ![t] = v]
     \/ script' = [script EXCEPT ![t] = <<"err">>] /\ status' = [status EXCEPT ![t] = "other"]
  /\ readers' = [readers EXCEPT ![t] = [s \in Streams |-> @[s] \ {t}]]
  /\ UNCHANGED <<sent, buf, writers, leaked, failures, worker, reading>>

\* A write waits while the pipe is full.  When nobody has the read end open it fails
\* with EPIPE (SIGPIPE is ignored, which exec keeps) and the tool makes of that what
\* it likes.
Write(t) ==
  /\ child[t] = "running" /\ script[t] # <<>>
  /\ LET s == Head(script[t]) IN
       \/ /\ readers[t][s] # {} /\ buf[t][s] < PipeSize
          /\ buf' = [buf EXCEPT ![t][s] = @ + 1]
          /\ sent' = [sent EXCEPT ![t][s] = @ + 1]
          /\ UNCHANGED status
       \/ /\ readers[t][s] = {}
          /\ \E v \in {status[t], "other"} : status' = [status EXCEPT ![t] = v]
          /\ UNCHANGED <<buf, sent>>
  /\ script' = [script EXCEPT ![t] = Tail(@)]
  /\ UNCHANGED <<child, writers, readers, leaked, failures, worker, reading>>

End(t) ==
  /\ child' = [child EXCEPT ![t] = "exited"]
  /\ writers' = Without(writers, t)
  /\ readers' = Without(readers, t)
  /\ UNCHANGED <<sent, buf, leaked, failures, worker, reading>>

Exit(t) ==
  /\ child[t] = "running" /\ script[t] = <<>>
  /\ End(t)
  /\ UNCHANGED <<script, status>>

\* A signal, Ctrl+C at the terminal for one, ends the child.
Killed(t) ==
  /\ child[t] \in {"forked", "running"}
  /\ End(t)
  /\ script' = [script EXCEPT ![t] = <<>>]
  /\ status' = [status EXCEPT ![t] = "other"]

-------------------------------------------------------------------------------

WorkerStep(t) ==
  \/ \E s \in Streams : Pipe(t, s) \/ CloseWriteEnd(t, s)
  \/ Fork(t) \/ StartReaders(t) \/ Join(t) \/ Wait(t)

ChildStep(t) == Exec(t) \/ Write(t) \/ Exit(t)

\* Every worker has made its calls.
Done ==
  /\ \A t \in Threads : pc[t] = "idle" /\ calls[t] = MaxCalls
  /\ UNCHANGED vars

Next ==
  \/ \E t \in Threads :
       \/ Call(t) \/ WorkerStep(t) \/ ChildStep(t) \/ Killed(t)
       \/ \E s \in Streams : Read(t, s) \/ ReadInterrupted(t, s)
  \/ Done

Spec == Init /\ [][Next]_vars

\* Threads run and tools end; nobody has to call, to send a signal or to be killed.
FairSpec ==
  /\ Spec
  /\ \A t \in Threads :
       /\ WF_vars(WorkerStep(t)) /\ WF_vars(ChildStep(t))
       /\ \A s \in Streams : WF_vars(Read(t, s))

-------------------------------------------------------------------------------

\* Every variable has its type, and no pipe holds more than it can.
TypeOK ==
  /\ pc \in [Threads -> {"idle", "out", "err", "fork", "closeOut", "closeErr", "start",
                      "read", "wait"}]
  /\ calls \in [Threads -> 0..MaxCalls]
  /\ result \in [Threads -> {"none", "failed", "ok", "bad"}]
  /\ reader \in [Threads -> [Streams -> {"off", "reading", "eof", "cut"}]]
  /\ got \in [Threads -> [Streams -> Nat]]
  /\ child \in [Threads -> {"none", "forked", "running", "exited"}]
  /\ script \in [Threads -> Seq(Streams)]
  /\ status \in [Threads -> {"none", "zero", "other"}]
  /\ sent \in [Threads -> [Streams -> Nat]]
  /\ buf \in [Threads -> [Streams -> 0..PipeSize]]
  /\ writers \in [Threads -> [Streams -> SUBSET Owners]]
  /\ readers \in [Threads -> [Streams -> SUBSET Owners]]
  /\ leaked \in Nat /\ failures \in Nat
  /\ signals \in 0..MaxSignals

\* A call that returns a verdict returns that of its own child, and everything the child
\* has written to each stream whose reading no signal has cut short.
ResultIsComplete ==
  \A t \in Threads : result[t] \in {"ok", "bad"} =>
    /\ result[t] = "ok" <=> status[t] = "zero"
    /\ \A s \in Streams : reader[t][s] = "eof" => got[t][s] = sent[t][s]

\* Between its calls a worker has no child, and no descriptor but those it will never
\* close: up to four for every call whose second pipe() or whose fork() failed, and none
\* otherwise, however the readers of a child's output ended.
CallLeavesNothing ==
  /\ \A t \in Threads : pc[t] = "idle" => OpenFor(t) = 0 /\ child[t] = "none"
  /\ leaked <= 4 * failures

\* "Read both in threads to avoid deadlock" (ProcessPool.cpp:98): every call returns.
NoDeadlock == \A t \in Threads : []<>(pc[t] = "idle")

\* Every call returns, unless signals have cut short what is read from two children that
\* run at the same time: each may have inherited the end of the pipe the other fills and
\* nobody reads.  Otherwise no child waits for ever to write, be it to a pipe that was cut
\* short, and no thread to read from a pipe whose writers are done.
CutShort(t) == child[t] # "none" /\ \E s \in Streams : reader[t][s] = "cut"
TwoCutShort == \E t1, t2 \in Threads : t1 # t2 /\ CutShort(t1) /\ CutShort(t2)
EverySpawnReturns == <>[]TwoCutShort \/ NoDeadlock
===============================================================================
