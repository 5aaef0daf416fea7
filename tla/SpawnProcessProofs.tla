-------------------------- MODULE SpawnProcessProofs --------------------------
(***************************************************************************)
(* Proofs about SpawnProcess: for any number of workers, pipes of any      *)
(* size, children that write any amount, any number of calls, descriptors  *)
(* and signals, a verdict comes with all of the output that was not cut    *)
(* off by a signal, and nothing of a finished call is left behind.         *)
(***************************************************************************)
EXTENDS SpawnProcess, FiniteSetTheorems, TLAPS

-------------------------------------------------------------------------------
(* The inductive invariant *)

\* A call has a child from fork to waitpid, and reading threads from then on.
StageInv(t) ==
  /\ child[t] = "none" <=> pc[t] \in {"idle", "out", "err", "fork"}
  /\ result[t] \in {"ok", "bad"} => pc[t] = "idle" /\ (result[t] = "ok" <=> status[t] = "zero")
  /\ \A s \in Streams :
       /\ pc[t] \in {"out", "err", "fork", "closeOut", "closeErr", "start"} => reader[t][s] = "off"
       /\ pc[t] = "read" => reader[t][s] # "off"
       /\ pc[t] = "wait" => reader[t][s] \in {"eof", "cut"}
       /\ pc[t] = "idle" => reader[t][s] # "reading"

\* Abt has the write end of a pipe until it closes it after the fork, the read end until the
\* reading thread closes that; the child has its write ends until it ends.
CanWrite(t, s) == \/ pc[t] \in {"fork", "closeOut"}
                  \/ pc[t] = "err" /\ s = "out"
                  \/ pc[t] = "closeErr" /\ s = "err"
CanRead(t, s)  == \/ pc[t] \in {"fork", "closeOut", "closeErr", "start"}
                  \/ pc[t] = "err" /\ s = "out"
EndsInv(t) ==
  \A s \in Streams :
    /\ Abt \in writers[t][s] <=> CanWrite(t, s)
    /\ Abt \in readers[t][s] => CanRead(t, s) \/ reader[t][s] = "reading"
    /\ child[t] \in {"forked", "running"} => t \in writers[t][s]

\* What the child has written was read or is in the pipe; a pipe read to its end stays empty.
FlowInv(t) ==
  \A s \in Streams :
    /\ pc[t] \in {"out", "err", "fork"} => got[t][s] = 0
    /\ pc[t] = "fork" \/ (pc[t] = "err" /\ s = "out") => buf[t][s] = 0
    /\ child[t] # "none" \/ result[t] \in {"ok", "bad"} => got[t][s] + buf[t][s] = sent[t][s]
    /\ reader[t][s] = "eof" => buf[t][s] = 0 /\ writers[t][s] = {}

IInv == /\ TypeOK
        /\ leaked <= 4 * failures
        /\ \A t \in Threads : StageInv(t) /\ EndsInv(t) /\ FlowInv(t)

Parts(t) == StageInv(t) /\ EndsInv(t) /\ FlowInv(t)

\* What the calls of one worker are about but the ends of its pipes.
Own(t) == <<pc[t], child[t], result[t], status[t], reader[t], got[t], buf[t], sent[t]>>

\* How another worker's call may change who has the ends of t's pipes.
EndsStay(t) ==
  \A s \in Streams :
    /\ Abt \in writers'[t][s] <=> Abt \in writers[t][s]
    /\ Abt \in readers'[t][s] => Abt \in readers[t][s]
    /\ t \in writers[t][s] => t \in writers'[t][s]
    /\ writers[t][s] = {} => writers'[t][s] = {}

LEMMA Apart == Abt \notin Threads /\ PipeSize \in Nat
BY SpawnAssumption

LEMMA OthersKeep ==
  ASSUME NEW t \in Threads, Parts(t), Own(t)' = Own(t), EndsStay(t)
  PROVE  Parts(t)'
<1>1. /\ pc'[t] = pc[t] /\ child'[t] = child[t] /\ result'[t] = result[t]
      /\ status'[t] = status[t] /\ reader'[t] = reader[t] /\ got'[t] = got[t]
      /\ buf'[t] = buf[t] /\ sent'[t] = sent[t]
  BY DEF Own
<1>2. StageInv(t)'
  BY <1>1 DEF Parts, StageInv
<1>3. EndsInv(t)'
  BY <1>1 DEF Parts, EndsInv, EndsStay, CanWrite, CanRead
<1>4. FlowInv(t)'
  BY <1>1 DEF Parts, FlowInv, EndsStay
<1> QED BY <1>2, <1>3, <1>4 DEF Parts

\* A child that forks, or ends, changes the ends of another's pipes no more than that.
LEMMA InheritStays ==
  ASSUME NEW t \in Threads, NEW u \in Threads, u # t,
         writers \in [Threads -> [Streams -> SUBSET Owners]],
         readers \in [Threads -> [Streams -> SUBSET Owners]],
         writers' = Inherit(writers, t), readers' = Inherit(readers, t)
  PROVE  EndsStay(u)
BY Apart DEF Inherit, EndsStay

LEMMA WithoutStays ==
  ASSUME NEW t \in Threads, NEW u \in Threads, u # t,
         writers \in [Threads -> [Streams -> SUBSET Owners]],
         readers \in [Threads -> [Streams -> SUBSET Owners]],
         writers' = Without(writers, t), readers' = Without(readers, t)
  PROVE  EndsStay(u)
BY Apart DEF Without, EndsStay

\* A call has at most four descriptors of its own.
LEMMA OpenForBound == ASSUME NEW t \in Threads PROVE OpenFor(t) \in 0..4
<1>1. IsFiniteSet({"out"}) /\ Cardinality({"out"}) = 1
  BY FS_Singleton
<1>2. IsFiniteSet(Streams) /\ Cardinality(Streams) = 2
  <2>1. Streams = {"out"} \cup {"err"} /\ "err" \notin {"out"}
    BY DEF Streams
  <2>2. IsFiniteSet({"out"} \cup {"err"}) /\ Cardinality({"out"} \cup {"err"}) = 1 + 1
    BY <1>1, <2>1, FS_AddElement
  <2> QED BY <2>1, <2>2
<1>3. \A S \in SUBSET Streams : Cardinality(S) \in Nat /\ Cardinality(S) <= 2
  <2> SUFFICES ASSUME NEW S \in SUBSET Streams PROVE Cardinality(S) \in Nat /\ Cardinality(S) <= 2
    OBVIOUS
  <2>1. IsFiniteSet(S) /\ Cardinality(S) <= 2
    BY <1>2, FS_Subset
  <2> QED BY <2>1, FS_CardinalityType
<1>4. /\ {s \in Streams : Abt \in writers[t][s]} \in SUBSET Streams
      /\ {s \in Streams : Abt \in readers[t][s]} \in SUBSET Streams
  OBVIOUS
<1>5. /\ Cardinality({s \in Streams : Abt \in writers[t][s]}) \in 0..2
      /\ Cardinality({s \in Streams : Abt \in readers[t][s]}) \in 0..2
  BY <1>3, <1>4
<1> QED BY <1>5 DEF OpenFor

LEMMA InitKeeps == ASSUME Init PROVE IInv
<1>1. 0 \in 0..MaxCalls /\ 0 \in 0..PipeSize /\ 0 \in 0..MaxSignals
  BY SpawnAssumption
<1>2. TypeOK
  BY <1>1 DEF Init, TypeOK, PerStream
<1>3. ASSUME NEW t \in Threads PROVE StageInv(t) /\ EndsInv(t) /\ FlowInv(t)
  BY DEF Init, PerStream, StageInv, EndsInv, FlowInv, CanWrite, CanRead
<1>4. leaked <= 4 * failures
  BY DEF Init
<1> QED BY <1>2, <1>3, <1>4 DEF IInv

LEMMA StutterKeeps == ASSUME IInv, UNCHANGED vars PROVE IInv'
<1>1. UNCHANGED <<pc, calls, result, reader, got, signals, child, script, status, sent,
                  buf, writers, readers, leaked, failures>>
  BY DEF vars, worker, reading, process, pipes
<1> QED BY <1>1 DEF IInv, TypeOK, StageInv, EndsInv, FlowInv, CanWrite, CanRead

\* It is enough to look at the types, at the worker and at what others' ends do.
LEMMA OneWorker ==
  ASSUME IInv, TypeOK', NEW t \in Threads,
         leaked' <= 4 * failures' \/ UNCHANGED <<leaked, failures>>,
         Parts(t)',
         \A u \in Threads : u # t => Own(u)' = Own(u) /\ EndsStay(u)
  PROVE  IInv'
<1>1. ASSUME NEW u \in Threads PROVE Parts(u)'
  <2>1. CASE u = t
    BY <2>1
  <2>2. CASE u # t
    BY <2>2, OthersKeep DEF IInv, Parts
  <2> QED BY <2>1, <2>2
<1> QED BY <1>1 DEF IInv, Parts

-------------------------------------------------------------------------------
(* The worker *)

LEMMA CallKeeps == ASSUME IInv, NEW t \in Threads, Call(t) PROVE IInv'
<1>1. /\ UNCHANGED <<signals, child, script, status, sent, buf, writers, readers, leaked, failures>>
      /\ pc[t] = "idle" /\ calls[t] < MaxCalls
      /\ pc' = [pc EXCEPT ![t] = "out"] /\ calls' = [calls EXCEPT ![t] = @ + 1]
      /\ result' = [result EXCEPT ![t] = "none"]
      /\ reader' = [reader EXCEPT ![t] = PerStream("off")]
      /\ got' = [got EXCEPT ![t] = PerStream(0)]
  BY DEF Call, process, pipes
<1>2. TypeOK /\ Parts(t)
  BY DEF IInv, Parts
<1>3. TypeOK'
  <2>1. calls' \in [Threads -> 0..MaxCalls]
    <3>1. MaxCalls \in Nat /\ calls \in [Threads -> 0..MaxCalls]
      BY <1>2, SpawnAssumption DEF TypeOK
    <3>2. calls[t] + 1 \in 0..MaxCalls
      BY <1>1, <3>1
    <3> QED BY <1>1, <3>1, <3>2
  <2> QED BY <1>1, <1>2, <2>1 DEF TypeOK, PerStream
<1>4. pc'[t] = "out" /\ result'[t] = "none" /\ reader'[t] = PerStream("off") /\ got'[t] = PerStream(0)
  BY <1>1, <1>2 DEF TypeOK
<1>5. Parts(t)'
  BY <1>1, <1>2, <1>4 DEF Parts, StageInv, EndsInv, FlowInv, CanWrite, CanRead, PerStream
<1>6. \A u \in Threads : u # t => Own(u)' = Own(u) /\ EndsStay(u)
  BY <1>1, <1>2 DEF Own, EndsStay, TypeOK
<1> QED BY <1>1, <1>3, <1>5, <1>6, OneWorker

LEMMA FailKeeps ==
  ASSUME IInv, NEW t \in Threads, Fail(t), pc[t] \in {"out", "err", "fork"}
  PROVE  IInv'
<1>1. /\ UNCHANGED <<calls, signals, reader, got, child, script, status, sent, buf>>
      /\ pc' = [pc EXCEPT ![t] = "idle"] /\ result' = [result EXCEPT ![t] = "failed"]
      /\ leaked' = leaked + OpenFor(t)
      /\ failures' = failures + (IF OpenFor(t) > 0 THEN 1 ELSE 0)
      /\ writers' = [writers EXCEPT ![t] = PerStream({})]
      /\ readers' = [readers EXCEPT ![t] = PerStream({})]
  BY DEF Fail, reading, process
<1>2. TypeOK /\ Parts(t)
  BY DEF IInv, Parts
<1>3. TypeOK' /\ leaked' <= 4 * failures'
  <2>1. leaked' \in Nat /\ failures' \in Nat /\ leaked' <= 4 * failures'
    <3>1. OpenFor(t) \in 0..4 /\ leaked \in Nat /\ failures \in Nat /\ leaked <= 4 * failures
      BY <1>2, OpenForBound DEF IInv, TypeOK
    <3>2. CASE OpenFor(t) > 0
      BY <1>1, <3>1, <3>2
    <3>3. CASE ~(OpenFor(t) > 0)
      BY <1>1, <3>1, <3>3
    <3> QED BY <3>2, <3>3
  <2> QED BY <1>1, <1>2, <2>1 DEF TypeOK, PerStream
<1>4. /\ pc'[t] = "idle" /\ result'[t] = "failed"
      /\ writers'[t] = PerStream({}) /\ readers'[t] = PerStream({})
  BY <1>1, <1>2 DEF TypeOK
<1>5. Parts(t)'
  BY <1>1, <1>2, <1>4 DEF Parts, StageInv, EndsInv, FlowInv, CanWrite, CanRead, PerStream
<1>6. \A u \in Threads : u # t => Own(u)' = Own(u) /\ EndsStay(u)
  BY <1>1, <1>2 DEF Own, EndsStay, TypeOK
<1> QED BY <1>3, <1>5, <1>6, OneWorker

LEMMA PipeKeeps == ASSUME IInv, NEW t \in Threads, NEW s \in Streams, Pipe(t, s) PROVE IInv'
<1>1. pc[t] = s /\ (s = "out" \/ s = "err")
  BY DEF Pipe, Streams
<1>2. CASE Fail(t)
  BY <1>1, <1>2, FailKeeps
<1>3. CASE ~Fail(t)
  <2>1. /\ UNCHANGED <<calls, result, leaked, failures, signals, reader, got, child, script, status, sent>>
        /\ pc' = [pc EXCEPT ![t] = IF s = "out" THEN "err" ELSE "fork"]
        /\ buf' = [buf EXCEPT ![t][s] = 0]
        /\ writers' = [writers EXCEPT ![t][s] = {Abt}]
        /\ readers' = [readers EXCEPT ![t][s] = {Abt}]
    BY <1>3 DEF Pipe, reading, process
  <2>2. TypeOK /\ Parts(t)
    BY DEF IInv, Parts
  <2>3. 0 \in 0..PipeSize /\ Abt \in Owners
    BY SpawnAssumption DEF Owners
  <2>4. TypeOK'
    BY <2>1, <2>2, <2>3 DEF TypeOK
  <2>5. /\ pc'[t] = IF s = "out" THEN "err" ELSE "fork"
        /\ buf'[t][s] = 0 /\ writers'[t][s] = {Abt} /\ readers'[t][s] = {Abt}
        /\ \A r \in Streams \ {s} : /\ buf'[t][r] = buf[t][r] /\ writers'[t][r] = writers[t][r]
                                    /\ readers'[t][r] = readers[t][r]
    BY <2>1, <2>2 DEF TypeOK
  <2>6. StageInv(t)'
    BY <1>1, <2>1, <2>2, <2>5 DEF Parts, StageInv
  <2>7. EndsInv(t)'
    BY <1>1, <2>1, <2>2, <2>5 DEF Parts, StageInv, EndsInv, CanWrite, CanRead, Streams
  <2>8. FlowInv(t)'
    BY <1>1, <2>1, <2>2, <2>5 DEF Parts, StageInv, FlowInv, Streams
  <2>9. \A u \in Threads : u # t => Own(u)' = Own(u) /\ EndsStay(u)
    BY <2>1, <2>2 DEF Own, EndsStay, TypeOK
  <2> QED BY <2>1, <2>4, <2>6, <2>7, <2>8, <2>9, OneWorker DEF Parts
<1> QED BY <1>2, <1>3

LEMMA ForkKeeps == ASSUME IInv, NEW t \in Threads, Fork(t) PROVE IInv'
<1>1. pc[t] = "fork"
  BY DEF Fork
<1>2. CASE Fail(t)
  BY <1>1, <1>2, FailKeeps
<1>3. CASE ~Fail(t)
  <2>1. /\ UNCHANGED <<calls, result, script, status, buf, leaked, failures, signals, reader, got>>
        /\ pc' = [pc EXCEPT ![t] = "closeOut"] /\ child' = [child EXCEPT ![t] = "forked"]
        /\ sent' = [sent EXCEPT ![t] = PerStream(0)]
        /\ writers' = Inherit(writers, t) /\ readers' = Inherit(readers, t)
    BY <1>3 DEF Fork, reading
  <2>2. TypeOK /\ Parts(t)
    BY DEF IInv, Parts
  <2>3. /\ writers' \in [Threads -> [Streams -> SUBSET Owners]]
        /\ readers' \in [Threads -> [Streams -> SUBSET Owners]]
    BY <2>1, <2>2 DEF TypeOK, Inherit, Owners
  <2>4. TypeOK'
    BY <2>1, <2>2, <2>3 DEF TypeOK, PerStream
  <2>5. /\ pc'[t] = "closeOut" /\ child'[t] = "forked" /\ sent'[t] = PerStream(0)
        /\ \A s \in Streams : /\ writers'[t][s] = writers[t][s] \cup {t}
                              /\ Abt \in readers'[t][s] <=> Abt \in readers[t][s]
    BY <1>1, <2>1, <2>2, Apart DEF TypeOK, Inherit, Parts, EndsInv, CanWrite, CanRead
  <2>6. StageInv(t)'
    BY <1>1, <2>1, <2>2, <2>5 DEF Parts, StageInv
  <2>7. EndsInv(t)'
    BY <1>1, <2>1, <2>2, <2>5, Apart DEF Parts, EndsInv, CanWrite, CanRead
  <2>8. FlowInv(t)'
    BY <1>1, <2>1, <2>2, <2>5 DEF Parts, StageInv, FlowInv, PerStream
  <2>9. \A u \in Threads : u # t => Own(u)' = Own(u) /\ EndsStay(u)
    BY <2>1, <2>2, InheritStays DEF Own, TypeOK
  <2> QED BY <2>1, <2>4, <2>6, <2>7, <2>8, <2>9, OneWorker DEF Parts
<1> QED BY <1>2, <1>3

LEMMA CloseKeeps ==
  ASSUME IInv, NEW t \in Threads, NEW s \in Streams, CloseWriteEnd(t, s)
  PROVE  IInv'
<1>1. /\ UNCHANGED <<calls, result, reader, got, signals, child, script, status, sent, buf,
                     readers, leaked, failures>>
      /\ pc[t] = IF s = "out" THEN "closeOut" ELSE "closeErr"
      /\ pc' = [pc EXCEPT ![t] = IF s = "out" THEN "closeErr" ELSE "start"]
      /\ writers' = [writers EXCEPT ![t][s] = @ \ {Abt}]
      /\ s = "out" \/ s = "err"
  BY DEF CloseWriteEnd, process, reading, Streams
<1>2. TypeOK /\ Parts(t) /\ leaked <= 4 * failures
  BY DEF IInv, Parts
<1>3. TypeOK'
  BY <1>1, <1>2 DEF TypeOK
<1>4. /\ pc'[t] = IF s = "out" THEN "closeErr" ELSE "start"
      /\ writers'[t][s] = writers[t][s] \ {Abt}
      /\ \A q \in Streams \ {s} : writers'[t][q] = writers[t][q]
  BY <1>1, <1>2 DEF TypeOK
<1>5. StageInv(t)'
  BY <1>1, <1>2, <1>4 DEF Parts, StageInv
<1>6. EndsInv(t)'
  BY <1>1, <1>2, <1>4, Apart DEF Parts, StageInv, EndsInv, CanWrite, CanRead, Streams
<1>7. FlowInv(t)'
  BY <1>1, <1>2, <1>4 DEF Parts, StageInv, FlowInv
<1>8. \A u \in Threads : u # t => Own(u)' = Own(u) /\ EndsStay(u)
  BY <1>1, <1>2 DEF Own, EndsStay, TypeOK
<1> QED BY <1>1, <1>2, <1>3, <1>5, <1>6, <1>7, <1>8, OneWorker DEF Parts

LEMMA StartKeeps == ASSUME IInv, NEW t \in Threads, StartReaders(t) PROVE IInv'
<1>1. /\ UNCHANGED <<calls, result, got, signals, child, script, status, sent, buf, writers,
                     readers, leaked, failures>>
      /\ pc[t] = "start" /\ pc' = [pc EXCEPT ![t] = "read"]
      /\ reader' = [reader EXCEPT ![t] = PerStream("reading")]
  BY DEF StartReaders, process, pipes
<1>2. TypeOK /\ Parts(t) /\ leaked <= 4 * failures
  BY DEF IInv, Parts
<1>3. TypeOK'
  BY <1>1, <1>2 DEF TypeOK, PerStream
<1>4. pc'[t] = "read" /\ reader'[t] = PerStream("reading")
  BY <1>1, <1>2 DEF TypeOK
<1>5. Parts(t)'
  BY <1>1, <1>2, <1>4 DEF Parts, StageInv, EndsInv, FlowInv, CanWrite, CanRead, PerStream
<1>6. \A u \in Threads : u # t => Own(u)' = Own(u) /\ EndsStay(u)
  BY <1>1, <1>2 DEF Own, EndsStay, TypeOK
<1> QED BY <1>1, <1>2, <1>3, <1>5, <1>6, OneWorker

LEMMA JoinKeeps == ASSUME IInv, NEW t \in Threads, Join(t) PROVE IInv'
<1>1. /\ UNCHANGED <<calls, result, reader, got, signals, child, script, status, sent, buf,
                     writers, readers, leaked, failures>>
      /\ pc[t] = "read" /\ pc' = [pc EXCEPT ![t] = "wait"]
      /\ \A s \in Streams : reader[t][s] \in {"eof", "cut"}
  BY DEF Join, process, reading, pipes
<1>2. TypeOK /\ Parts(t)
  BY DEF IInv, Parts
<1>3. TypeOK' /\ pc'[t] = "wait"
  BY <1>1, <1>2 DEF TypeOK
<1>4. Parts(t)'
  BY <1>1, <1>2, <1>3 DEF Parts, StageInv, EndsInv, FlowInv, CanWrite, CanRead
<1>5. \A u \in Threads : u # t => Own(u)' = Own(u) /\ EndsStay(u)
  BY <1>1, <1>2 DEF Own, EndsStay, TypeOK
<1> QED BY <1>1, <1>3, <1>4, <1>5, OneWorker

LEMMA WaitKeeps == ASSUME IInv, NEW t \in Threads, Wait(t) PROVE IInv'
<1>1. /\ UNCHANGED <<calls, reader, got, signals, script, status, sent, buf, writers, readers,
                     leaked, failures>>
      /\ pc[t] = "wait" /\ child[t] = "exited"
      /\ pc' = [pc EXCEPT ![t] = "idle"] /\ child' = [child EXCEPT ![t] = "none"]
      /\ result' = [result EXCEPT ![t] = IF status[t] = "zero" THEN "ok" ELSE "bad"]
  BY DEF Wait, reading, pipes
<1>2. TypeOK /\ Parts(t)
  BY DEF IInv, Parts
<1>3. TypeOK'
  BY <1>1, <1>2 DEF TypeOK
<1>4. /\ pc'[t] = "idle" /\ child'[t] = "none"
      /\ result'[t] = IF status[t] = "zero" THEN "ok" ELSE "bad"
  BY <1>1, <1>2 DEF TypeOK
<1>5. Parts(t)'
  BY <1>1, <1>2, <1>4 DEF Parts, StageInv, EndsInv, FlowInv, CanWrite, CanRead
<1>6. \A u \in Threads : u # t => Own(u)' = Own(u) /\ EndsStay(u)
  BY <1>1, <1>2 DEF Own, EndsStay, TypeOK
<1> QED BY <1>1, <1>3, <1>5, <1>6, OneWorker

-------------------------------------------------------------------------------
(* The reading threads *)

\* A thread that leaves has closed its end.
LEMMA LeaveKeeps ==
  ASSUME IInv, TypeOK', NEW t \in Threads, NEW s \in Streams, NEW how \in {"eof", "cut"},
         reader[t][s] = "reading", Leave(t, s, how),
         how = "eof" => buf[t][s] = 0 /\ writers[t][s] = {},
         UNCHANGED <<worker, got, process, buf, writers, leaked, failures>>
  PROVE  IInv'
<1>1. /\ UNCHANGED <<pc, calls, result, got, child, script, status, sent, buf, writers>>
      /\ reader' = [reader EXCEPT ![t][s] = how]
      /\ readers' = [readers EXCEPT ![t][s] = @ \ {Abt}]
  BY DEF Leave, worker, process
<1>2. TypeOK /\ Parts(t)
  BY DEF IInv, Parts
<1>3. /\ reader'[t][s] = how /\ readers'[t][s] = readers[t][s] \ {Abt}
      /\ \A r \in Streams \ {s} : reader'[t][r] = reader[t][r] /\ readers'[t][r] = readers[t][r]
  BY <1>1, <1>2 DEF TypeOK
<1>4. pc[t] = "read"
  BY <1>2 DEF Parts, StageInv, TypeOK
<1>5. StageInv(t)'
  BY <1>1, <1>2, <1>3, <1>4 DEF Parts, StageInv
<1>6. EndsInv(t)'
  BY <1>1, <1>2, <1>3, <1>4 DEF Parts, EndsInv, CanWrite, CanRead
<1>7. FlowInv(t)'
  BY <1>1, <1>2, <1>3, <1>4 DEF Parts, FlowInv
<1>8. \A u \in Threads : u # t => Own(u)' = Own(u) /\ EndsStay(u)
  BY <1>1, <1>2 DEF Own, EndsStay, TypeOK
<1> QED BY <1>5, <1>6, <1>7, <1>8, OneWorker DEF Parts

LEMMA ReadKeeps == ASSUME IInv, NEW t \in Threads, NEW s \in Streams, Read(t, s) PROVE IInv'
<1>1. /\ UNCHANGED <<pc, calls, result, signals, child, script, status, sent, writers, leaked, failures>>
      /\ reader[t][s] = "reading"
  BY DEF Read, worker, process
<1>2. TypeOK /\ Parts(t)
  BY DEF IInv, Parts
<1>3. pc[t] = "read" /\ child[t] # "none"
  BY <1>1, <1>2 DEF Parts, StageInv, TypeOK
<1>4. CASE /\ buf[t][s] > 0 /\ buf' = [buf EXCEPT ![t][s] = @ - 1]
           /\ got' = [got EXCEPT ![t][s] = @ + 1] /\ UNCHANGED <<reader, readers>>
  <2>1. buf[t][s] \in 0..PipeSize /\ got[t][s] \in Nat /\ sent[t][s] \in Nat /\ PipeSize \in Nat
    BY <1>2, Apart DEF TypeOK
  <2>2. buf[t][s] - 1 \in 0..PipeSize /\ got[t][s] + 1 \in Nat
        /\ (got[t][s] + 1) + (buf[t][s] - 1) = got[t][s] + buf[t][s]
    BY <1>4, <2>1
  <2>3. /\ buf' \in [Threads -> [Streams -> 0..PipeSize]] /\ got' \in [Threads -> [Streams -> Nat]]
        /\ buf'[t][s] = buf[t][s] - 1 /\ got'[t][s] = got[t][s] + 1
        /\ \A r \in Streams \ {s} : buf'[t][r] = buf[t][r] /\ got'[t][r] = got[t][r]
    BY <1>2, <1>4, <2>2 DEF TypeOK
  <2>4. TypeOK'
    BY <1>1, <1>2, <1>4, <2>3 DEF TypeOK
  <2>5. StageInv(t)' /\ EndsInv(t)'
    BY <1>1, <1>2, <1>4 DEF Parts, StageInv, EndsInv, CanWrite, CanRead
  <2>6. ASSUME NEW r \in Streams
        PROVE  /\ child'[t] # "none" \/ result'[t] \in {"ok", "bad"}
                    => got'[t][r] + buf'[t][r] = sent'[t][r]
               /\ reader'[t][r] = "eof" => buf'[t][r] = 0 /\ writers'[t][r] = {}
    <3>1. CASE r = s
      BY <1>1, <1>2, <1>3, <1>4, <2>2, <2>3, <3>1 DEF Parts, FlowInv
    <3>2. CASE r # s
      BY <1>1, <1>2, <1>3, <1>4, <2>3, <3>2 DEF Parts, FlowInv
    <3> QED BY <3>1, <3>2
  <2>7. FlowInv(t)'
    BY <1>1, <1>3, <2>6 DEF FlowInv
  <2>8. \A u \in Threads : u # t => Own(u)' = Own(u) /\ EndsStay(u)
    BY <1>1, <1>2, <1>4 DEF Own, EndsStay, TypeOK
  <2> QED BY <1>1, <2>4, <2>5, <2>7, <2>8, OneWorker DEF Parts
<1>5. CASE buf[t][s] = 0 /\ writers[t][s] = {} /\ Leave(t, s, "eof") /\ UNCHANGED <<buf, got>>
  <2>1. TypeOK'
    BY <1>1, <1>2, <1>5 DEF TypeOK, Leave
  <2> QED BY <1>1, <1>5, <2>1, LeaveKeeps DEF worker, process
<1> QED BY <1>4, <1>5 DEF Read

LEMMA InterruptedKeeps ==
  ASSUME IInv, NEW t \in Threads, NEW s \in Streams, ReadInterrupted(t, s) PROVE IInv'
<1>1. signals' \in 0..MaxSignals
  <2>1. signals \in 0..MaxSignals /\ signals < MaxSignals /\ signals' = signals + 1 /\ MaxSignals \in Nat
    BY SpawnAssumption DEF IInv, TypeOK, ReadInterrupted
  <2> QED BY <2>1
<1>2. TypeOK'
  BY <1>1 DEF IInv, TypeOK, ReadInterrupted, Leave, worker, process
<1> QED BY <1>2, LeaveKeeps DEF ReadInterrupted

-------------------------------------------------------------------------------
(* The child *)

LEMMA ExecKeeps == ASSUME IInv, NEW t \in Threads, Exec(t) PROVE IInv'
<1>1. /\ UNCHANGED <<pc, calls, result, reader, got, signals, sent, buf, writers, leaked, failures>>
      /\ child[t] = "forked" /\ child' = [child EXCEPT ![t] = "running"]
      /\ readers' = [readers EXCEPT ![t] = [s \in Streams |-> @[s] \ {t}]]
  BY DEF Exec, worker, reading
<1>2. TypeOK /\ Parts(t)
  BY DEF IInv, Parts
<1>3. PICK w \in Seq(Streams), v \in {"zero", "other"} :
        script' = [script EXCEPT ![t] = w] /\ status' = [status EXCEPT ![t] = v]
  <2>1. \A w \in Scripts : w \in Seq(Streams)
    BY SpawnAssumption
  <2>2. <<"err">> \in Seq(Streams)
    BY DEF Streams
  <2> QED BY <2>1, <2>2 DEF Exec
<1>4. TypeOK'
  BY <1>1, <1>2, <1>3 DEF TypeOK
<1>5. /\ child'[t] = "running" /\ status'[t] = v
      /\ \A s \in Streams : readers'[t][s] = readers[t][s] \ {t}
  BY <1>1, <1>2, <1>3 DEF TypeOK
<1>6. pc[t] # "idle"
  BY <1>1, <1>2 DEF Parts, StageInv
<1>7. Parts(t)'
  BY <1>1, <1>2, <1>5, <1>6, Apart DEF Parts, StageInv, EndsInv, FlowInv, CanWrite, CanRead
<1>8. \A u \in Threads : u # t => Own(u)' = Own(u) /\ EndsStay(u)
  BY <1>1, <1>2, <1>3 DEF Own, EndsStay, TypeOK
<1> QED BY <1>1, <1>4, <1>7, <1>8, OneWorker

LEMMA WriteKeeps == ASSUME IInv, NEW t \in Threads, Write(t) PROVE IInv'
<1>1. /\ UNCHANGED <<pc, calls, result, reader, got, signals, child, writers, readers, leaked, failures>>
      /\ child[t] = "running" /\ script[t] # <<>> /\ script' = [script EXCEPT ![t] = Tail(@)]
  BY DEF Write, worker, reading
<1>2. TypeOK /\ Parts(t)
  BY DEF IInv, Parts
<1>3. script[t] \in Seq(Streams) /\ Head(script[t]) \in Streams /\ Tail(script[t]) \in Seq(Streams)
  BY <1>1, <1>2 DEF TypeOK
<1>4. PICK s \in Streams : s = Head(script[t])
  BY <1>3
<1>5. script' \in [Threads -> Seq(Streams)]
  BY <1>1, <1>2, <1>3 DEF TypeOK
<1>6. pc[t] # "idle" /\ t \in writers[t][s]
  BY <1>1, <1>2 DEF Parts, StageInv, EndsInv
<1>7. CASE /\ buf[t][s] < PipeSize /\ buf' = [buf EXCEPT ![t][s] = @ + 1]
           /\ sent' = [sent EXCEPT ![t][s] = @ + 1] /\ UNCHANGED status
  <2>1. buf[t][s] \in 0..PipeSize /\ got[t][s] \in Nat /\ sent[t][s] \in Nat /\ PipeSize \in Nat
    BY <1>2, Apart DEF TypeOK
  <2>2. buf[t][s] + 1 \in 0..PipeSize /\ sent[t][s] + 1 \in Nat
        /\ (got[t][s] + buf[t][s] = sent[t][s] => got[t][s] + (buf[t][s] + 1) = sent[t][s] + 1)
    BY <1>7, <2>1
  <2>3. /\ buf' \in [Threads -> [Streams -> 0..PipeSize]] /\ sent' \in [Threads -> [Streams -> Nat]]
        /\ buf'[t][s] = buf[t][s] + 1 /\ sent'[t][s] = sent[t][s] + 1
        /\ \A r \in Streams \ {s} : buf'[t][r] = buf[t][r] /\ sent'[t][r] = sent[t][r]
    BY <1>2, <1>7, <2>2 DEF TypeOK
  <2>4. TypeOK'
    BY <1>1, <1>2, <1>5, <1>7, <2>3 DEF TypeOK
  <2>5. StageInv(t)' /\ EndsInv(t)'
    BY <1>1, <1>2, <1>7 DEF Parts, StageInv, EndsInv, CanWrite, CanRead
  <2>6. pc[t] \notin {"idle", "out", "err", "fork"}
    BY <1>1, <1>2 DEF Parts, StageInv
  <2>7. ASSUME NEW r \in Streams
        PROVE  /\ got'[t][r] + buf'[t][r] = sent'[t][r]
               /\ reader'[t][r] = "eof" => buf'[t][r] = 0 /\ writers'[t][r] = {}
    <3>1. CASE r = s
      BY <1>1, <1>2, <1>6, <2>2, <2>3, <3>1 DEF Parts, FlowInv
    <3>2. CASE r # s
      BY <1>1, <1>2, <2>3, <3>2 DEF Parts, FlowInv
    <3> QED BY <3>1, <3>2
  <2>8. FlowInv(t)'
    BY <1>1, <2>6, <2>7 DEF FlowInv
  <2>9. \A u \in Threads : u # t => Own(u)' = Own(u) /\ EndsStay(u)
    BY <1>1, <1>2, <1>7 DEF Own, EndsStay, TypeOK
  <2> QED BY <1>1, <2>4, <2>5, <2>8, <2>9, OneWorker DEF Parts
<1>8. CASE /\ UNCHANGED <<buf, sent>>
           /\ \E v \in {status[t], "other"} : status' = [status EXCEPT ![t] = v]
  <2>1. TypeOK'
    <3>1. status' \in [Threads -> {"none", "zero", "other"}]
      BY <1>2, <1>8 DEF TypeOK
    <3> QED BY <1>1, <1>2, <1>5, <1>8, <3>1 DEF TypeOK
  <2>2. Parts(t)'
    BY <1>1, <1>2, <1>6, <1>8 DEF Parts, StageInv, EndsInv, FlowInv, CanWrite, CanRead
  <2>3. \A u \in Threads : u # t => Own(u)' = Own(u) /\ EndsStay(u)
    BY <1>1, <1>2, <1>8 DEF Own, EndsStay, TypeOK
  <2> QED BY <1>1, <2>1, <2>2, <2>3, OneWorker
<1> QED BY <1>4, <1>7, <1>8 DEF Write

\* However a child ends, its copies of all descriptors go.
LEMMA EndKeeps ==
  ASSUME IInv, NEW t \in Threads, End(t), child[t] \in {"forked", "running"},
         script' \in [Threads -> Seq(Streams)],
         status' \in [Threads -> {"none", "zero", "other"}],
         \A u \in Threads : u # t => status'[u] = status[u]
  PROVE  IInv'
<1>1. /\ UNCHANGED <<pc, calls, result, reader, got, signals, sent, buf, leaked, failures>>
      /\ child' = [child EXCEPT ![t] = "exited"]
      /\ writers' = Without(writers, t) /\ readers' = Without(readers, t)
  BY DEF End, worker, reading
<1>2. TypeOK /\ Parts(t)
  BY DEF IInv, Parts
<1>3. TypeOK'
  <2>1. /\ writers' \in [Threads -> [Streams -> SUBSET Owners]]
        /\ readers' \in [Threads -> [Streams -> SUBSET Owners]]
    BY <1>1, <1>2 DEF TypeOK, Without
  <2> QED BY <1>1, <1>2, <2>1 DEF TypeOK
<1>4. /\ child'[t] = "exited"
      /\ \A s \in Streams : /\ writers'[t][s] = writers[t][s] \ {t}
                            /\ readers'[t][s] = readers[t][s] \ {t}
  BY <1>1, <1>2 DEF TypeOK, Without
<1>5. pc[t] # "idle"
  BY <1>2 DEF Parts, StageInv
<1>6. Parts(t)'
  <2>1. StageInv(t)'
    BY <1>1, <1>2, <1>4, <1>5 DEF Parts, StageInv
  <2>2. EndsInv(t)'
    BY <1>1, <1>2, <1>4, <1>5, Apart DEF Parts, EndsInv, StageInv, CanWrite, CanRead
  <2>3. FlowInv(t)'
    BY <1>1, <1>2, <1>4, <1>5 DEF Parts, FlowInv, StageInv
  <2> QED BY <2>1, <2>2, <2>3 DEF Parts
<1>7. \A u \in Threads : u # t => Own(u)' = Own(u) /\ EndsStay(u)
  BY <1>1, <1>2, WithoutStays DEF Own, TypeOK
<1> QED BY <1>1, <1>3, <1>6, <1>7, OneWorker

LEMMA ExitKeeps == ASSUME IInv, NEW t \in Threads, Exit(t) PROVE IInv'
BY EndKeeps DEF Exit, IInv, TypeOK

LEMMA KilledKeeps == ASSUME IInv, NEW t \in Threads, Killed(t) PROVE IInv'
<1>1. <<>> \in Seq(Streams)
  OBVIOUS
<1>2. /\ script' \in [Threads -> Seq(Streams)] /\ status' \in [Threads -> {"none", "zero", "other"}]
      /\ \A u \in Threads : u # t => status'[u] = status[u]
  BY <1>1 DEF Killed, IInv, TypeOK
<1> QED BY <1>2, EndKeeps DEF Killed

-------------------------------------------------------------------------------

LEMMA Invariant == Spec => []IInv
<1>1. Init => IInv
  BY InitKeeps
<1>2. IInv /\ [Next]_vars => IInv'
  <2> SUFFICES ASSUME IInv, [Next]_vars PROVE IInv'
    OBVIOUS
  <2>1. ASSUME NEW t \in Threads, WorkerStep(t) PROVE IInv'
    BY <2>1, PipeKeeps, ForkKeeps, CloseKeeps, StartKeeps, JoinKeeps, WaitKeeps DEF WorkerStep
  <2>2. ASSUME NEW t \in Threads, ChildStep(t) PROVE IInv'
    BY <2>2, ExecKeeps, WriteKeeps, ExitKeeps DEF ChildStep
  <2> QED
    BY <2>1, <2>2, CallKeeps, KilledKeeps, ReadKeeps, InterruptedKeeps, StutterKeeps DEF Next, Done
<1> QED BY <1>1, <1>2, PTL DEF Spec

\* Every variable keeps its type, and no pipe holds more than it can.
THEOREM TypeCorrect == Spec => []TypeOK
BY Invariant, PTL DEF IInv

\* The verdict of a call is that of its own child, and its output is all that the child has
\* written to each stream whose reading no signal has cut short.
THEOREM ResultComplete == Spec => []ResultIsComplete
<1>1. IInv => ResultIsComplete
  <2> SUFFICES ASSUME IInv, NEW t \in Threads, result[t] \in {"ok", "bad"}
               PROVE  /\ result[t] = "ok" <=> status[t] = "zero"
                      /\ \A s \in Streams : reader[t][s] = "eof" => got[t][s] = sent[t][s]
    BY DEF ResultIsComplete
  <2>1. \A s \in Streams : got[t][s] \in Nat
    BY DEF IInv, TypeOK
  <2> QED BY <2>1 DEF IInv, StageInv, FlowInv
<1> QED BY <1>1, Invariant, PTL

\* Between its calls a worker has no child and no descriptor, but for those abt has lost
\* for good: at most four for every call whose second pipe() or whose fork() failed, and
\* none otherwise, however the readers of a child's output ended.
THEOREM NothingLeft == Spec => []CallLeavesNothing
<1>1. IInv => CallLeavesNothing
  <2> SUFFICES ASSUME IInv, NEW t \in Threads, pc[t] = "idle"
               PROVE  OpenFor(t) = 0 /\ child[t] = "none"
    BY DEF CallLeavesNothing, IInv
  <2>1. child[t] = "none"
    BY DEF IInv, StageInv
  <2>2. \A s \in Streams : Abt \notin writers[t][s] /\ Abt \notin readers[t][s]
    BY DEF IInv, StageInv, EndsInv, CanWrite, CanRead
  <2>3. /\ {s \in Streams : Abt \in writers[t][s]} = {}
        /\ {s \in Streams : Abt \in readers[t][s]} = {}
    BY <2>2
  <2>4. OpenFor(t) = 0
    <3>1. Cardinality({}) = 0 /\ 0 + 0 = 0
      BY FS_EmptySet
    <3> QED BY <2>3, <3>1 DEF OpenFor
  <2> QED BY <2>1, <2>4
<1> QED BY <1>1, Invariant, PTL
===============================================================================
