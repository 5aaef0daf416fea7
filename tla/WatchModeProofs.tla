---------------------------- MODULE WatchModeProofs ---------------------------
(***************************************************************************)
(* Proofs about WatchMode: for any number of edits and any sizes of the    *)
(* kernel's queue and of a batch, no edit is forgotten between a store of  *)
(* one thread and a load of the other.                                     *)
(***************************************************************************)
EXTENDS WatchMode, SequenceTheorems, TLAPS

-------------------------------------------------------------------------------
(* The inductive invariant *)

\* The event loop is in its callback as long as it has a batch, and while it is
\* about to store, the event it stores for is still at the head.
BatchInv == /\ watcher \in {"callback", "store"} => batch # <<>>
            /\ watcher \in {"select", "exited"} => batch = <<>>
            /\ watcher = "store" => Head(batch) = "source"

\* The threads are stopped in order.
StopInv == /\ main = "exited" => watcher = "exited"
           /\ watcher = "exited" => ~running \/ stopPipe

\* Nothing but a build sets building, and an idle runWatch is not building.
FlagInv == building <=> main \in Building

IInv == TypeOK /\ BatchInv /\ StopInv /\ FlagInv /\ NoEditForgotten

-------------------------------------------------------------------------------
(* Sequences of events *)

LEMMA AppendKeeps ==
  ASSUME NEW s \in Seq(Events), NEW e \in Events
  PROVE  /\ Append(s, e) \in Seq(Events) /\ Len(Append(s, e)) = Len(s) + 1
         /\ Range(Append(s, e)) = Range(s) \cup {e}
<1>1. Append(s, e) \in Seq(Events) /\ Len(Append(s, e)) = Len(s) + 1
  OBVIOUS
<1>2. /\ \A i \in 1 .. Len(s) : Append(s, e)[i] = s[i]
      /\ Append(s, e)[Len(s) + 1] = e
  OBVIOUS
<1>3. DOMAIN s = 1 .. Len(s) /\ DOMAIN Append(s, e) = 1 .. Len(s) + 1 /\ Len(s) \in Nat
  OBVIOUS
<1>4. \A i \in 1 .. Len(s) + 1 : i \in 1 .. Len(s) \/ i = Len(s) + 1
  BY <1>3
<1>5. 1 .. Len(s) \subseteq 1 .. Len(s) + 1 /\ Len(s) + 1 \in 1 .. Len(s) + 1
  BY <1>3
<1>6. Range(Append(s, e)) \subseteq Range(s) \cup {e}
  BY <1>2, <1>3, <1>4 DEF Range
<1>7. Range(s) \cup {e} \subseteq Range(Append(s, e))
  BY <1>2, <1>3, <1>5 DEF Range
<1> QED BY <1>1, <1>6, <1>7

\* What leaves the front of a sequence is its head.
LEMMA TailKeeps ==
  ASSUME NEW s \in Seq(Events), s # <<>>
  PROVE  /\ Tail(s) \in Seq(Events) /\ Len(Tail(s)) = Len(s) - 1
         /\ Len(s) = 1 <=> Tail(s) = <<>>
         /\ Head(s) \in Events
         /\ Range(s) = {Head(s)} \cup Range(Tail(s))
<1>1. /\ Tail(s) \in Seq(Events) /\ Len(Tail(s)) = Len(s) - 1 /\ Len(s) \in Nat /\ Len(s) > 0
      /\ Head(s) = s[1] /\ Head(s) \in Events
  OBVIOUS
<1>2. Len(s) = 1 <=> Tail(s) = <<>>
  BY <1>1
<1>3. \A i \in 1 .. Len(s) - 1 : Tail(s)[i] = s[i + 1] /\ i + 1 \in 1 .. Len(s)
  BY <1>1
<1>4. DOMAIN s = 1 .. Len(s) /\ DOMAIN Tail(s) = 1 .. Len(s) - 1
  BY <1>1
<1>5. \A i \in 1 .. Len(s) : i = 1 \/ (i - 1 \in 1 .. Len(s) - 1 /\ (i - 1) + 1 = i)
  BY <1>1
<1>6. Range(s) \subseteq {Head(s)} \cup Range(Tail(s))
  <2> SUFFICES ASSUME NEW i \in 1 .. Len(s), i # 1 PROVE s[i] \in Range(Tail(s))
    BY <1>1, <1>4 DEF Range
  <2>1. i - 1 \in 1 .. Len(s) - 1 /\ (i - 1) + 1 = i
    BY <1>5
  <2>2. Tail(s)[i - 1] = s[i]
    BY <1>3, <2>1
  <2> QED BY <1>4, <2>1, <2>2 DEF Range
<1>7. {Head(s)} \cup Range(Tail(s)) \subseteq Range(s)
  <2>1. 1 \in DOMAIN s
    BY <1>1, <1>4
  <2> QED BY <1>1, <1>3, <1>4, <2>1 DEF Range
<1> QED BY <1>1, <1>2, <1>6, <1>7

\* A cut loses nothing.
LEMMA CutKeeps ==
  ASSUME NEW s \in Seq(Events), s # <<>>, NEW k \in Nat, k > 0, k <= Len(s)
  PROVE  LET front == SubSeq(s, 1, k)
             back  == SubSeq(s, Len(front) + 1, Len(s))
         IN /\ front \in Seq(Events) /\ Len(front) = k /\ front # <<>>
            /\ back \in Seq(Events) /\ Len(back) = Len(s) - k
            /\ Range(s) \subseteq Range(front) \cup Range(back)
<1> DEFINE front == SubSeq(s, 1, k)
           back == SubSeq(s, k + 1, Len(s))
<1>1. Len(s) \in Nat /\ DOMAIN s = 1 .. Len(s)
  OBVIOUS
<1>2. /\ front \in Seq(Events) /\ Len(front) = k /\ DOMAIN front = 1 .. k
      /\ \A i \in 1 .. k : front[i] = s[i]
  BY <1>1
<1>3. front # <<>>
  BY <1>2
<1>4. /\ back \in Seq(Events) /\ Len(back) = Len(s) - k /\ DOMAIN back = 1 .. Len(s) - k
      /\ \A i \in 1 .. Len(s) - k : back[i] = s[k + i]
  <2>1. \A i \in k + 1 .. Len(s) : s[i] \in Events
    BY <1>1
  <2>2. k + 1 \in Int /\ Len(s) \in Int
    BY <1>1
  <2>3. /\ back \in Seq(Events)
        /\ Len(back) = IF k + 1 <= Len(s) THEN Len(s) - (k + 1) + 1 ELSE 0
        /\ \A i \in 1 .. Len(s) - (k + 1) + 1 : back[i] = s[k + 1 + i - 1]
    BY <2>1, <2>2, SubSeqProperties
  <2> HIDE DEF back
  <2>a. Len(s) - (k + 1) + 1 = Len(s) - k /\ (k + 1 <= Len(s) \/ Len(s) - k = 0)
    <3>1. \A n \in Nat : k <= n => n - (k + 1) + 1 = n - k /\ (k + 1 <= n \/ n - k = 0)
      OBVIOUS
    <3> QED BY <3>1, <1>1
  <2>4. Len(back) = Len(s) - k
    BY <2>3, <2>a
  <2>5. \A i \in 1 .. Len(s) - k : back[i] = s[k + i]
    <3>1. ASSUME NEW i \in 1 .. Len(s) - k PROVE k + 1 + i - 1 = k + i
      BY <1>1
    <3> QED BY <2>3, <2>a, <3>1
  <2>6. DOMAIN back = 1 .. Len(s) - k
    BY <2>3, <2>4
  <2> QED BY <2>3, <2>4, <2>5, <2>6
<1>5. Range(s) \subseteq Range(front) \cup Range(back)
  <2> SUFFICES ASSUME NEW i \in 1 .. Len(s) PROVE s[i] \in Range(front) \cup Range(back)
    BY <1>1 DEF Range
  <2> HIDE DEF front, back
  <2>1. CASE i <= k
    <3>1. i \in 1 .. k
      BY <1>1, <2>1
    <3> QED BY <1>2, <3>1 DEF Range
  <2>2. CASE i > k
    <3>1. i - k \in 1 .. Len(s) - k /\ k + (i - k) = i
      BY <1>1, <2>2
    <3>2. back[i - k] = s[i]
      BY <1>4, <3>1
    <3> QED BY <1>4, <3>1, <3>2 DEF Range
  <2> QED BY <1>1, <2>1, <2>2
<1> QED BY <1>2, <1>3, <1>4, <1>5

\* A notified event is in the queue, or the loss is recorded; none goes.
LEMMA NotifyKeeps ==
  ASSUME TypeOK, NEW e \in Events, Notify(e)
  PROVE  /\ queue' \in Seq(Events) /\ Len(queue') <= QueueSize
         /\ Range(queue) \subseteq Range(queue')
         /\ dropped' \in BOOLEAN
         /\ dropped => dropped'
         /\ dropped' \/ e \in Range(queue')
<1>1. queue \in Seq(Events) /\ Len(queue) \in Nat /\ dropped \in BOOLEAN
  BY DEF TypeOK
<1>2. CASE Repeats(e) /\ UNCHANGED <<queue, dropped>>
  <2>1. Len(queue) \in DOMAIN queue /\ queue[Len(queue)] = e
    BY <1>1, <1>2 DEF Repeats, Last
  <2> QED BY <1>1, <1>2, <2>1 DEF Range, TypeOK
<1>3. CASE Len(queue) < QueueSize /\ queue' = Append(queue, e) /\ UNCHANGED dropped
  BY <1>1, <1>3, AppendKeeps, WatchAssumption
<1>4. CASE dropped' = TRUE /\ UNCHANGED queue
  BY <1>1, <1>4 DEF TypeOK
<1> QED BY <1>2, <1>3, <1>4 DEF Notify

-------------------------------------------------------------------------------
(* Every step preserves IInv *)

LEMMA InitHolds == Init => IInv
<1> SUFFICES ASSUME Init PROVE IInv
  OBVIOUS
<1>1. TypeOK
  <2>1. <<>> \in Seq(Events) /\ Len(<<>>) = 0
    OBVIOUS
  <2>2. 0 \in 0 .. MaxEdits /\ 0 <= QueueSize /\ 0 <= BatchSize
    BY WatchAssumption
  <2>3. version \in 0 .. MaxEdits /\ built \in 0 .. MaxEdits
    BY <2>2 DEF Init
  <2>4. /\ queue \in Seq(Events) /\ Len(queue) <= QueueSize
        /\ batch \in Seq(Events) /\ Len(batch) <= BatchSize
    BY <2>1, <2>2 DEF Init
  <2> QED BY <2>3, <2>4 DEF Init, TypeOK
<1>2. BatchInv /\ StopInv /\ FlagInv
  BY DEF Init, BatchInv, StopInv, FlagInv, Building
<1>3. NoEditForgotten
  BY DEF Init, NoEditForgotten
<1> QED BY <1>1, <1>2, <1>3 DEF IInv

LEMMA EditKeeps == ASSUME IInv, EditSource PROVE IInv'
<1>1. TypeOK
  BY DEF IInv
<1>2. "source" \in Events
  BY DEF Events
<1>3. /\ queue' \in Seq(Events) /\ Len(queue') <= QueueSize
      /\ dropped' \in BOOLEAN
      /\ dropped' \/ "source" \in Range(queue')
  BY <1>1, <1>2, NotifyKeeps DEF EditSource
<1>4. TypeOK'
  BY <1>1, <1>3, WatchAssumption DEF TypeOK, EditSource, loop
<1>5. BatchInv' /\ StopInv' /\ FlagInv'
  BY DEF IInv, EditSource, loop, BatchInv, StopInv, FlagInv
<1>6. NoEditForgotten'
  BY <1>3 DEF NoEditForgotten
<1> QED BY <1>4, <1>5, <1>6 DEF IInv

\* A step that moves neither events nor versions.
LEMMA QuietKeeps ==
  ASSUME IInv, Interrupt \/ CheckInterrupt \/ TestRebuild \/ Claim \/ MarkBuilding
                 \/ UnmarkBuilding \/ Stop \/ Join \/ UNCHANGED vars
  PROVE  IInv'
<1> USE DEF IInv, kernel, loop, vars, Goto
<1>1. CASE Interrupt
  BY <1>1 DEF Interrupt, TypeOK, BatchInv, StopInv, FlagInv, NoEditForgotten
<1>2. CASE CheckInterrupt
  BY <1>2 DEF CheckInterrupt, TypeOK, BatchInv, StopInv, FlagInv, NoEditForgotten, Building
<1>3. CASE TestRebuild
  BY <1>3 DEF TestRebuild, TypeOK, BatchInv, StopInv, FlagInv, NoEditForgotten, Building
<1>4. CASE Claim
  BY <1>4 DEF Claim, TypeOK, BatchInv, StopInv, FlagInv, NoEditForgotten, Building
<1>5. CASE MarkBuilding
  BY <1>5 DEF MarkBuilding, TypeOK, BatchInv, StopInv, FlagInv, NoEditForgotten, Building
<1>6. CASE UnmarkBuilding
  BY <1>6 DEF UnmarkBuilding, TypeOK, BatchInv, StopInv, FlagInv, NoEditForgotten, Building
<1>7. CASE Stop
  BY <1>7 DEF Stop, TypeOK, BatchInv, StopInv, FlagInv, NoEditForgotten, Building
<1>8. CASE Join
  BY <1>8 DEF Join, TypeOK, BatchInv, StopInv, FlagInv, NoEditForgotten, Building
<1>9. CASE UNCHANGED vars
  BY <1>9 DEF TypeOK, BatchInv, StopInv, FlagInv, NoEditForgotten
<1> QED BY <1>1, <1>2, <1>3, <1>4, <1>5, <1>6, <1>7, <1>8, <1>9

LEMMA BuildReadKeeps == ASSUME IInv, BuildRead PROVE IInv'
<1>1. TypeOK'
  BY DEF IInv, TypeOK, BuildRead, Goto, kernel, loop, Building
<1>2. BatchInv' /\ StopInv' /\ FlagInv'
  BY DEF IInv, BuildRead, Goto, kernel, loop, BatchInv, StopInv, FlagInv, Building
<1>3. NoEditForgotten'
  BY DEF IInv, TypeOK, BuildRead, NoEditForgotten
<1> QED BY <1>1, <1>2, <1>3 DEF IInv

LEMMA BuildWriteKeeps == ASSUME IInv, BuildWrite PROVE IInv'
<1>1. TypeOK
  BY DEF IInv
<1>2. Output \in Events
  BY DEF Events, Output
<1>3. Notify(Output)
  BY DEF BuildWrite
<1>4. /\ queue' \in Seq(Events) /\ Len(queue') <= QueueSize
      /\ Range(queue) \subseteq Range(queue')
      /\ dropped' \in BOOLEAN /\ (dropped => dropped')
  BY <1>1, <1>2, <1>3, NotifyKeeps
<1>5. TypeOK'
  BY <1>1, <1>4 DEF TypeOK, BuildWrite, Goto, loop, Building
<1>6. BatchInv' /\ StopInv' /\ FlagInv'
  BY DEF IInv, BuildWrite, Goto, loop, BatchInv, StopInv, FlagInv, Building
<1>7. NoEditForgotten'
  BY <1>4 DEF IInv, BuildWrite, Goto, loop, NoEditForgotten
<1> QED BY <1>5, <1>6, <1>7 DEF IInv

LEMMA SelectKeeps == ASSUME IInv, Select PROVE IInv'
<1>1. CASE (~running \/ stopPipe) /\ watcher' = "exited" /\ UNCHANGED <<queue, batch>>
  BY <1>1 DEF IInv, Select, TypeOK, BatchInv, StopInv, FlagInv, NoEditForgotten
<1>2. CASE /\ running /\ ~stopPipe /\ queue # <<>>
           /\ batch' = SubSeq(queue, 1, IF Len(queue) < BatchSize THEN Len(queue) ELSE BatchSize)
           /\ queue' = SubSeq(queue, Len(batch') + 1, Len(queue))
           /\ watcher' = "callback"
  <2> DEFINE k == IF Len(queue) < BatchSize THEN Len(queue) ELSE BatchSize
  <2>1. queue \in Seq(Events) /\ Len(queue) \in Nat /\ Len(queue) > 0
    BY <1>2 DEF IInv, TypeOK
  <2>2. k \in Nat /\ k > 0 /\ k <= Len(queue) /\ k <= BatchSize
    BY <2>1, WatchAssumption
  <2>3. batch' = SubSeq(queue, 1, k)
    BY <1>2
  <2> HIDE DEF k
  <2>4. /\ batch' \in Seq(Events) /\ Len(batch') = k /\ batch' # <<>>
        /\ queue' \in Seq(Events) /\ Len(queue') = Len(queue) - k
        /\ Range(queue) \subseteq Range(batch') \cup Range(queue')
    BY <1>2, <2>1, <2>2, <2>3, CutKeeps
  <2>5. Len(queue') <= QueueSize /\ Len(batch') <= BatchSize
    BY <2>1, <2>2, <2>4, WatchAssumption DEF IInv, TypeOK
  <2>6. TypeOK'
    BY <1>2, <2>4, <2>5 DEF IInv, TypeOK, Select
  <2>7. batch = <<>>
    BY DEF IInv, BatchInv, Select
  <2>8. BatchInv' /\ StopInv' /\ FlagInv'
    BY <1>2, <2>4 DEF IInv, BatchInv, StopInv, FlagInv, Select
  <2>9. Range(batch) = {}
    BY <2>7 DEF Range
  <2>10. NoEditForgotten'
    BY <1>2, <2>4, <2>9 DEF IInv, NoEditForgotten, Select
  <2> QED BY <2>6, <2>8, <2>10 DEF IInv
<1> QED BY <1>1, <1>2 DEF Select

\* What NextEvent leaves of the batch.
LEMMA NextEventKeeps ==
  ASSUME IInv, watcher \in {"callback", "store"}, NextEvent
  PROVE  /\ batch' \in Seq(Events) /\ Len(batch') <= BatchSize
         /\ watcher' = IF batch' = <<>> THEN "select" ELSE "callback"
         /\ Head(batch) \in Events
         /\ Range(batch) = {Head(batch)} \cup Range(batch')
<1>1. batch \in Seq(Events) /\ batch # <<>> /\ Len(batch) <= BatchSize /\ Len(batch) \in Nat
  BY DEF IInv, TypeOK, BatchInv
<1>2. /\ batch' \in Seq(Events) /\ Len(batch') = Len(batch) - 1
      /\ Len(batch) = 1 <=> batch' = <<>>
      /\ Head(batch) \in Events
      /\ Range(batch) = {Head(batch)} \cup Range(batch')
  BY <1>1, TailKeeps DEF NextEvent
<1>3. Len(batch') <= BatchSize
  BY <1>1, <1>2, WatchAssumption
<1> QED BY <1>2, <1>3 DEF NextEvent

LEMMA CallbackKeeps == ASSUME IInv, Callback PROVE IInv'
<1>1. CASE /\ Head(batch) = "source" /\ ~building
           /\ watcher' = "store" /\ UNCHANGED <<batch, dropped>>
  BY <1>1 DEF IInv, Callback, kernel, TypeOK, BatchInv, StopInv, FlagInv, NoEditForgotten
<1>2. CASE /\ NextEvent
           /\ \/ Head(batch) = "source" /\ building /\ dropped' = TRUE
              \/ Head(batch) # "source" /\ UNCHANGED dropped
  <2>1. watcher \in {"callback", "store"}
    BY DEF Callback
  <2>2. /\ batch' \in Seq(Events) /\ Len(batch') <= BatchSize
        /\ watcher' = IF batch' = <<>> THEN "select" ELSE "callback"
        /\ Range(batch) = {Head(batch)} \cup Range(batch')
    BY <1>2, <2>1, NextEventKeeps
  <2>3. TypeOK'
    BY <1>2, <2>2 DEF IInv, TypeOK, Callback, kernel
  <2>4. BatchInv' /\ StopInv' /\ FlagInv'
    BY <2>2 DEF IInv, BatchInv, StopInv, FlagInv, Callback, kernel
  <2>5. NoEditForgotten'
    BY <1>2, <2>2 DEF IInv, NoEditForgotten, Callback, kernel
  <2> QED BY <2>3, <2>4, <2>5 DEF IInv
<1> QED BY <1>1, <1>2 DEF Callback

LEMMA CallbackStoreKeeps == ASSUME IInv, CallbackStore PROVE IInv'
<1>1. watcher \in {"callback", "store"} /\ NextEvent
  BY DEF CallbackStore
<1>2. /\ batch' \in Seq(Events) /\ Len(batch') <= BatchSize
      /\ watcher' = IF batch' = <<>> THEN "select" ELSE "callback"
  BY <1>1, NextEventKeeps
<1>3. TypeOK'
  BY <1>2 DEF IInv, TypeOK, CallbackStore, kernel
<1>4. BatchInv' /\ StopInv' /\ FlagInv'
  BY <1>2 DEF IInv, BatchInv, StopInv, FlagInv, CallbackStore, kernel
<1>5. NoEditForgotten'
  BY DEF NoEditForgotten, CallbackStore
<1> QED BY <1>3, <1>4, <1>5 DEF IInv

THEOREM Invariant == Spec => []IInv
<1>1. Init => IInv
  BY InitHolds
<1>2. IInv /\ [Next]_vars => IInv'
  <2> SUFFICES ASSUME IInv, [Next]_vars PROVE IInv'
    OBVIOUS
  <2>1. CASE EditSource
    BY <2>1, EditKeeps
  <2>2. CASE EventLoop
    BY <2>2, SelectKeeps, CallbackKeeps, CallbackStoreKeeps DEF EventLoop
  <2>3. CASE BuildRead \/ BuildWrite
    BY <2>3, BuildReadKeeps, BuildWriteKeeps
  <2>4. CASE \/ Interrupt \/ CheckInterrupt \/ TestRebuild \/ Claim \/ MarkBuilding
             \/ UnmarkBuilding \/ Stop \/ Join \/ UNCHANGED vars
    BY <2>4, QuietKeeps
  <2> QED BY <2>1, <2>2, <2>3, <2>4 DEF Next, MainLoop, Build, Done
<1> QED BY <1>1, <1>2, PTL DEF Spec

-------------------------------------------------------------------------------
(* The theorems *)

\* Every variable of the two threads and of the kernel's queue keeps its type.
THEOREM TypeCorrect == Spec => []TypeOK
BY Invariant, PTL DEF IInv

\* However the loads and stores of needsRebuild and building interleave, an edit
\* no build has read is on its way, unless its event came while building was set
\* or the kernel's queue overflowed.
THEOREM EditsKept == Spec => []NoEditForgotten
BY Invariant, PTL DEF IInv

\* InotifyWatcher::stop joins the event loop before the locals of runWatch that
\* its callback refers to go out of scope.
THEOREM CallbacksOver == Spec => []NoCallbackAfterReturn
<1>1. IInv => NoCallbackAfterReturn
  BY DEF IInv, StopInv, NoCallbackAfterReturn
<1> QED BY <1>1, Invariant, PTL
===============================================================================
