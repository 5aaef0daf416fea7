----------------------------- MODULE SimpleNative -----------------------------
(***************************************************************************)
(* abt-tests/01-simple-native: LifecycleManager, InputHandler, EventQueue  *)
(* and StateManager.                                                       *)
(*                                                                         *)
(* Input reaches the application in two places: a poll that reports it     *)
(* lets the glue take all there is, which is then not handled, as          *)
(* android_main sets no onInputEvent; what comes between the last poll and *)
(* the loop's own reading is pushed to the EventQueue.  Positions and      *)
(* times are left out, and the statistics but for the count of taps.       *)
(***************************************************************************)
EXTENDS NativeApp, Integers, FiniteSets

CONSTANTS Pointers,     \* pointer ids of the touch screen
          MaxPointers,  \* MAX_POINTERS
          MaxQueued,    \* MAX_QUEUED
          MaxInputs     \* bound: input events

\* Sizes and bounds are numbers; the ids of pointers are, and are finitely many.
ASSUME SimpleNativeAssumption ==
  /\ {MaxPointers, MaxQueued, MaxInputs} \subseteq Nat
  /\ IsFiniteSet(Pointers) /\ Pointers \subseteq Nat

VARIABLES life,     \* LifecycleManager: hasWindow, hasFocus
          input,    \* AInputQueue: what has come and was not taken
          inputs,   \* input events so far
          fingers,  \* of the system: the pointers that are down
          slots,    \* InputHandler::pointers_: the pointer that each slot has, or NoId
          taps,     \* InputHandler::stats_.taps
          queue,    \* EventQueue
          lost,     \* history: an event was dropped
          down,     \* history: of each pointer, presses handled less releases handled
          tapCount, \* StateManager::tapCount_
          stop      \* stopRequested_

native     == <<life, input, inputs, fingers, slots, taps, queue, lost, down, tapCount, stop>>
nativeVars == <<glue, native>>

NoId    == -1
NoSlots == [s \in 1..MaxPointers |-> NoId]

NativeInit ==
  /\ life = [hasWindow |-> FALSE, hasFocus |-> FALSE]
  /\ input = <<>> /\ inputs = 0 /\ fingers = {}
  /\ slots = NoSlots /\ taps = 0
  /\ queue = <<>> /\ lost = FALSE
  /\ down = [p \in Pointers |-> 0] /\ tapCount = 0 /\ stop = FALSE
SimpleNativeInit == GlueInit /\ NativeInit

\* Mutated Pushed: the size is compared with > instead of >=.
Pushed_oneMore(q, events) == SubSeq(q \o events, 1, IF Len(q \o events) <= MaxQueued
                                                    THEN Len(q \o events) ELSE MaxQueued + 1)

\* push, of some events in turn: a full queue drops them.
Pushed(q, events) == SubSeq(q \o events, 1, IF Len(q \o events) < MaxQueued
                                            THEN Len(q \o events) ELSE MaxQueued)
Push(events) == /\ queue' = Pushed(queue, events)
                /\ lost' = (lost \/ Len(queue \o events) > MaxQueued)

Other(kind) == <<kind, NoId>>
Misc == Other("OTHER")  \* any event whose handler only logs
\* What is pushed for a tap: a release, with the pointerId a TouchEvent has by default.
Tap  == <<"UP", 0>>

-------------------------------------------------------------------------------

\* onAppCmd and the LifecycleManager.  The activity's state, which is only logged, is left
\* out.
NativeHandle(c) ==
  /\ life' = [hasWindow |-> IF c = "INIT_WINDOW" THEN TRUE
                            ELSE c # "TERM_WINDOW" /\ life.hasWindow,
              hasFocus  |-> IF c = "GAINED_FOCUS" THEN TRUE
                            ELSE c # "LOST_FOCUS" /\ life.hasFocus]
  /\ IF c \in {"INIT_WINDOW", "WINDOW_RESIZED", "GAINED_FOCUS", "LOST_FOCUS"}
     THEN Push(<<Misc>>) ELSE UNCHANGED <<queue, lost>>
  /\ UNCHANGED <<input, inputs, fingers, slots, taps, down, tapCount, stop>>

NativeCommand == \E c \in Commands : Take(c) /\ NativeHandle(c)

\* The user touches the screen or presses Back.
Comes(event) == input' = Append(input, event)
Touch ==
  /\ activity.focus /\ inputs < MaxInputs /\ inputs' = inputs + 1
  /\ \/ \E p \in Pointers \ fingers : Comes(<<"DOWN", p>>) /\ fingers' = fingers \cup {p}
     \/ \E p \in fingers : Comes(<<"UP", p>>) /\ fingers' = fingers \ {p}
     \/ fingers # {} /\ Comes(<<"MOVE", fingers>>) /\ UNCHANGED fingers
     \/ fingers # {} /\ Comes(Other("CANCEL")) /\ fingers' = {}
     \/ Comes(Other("BACK")) /\ UNCHANGED fingers
  /\ UNCHANGED <<glue, life, slots, taps, queue, lost, down, tapCount, stop>>

\* process_input: the glue takes all that has come; no event is handled.
GlueTakesInput ==
  /\ at = "poll" /\ input # <<>> /\ input' = <<>>
  /\ UNCHANGED <<glue, life, inputs, fingers, slots, taps, queue, lost, down, tapCount, stop>>

\* findSlot and freeSlot: the first slot that has this pointer, or none, if there is one.  A
\* pointer may have several, if the glue has taken some of its releases.
FirstSlot(id) == {s \in 1..MaxPointers : slots[s] = id /\ \A r \in 1..s-1 : slots[r] # id}
PushNothing == UNCHANGED <<slots, taps, queue, lost>>

\* Mutated HandleUp: the release of a pointer that has no slot is pushed too.
HandleUp_anyPointer(p) ==
  /\ Push(<<<<"UP", p>>>>) /\ UNCHANGED taps
  /\ slots' = [s \in 1..MaxPointers |-> IF s \in FirstSlot(p) THEN NoId ELSE slots[s]]

HandleDown(p) ==
  \/ \E s \in FirstSlot(NoId) : /\ Push(<<<<"DOWN", p>>>>)
                               /\ slots' = [slots EXCEPT ![s] = p] /\ UNCHANGED taps
  \/ FirstSlot(NoId) = {} /\ PushNothing
\* A quick release is a tap: it is pushed as one, and then as the release that it is.
HandleUp(p) ==
  \/ \E s \in FirstSlot(p), tap \in {<<>>, <<Tap>>} :
       /\ Push(tap \o <<<<"UP", p>>>>) /\ taps' = taps + Len(tap)
       /\ slots' = [slots EXCEPT ![s] = NoId]
  \/ FirstSlot(p) = {} /\ PushNothing
\* A move is one of all pointers that are down; it is pushed for each that has a slot.
HandleMove(ps) ==
  /\ Push([i \in 1..Cardinality({p \in ps : FirstSlot(p) # {}}) |-> Misc])
  /\ UNCHANGED <<slots, taps>>
HandleCancel == slots' = NoSlots /\ UNCHANGED <<taps, queue, lost>>
\* A press and its release both say that Back was pressed; they are one input here.
HandleKey == Push(<<Misc, Other("BACK")>>) /\ UNCHANGED <<slots, taps>>

\* The loop reads what has come after its last poll.
ReadInput ==
  /\ at = "frame" /\ input # <<>> /\ input' = Tail(input)
  /\ LET kind == Head(input)[1]  p == Head(input)[2]
     IN \/ kind = "DOWN" /\ HandleDown(p)
        \/ kind = "UP" /\ HandleUp(p)
        \/ kind = "MOVE" /\ HandleMove(p)
        \/ kind = "CANCEL" /\ HandleCancel
        \/ kind = "BACK" /\ HandleKey
  /\ UNCHANGED <<glue, life, inputs, fingers, down, tapCount, stop>>

\* How often an event is among the first n of a queue.
Times(event, q, n) == Cardinality({i \in 1..n : q[i] = event})
Count(event) == Times(event, queue, Len(queue))
Ticking(l) == l.hasWindow /\ l.hasFocus

\* StateManager::tick: all events are handled; every release counts as a tap, Back asks to
\* stop.
Tick ==
  /\ at = "frame" /\ input = <<>>
  /\ IF Ticking(life)
     THEN /\ queue' = <<>>
          /\ down' = [p \in Pointers |->
                        down[p] + Count(<<"DOWN", p>>) - Count(<<"UP", p>>)]
          /\ tapCount' = tapCount + Cardinality({i \in DOMAIN queue : queue[i][1] = "UP"})
          /\ stop' = (stop \/ Count(Other("BACK")) > 0)
     ELSE UNCHANGED <<queue, down, tapCount, stop>>
  /\ PollAgain(Ticking(life), stop')
  /\ UNCHANGED <<life, input, inputs, fingers, slots, taps, lost>>

\* android_main returns; the activity has not been asked to finish.
NativeExit == ReturnFromMain /\ UNCHANGED native

NativeThread ==
  \/ NativeCommand \/ GlueTakesInput \/ ReadInput \/ Tick \/ NativeExit
  \/ (PollEnds /\ input = <<>> /\ UNCHANGED native)
NativeEnvironment ==
  \/ Touch
  \/ (Send /\ UNCHANGED native)
  \/ (Woken /\ input = <<>> /\ UNCHANGED native)
NativeNext == NativeThread \/ NativeEnvironment

NativeSpec == SimpleNativeInit /\ [][NativeNext]_nativeVars
-------------------------------------------------------------------------------
(* Properties *)

\* What comes from the system, and what is pushed.
Inputs == ({"DOWN", "UP"} \X Pointers) \cup ({"MOVE"} \X SUBSET Pointers)
          \cup ({"CANCEL", "BACK"} \X {NoId})
Events == ({"DOWN", "UP"} \X Pointers) \cup {Tap, Misc, Other("BACK")}

NativeTypeOK ==
  /\ life \in [hasWindow : BOOLEAN, hasFocus : BOOLEAN]
  /\ input \in Seq(Inputs) /\ inputs \in 0..MaxInputs /\ fingers \subseteq Pointers
  /\ slots \in [1..MaxPointers -> Pointers \cup {NoId}]
  /\ queue \in Seq(Events) /\ Len(queue) <= MaxQueued
  /\ lost \in BOOLEAN /\ stop \in BOOLEAN /\ down \in [Pointers -> Int]
  /\ taps \in Nat /\ tapCount \in Nat

\* How many more releases than presses of a pointer there may be: a tap, of whichever pointer,
\* is one of pointer 0.
ExtraUps(p) == IF p = 0 THEN taps ELSE 0

\* StateManager is told of no more releases of a pointer than of its presses, and in that
\* order, whichever of the events the glue takes away, unless the event queue was full; but
\* pointer 0 is released once more for every tap.
TouchesArePaired ==
  ~lost => \A p \in Pointers, n \in 0..Len(queue) :
             Times(<<"UP", p>>, queue, n)
               <= down[p] + ExtraUps(p) + Times(<<"DOWN", p>>, queue, n)

\* "Simple gesture: track last tap position for logging" (StateManager.h), "Handles
\* multi-touch tracking and tap detection" (InputHandler.h): when it has handled every event,
\* and none was dropped, the StateManager has counted, and logged, the taps that there were.
TapsAreCounted == ~lost /\ queue = <<>> => tapCount = taps
===============================================================================
