------------------------------- MODULE AudioSink ------------------------------
(***************************************************************************)
(* abt-tests/03-audio-sink: the application's thread, which makes and ends *)
(* the AudioEngine, and the callback thread of AAudio, which renders a     *)
(* block of frames, plays it and writes it to the capture file.            *)
(*                                                                         *)
(* A block is a number.  calls holds what the thread of android_main has   *)
(* still to do in the functions it has called: a handler is a sequence of  *)
(* steps, between which the callback runs.  As renders are clamped to the  *)
(* scratch buffer, blocks are taken to be no longer than that.             *)
(***************************************************************************)
EXTENDS NativeApp

CONSTANTS Capacity, Modulus,  \* RingBuffer: CAPACITY, in blocks, and the range of its counters
          MaxBlocks,          \* bound: blocks that are rendered
          MaxFailures         \* bound: calls of AAudio and opens of files that fail

\* The counters of the ring wrap around at a multiple of its capacity.
ASSUME AudioSinkAssumption ==
  /\ {Capacity, Modulus} \subseteq Nat \ {0} /\ Modulus % Capacity = 0 /\ Modulus > Capacity
  /\ {MaxBlocks, MaxFailures} \subseteq Nat

VARIABLES engine,    \* stream, live (its callbacks run), mixer (0, or a number), capturing
          lock,      \* captureMtx_: "free" or who holds it
          wav,       \* the capture file: writer (it is open), good (its stream is),
                     \* count (sampleCount_), blocks (what it holds), header (its count)
          ring,      \* RingBuffer: w, r, slots
          cb,        \* the callback: where it is, the mixer it began with, its block
          rendered,  \* blocks rendered
          app,       \* AsApp: ready, hasFocus, capturing, due (a chord)
          sounding,  \* whether voices are active
          calls, failures

audio     == <<engine, lock, wav, ring, cb, rendered, app, sounding, calls, failures>>
audioVars == <<glue, audio>>

AudioInit ==
  /\ engine = [stream |-> FALSE, live |-> FALSE, mixer |-> 0, capturing |-> FALSE]
  /\ lock = "free"
  /\ wav = [writer |-> FALSE, good |-> TRUE, count |-> 0, blocks |-> <<>>, header |-> 0]
  /\ ring = [w |-> 0, r |-> 0, slots |-> [i \in 0..Capacity-1 |-> 0]]
  /\ cb = [at |-> "idle", mixer |-> 0, block |-> 0]
  /\ rendered = 0
  /\ app = [ready |-> FALSE, hasFocus |-> FALSE, capturing |-> FALSE, due |-> FALSE]
  /\ sounding = FALSE /\ calls = <<>> /\ failures = 0
AudioSinkInit == GlueInit /\ AudioInit

MayFail == failures < MaxFailures /\ failures' = failures + 1

-------------------------------------------------------------------------------
(* The thread of android_main *)

\* Mutated Shutdown: mixer and effects go first.
Shutdown_resetFirst == <<"stop", "header", "close", "reset", "closeStream">>
Shutdown == <<"stop", "header", "close", "closeStream", "reset">>

\* What onAppCmd calls.
Called(c) ==
  IF c = "RESUME" /\ ~app.ready THEN <<"init">>
  ELSE IF c = "PAUSE" THEN
    IF app.capturing THEN <<"stop", "header", "close", "silence">> ELSE <<"silence">>
  ELSE IF c = "DESTROY" THEN Shutdown ELSE <<>>

AudioCommand ==
  /\ calls = <<>>
  /\ \E c \in Commands :
       /\ Take(c)
       /\ calls' = Called(c)
       /\ app' = IF c \in {"GAINED_FOCUS", "LOST_FOCUS"}
                 THEN [app EXCEPT !.hasFocus = c = "GAINED_FOCUS"]
                 ELSE IF c = "PAUSE" THEN [app EXCEPT !.capturing = FALSE] ELSE app
  /\ UNCHANGED <<engine, lock, wav, ring, cb, rendered, sounding, failures>>

Step(s) == calls # <<>> /\ Head(calls) = s /\ calls' = Tail(calls) /\ UNCHANGED glue

\* init: a new mixer and new effects, then the stream.  One that could not be started stays
\* open, and the next init makes another.
InitEngine ==
  /\ calls = <<"init">> /\ UNCHANGED glue
  /\ \/ /\ engine' = [engine EXCEPT !.stream = TRUE, !.live = TRUE, !.mixer = @ + 1]
        /\ calls' = <<"open">> /\ UNCHANGED failures
     \/ /\ MayFail /\ calls' = <<>>
        /\ \E opened \in BOOLEAN :
             engine' = [engine EXCEPT !.stream = @ \/ opened, !.mixer = @ + 1]
  /\ UNCHANGED <<lock, wav, ring, cb, rendered, app, sounding>>

\* startCapture, whose result is not looked at: with the lock, the file and the flag; then
\* the lock is released and onAppCmd goes on.
OpenCapture ==
  /\ lock = "free" /\ lock' = "app" /\ UNCHANGED glue
  /\ calls # <<>> /\ Head(calls) = "open" /\ calls' = <<"opened">>
  /\ \/ /\ wav' = [writer |-> TRUE, good |-> TRUE, count |-> 0, blocks |-> <<>>, header |-> 0]
        /\ engine' = [engine EXCEPT !.capturing = TRUE] /\ UNCHANGED failures
     \/ MayFail /\ UNCHANGED <<wav, engine>>
  /\ UNCHANGED <<ring, cb, rendered, app, sounding>>
CaptureOpened ==
  /\ Step("opened") /\ lock' = "free"
  /\ app' = [app EXCEPT !.capturing = TRUE, !.ready = TRUE, !.due = TRUE]
  /\ UNCHANGED <<engine, wav, ring, cb, rendered, sounding, failures>>

\* The disk is full: what the stream still buffers is lost, and it takes no more.
Writable == wav.writer /\ wav.good
DiskFull(count) ==
  \E n \in 0..Len(wav.blocks) :
    wav' = [wav EXCEPT !.good = FALSE, !.count = count, !.blocks = SubSeq(@, 1, n)]

\* stopCapture: the lock, the flag; the writer's header, unless its stream is bad; the file
\* is closed, by close or by the destructor of a bad stream, and the lock is free.
Stop ==
  /\ Step("stop") /\ lock = "free" /\ lock' = "app"
  /\ engine' = [engine EXCEPT !.capturing = FALSE]
  /\ UNCHANGED <<wav, ring, cb, rendered, app, sounding, failures>>
WriteHeader ==
  /\ Step("header")
  /\ \/ Writable /\ (wav' = [wav EXCEPT !.header = wav.count] \/ DiskFull(wav.count))
     \/ ~Writable /\ UNCHANGED wav
  /\ UNCHANGED <<engine, lock, ring, cb, rendered, app, sounding, failures>>
CloseFile ==
  /\ Step("close") /\ lock' = "free"
  /\ wav' = [wav EXCEPT !.writer = FALSE]
  /\ UNCHANGED <<engine, ring, cb, rendered, app, sounding, failures>>

\* AAudioStream_close waits for a callback that runs.
CloseStream ==
  /\ Step("closeStream") /\ (engine.stream => cb.at = "idle")
  /\ engine' = [engine EXCEPT !.stream = FALSE, !.live = FALSE]
  /\ UNCHANGED <<lock, wav, ring, cb, rendered, app, sounding, failures>>
Reset ==
  /\ Step("reset")
  /\ engine' = [engine EXCEPT !.mixer = 0] /\ sounding' = FALSE
  /\ UNCHANGED <<lock, wav, ring, cb, rendered, app, failures>>

\* noteOffAll.
Silence ==
  /\ Step("silence") /\ sounding' = FALSE
  /\ UNCHANGED <<engine, lock, wav, ring, cb, rendered, app, failures>>

\* tickSequencer: a chord at once after the start, and every 1.2 seconds.
AudioFrame ==
  /\ calls = <<>> /\ PollAgain(app.ready, FALSE)
  /\ \/ app.ready /\ app.hasFocus /\ app' = [app EXCEPT !.due = FALSE] /\ sounding' = TRUE
     \/ ~(app.ready /\ app.hasFocus /\ app.due) /\ UNCHANGED <<app, sounding>>
  /\ UNCHANGED <<engine, lock, wav, ring, cb, rendered, calls, failures>>

\* The end of android_main: shutdown once more, and the destructor, which finds nothing left.
AudioExit ==
  /\ calls = <<>> /\ ReturnFromMain /\ calls' = Shutdown
  /\ UNCHANGED <<engine, lock, wav, ring, cb, rendered, app, sounding, failures>>

Main == \/ InitEngine \/ OpenCapture \/ CaptureOpened \/ Stop \/ WriteHeader \/ CloseFile
        \/ CloseStream \/ Reset \/ Silence \/ AudioFrame \/ AudioExit \/ AudioCommand
        \/ (calls = <<>> /\ PollEnds /\ UNCHANGED audio)

-------------------------------------------------------------------------------
(* The thread of AAudio *)

CallbackStep(from, to) ==
  /\ cb.at = from /\ cb' = [cb EXCEPT !.at = to]
  /\ UNCHANGED <<glue, app, sounding, calls, failures>>

\* The stream calls back.
Callback ==
  /\ engine.live /\ rendered < MaxBlocks /\ cb.at = "idle"
  /\ cb' = [at |-> "render", mixer |-> engine.mixer, block |-> 0]
  /\ UNCHANGED <<glue, engine, lock, wav, ring, rendered, app, sounding, calls, failures>>

\* Mixer::render writes a block to the ring.
Slot(counter) == counter % Capacity
Available == (ring.w - ring.r) % Modulus
Render ==
  /\ CallbackStep("render", "read")
  /\ rendered' = rendered + 1
  /\ ring' = IF Capacity - Available = 0 THEN ring
             ELSE [ring EXCEPT !.w = (@ + 1) % Modulus, !.slots[Slot(ring.w)] = rendered + 1]
  /\ UNCHANGED <<engine, lock, wav>>

\* The block is read back, silence if there is none, sent through the effects and played;
\* whether to capture is asked without the lock.
ReadAndPlay ==
  /\ cb.at = "read"
  /\ cb' = [cb EXCEPT !.at = IF engine.capturing THEN "capture" ELSE "idle",
                      !.block = IF Available = 0 THEN 0 ELSE ring.slots[Slot(ring.r)]]
  /\ ring' = IF Available = 0 THEN ring ELSE [ring EXCEPT !.r = (@ + 1) % Modulus]
  /\ UNCHANGED <<glue, engine, lock, wav, rendered, app, sounding, calls, failures>>

\* Mutated TryLock: the block is written without the lock.
TryLock_noLock ==
  /\ CallbackStep("capture", "write")
  /\ UNCHANGED <<engine, lock, wav, ring, rendered>>

\* The callback does not wait for the lock: without it the block is not captured.
TryLock ==
  \/ /\ lock = "free" /\ lock' = "callback" /\ CallbackStep("capture", "write")
     /\ UNCHANGED <<engine, wav, ring, rendered>>
  \/ /\ lock # "free" /\ CallbackStep("capture", "idle")
     /\ UNCHANGED <<engine, lock, wav, ring, rendered>>

\* WaveWriter::write: a block that could not be written is counted, those after it are not.
Write ==
  /\ CallbackStep("write", "idle") /\ lock' = IF lock = "callback" THEN "free" ELSE lock
  /\ \/ Writable /\ wav' = [wav EXCEPT !.blocks = Append(@, cb.block), !.count = @ + 1]
     \/ Writable /\ DiskFull(wav.count + 1)
     \/ ~Writable /\ UNCHANGED wav
  /\ UNCHANGED <<engine, ring, rendered>>

Stream == Render \/ ReadAndPlay \/ TryLock \/ Write

\* errorCallback: the stream is lost, running_, which nobody reads, is cleared, and the
\* application does not learn of it.
Disconnect ==
  /\ engine.live /\ cb.at = "idle" /\ MayFail
  /\ engine' = [engine EXCEPT !.live = FALSE]
  /\ UNCHANGED <<glue, lock, wav, ring, cb, rendered, app, sounding, calls>>

AudioEnvironment ==
  \/ Callback \/ Disconnect
  \/ ((Send \/ (Woken /\ calls = <<>>)) /\ UNCHANGED audio)
AudioNext == AudioEnvironment \/ Main \/ Stream

AudioSpec == AudioSinkInit /\ [][AudioNext]_audioVars
-------------------------------------------------------------------------------
(* Properties *)

AudioTypeOK ==
  /\ engine \in [stream : BOOLEAN, live : BOOLEAN, mixer : 0..MaxFailures + 1,
                 capturing : BOOLEAN]
  /\ lock \in {"free", "app", "callback"}
  /\ wav \in [writer : BOOLEAN, good : BOOLEAN, count : Nat, blocks : Seq(0..MaxBlocks),
              header : Nat]
  /\ ring \in [w : 0..Modulus-1, r : 0..Modulus-1, slots : [0..Capacity-1 -> 0..MaxBlocks]]
  /\ cb \in [at : {"idle", "render", "read", "capture", "write"}, mixer : 0..MaxFailures + 1,
             block : 0..MaxBlocks]
  /\ rendered \in 0..MaxBlocks
  /\ app \in [ready : BOOLEAN, hasFocus : BOOLEAN, capturing : BOOLEAN, due : BOOLEAN]
  /\ sounding \in BOOLEAN /\ failures \in 0..MaxFailures

\* The callback uses the mixer and the effects without asking whether they are there: those
\* it has begun with are there until it ends, whenever the application is destroyed or has to
\* start the engine again.
CallbackIsSafe == cb.at # "idle" => engine.mixer = cb.mixer /\ cb.mixer # 0

\* A capture that was closed holds an unbroken run of the blocks as they were played, although
\* the callback skips those for which it does not get the lock.  Its header counts them; if
\* the disk got full, the run has lost its end and the header says that there is none.
CaptureIsWhole ==
  ~wav.writer => /\ wav.header = IF wav.good THEN Len(wav.blocks) ELSE 0
                 /\ \A i \in DOMAIN wav.blocks : wav.blocks[i] = wav.blocks[1] + i - 1

\* "Finalize and close the file (writes WAV header)" (WaveWriter.h): the header of a capture
\* that was closed counts what the file holds.
HeaderIsWritten == ~wav.writer => wav.header = Len(wav.blocks)
===============================================================================
