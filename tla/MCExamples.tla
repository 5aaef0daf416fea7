------------------------------ MODULE MCExamples ------------------------------
(***************************************************************************)
(* Instances of SimpleNative, GlTriangle and AudioSink: a behavior is one  *)
(* of one application, the variables of the others as they were.           *)
(***************************************************************************)
EXTENDS SimpleNative, GlTriangle, AudioSink

VARIABLE program

all == <<program, glue, native, gl, audio>>

Init == /\ program \in {"simple-native", "gl-triangle", "audio-sink"}
        /\ GlueInit /\ NativeInit /\ GlInit /\ AudioInit

\* Bound: simple-native, which keeps nothing from one window to the next, has one.
Native(action) == /\ program = "simple-native" /\ action /\ activity'.opened <= 1
                  /\ UNCHANGED <<program, gl, audio>>
Gl(action)     == program = "gl-triangle" /\ action /\ UNCHANGED <<program, native, audio>>
Audio(action)  == program = "audio-sink" /\ action /\ UNCHANGED <<program, native, gl>>

Ended == at = "done" /\ calls = <<>>

Next ==
  \/ Native(NativeEnvironment)
  \/ Native(NativeThread)
  \/ Gl(GlEnvironment)
  \/ Gl(GlThread)
  \/ Audio(AudioEnvironment)
  \/ Audio(Main)
  \/ Audio(Stream)
  \/ Ended /\ UNCHANGED all

\* The threads run; nothing is asked of the system, of the stream or of signals.
Spec == /\ Init /\ [][Next]_all
        /\ WF_all(Native(NativeThread))
        /\ WF_all(Gl(GlThread)) /\ WF_all(Audio(Main)) /\ WF_all(Audio(Stream))

\* The types of the variables of the glue and of the three applications.
TypeOK == GlueTypeOK /\ NativeTypeOK /\ GlTypeOK /\ AudioTypeOK

\* The main thread, which waits in the activity's callbacks for the application's thread, is
\* never left waiting: commands are taken and android_main returns, whatever the locks, the
\* stream and its callback do.  Only simple-native, stopped by Back, leaves android_main with
\* the activity alive, and nobody takes the activity's commands then.
SystemWaits == CommandAwaited \/ (activity.phase = "gone" /\ ~Ended)
SystemIsAnswered == SystemWaits ~> (~SystemWaits \/ stop)
===============================================================================
