--------------------------- MODULE ExamplesProofs ---------------------------
(***************************************************************************)
(* Proofs about the example applications (SimpleNative, GlTriangle,        *)
(* AudioSink) and the glue they share (NativeApp): for any number of       *)
(* windows, pointers, events, blocks and failures.                         *)
(***************************************************************************)
EXTENDS MCExamples, FiniteSetTheorems, SequenceTheorems, TLAPS

-------------------------------------------------------------------------------
(* The glue *)

\* The inductive invariant of the glue (ExamplesProofs): the system waits for what it has last
\* written, and android_app::window is the system's window but for one not yet told of.
WindowInv ==
  /\ \A i \in DOMAIN commands : commands[i] \in Awaited => i = Len(commands)
  /\ IF \E i \in DOMAIN commands : commands[i] = "INIT_WINDOW"
     THEN window = 0 /\ activity.surface # 0 ELSE window = activity.surface
GlueInv == GlueTypeOK /\ WindowInv

LEMMA GlueInitKeeps == ASSUME GlueInit PROVE GlueInv
BY NativeAppAssumption DEF GlueInit, GlueInv, GlueTypeOK, WindowInv, Commands

\* What is written to the pipe, and how the activity is then.
LEMMA SendKeeps == ASSUME GlueInv, Send PROVE GlueInv'
<1>1. PICK c \in Commands : Sendable(c, activity') /\ commands' = Append(commands, c)
  BY DEF Send
<1>2. UNCHANGED <<window, at, timeout, wakes>> /\ ~CommandAwaited /\ Len(commands) < MaxPending
  BY DEF Send
<1>3. /\ activity \in [phase : {"paused", "resumed", "gone"}, surface : 0..MaxWindows,
                       opened : 0..MaxWindows, focus : BOOLEAN]
      /\ commands \in Seq(Commands) /\ MaxWindows \in Nat /\ MaxPending \in Nat
  BY NativeAppAssumption DEF GlueInv, GlueTypeOK
<1>4. /\ activity' \in [phase : {"paused", "resumed", "gone"}, surface : 0..MaxWindows,
                        opened : 0..MaxWindows, focus : BOOLEAN]
      /\ c # "INIT_WINDOW" => activity'.surface = activity.surface
      /\ c = "INIT_WINDOW" => activity.surface = 0 /\ activity'.surface # 0
  <2>1. PICK then : then = activity'
    OBVIOUS
  <2>2. CASE c = "INIT_WINDOW"
    <3>1. /\ activity.surface = 0 /\ activity.opened < MaxWindows
          /\ then = [activity EXCEPT !.surface = activity.opened + 1, !.opened = @ + 1]
      BY <1>1, <2>1, <2>2 DEF Sendable
    <3>2. activity.opened + 1 \in 0..MaxWindows /\ activity.opened + 1 # 0
      BY <1>3, <3>1
    <3>3. /\ then \in [phase : {"paused", "resumed", "gone"}, surface : 0..MaxWindows,
                        opened : 0..MaxWindows, focus : BOOLEAN]
          /\ then.surface = activity.opened + 1
      BY <1>3, <3>1, <3>2
    <3> QED BY <2>1, <2>2, <3>1, <3>2, <3>3
  <2>3. CASE c # "INIT_WINDOW"
    <3>1. \/ then = activity
          \/ \E p \in {"resumed", "paused", "gone"} : then = [activity EXCEPT !.phase = p]
          \/ \E f \in BOOLEAN : then = [activity EXCEPT !.focus = f]
      BY <1>1, <2>1, <2>3 DEF Sendable
    <3> QED BY <1>3, <2>1, <2>3, <3>1
  <2> QED BY <2>2, <2>3
<1>5. commands' \in Seq(Commands) /\ Len(commands') = Len(commands) + 1 /\ Len(commands) \in Nat
      /\ Len(commands') <= MaxPending
      /\ \A i \in 1..Len(commands) : commands'[i] = commands[i]
      /\ commands'[Len(commands) + 1] = c
  BY <1>1, <1>2, <1>3
<1>6. GlueTypeOK'
  BY <1>2, <1>4, <1>5 DEF GlueInv, GlueTypeOK
<1>7. \A i \in DOMAIN commands : commands[i] \notin Awaited
  BY <1>2 DEF CommandAwaited
<1>8. "INIT_WINDOW" \in Awaited
  BY DEF Awaited
<1>9. window = activity.surface
  BY <1>7, <1>8 DEF GlueInv, WindowInv
<1>10. \A i \in DOMAIN commands' : i \in DOMAIN commands \/ i = Len(commands')
  BY <1>3, <1>5
<1>11. DOMAIN commands = 1..Len(commands) /\ Len(commands') \in DOMAIN commands'
  BY <1>3, <1>5
<1>13. commands'[Len(commands')] = c
  <2>1. PICK s \in Seq(Commands) : s = commands
    BY <1>3
  <2>2. Append(s, c)[Len(Append(s, c))] = c
    OBVIOUS
  <2> QED BY <1>1, <2>1, <2>2
<1>12. WindowInv'
  <2>1. \A i \in DOMAIN commands' : commands'[i] \in Awaited => i = Len(commands')
    BY <1>5, <1>7, <1>10, <1>11
  <2>2. (\E i \in DOMAIN commands' : commands'[i] = "INIT_WINDOW") <=> c = "INIT_WINDOW"
    <3>1. \A i \in DOMAIN commands' :
            commands'[i] = "INIT_WINDOW" => i = Len(commands') /\ commands'[i] = c
      BY <1>8, <1>13, <2>1
    <3>2. Len(commands') \in DOMAIN commands' /\ commands'[Len(commands')] = c
      BY <1>11, <1>13
    <3> QED BY <3>1, <3>2
  <2> QED BY <1>2, <1>4, <1>9, <2>1, <2>2 DEF WindowInv
<1> QED BY <1>6, <1>12 DEF GlueInv

\* The command is the last if the system waits for it.
LEMMA TakeKeeps == ASSUME GlueInv, NEW c, Take(c) PROVE GlueInv' /\ c \in Commands
<1>1. /\ commands # <<>> /\ c = Head(commands) /\ commands' = Tail(commands)
      /\ window' = IF c = "INIT_WINDOW" THEN activity.surface
                   ELSE IF c = "TERM_WINDOW" THEN 0 ELSE window
      /\ activity' = IF c = "TERM_WINDOW" THEN [activity EXCEPT !.surface = 0] ELSE activity
      /\ at' \in {"exit", "poll"} /\ UNCHANGED <<timeout, wakes>>
  BY DEF Take
<1>2. /\ activity \in [phase : {"paused", "resumed", "gone"}, surface : 0..MaxWindows,
                       opened : 0..MaxWindows, focus : BOOLEAN]
      /\ commands \in Seq(Commands) /\ MaxWindows \in Nat /\ Len(commands) <= MaxPending
      /\ window \in 0..MaxWindows /\ MaxPending \in Nat
  BY NativeAppAssumption DEF GlueInv, GlueTypeOK
<1>3. /\ commands' \in Seq(Commands) /\ Len(commands') = Len(commands) - 1
      /\ Len(commands) \in Nat /\ Len(commands) > 0 /\ Len(commands') <= MaxPending
      /\ c = commands[1] /\ c \in Commands
      /\ \A i \in 1..Len(commands) - 1 : commands'[i] = commands[i + 1]
      /\ DOMAIN commands = 1..Len(commands) /\ DOMAIN commands' = 1..Len(commands) - 1
  BY <1>1, <1>2
<1>4. GlueTypeOK'
  <2>1. activity' \in [phase : {"paused", "resumed", "gone"}, surface : 0..MaxWindows,
                       opened : 0..MaxWindows, focus : BOOLEAN]
    <3>1. 0 \in 0..MaxWindows
      BY <1>2
    <3>2. [activity EXCEPT !.surface = 0] \in
            [phase : {"paused", "resumed", "gone"}, surface : 0..MaxWindows,
             opened : 0..MaxWindows, focus : BOOLEAN]
      BY <1>2, <3>1
    <3> QED BY <1>1, <1>2, <3>2
  <2>2. window' \in 0..MaxWindows
    BY <1>1, <1>2
  <2> QED BY <1>1, <1>3, <2>1, <2>2 DEF GlueInv, GlueTypeOK
<1>5. \A i \in DOMAIN commands' : i + 1 \in DOMAIN commands /\ i \in Nat
  BY <1>3
<1>6. \A i \in DOMAIN commands' : commands'[i] \in Awaited => i = Len(commands')
  <2> TAKE i \in DOMAIN commands'
  <2>1. commands'[i] = commands[i + 1] /\ i + 1 \in DOMAIN commands /\ i \in Nat
    BY <1>3, <1>5
  <2>2. commands[i + 1] \in Awaited => i + 1 = Len(commands)
    BY <2>1 DEF GlueInv, WindowInv
  <2> QED BY <1>3, <2>1, <2>2
<1>7. c \in Awaited => Len(commands') = 0
  <2>1. 1 \in DOMAIN commands
    BY <1>3
  <2> QED BY <1>3, <2>1 DEF GlueInv, WindowInv
<1>8. CASE c \in {"INIT_WINDOW", "TERM_WINDOW"}
  <2>1. Len(commands') = 0
    BY <1>7, <1>8 DEF Awaited
  <2>2. DOMAIN commands' = {}
    BY <1>3, <2>1
  <2>3. window' = activity'.surface
    BY <1>1, <1>2, <1>8
  <2> QED BY <1>3, <1>4, <1>6, <2>2, <2>3 DEF GlueInv, WindowInv
<1>9. CASE c \notin {"INIT_WINDOW", "TERM_WINDOW"}
  <2>1. window' = window /\ activity' = activity
    BY <1>1, <1>9
  <2>2. (\E i \in DOMAIN commands' : commands'[i] = "INIT_WINDOW")
        <=> \E i \in DOMAIN commands : commands[i] = "INIT_WINDOW"
    <3>1. ASSUME NEW i \in DOMAIN commands, commands[i] = "INIT_WINDOW"
          PROVE  \E j \in DOMAIN commands' : commands'[j] = "INIT_WINDOW"
      <4>1. i # 1 /\ i \in 1..Len(commands)
        BY <1>3, <1>9, <3>1
      <4>2. i - 1 \in 1..Len(commands) - 1 /\ (i - 1) + 1 = i
        BY <1>3, <4>1
      <4>3. commands'[i - 1] = "INIT_WINDOW"
        BY <1>3, <3>1, <4>2
      <4> QED BY <1>3, <4>2, <4>3
    <3>2. ASSUME NEW i \in DOMAIN commands', commands'[i] = "INIT_WINDOW"
          PROVE  \E j \in DOMAIN commands : commands[j] = "INIT_WINDOW"
      BY <1>3, <1>5, <3>2
    <3> QED BY <3>1, <3>2
  <2> QED BY <1>3, <1>4, <1>6, <2>1, <2>2 DEF GlueInv, WindowInv
<1> QED BY <1>8, <1>9

\* The other steps change only where android_main is.
LEMMA PollKeeps ==
  ASSUME GlueInv,
         \/ PollEnds \/ Woken \/ ReturnFromMain \/ UNCHANGED glue
         \/ \E busy, end \in BOOLEAN : PollAgain(busy, end)
  PROVE  GlueInv' /\ UNCHANGED <<activity, commands, window>>
<1>1. /\ UNCHANGED <<activity, commands, window>>
      /\ at' \in {"poll", "frame", "exit", "done"} /\ timeout' \in {"0", "forever"}
  BY DEF GlueInv, GlueTypeOK, PollEnds, Woken, ReturnFromMain, PollAgain, glue
<1>2. wakes' \in 0..MaxWakes
  <2>1. MaxWakes \in Nat /\ wakes \in 0..MaxWakes
    BY NativeAppAssumption DEF GlueInv, GlueTypeOK
  <2>2. wakes' = wakes \/ (wakes < MaxWakes /\ wakes' = wakes + 1)
    BY DEF PollEnds, Woken, ReturnFromMain, PollAgain, glue
  <2> QED BY <2>1, <2>2
<1> QED BY <1>1, <1>2 DEF GlueInv, GlueTypeOK, WindowInv

-------------------------------------------------------------------------------
(* GlTriangle *)

\* The inductive invariant behind FramesHaveTarget (ExamplesProofs): a surface is one of
\* the window the application knows, and ready means that there is one to draw to.
ReadyInv ==
  /\ egl.surface # 0 => egl.surface = window
  /\ ctx.ready /\ at # "done" =>
       egl.current /\ egl.surface # 0 /\ renderer.program \in {0, egl.ctx}
GlInv == GlueInv /\ GlTypeOK /\ ReadyInv

LEMMA GlInitKeeps == ASSUME GlTriangleInit PROVE GlInv
<1>1. 0 \in 0..MaxWindows /\ 0 \in 0..MaxGlFailures
  BY NativeAppAssumption, GlTriangleAssumption
<1>2. GlTypeOK
  BY <1>1 DEF GlTriangleInit, GlInit, GlTypeOK, NoFrame
<1>3. ReadyInv
  BY DEF GlTriangleInit, GlInit, ReadyInv
<1> QED BY <1>2, <1>3, GlueInitKeeps DEF GlTriangleInit, GlInv

\* One more call fails, if it may.
LEMMA GlFailure ==
  ASSUME glFailures \in 0..MaxGlFailures, GlMayFail \/ UNCHANGED glFailures
  PROVE  glFailures' \in 0..MaxGlFailures
BY GlTriangleAssumption DEF GlMayFail

\* What the program knows of the window is of no use without a surface.
LEMMA InitWindowKeeps ==
  ASSUME GlTypeOK, ReadyInv, window = 0, window' \in 0..MaxWindows, window' # 0,
         at = "poll", at' = "poll", InitWindow(window')
  PROVE  GlTypeOK' /\ ReadyInv'
<1> DEFINE win == window'
<1>1. egl.surface = 0 /\ ~ctx.ready
  BY DEF ReadyInv
<1>2. /\ egl \in [ctx : 0..MaxWindows, surface : 0..MaxWindows, current : BOOLEAN]
      /\ renderer \in [ready : BOOLEAN, program : 0..MaxWindows, array : 0..MaxWindows]
      /\ ctx \in [hasFocus : BOOLEAN, ready : BOOLEAN] /\ win \in 0..MaxWindows
      /\ 0 \in 0..MaxWindows
  BY NativeAppAssumption DEF GlTypeOK
<1>3. ~IsReady
  BY <1>1 DEF IsReady
<1>4. glFailures' \in 0..MaxGlFailures /\ frame' = frame
  <2>1. GlMayFail \/ UNCHANGED glFailures
    BY DEF InitWindow, Recreate, InitFails, RendererFails, RendererInit
  <2> QED BY <2>1, <1>3, GlFailure DEF GlTypeOK, InitWindow, InitFails
<1>5. CASE InitFails(win)
  <2>1. UNCHANGED <<renderer, bound, ctx>>
    BY <1>5 DEF InitFails
  <2>2. egl' \in [ctx : 0..MaxWindows, surface : 0..MaxWindows, current : BOOLEAN]
        /\ egl'.surface \in {0, win}
    BY <1>1, <1>2, <1>5 DEF InitFails
  <2>3. GlTypeOK'
    BY <1>4, <2>1, <2>2 DEF GlTypeOK
  <2>4. ReadyInv'
    BY <1>1, <2>1, <2>2 DEF ReadyInv
  <2> QED BY <2>3, <2>4
<1>6. CASE /\ egl' = [ctx |-> win, surface |-> win, current |-> TRUE]
           /\ RendererFails \/ RendererInit(win)
           /\ ctx' = [ctx EXCEPT !.ready = TRUE]
  <2>1. egl' \in [ctx : 0..MaxWindows, surface : 0..MaxWindows, current : BOOLEAN]
    BY <1>2, <1>6
  <2>2. ctx' \in [hasFocus : BOOLEAN, ready : BOOLEAN]
    BY <1>2, <1>6
  <2>3. /\ renderer' \in [ready : BOOLEAN, program : 0..MaxWindows, array : 0..MaxWindows]
        /\ renderer'.program \in {0, win} /\ bound' \in {"none", LastUploaded}
    <3>1. CASE RendererFails
      BY <1>2, <3>1 DEF RendererFails
    <3>2. CASE RendererInit(win)
      BY <1>2, <3>2 DEF RendererInit
    <3> QED BY <1>6, <3>1, <3>2
  <2>4. GlTypeOK'
    BY <1>4, <2>1, <2>2, <2>3 DEF GlTypeOK
  <2>5. ReadyInv'
    BY <1>6, <2>3 DEF ReadyInv
  <2> QED BY <2>4, <2>5
<1> QED BY <1>3, <1>5, <1>6 DEF InitWindow

\* A command that takes the window takes the surface with it.
LEMMA GlCommandKeeps == ASSUME GlInv, GlCommand PROVE GlInv'
<1>1. PICK c \in Commands : Take(c) /\ GlHandle(c)
  BY DEF GlCommand
<1>2. GlueInv' /\ at = "poll" /\ at' # "done" /\ at # "done"
  BY <1>1, TakeKeeps DEF GlInv, Take
<1>3. /\ GlTypeOK /\ ReadyInv /\ window' \in 0..MaxWindows
  BY <1>2 DEF GlInv, GlueInv, GlueTypeOK
<1>4. /\ egl \in [ctx : 0..MaxWindows, surface : 0..MaxWindows, current : BOOLEAN]
      /\ ctx \in [hasFocus : BOOLEAN, ready : BOOLEAN] /\ 0 \in 0..MaxWindows
  BY NativeAppAssumption DEF GlInv, GlTypeOK
<1>5. CASE c = "INIT_WINDOW"
  <2>1. window = 0 /\ window' = activity.surface /\ activity.surface # 0 /\ at' = "poll"
    <3>1. 1 \in DOMAIN commands /\ commands[1] = "INIT_WINDOW"
      BY <1>1, <1>5 DEF Take, GlInv, GlueInv, GlueTypeOK
    <3> QED BY <1>1, <1>5, <3>1 DEF Take, GlInv, GlueInv, WindowInv
  <2>2. InitWindow(window')
    BY <1>1, <1>5 DEF GlHandle
  <2> QED BY <1>2, <1>3, <2>1, <2>2, InitWindowKeeps DEF GlInv
<1>6. CASE c = "TERM_WINDOW"
  <2>1. TermWindow
    BY <1>1, <1>6 DEF GlHandle
  <2>2. /\ egl' \in [ctx : 0..MaxWindows, surface : 0..MaxWindows, current : BOOLEAN]
        /\ egl'.surface = 0
    BY <1>4, <2>1 DEF TermWindow
  <2>3. ctx' \in [hasFocus : BOOLEAN, ready : BOOLEAN] /\ ~ctx'.ready
        /\ UNCHANGED <<renderer, bound, frame, glFailures>>
    BY <1>4, <2>1 DEF TermWindow
  <2>4. GlTypeOK'
    BY <2>2, <2>3, <1>3 DEF GlTypeOK
  <2>5. ReadyInv'
    BY <2>2, <2>3 DEF ReadyInv
  <2> QED BY <1>2, <2>4, <2>5 DEF GlInv
<1>7. CASE c \notin {"INIT_WINDOW", "TERM_WINDOW"}
  <2>1. window' = window
    BY <1>1, <1>7 DEF Take
  <2>2. /\ UNCHANGED <<egl, renderer, bound, frame, glFailures>>
        /\ ctx' \in [hasFocus : BOOLEAN, ready : BOOLEAN] /\ ctx'.ready = ctx.ready
    BY <1>1, <1>4, <1>7 DEF GlHandle, gl
  <2>3. GlTypeOK'
    BY <1>3, <2>2 DEF GlTypeOK
  <2>4. ReadyInv'
    BY <1>2, <1>3, <2>1, <2>2 DEF ReadyInv
  <2> QED BY <1>2, <2>3, <2>4 DEF GlInv
<1> QED BY <1>5, <1>6, <1>7

LEMMA GlFrameKeeps == ASSUME GlInv, GlFrame PROVE GlInv'
<1>1. /\ egl \in [ctx : 0..MaxWindows, surface : 0..MaxWindows, current : BOOLEAN]
      /\ ctx \in [hasFocus : BOOLEAN, ready : BOOLEAN] /\ bound \in {"none", LastUploaded}
      /\ frame \in [Meshes -> Meshes \cup {"none"}]
  BY DEF GlInv, GlTypeOK
<1>2. /\ UNCHANGED <<egl, renderer, bound>>
      /\ GlMayFail \/ UNCHANGED glFailures
      /\ PollAgain(Drawing(ctx'), FALSE) /\ at # "done"
      /\ ctx' = ctx \/ ctx' = [ctx EXCEPT !.ready = FALSE]
  BY DEF GlFrame, PollAgain
<1>3. ctx' \in [hasFocus : BOOLEAN, ready : BOOLEAN] /\ (ctx'.ready => ctx.ready)
  BY <1>1, <1>2
<1>4. GlueInv' /\ UNCHANGED window
  <2>1. Drawing(ctx') \in BOOLEAN
    BY <1>3 DEF Drawing
  <2> QED BY <1>2, <2>1, PollKeeps DEF GlInv
<1>5. frame' \in [Meshes -> Meshes \cup {"none"}]
  <2>1. Drawn \in [Meshes -> Meshes \cup {"none"}]
    BY <1>1 DEF Drawn, LastUploaded, Meshes
  <2> QED BY <1>1, <2>1 DEF GlFrame
<1>6. glFailures' \in 0..MaxGlFailures
  BY <1>2, GlFailure DEF GlInv, GlTypeOK
<1>7. GlTypeOK'
  BY <1>2, <1>3, <1>5, <1>6 DEF GlInv, GlTypeOK
<1>8. ReadyInv'
  <2>1. egl'.surface # 0 => egl'.surface = window'
    BY <1>2, <1>4 DEF GlInv, ReadyInv
  <2>2. ctx.ready => egl.current /\ egl.surface # 0 /\ renderer.program \in {0, egl.ctx}
    BY <1>2 DEF GlInv, ReadyInv
  <2>3. ctx'.ready => egl'.current /\ egl'.surface # 0 /\ renderer'.program \in {0, egl'.ctx}
    BY <1>2, <1>3, <2>2
  <2> QED BY <2>1, <2>3 DEF ReadyInv
<1> QED BY <1>4, <1>7, <1>8 DEF GlInv

LEMMA GlExitKeeps == ASSUME GlInv, GlExit PROVE GlInv'
<1>1. GlueInv' /\ at' = "done"
  BY PollKeeps DEF GlInv, GlExit, ReturnFromMain
<1>2. 0 \in 0..MaxWindows
  BY NativeAppAssumption
<1>3. egl' \in [ctx : 0..MaxWindows, surface : 0..MaxWindows, current : BOOLEAN] /\ egl'.surface = 0
  BY <1>2 DEF GlExit
<1>4. renderer' \in [ready : BOOLEAN, program : 0..MaxWindows, array : 0..MaxWindows]
  BY DEF GlExit, GlInv, GlTypeOK
<1>5. GlTypeOK'
  BY <1>3, <1>4 DEF GlInv, GlTypeOK, GlExit
<1>6. ReadyInv'
  BY <1>1, <1>3 DEF ReadyInv
<1> QED BY <1>1, <1>5, <1>6 DEF GlInv

\* The glue's steps that are no command of the application.
LEMMA GlQuietKeeps ==
  ASSUME GlInv, UNCHANGED gl, Send \/ PollEnds \/ Woken \/ UNCHANGED glue
  PROVE  GlInv'
<1>1. GlueInv' /\ UNCHANGED window
  <2>1. CASE Send
    BY <2>1, SendKeeps DEF GlInv, Send
  <2>2. CASE PollEnds \/ Woken \/ UNCHANGED glue
    BY <2>2, PollKeeps DEF GlInv
  <2> QED BY <2>1, <2>2
<1>2. at = "done" => at' = "done"
  BY DEF Send, PollEnds, Woken, glue
<1>3. UNCHANGED <<egl, renderer, bound, ctx, frame, glFailures>>
  BY DEF gl
<1>4. GlTypeOK'
  BY <1>3 DEF GlInv, GlTypeOK
<1>5. ReadyInv'
  BY <1>1, <1>2, <1>3 DEF GlInv, ReadyInv
<1> QED BY <1>1, <1>4, <1>5 DEF GlInv

LEMMA GlInvKeeps == GlInv /\ [GlNext]_glVars => GlInv'
<1> SUFFICES ASSUME GlInv, [GlNext]_glVars PROVE GlInv'
  OBVIOUS
<1>1. ASSUME GlNext PROVE GlInv'
  BY <1>1, GlCommandKeeps, GlFrameKeeps, GlExitKeeps, GlQuietKeeps
     DEF GlNext, GlEnvironment, GlThread
<1>2. ASSUME UNCHANGED glVars PROVE GlInv'
  BY <1>2, GlQuietKeeps DEF glVars
<1> QED BY <1>1, <1>2

LEMMA GlInvariant == GlSpec => []GlInv
<1>1. GlTriangleInit => GlInv
  BY GlInitKeeps
<1> QED BY <1>1, GlInvKeeps, PTL DEF GlSpec

\* The variables of gl-triangle and of the glue keep their types.
THEOREM GlTypeCorrect == GlSpec => [](GlueTypeOK /\ GlTypeOK)
<1>1. GlInv => GlueTypeOK /\ GlTypeOK
  BY DEF GlInv, GlueInv
<1> QED BY <1>1, GlInvariant, PTL

\* For any number of windows and of failing calls of EGL: no surface is left on a window that
\* is gone, and frames are drawn to the present one (FramesHaveTarget).
THEOREM FramesTarget == GlSpec => []FramesHaveTarget
<1>1. GlInv => FramesHaveTarget
  <2> SUFFICES ASSUME GlInv PROVE FramesHaveTarget
    OBVIOUS
  <2>1. egl.surface \in {0, activity.surface}
    <3>1. window = 0 \/ window = activity.surface
      BY DEF GlInv, GlueInv, WindowInv
    <3> QED BY <3>1 DEF GlInv, ReadyInv
  <2>2. at = "frame" /\ Drawing(ctx) =>
          egl.current /\ egl.surface # 0 /\ renderer.program \in {0, egl.ctx}
    BY DEF GlInv, ReadyInv, Drawing
  <2> QED BY <2>1, <2>2 DEF FramesHaveTarget
<1> QED BY <1>1, GlInvariant, PTL

-------------------------------------------------------------------------------
(* AudioSink *)

\* What is left to do of the handlers.
Handlers ==
  {<<>>, <<"init">>, <<"open">>, <<"opened">>, <<"silence">>, <<"close", "silence">>,
   <<"header", "close", "silence">>, <<"stop", "header", "close", "silence">>,
   <<"reset">>, <<"closeStream", "reset">>, <<"close", "closeStream", "reset">>,
   <<"header", "close", "closeStream", "reset">>,
   <<"stop", "header", "close", "closeStream", "reset">>}
Doing(steps) == calls # <<>> /\ Head(calls) \in steps

LockInv ==
  /\ lock = "app" <=> Doing({"opened", "header", "close"})
  /\ lock = "callback" <=> cb.at = "write"

\* A stream that calls back, or has, was started by the one init that succeeded; a stream is
\* closed when the mixer goes.
EngineInv ==
  /\ engine.mixer <= failures + 1
  /\ Doing({"init", "open", "opened"}) => ~app.ready
  /\ ~app.ready /\ ~Doing({"open", "opened"}) =>
       engine.mixer <= failures /\ ~engine.live /\ cb.at = "idle"
  /\ engine.live \/ cb.at # "idle" => engine.stream /\ engine.mixer # 0
  /\ cb.at # "idle" => engine.mixer = cb.mixer
  /\ Doing({"reset"}) => ~engine.stream

\* The ring holds the block between its rendering and its reading, and nothing else.
RingInv ==
  /\ cb.at # "read" => ring.w = ring.r
  /\ cb.at = "read" => ring.w = (ring.r + 1) % Modulus /\ ring.slots[Slot(ring.r)] = rendered
  /\ cb.at \in {"capture", "write"} => cb.block = rendered
  /\ cb.at \in {"read", "capture", "write"} => rendered > 0
  /\ cb.at = "render" => rendered < MaxBlocks

\* What a callback captures next to the last block.
Past == IF cb.at \in {"read", "capture", "write"} THEN rendered - 1 ELSE rendered

WavInv ==
  /\ engine.capturing => wav.writer /\ ~Doing({"header", "close"})
  /\ wav.writer /\ ~engine.capturing => Doing({"header", "close"})
  /\ ~app.ready => (wav.writer => Doing({"opened"})) /\ wav.blocks = <<>>
  /\ engine.capturing /\ wav.good /\ wav.blocks # <<>> => wav.blocks[Len(wav.blocks)] = Past
  /\ \A i \in DOMAIN wav.blocks : /\ wav.blocks[i] = wav.blocks[1] + i - 1
                                  /\ wav.blocks[i] \in 1..rendered
  /\ wav.good => wav.count = Len(wav.blocks)
  /\ wav.writer /\ ~Doing({"close"}) => wav.header = 0
  /\ ~wav.writer \/ Doing({"close"}) => wav.header = IF wav.good THEN Len(wav.blocks) ELSE 0

AudioInv == AudioTypeOK /\ calls \in Handlers /\ LockInv /\ EngineInv /\ RingInv /\ WavInv

LEMMA AudioInitKeeps == ASSUME AudioInit PROVE AudioInv
<1>1. /\ Capacity \in Nat /\ Modulus \in Nat /\ Modulus > 0 /\ Capacity > 0
      /\ MaxBlocks \in Nat /\ MaxFailures \in Nat
  BY AudioSinkAssumption
<1>2. 0 \in 0..MaxBlocks /\ 0 \in 0..MaxFailures /\ 0 \in 0..MaxFailures + 1 /\ 0 \in 0..Modulus-1
  BY <1>1
<1>3. AudioTypeOK
  <2>1. ring \in [w : 0..Modulus-1, r : 0..Modulus-1, slots : [0..Capacity-1 -> 0..MaxBlocks]]
    BY <1>2 DEF AudioInit
  <2>2. wav \in [writer : BOOLEAN, good : BOOLEAN, count : Nat, blocks : Seq(0..MaxBlocks), header : Nat]
    BY <1>2 DEF AudioInit
  <2>3. engine \in [stream : BOOLEAN, live : BOOLEAN, mixer : 0..MaxFailures + 1,
                    capturing : BOOLEAN]
    BY <1>2 DEF AudioInit
  <2>4. /\ lock \in {"free", "app", "callback"} /\ rendered \in 0..MaxBlocks
        /\ sounding \in BOOLEAN /\ failures \in 0..MaxFailures
    BY <1>2 DEF AudioInit
  <2>5. cb \in [at : {"idle", "render", "read", "capture", "write"},
                mixer : 0..MaxFailures + 1, block : 0..MaxBlocks]
    BY <1>2 DEF AudioInit
  <2>6. app \in [ready : BOOLEAN, hasFocus : BOOLEAN, capturing : BOOLEAN, due : BOOLEAN]
    BY DEF AudioInit
  <2> QED BY <2>1, <2>2, <2>3, <2>4, <2>5, <2>6 DEF AudioTypeOK
<1>4. calls = <<>> /\ calls \in Handlers
  BY DEF AudioInit, Handlers
<1>5. LockInv
  BY <1>4 DEF AudioInit, LockInv, Doing
<1>6. EngineInv
  BY <1>4 DEF AudioInit, EngineInv, Doing
<1>7. RingInv
  BY DEF AudioInit, RingInv
<1>8. WavInv
  BY <1>4 DEF AudioInit, WavInv, Doing
<1> QED BY <1>3, <1>4, <1>5, <1>6, <1>7, <1>8 DEF AudioInv

LEMMA Tails ==
  ASSUME NEW a, NEW b, NEW c, NEW d, NEW e
  PROVE  /\ Tail(<<a>>) = <<>> /\ Tail(<<a, b>>) = <<b>> /\ Tail(<<a, b, c>>) = <<b, c>>
         /\ Tail(<<a, b, c, d>>) = <<b, c, d>> /\ Tail(<<a, b, c, d, e>>) = <<b, c, d, e>>
<1>1. Tail(<<a>>) = <<>>
  OBVIOUS
<1>2. Tail(<<a, b>>) = <<b>>
  OBVIOUS
<1>3. Tail(<<a, b, c>>) = <<b, c>>
  OBVIOUS
<1>4. Tail(<<a, b, c, d>>) = <<b, c, d>>
  OBVIOUS
<1>5. Tail(<<a, b, c, d, e>>) = <<b, c, d, e>>
  OBVIOUS
<1> QED BY <1>1, <1>2, <1>3, <1>4, <1>5

\* What follows each step of a handler.
LEMMA StepsLeft ==
  ASSUME NEW left \in Handlers, left # <<>>
  PROVE  /\ Tail(left) \in Handlers
         /\ Head(left) = "init" => left = <<"init">>
         /\ Head(left) = "open" => left = <<"open">>
         /\ Head(left) \in {"opened", "reset", "silence"} => Tail(left) = <<>>
         /\ Head(left) = "stop" => Tail(left) # <<>> /\ Head(Tail(left)) = "header"
         /\ Head(left) = "header" => Tail(left) # <<>> /\ Head(Tail(left)) = "close"
         /\ Head(left) = "close" =>
              Tail(left) # <<>> /\ Head(Tail(left)) \in {"silence", "closeStream"}
         /\ Head(left) = "closeStream" => Tail(left) # <<>> /\ Head(Tail(left)) = "reset"
<1> DEFINE T1 == <<"close", "silence">>
           T2 == <<"header", "close", "silence">>
           T3 == <<"stop", "header", "close", "silence">>
           T4 == <<"closeStream", "reset">>
           T5 == <<"close", "closeStream", "reset">>
           T6 == <<"header", "close", "closeStream", "reset">>
           T7 == <<"stop", "header", "close", "closeStream", "reset">>
<1>1. CASE left \in {<<"init">>, <<"open">>, <<"opened">>, <<"silence">>, <<"reset">>}
  <2>1. Tail(left) = <<>>
    <3>1. \A s : Tail(<<s>>) = <<>>
      BY Tails
    <3>2. \E s : left = <<s>>
      BY <1>1
    <3> QED BY <3>1, <3>2
  <2>2. Head(left) = "init" => left = <<"init">>
    BY <1>1
  <2>3. Head(left) = "open" => left = <<"open">>
    BY <1>1
  <2>4. Head(left) \in {"init", "open", "opened", "silence", "reset"}
    BY <1>1
  <2>5. Tail(left) \in Handlers
    BY <2>1 DEF Handlers
  <2> QED BY <2>1, <2>2, <2>3, <2>4, <2>5
<1>2. CASE left = T1
  <2>1. /\ Tail(T1) = <<"silence">> /\ Head(T1) = "close"
        /\ <<"silence">> # <<>> /\ Head(<<"silence">>) = "silence"
    <3>1. Tail(T1) = <<"silence">>
      BY Tails
    <3>2. Head(T1) = "close"
      OBVIOUS
    <3>3. <<"silence">> # <<>> /\ Head(<<"silence">>) = "silence"
      OBVIOUS
    <3> QED BY <3>1, <3>2, <3>3
  <2>2. <<"silence">> \in Handlers
    BY DEF Handlers
  <2> HIDE DEF T1
  <2> QED BY <1>2, <2>1, <2>2
<1>3. CASE left = T2
  <2>1. /\ Tail(T2) = T1 /\ Head(T2) = "header"
        /\ T1 # <<>> /\ Head(T1) = "close"
    <3>1. Tail(T2) = T1
      BY Tails
    <3>2. Head(T2) = "header"
      OBVIOUS
    <3>3. T1 # <<>> /\ Head(T1) = "close"
      OBVIOUS
    <3> QED BY <3>1, <3>2, <3>3
  <2>2. T1 \in Handlers
    BY DEF Handlers
  <2> HIDE DEF T2
  <2> QED BY <1>3, <2>1, <2>2
<1>4. CASE left = T3
  <2>1. /\ Tail(T3) = T2 /\ Head(T3) = "stop"
        /\ T2 # <<>> /\ Head(T2) = "header"
    <3>1. Tail(T3) = T2
      BY Tails
    <3>2. Head(T3) = "stop"
      OBVIOUS
    <3>3. T2 # <<>> /\ Head(T2) = "header"
      OBVIOUS
    <3> QED BY <3>1, <3>2, <3>3
  <2>2. T2 \in Handlers
    BY DEF Handlers
  <2> HIDE DEF T3
  <2> QED BY <1>4, <2>1, <2>2
<1>5. CASE left = T4
  <2>1. /\ Tail(T4) = <<"reset">> /\ Head(T4) = "closeStream"
        /\ <<"reset">> # <<>> /\ Head(<<"reset">>) = "reset"
    <3>1. Tail(T4) = <<"reset">>
      BY Tails
    <3>2. Head(T4) = "closeStream"
      OBVIOUS
    <3>3. <<"reset">> # <<>> /\ Head(<<"reset">>) = "reset"
      OBVIOUS
    <3> QED BY <3>1, <3>2, <3>3
  <2>2. <<"reset">> \in Handlers
    BY DEF Handlers
  <2> HIDE DEF T4
  <2> QED BY <1>5, <2>1, <2>2
<1>6. CASE left = T5
  <2>1. /\ Tail(T5) = T4 /\ Head(T5) = "close"
        /\ T4 # <<>> /\ Head(T4) = "closeStream"
    <3>1. Tail(T5) = T4
      BY Tails
    <3>2. Head(T5) = "close"
      OBVIOUS
    <3>3. T4 # <<>> /\ Head(T4) = "closeStream"
      OBVIOUS
    <3> QED BY <3>1, <3>2, <3>3
  <2>2. T4 \in Handlers
    BY DEF Handlers
  <2> HIDE DEF T5
  <2> QED BY <1>6, <2>1, <2>2
<1>7. CASE left = T6
  <2>1. /\ Tail(T6) = T5 /\ Head(T6) = "header"
        /\ T5 # <<>> /\ Head(T5) = "close"
    <3>1. Tail(T6) = T5
      BY Tails
    <3>2. Head(T6) = "header"
      OBVIOUS
    <3>3. T5 # <<>> /\ Head(T5) = "close"
      OBVIOUS
    <3> QED BY <3>1, <3>2, <3>3
  <2>2. T5 \in Handlers
    BY DEF Handlers
  <2> HIDE DEF T6
  <2> QED BY <1>7, <2>1, <2>2
<1>8. CASE left = T7
  <2>1. /\ Tail(T7) = T6 /\ Head(T7) = "stop"
        /\ T6 # <<>> /\ Head(T6) = "header"
    <3>1. Tail(T7) = T6
      BY Tails
    <3>2. Head(T7) = "stop"
      OBVIOUS
    <3>3. T6 # <<>> /\ Head(T6) = "header"
      OBVIOUS
    <3> QED BY <3>1, <3>2, <3>3
  <2>2. T6 \in Handlers
    BY DEF Handlers
  <2> HIDE DEF T7
  <2> QED BY <1>8, <2>1, <2>2
<1>9. left \in {<<"init">>, <<"open">>, <<"opened">>, <<"silence">>, <<"reset">>,
                T1, T2, T3, T4, T5, T6, T7}
  BY DEF Handlers
<1> HIDE DEF T1, T2, T3, T4, T5, T6, T7
<1> QED BY <1>1, <1>2, <1>3, <1>4, <1>5, <1>6, <1>7, <1>8, <1>9

\* The handlers as they are called.
LEMMA CalledSteps ==
  ASSUME NEW c
  PROVE  /\ Called(c) \in Handlers
         /\ \/ c = "RESUME" /\ ~app.ready /\ Called(c) = <<"init">>
            \/ Called(c) = <<>> \/ Head(Called(c)) \in {"stop", "silence"}
         /\ Shutdown \in Handlers /\ Shutdown # <<>> /\ Head(Shutdown) = "stop"
<1>1. Shutdown \in Handlers /\ Shutdown # <<>> /\ Head(Shutdown) = "stop"
  BY DEF Shutdown, Handlers
<1>2. Called(c) \in {<<"init">>, <<"stop", "header", "close", "silence">>, <<"silence">>,
                   Shutdown, <<>>}
      /\ (Called(c) = <<"init">> => c = "RESUME" /\ ~app.ready)
  BY DEF Called, Shutdown
<1>3. /\ Head(<<"stop", "header", "close", "silence">>) = "stop"
      /\ Head(<<"silence">>) = "silence"
  OBVIOUS
<1>4. /\ <<"init">> \in Handlers /\ <<"silence">> \in Handlers /\ <<>> \in Handlers
      /\ <<"stop", "header", "close", "silence">> \in Handlers
  BY DEF Handlers
<1> QED BY <1>1, <1>2, <1>3, <1>4

LEMMA AudioTypes ==
  ASSUME AudioTypeOK
  PROVE  /\ Capacity \in Nat /\ Modulus \in Nat /\ Modulus > 1 /\ Capacity > 0
         /\ MaxBlocks \in Nat /\ MaxFailures \in Nat
         /\ engine \in [stream : BOOLEAN, live : BOOLEAN, mixer : 0..MaxFailures + 1,
                        capturing : BOOLEAN]
         /\ wav \in [writer : BOOLEAN, good : BOOLEAN, count : Nat, blocks : Seq(0..MaxBlocks), header : Nat]
         /\ ring \in [w : 0..Modulus-1, r : 0..Modulus-1, slots : [0..Capacity-1 -> 0..MaxBlocks]]
         /\ cb \in [at : {"idle", "render", "read", "capture", "write"},
                    mixer : 0..MaxFailures + 1, block : 0..MaxBlocks]
         /\ app \in [ready : BOOLEAN, hasFocus : BOOLEAN, capturing : BOOLEAN, due : BOOLEAN]
         /\ rendered \in 0..MaxBlocks /\ failures \in 0..MaxFailures
         /\ engine.mixer \in Nat /\ rendered \in Nat /\ failures \in Nat
         /\ Len(wav.blocks) \in Nat /\ DOMAIN wav.blocks = 1..Len(wav.blocks)
<1>1. /\ Capacity \in Nat /\ Modulus \in Nat /\ Modulus > 1 /\ Capacity > 0
      /\ MaxBlocks \in Nat /\ MaxFailures \in Nat
  BY AudioSinkAssumption
<1> QED BY <1>1 DEF AudioTypeOK

LEMMA OneFailure ==
  ASSUME AudioTypeOK, MayFail
  PROVE  failures' \in 0..MaxFailures /\ failures' = failures + 1
BY AudioTypes DEF MayFail

\* The application's thread leaves the ring and the callback alone, and unless it opens a
\* capture or closes it, the blocks.
LEMMA BlocksSame ==
  ASSUME AudioInv, UNCHANGED <<ring, cb, rendered>>
  PROVE  /\ RingInv' /\ Past' = Past
         /\ wav'.blocks = wav.blocks =>
              \A i \in DOMAIN wav'.blocks : /\ wav'.blocks[i] = wav'.blocks[1] + i - 1
                                            /\ wav'.blocks[i] \in 1..rendered'
<1>1. RingInv' /\ Past' = Past
  BY DEF AudioInv, RingInv, Past, Slot
<1>2. ASSUME wav'.blocks = wav.blocks
      PROVE  \A i \in DOMAIN wav'.blocks : /\ wav'.blocks[i] = wav'.blocks[1] + i - 1
                                           /\ wav'.blocks[i] \in 1..rendered'
  BY <1>2 DEF AudioInv, WavInv
<1> QED BY <1>1, <1>2

LEMMA InitEngineKeeps == ASSUME AudioInv, InitEngine PROVE AudioInv'
<1>0. AudioTypeOK
  BY DEF AudioInv
<1>1. /\ UNCHANGED <<lock, wav, ring, cb, rendered, app, sounding>>
      /\ calls # <<>> /\ Head(calls) = "init"
  <2>1. UNCHANGED <<lock, wav, ring, cb, rendered, app, sounding>> /\ calls = <<"init">>
    BY DEF InitEngine
  <2>2. <<"init">> # <<>> /\ Head(<<"init">>) = "init"
    OBVIOUS
  <2> QED BY <2>1, <2>2
<1>2. ~app.ready /\ engine.mixer <= failures /\ ~engine.live /\ cb.at = "idle"
      /\ lock # "app" /\ ~wav.writer /\ ~engine.capturing
  <2>1. Doing({"init", "open", "opened"}) /\ ~Doing({"open", "opened"}) /\ ~Doing({"opened"})
        /\ ~Doing({"opened", "header", "close"})
    BY <1>1 DEF Doing
  <2> QED BY <2>1 DEF AudioInv, EngineInv, LockInv, WavInv
<1>3. CASE /\ engine' = [engine EXCEPT !.stream = TRUE, !.live = TRUE, !.mixer = @ + 1]
           /\ calls' = <<"open">> /\ UNCHANGED failures
  <2>1. calls' \in Handlers /\ calls' # <<>> /\ Head(calls') = "open"
    BY <1>3 DEF Handlers
  <2>2. engine.mixer + 1 \in 0..MaxFailures + 1
    BY <1>0, <1>2, AudioTypes
  <2>3. /\ engine' \in [stream : BOOLEAN, live : BOOLEAN, mixer : 0..MaxFailures + 1,
                       capturing : BOOLEAN]
        /\ engine'.mixer = engine.mixer + 1 /\ engine'.stream /\ ~engine'.capturing
    BY <1>0, <1>2, <1>3, <2>2, AudioTypes
  <2>4. AudioTypeOK'
    BY <1>0, <1>1, <1>3, <2>3 DEF AudioTypeOK
  <2>5. LockInv'
    BY <1>1, <1>2, <2>1 DEF AudioInv, LockInv, Doing
  <2>6. EngineInv'
    BY <1>0, <1>1, <1>2, <1>3, <2>1, <2>3, AudioTypes DEF EngineInv, Doing
  <2>7. WavInv'
    BY <1>1, <1>2, <2>1, <2>3, BlocksSame DEF AudioInv, WavInv, Doing
  <2> QED BY <1>1, <2>1, <2>4, <2>5, <2>6, <2>7, BlocksSame DEF AudioInv
<1>4. CASE /\ MayFail /\ calls' = <<>>
           /\ \E opened \in BOOLEAN :
                engine' = [engine EXCEPT !.stream = @ \/ opened, !.mixer = @ + 1]
  <2>1. calls' \in Handlers /\ calls' = <<>>
    BY <1>4 DEF Handlers
  <2>2. engine.mixer + 1 \in 0..MaxFailures + 1
    BY <1>0, <1>2, AudioTypes
  <2>3. /\ engine' \in [stream : BOOLEAN, live : BOOLEAN, mixer : 0..MaxFailures + 1,
                       capturing : BOOLEAN]
        /\ engine'.mixer = engine.mixer + 1 /\ ~engine'.capturing /\ ~engine'.live
    BY <1>0, <1>2, <1>4, <2>2, AudioTypes
  <2>4. AudioTypeOK'
    BY <1>0, <1>1, <1>4, <2>3, OneFailure DEF AudioTypeOK
  <2>5. LockInv'
    BY <1>1, <1>2, <2>1 DEF AudioInv, LockInv, Doing
  <2>6. EngineInv'
    BY <1>0, <1>1, <1>2, <1>4, <2>1, <2>3, AudioTypes, OneFailure DEF EngineInv, Doing
  <2>7. WavInv'
    BY <1>1, <1>2, <2>1, <2>3, BlocksSame DEF AudioInv, WavInv, Doing
  <2> QED BY <1>1, <2>1, <2>4, <2>5, <2>6, <2>7, BlocksSame DEF AudioInv
<1>5. \/ /\ engine' = [engine EXCEPT !.stream = TRUE, !.live = TRUE, !.mixer = @ + 1]
         /\ calls' = <<"open">> /\ UNCHANGED failures
      \/ /\ MayFail /\ calls' = <<>>
         /\ \E opened \in BOOLEAN :
              engine' = [engine EXCEPT !.stream = @ \/ opened, !.mixer = @ + 1]
  <2>1. CASE calls' = <<>>
    BY <2>1 DEF InitEngine
  <2>2. CASE calls' # <<>>
    BY <2>2 DEF InitEngine
  <2> QED BY <2>1, <2>2
<1> QED BY <1>3, <1>4, <1>5

LEMMA OpenCaptureKeeps == ASSUME AudioInv, OpenCapture PROVE AudioInv'
<1>0. AudioTypeOK
  BY DEF AudioInv
<1>1. /\ UNCHANGED <<ring, cb, rendered, app, sounding>> /\ lock = "free" /\ lock' = "app"
      /\ calls # <<>> /\ Head(calls) = "open" /\ calls' = <<"opened">>
  BY DEF OpenCapture
<1>2. calls' \in Handlers /\ calls' # <<>> /\ Head(calls') = "opened"
  BY <1>1 DEF Handlers
<1>3. ~app.ready /\ ~wav.writer /\ ~engine.capturing /\ wav.blocks = <<>> /\ cb.at # "write"
  BY <1>1 DEF AudioInv, EngineInv, LockInv, WavInv, Doing
<1>4. /\ engine' \in [stream : BOOLEAN, live : BOOLEAN, mixer : 0..MaxFailures + 1,
                      capturing : BOOLEAN]
      /\ engine'.stream = engine.stream /\ engine'.mixer = engine.mixer
      /\ engine'.live = engine.live
      /\ wav' \in [writer : BOOLEAN, good : BOOLEAN, count : Nat, blocks : Seq(0..MaxBlocks), header : Nat]
      /\ wav'.blocks = <<>> /\ engine'.capturing = wav'.writer
      /\ ~wav'.writer => wav' = wav
      /\ wav'.writer => wav'.good /\ wav'.count = 0 /\ wav'.header = 0
      /\ failures' \in 0..MaxFailures /\ (failures' = failures \/ failures' = failures + 1)
  <2>1. CASE /\ wav' = [writer |-> TRUE, good |-> TRUE, count |-> 0, blocks |-> <<>>, header |-> 0]
             /\ engine' = [engine EXCEPT !.capturing = TRUE] /\ UNCHANGED failures
    <3>1. 0 \in 0..MaxBlocks /\ <<>> \in Seq(0..MaxBlocks)
      BY <1>0, AudioTypes
    <3>2. /\ wav' \in [writer : BOOLEAN, good : BOOLEAN, count : Nat, blocks : Seq(0..MaxBlocks), header : Nat]
          /\ wav'.blocks = <<>> /\ wav'.writer = TRUE
          /\ wav'.good = TRUE /\ wav'.count = 0 /\ wav'.header = 0
      BY <2>1, <3>1
    <3>3. /\ engine' \in [stream : BOOLEAN, live : BOOLEAN, mixer : 0..MaxFailures + 1,
                          capturing : BOOLEAN]
          /\ engine'.stream = engine.stream /\ engine'.mixer = engine.mixer
          /\ engine'.live = engine.live /\ engine'.capturing = TRUE
      BY <1>0, <2>1, AudioTypes
    <3> QED BY <1>0, <2>1, <3>2, <3>3, AudioTypes
  <2>2. CASE MayFail /\ UNCHANGED <<wav, engine>>
    BY <1>0, <1>3, <2>2, AudioTypes, OneFailure
  <2> QED BY <2>1, <2>2 DEF OpenCapture
<1>5. AudioTypeOK'
  BY <1>0, <1>1, <1>4 DEF AudioTypeOK
<1>6. LockInv'
  BY <1>1, <1>2, <1>3 DEF LockInv, Doing
<1>7. EngineInv'
  <2>1. /\ engine.mixer <= failures + 1
        /\ engine.live \/ cb.at # "idle" => engine.stream /\ engine.mixer # 0
        /\ cb.at # "idle" => engine.mixer = cb.mixer
    BY DEF AudioInv, EngineInv
  <2>2. engine'.mixer <= failures' + 1
    <3>1. engine.mixer \in Nat /\ failures \in Nat
      BY <1>0, AudioTypes
    <3>2. engine'.mixer = engine.mixer /\ (failures' = failures \/ failures' = failures + 1)
      BY <1>4
    <3> QED BY <2>1, <3>1, <3>2
  <2>3. ~Doing({"reset"})' /\ Doing({"open", "opened"})'
    BY <1>2 DEF Doing
  <2> QED BY <1>1, <1>3, <1>4, <2>1, <2>2, <2>3 DEF EngineInv
<1>8. WavInv'
  <2>1. /\ ~wav'.writer => wav'.header = IF wav'.good THEN Len(wav'.blocks) ELSE 0
        /\ wav'.good => wav'.count = Len(wav'.blocks)
    <3>1. Len(wav'.blocks) = 0
      BY <1>4
    <3> QED BY <1>3, <1>4, <3>1 DEF AudioInv, WavInv
  <2> QED BY <1>1, <1>2, <1>3, <1>4, <2>1 DEF WavInv, Doing
<1> QED BY <1>1, <1>2, <1>5, <1>6, <1>7, <1>8, BlocksSame DEF AudioInv

LEMMA CaptureOpenedKeeps == ASSUME AudioInv, CaptureOpened PROVE AudioInv'
<1>0. AudioTypeOK
  BY DEF AudioInv
<1>1. /\ UNCHANGED <<engine, wav, ring, cb, rendered, sounding, failures>> /\ lock' = "free"
      /\ calls # <<>> /\ Head(calls) = "opened" /\ calls' = Tail(calls)
      /\ app' = [app EXCEPT !.capturing = TRUE, !.ready = TRUE, !.due = TRUE]
  BY DEF CaptureOpened, Step
<1>2. calls' \in Handlers /\ calls' = <<>>
  BY <1>1, StepsLeft DEF AudioInv
<1>3. lock = "app" /\ cb.at # "write" /\ (wav.writer => engine.capturing)
  BY <1>1 DEF AudioInv, LockInv, WavInv, Doing
<1>4. /\ app' \in [ready : BOOLEAN, hasFocus : BOOLEAN, capturing : BOOLEAN, due : BOOLEAN]
      /\ app'.ready
  BY <1>0, <1>1, AudioTypes
<1>5. AudioTypeOK'
  BY <1>0, <1>1, <1>4 DEF AudioTypeOK
<1>6. LockInv'
  BY <1>1, <1>2, <1>3 DEF LockInv, Doing
<1>7. EngineInv'
  BY <1>1, <1>2, <1>4 DEF AudioInv, EngineInv, Doing
<1>8. WavInv'
  BY <1>1, <1>2, <1>3, <1>4, BlocksSame DEF AudioInv, WavInv, Doing
<1> QED BY <1>1, <1>2, <1>5, <1>6, <1>7, <1>8, BlocksSame DEF AudioInv

LEMMA StopKeeps == ASSUME AudioInv, Stop PROVE AudioInv'
<1>0. AudioTypeOK
  BY DEF AudioInv
<1>1. /\ UNCHANGED <<wav, ring, cb, rendered, app, sounding, failures>>
      /\ lock = "free" /\ lock' = "app"
      /\ calls # <<>> /\ Head(calls) = "stop" /\ calls' = Tail(calls)
      /\ engine' = [engine EXCEPT !.capturing = FALSE]
  BY DEF Stop, Step
<1>2. calls' \in Handlers /\ calls' # <<>> /\ Head(calls') = "header"
  BY <1>1, StepsLeft DEF AudioInv
<1>3. /\ engine' \in [stream : BOOLEAN, live : BOOLEAN, mixer : 0..MaxFailures + 1,
                      capturing : BOOLEAN]
      /\ engine'.stream = engine.stream /\ engine'.mixer = engine.mixer
      /\ engine'.live = engine.live /\ ~engine'.capturing
  BY <1>0, <1>1, AudioTypes
<1>4. AudioTypeOK'
  BY <1>0, <1>1, <1>3 DEF AudioTypeOK
<1>5. LockInv'
  BY <1>1, <1>2 DEF AudioInv, LockInv, Doing
<1>6. EngineInv'
  BY <1>1, <1>2, <1>3 DEF AudioInv, EngineInv, Doing
<1>7. WavInv'
  BY <1>1, <1>2, <1>3, BlocksSame DEF AudioInv, WavInv, Doing
<1> QED BY <1>1, <1>2, <1>4, <1>5, <1>6, <1>7, BlocksSame DEF AudioInv

\* What is left when the disk is full is a beginning of what there was.
LEMMA DiskFullKeeps ==
  ASSUME AudioInv, NEW count \in Nat, DiskFull(count), rendered' = rendered
  PROVE  /\ wav' \in [writer : BOOLEAN, good : BOOLEAN, count : Nat, blocks : Seq(0..MaxBlocks), header : Nat]
         /\ wav'.writer = wav.writer /\ ~wav'.good /\ wav'.header = wav.header
         /\ wav.blocks = <<>> => wav'.blocks = <<>>
         /\ \A i \in DOMAIN wav'.blocks : /\ wav'.blocks[i] = wav'.blocks[1] + i - 1
                                         /\ wav'.blocks[i] \in 1..rendered'
<1>0. AudioTypeOK
  BY DEF AudioInv
<1>1. PICK n \in 0..Len(wav.blocks) :
        wav' = [wav EXCEPT !.good = FALSE, !.count = count, !.blocks = SubSeq(wav.blocks, 1, n)]
  BY DEF DiskFull
<1>2. PICK s \in Seq(0..MaxBlocks) : s = wav.blocks
  BY <1>0, AudioTypes
<1>3. n \in Nat /\ n <= Len(s) /\ DOMAIN s = 1..Len(s)
  BY <1>1, <1>2
<1>4. /\ SubSeq(s, 1, n) \in Seq(0..MaxBlocks) /\ DOMAIN SubSeq(s, 1, n) = 1..n
      /\ \A i \in 1..n : SubSeq(s, 1, n)[i] = s[i]
      /\ s = <<>> => SubSeq(s, 1, n) = <<>>
  <2>1. \A i \in 1..n : s[i] \in 0..MaxBlocks
    <3>1. \A i \in 1..Len(s) : s[i] \in 0..MaxBlocks
      BY <1>2, ElementOfSeq
    <3>2. \A i \in 1..n : i \in 1..Len(s)
      BY <1>3
    <3> QED BY <3>1, <3>2
  <2>2. /\ SubSeq(s, 1, n) \in Seq(0..MaxBlocks)
        /\ Len(SubSeq(s, 1, n)) = IF 1 <= n THEN n - 1 + 1 ELSE 0
        /\ \A i \in 1..n - 1 + 1 : SubSeq(s, 1, n)[i] = s[1 + i - 1]
    BY <1>3, <2>1, SubSeqProperties
  <2>3. Len(SubSeq(s, 1, n)) = n
    BY <1>3, <2>2
  <2>4. \A i \in 1..n : SubSeq(s, 1, n)[i] = s[i]
    BY <1>3, <2>2
  <2>5. s = <<>> => n = 0
    BY <1>3
  <2>6. n = 0 => SubSeq(s, 1, n) = <<>>
    BY <2>2, <2>3
  <2> QED BY <2>2, <2>3, <2>4, <2>5, <2>6
<1>5. /\ wav' \in [writer : BOOLEAN, good : BOOLEAN, count : Nat, blocks : Seq(0..MaxBlocks), header : Nat]
      /\ wav'.writer = wav.writer /\ ~wav'.good /\ wav'.header = wav.header
      /\ wav'.blocks = SubSeq(s, 1, n)
  BY <1>0, <1>1, <1>2, <1>4, AudioTypes
<1>6. \A i \in 1..Len(s) : s[i] = s[1] + i - 1 /\ s[i] \in 1..rendered
  BY <1>2, <1>3 DEF AudioInv, WavInv
<1>7. ASSUME NEW i \in 1..n
      PROVE  wav'.blocks[i] = wav'.blocks[1] + i - 1 /\ wav'.blocks[i] \in 1..rendered'
  <2>1. i \in 1..Len(s) /\ 1 \in 1..n
    BY <1>3
  <2>2. wav'.blocks[i] = s[i] /\ wav'.blocks[1] = s[1]
    BY <1>4, <1>5, <2>1
  <2> QED BY <1>6, <2>1, <2>2
<1> QED BY <1>2, <1>4, <1>5, <1>7

LEMMA WriteHeaderKeeps == ASSUME AudioInv, WriteHeader PROVE AudioInv'
<1>0. AudioTypeOK
  BY DEF AudioInv
<1>1. /\ UNCHANGED <<engine, lock, ring, cb, rendered, app, sounding, failures>>
      /\ calls # <<>> /\ Head(calls) = "header" /\ calls' = Tail(calls)
      /\ \/ Writable /\ (wav' = [wav EXCEPT !.header = wav.count] \/ DiskFull(wav.count))
         \/ ~Writable /\ UNCHANGED wav
  BY DEF WriteHeader, Step
<1>2. calls' \in Handlers /\ calls' # <<>> /\ Head(calls') = "close"
  BY <1>1, StepsLeft DEF AudioInv
<1>3. wav.writer => wav.header = 0
  BY <1>1 DEF AudioInv, WavInv, Doing
<1>4. /\ wav' \in [writer : BOOLEAN, good : BOOLEAN, count : Nat, blocks : Seq(0..MaxBlocks), header : Nat]
      /\ wav'.writer = wav.writer /\ (wav.blocks = <<>> => wav'.blocks = <<>>)
      /\ wav'.good => wav'.count = Len(wav'.blocks)
      /\ wav'.header = IF wav'.good THEN Len(wav'.blocks) ELSE 0
      /\ \A i \in DOMAIN wav'.blocks : /\ wav'.blocks[i] = wav'.blocks[1] + i - 1
                                      /\ wav'.blocks[i] \in 1..rendered'
  <2>1. CASE Writable /\ wav' = [wav EXCEPT !.header = wav.count]
    <3>1. /\ wav' \in [writer : BOOLEAN, good : BOOLEAN, count : Nat, blocks : Seq(0..MaxBlocks), header : Nat]
          /\ wav'.writer = wav.writer /\ wav'.blocks = wav.blocks /\ wav'.good = wav.good
          /\ wav'.count = wav.count /\ wav'.header = wav.count
      BY <1>0, <2>1, AudioTypes
    <3>2. wav.good /\ wav.count = Len(wav.blocks)
      BY <2>1 DEF Writable, AudioInv, WavInv
    <3> QED BY <1>1, <3>1, <3>2, BlocksSame
  <2>2. CASE Writable /\ DiskFull(wav.count)
    <3>1. wav.count \in Nat
      BY <1>0, AudioTypes
    <3> QED BY <1>1, <1>3, <2>2, <3>1, DiskFullKeeps DEF Writable
  <2>3. CASE ~Writable /\ wav' = wav
    <3>1. /\ wav.good => wav.count = Len(wav.blocks)
          /\ ~wav.writer => wav.header = IF wav.good THEN Len(wav.blocks) ELSE 0
          /\ ~wav.writer \/ ~wav.good
      BY <2>3 DEF Writable, AudioInv, WavInv
    <3> QED BY <1>0, <1>1, <1>3, <2>3, <3>1, AudioTypes, BlocksSame
  <2> QED BY <1>1, <2>1, <2>2, <2>3
<1>5. AudioTypeOK'
  BY <1>0, <1>1, <1>2, <1>4 DEF AudioTypeOK
<1>6. LockInv'
  BY <1>1, <1>2 DEF AudioInv, LockInv, Doing
<1>7. EngineInv'
  BY <1>1, <1>2 DEF AudioInv, EngineInv, Doing
<1>8. WavInv'
  <2>1. ~engine.capturing /\ (~app.ready => ~wav.writer /\ wav.blocks = <<>>)
    BY <1>1 DEF AudioInv, WavInv, Doing
  <2> QED BY <1>1, <1>2, <1>4, <2>1 DEF WavInv, Doing
<1> QED BY <1>1, <1>2, <1>5, <1>6, <1>7, <1>8, BlocksSame DEF AudioInv

LEMMA CloseFileKeeps == ASSUME AudioInv, CloseFile PROVE AudioInv'
<1>0. AudioTypeOK
  BY DEF AudioInv
<1>1. /\ UNCHANGED <<engine, ring, cb, rendered, app, sounding, failures>> /\ lock' = "free"
      /\ calls # <<>> /\ Head(calls) = "close" /\ calls' = Tail(calls)
      /\ wav' = [wav EXCEPT !.writer = FALSE]
  BY DEF CloseFile, Step
<1>2. calls' \in Handlers /\ calls' # <<>> /\ Head(calls') \in {"silence", "closeStream"}
  BY <1>1, StepsLeft DEF AudioInv
<1>3. /\ wav' \in [writer : BOOLEAN, good : BOOLEAN, count : Nat, blocks : Seq(0..MaxBlocks), header : Nat]
      /\ ~wav'.writer /\ wav'.blocks = wav.blocks /\ wav'.header = wav.header
      /\ wav'.good = wav.good /\ wav'.count = wav.count
  BY <1>0, <1>1, AudioTypes
<1>4. /\ lock = "app" /\ cb.at # "write" /\ ~engine.capturing
      /\ wav.header = IF wav.good THEN Len(wav.blocks) ELSE 0
      /\ wav.good => wav.count = Len(wav.blocks)
  BY <1>1 DEF AudioInv, LockInv, WavInv, Doing
<1>5. AudioTypeOK'
  BY <1>0, <1>1, <1>2, <1>3 DEF AudioTypeOK
<1>6. LockInv'
  BY <1>1, <1>2, <1>4 DEF LockInv, Doing
<1>7. EngineInv'
  BY <1>1, <1>2 DEF AudioInv, EngineInv, Doing
<1>8. WavInv'
  <2>1. ~app.ready => wav.blocks = <<>>
    BY DEF AudioInv, WavInv
  <2> QED BY <1>1, <1>2, <1>3, <1>4, <2>1, BlocksSame DEF WavInv
<1> QED BY <1>1, <1>2, <1>5, <1>6, <1>7, <1>8, BlocksSame DEF AudioInv

\* A stream that is closed is in no callback.
LEMMA CloseStreamKeeps == ASSUME AudioInv, CloseStream PROVE AudioInv'
<1>0. AudioTypeOK
  BY DEF AudioInv
<1>1. /\ UNCHANGED <<lock, wav, ring, cb, rendered, app, sounding, failures>>
      /\ calls # <<>> /\ Head(calls) = "closeStream" /\ calls' = Tail(calls)
      /\ engine.stream => cb.at = "idle"
      /\ engine' = [engine EXCEPT !.stream = FALSE, !.live = FALSE]
  BY DEF CloseStream, Step
<1>2. calls' \in Handlers /\ calls' # <<>> /\ Head(calls') = "reset"
  BY <1>1, StepsLeft DEF AudioInv
<1>3. /\ engine' \in [stream : BOOLEAN, live : BOOLEAN, mixer : 0..MaxFailures + 1,
                      capturing : BOOLEAN]
      /\ ~engine'.stream /\ ~engine'.live /\ engine'.mixer = engine.mixer
      /\ engine'.capturing = engine.capturing
  BY <1>0, <1>1, AudioTypes
<1>4. cb.at = "idle" /\ lock # "app"
  BY <1>1 DEF AudioInv, EngineInv, LockInv, Doing
<1>5. AudioTypeOK'
  BY <1>0, <1>1, <1>3 DEF AudioTypeOK
<1>6. LockInv'
  BY <1>1, <1>2, <1>4 DEF AudioInv, LockInv, Doing
<1>7. EngineInv'
  <2>1. engine.mixer <= failures + 1 /\ (~app.ready => engine.mixer <= failures)
    BY <1>1 DEF AudioInv, EngineInv, Doing
  <2> QED BY <1>1, <1>2, <1>3, <1>4, <2>1 DEF EngineInv, Doing
<1>8. WavInv'
  BY <1>1, <1>2, <1>3, BlocksSame DEF AudioInv, WavInv, Doing
<1> QED BY <1>1, <1>2, <1>5, <1>6, <1>7, <1>8, BlocksSame DEF AudioInv

LEMMA ResetKeeps == ASSUME AudioInv, Reset PROVE AudioInv'
<1>0. AudioTypeOK
  BY DEF AudioInv
<1>1. /\ UNCHANGED <<lock, wav, ring, cb, rendered, app, failures>> /\ sounding' = FALSE
      /\ calls # <<>> /\ Head(calls) = "reset" /\ calls' = Tail(calls)
      /\ engine' = [engine EXCEPT !.mixer = 0]
  BY DEF Reset, Step
<1>2. calls' \in Handlers /\ calls' = <<>>
  BY <1>1, StepsLeft DEF AudioInv
<1>3. /\ engine' \in [stream : BOOLEAN, live : BOOLEAN, mixer : 0..MaxFailures + 1,
                      capturing : BOOLEAN]
      /\ engine'.stream = engine.stream /\ engine'.live = engine.live /\ engine'.mixer = 0
      /\ engine'.capturing = engine.capturing
  <2>1. 0 \in 0..MaxFailures + 1
    BY <1>0, AudioTypes
  <2> QED BY <1>0, <1>1, <2>1, AudioTypes
<1>4. ~engine.stream /\ ~engine.live /\ cb.at = "idle" /\ lock # "app"
  BY <1>1 DEF AudioInv, EngineInv, LockInv, Doing
<1>5. AudioTypeOK'
  BY <1>0, <1>1, <1>3 DEF AudioTypeOK
<1>6. LockInv'
  BY <1>1, <1>2, <1>4 DEF AudioInv, LockInv, Doing
<1>7. EngineInv'
  <2>1. failures \in Nat
    BY <1>0, AudioTypes
  <2> QED BY <1>1, <1>2, <1>3, <1>4, <2>1 DEF EngineInv, Doing
<1>8. WavInv'
  BY <1>1, <1>2, <1>3, BlocksSame DEF AudioInv, WavInv, Doing
<1> QED BY <1>1, <1>2, <1>5, <1>6, <1>7, <1>8, BlocksSame DEF AudioInv

\* A step of the thread outside the engine: the handler it begins, or goes on with, holds
\* no lock yet.
LEMMA ThreadKeeps ==
  ASSUME AudioInv, UNCHANGED <<engine, lock, wav, ring, cb, rendered, failures>>,
         app' \in [ready : BOOLEAN, hasFocus : BOOLEAN, capturing : BOOLEAN, due : BOOLEAN],
         app'.ready = app.ready, sounding' \in BOOLEAN, calls' \in Handlers,
         calls = <<>> \/ Head(calls) = "silence",
         \/ calls' = <<>> \/ Head(calls') \in {"stop", "silence"}
         \/ Head(calls') = "init" /\ ~app.ready
  PROVE  AudioInv'
<1>1. AudioTypeOK'
  BY DEF AudioInv, AudioTypeOK
<1>2. /\ ~Doing({"init", "open", "opened", "header", "close", "reset"})
      /\ ~Doing({"open", "opened"}) /\ ~Doing({"opened", "header", "close"})
      /\ ~Doing({"opened"}) /\ ~Doing({"header", "close"}) /\ ~Doing({"close"})
  BY DEF Doing
<1>3. /\ ~Doing({"open", "opened", "header", "close", "reset"})'
      /\ ~Doing({"open", "opened"})' /\ ~Doing({"opened", "header", "close"})'
      /\ ~Doing({"opened"})' /\ ~Doing({"header", "close"})' /\ ~Doing({"close"})'
      /\ ~Doing({"reset"})' /\ (Doing({"init", "open", "opened"})' => ~app.ready)
  BY DEF Doing
<1>4. LockInv'
  BY <1>2, <1>3 DEF AudioInv, LockInv
<1>5. EngineInv'
  BY <1>2, <1>3 DEF AudioInv, EngineInv
<1>6. WavInv'
  BY <1>2, <1>3, BlocksSame DEF AudioInv, WavInv
<1> QED BY <1>1, <1>4, <1>5, <1>6, BlocksSame DEF AudioInv

LEMMA SilenceKeeps == ASSUME AudioInv, Silence PROVE AudioInv'
<1>1. /\ UNCHANGED <<engine, lock, wav, ring, cb, rendered, app, failures>> /\ sounding' = FALSE
      /\ calls # <<>> /\ Head(calls) = "silence" /\ calls' = Tail(calls)
  BY DEF Silence, Step
<1>2. calls' \in Handlers /\ calls' = <<>>
  BY <1>1, StepsLeft DEF AudioInv
<1>3. app' \in [ready : BOOLEAN, hasFocus : BOOLEAN, capturing : BOOLEAN, due : BOOLEAN]
  BY <1>1 DEF AudioInv, AudioTypeOK
<1> QED BY <1>1, <1>2, <1>3, ThreadKeeps

LEMMA AudioFrameKeeps == ASSUME AudioInv, AudioFrame PROVE AudioInv'
<1>1. /\ UNCHANGED <<engine, lock, wav, ring, cb, rendered, calls, failures>> /\ calls = <<>>
      /\ app' \in {app, [app EXCEPT !.due = FALSE]} /\ sounding' \in {sounding, TRUE}
  BY DEF AudioFrame
<1>2. /\ app \in [ready : BOOLEAN, hasFocus : BOOLEAN, capturing : BOOLEAN, due : BOOLEAN]
      /\ sounding \in BOOLEAN /\ calls \in Handlers
  BY DEF AudioInv, AudioTypeOK
<1>3. /\ app' \in [ready : BOOLEAN, hasFocus : BOOLEAN, capturing : BOOLEAN, due : BOOLEAN]
      /\ app'.ready = app.ready
  BY <1>1, <1>2
<1> QED BY <1>1, <1>2, <1>3, ThreadKeeps

LEMMA AudioExitKeeps == ASSUME AudioInv, AudioExit PROVE AudioInv'
<1>1. /\ UNCHANGED <<engine, lock, wav, ring, cb, rendered, app, sounding, failures>>
      /\ calls = <<>> /\ calls' = Shutdown
  BY DEF AudioExit
<1>2. calls' \in Handlers /\ Head(calls') = "stop"
  BY <1>1, CalledSteps
<1>3. /\ app' \in [ready : BOOLEAN, hasFocus : BOOLEAN, capturing : BOOLEAN, due : BOOLEAN]
      /\ sounding' \in BOOLEAN /\ app'.ready = app.ready
  BY <1>1 DEF AudioInv, AudioTypeOK
<1> QED BY <1>1, <1>2, <1>3, ThreadKeeps

LEMMA AudioCommandKeeps == ASSUME AudioInv, AudioCommand PROVE AudioInv'
<1>1. PICK c \in Commands :
        /\ calls' = Called(c)
        /\ app' = IF c \in {"GAINED_FOCUS", "LOST_FOCUS"}
                  THEN [app EXCEPT !.hasFocus = c = "GAINED_FOCUS"]
                  ELSE IF c = "PAUSE" THEN [app EXCEPT !.capturing = FALSE] ELSE app
  BY DEF AudioCommand
<1>2. /\ UNCHANGED <<engine, lock, wav, ring, cb, rendered, sounding, failures>> /\ calls = <<>>
  BY DEF AudioCommand
<1>3. /\ calls' \in Handlers
      /\ \/ calls' = <<>> \/ Head(calls') \in {"stop", "silence"}
         \/ Head(calls') = "init" /\ ~app.ready
  <2>1. Head(<<"init">>) = "init"
    OBVIOUS
  <2> QED BY <1>1, <2>1, CalledSteps
<1>4. app \in [ready : BOOLEAN, hasFocus : BOOLEAN, capturing : BOOLEAN, due : BOOLEAN]
      /\ sounding \in BOOLEAN
  BY DEF AudioInv, AudioTypeOK
<1>5. /\ app' \in [ready : BOOLEAN, hasFocus : BOOLEAN, capturing : BOOLEAN, due : BOOLEAN]
      /\ app'.ready = app.ready
  <2>1. \/ app' = app \/ \E f \in BOOLEAN : app' = [app EXCEPT !.hasFocus = f]
        \/ app' = [app EXCEPT !.capturing = FALSE]
    BY <1>1
  <2> QED BY <1>4, <2>1
<1> QED BY <1>2, <1>3, <1>4, <1>5, ThreadKeeps

\* The counters of the ring: a block that was written, and no other, is there to be read.
LEMMA RingCounters ==
  ASSUME NEW M \in Nat, M > 1, NEW r \in 0..M-1
  PROVE  /\ (r - r) % M = 0 /\ (r + 1) % M \in 0..M-1
         /\ (((r + 1) % M) - r) % M # 0
<1>1. (r - r) % M = 0
  BY SMT
<1>2. CASE r + 1 < M
  <2>1. (r + 1) % M = r + 1
    BY <1>2, SMT
  <2>2. (r + 1) - r = 1 /\ 1 % M = 1
    BY SMT
  <2> QED BY <1>1, <1>2, <2>1, <2>2
<1>3. CASE r + 1 = M
  <2>1. (r + 1) % M = 0
    <3>1. M % M = 0
      BY SMT
    <3> QED BY <1>3, <3>1
  <2>2. 0 - r = 1 - M
    BY <1>3
  <2>3. (1 - M) % M # 0
    BY SMT
  <2>4. (((r + 1) % M) - r) % M # 0
    BY <2>1, <2>2, <2>3
  <2> QED BY <1>1, <2>1, <2>4
<1> QED BY <1>2, <1>3

LEMMA SlotInRing ==
  ASSUME NEW C \in Nat, C > 0, NEW r \in Nat
  PROVE  r % C \in 0..C-1
BY SMT

\* The application's thread, its handlers and the file stay as they are.
LEMMA WavSame ==
  ASSUME AudioInv, UNCHANGED <<app, calls, wav>>,
         engine'.capturing = engine.capturing, rendered' \in Nat, rendered' >= rendered,
         engine.capturing /\ wav.good /\ wav.blocks # <<>> => Past' = Past
  PROVE  WavInv'
<1>1. \A i \in DOMAIN wav'.blocks : /\ wav'.blocks[i] = wav'.blocks[1] + i - 1
                                    /\ wav'.blocks[i] \in 1..rendered'
  <2> SUFFICES ASSUME NEW i \in DOMAIN wav.blocks
               PROVE  /\ wav.blocks[i] = wav.blocks[1] + i - 1
                      /\ wav.blocks[i] \in 1..rendered'
    OBVIOUS
  <2>1. wav.blocks[i] = wav.blocks[1] + i - 1 /\ wav.blocks[i] \in 1..rendered
    BY DEF AudioInv, WavInv
  <2>2. rendered \in Nat
    BY AudioTypes DEF AudioInv
  <2> QED BY <2>1, <2>2
<1> QED BY <1>1 DEF AudioInv, WavInv, Doing

LEMMA CallbackKeeps == ASSUME AudioInv, Callback PROVE AudioInv'
<1>0. AudioTypeOK
  BY DEF AudioInv
<1>1. /\ UNCHANGED <<engine, lock, wav, ring, rendered, app, sounding, calls, failures>>
      /\ engine.live /\ rendered < MaxBlocks /\ cb.at = "idle"
      /\ cb' = [at |-> "render", mixer |-> engine.mixer, block |-> 0]
  BY DEF Callback
<1>2. /\ cb' \in [at : {"idle", "render", "read", "capture", "write"},
                  mixer : 0..MaxFailures + 1, block : 0..MaxBlocks]
      /\ cb'.at = "render" /\ cb'.mixer = engine.mixer
  <2>1. 0 \in 0..MaxBlocks /\ engine.mixer \in 0..MaxFailures + 1
    BY <1>0, AudioTypes
  <2> QED BY <1>1, <2>1
<1>3. AudioTypeOK'
  BY <1>0, <1>1, <1>2 DEF AudioTypeOK
<1>4. LockInv'
  BY <1>1, <1>2 DEF AudioInv, LockInv, Doing
<1>5. EngineInv'
  BY <1>1, <1>2 DEF AudioInv, EngineInv, Doing
<1>6. RingInv'
  BY <1>1, <1>2 DEF AudioInv, RingInv
<1>7. WavInv'
  <2>1. Past' = Past
    BY <1>1, <1>2 DEF Past
  <2>2. rendered' \in Nat /\ rendered' >= rendered
    BY <1>0, <1>1, AudioTypes
  <2> QED BY <1>1, <2>1, <2>2, WavSame
<1> QED BY <1>1, <1>3, <1>4, <1>5, <1>6, <1>7 DEF AudioInv

LEMMA RenderKeeps == ASSUME AudioInv, Render PROVE AudioInv'
<1>0. AudioTypeOK
  BY DEF AudioInv
<1>1. /\ UNCHANGED <<engine, lock, wav, app, sounding, calls, failures>>
      /\ cb.at = "render" /\ cb' = [cb EXCEPT !.at = "read"]
      /\ rendered' = rendered + 1
      /\ ring' = IF Capacity - Available = 0 THEN ring
                 ELSE [ring EXCEPT !.w = (@ + 1) % Modulus, !.slots[Slot(ring.w)] = rendered + 1]
  BY DEF Render, CallbackStep
<1>2. /\ cb' \in [at : {"idle", "render", "read", "capture", "write"},
                  mixer : 0..MaxFailures + 1, block : 0..MaxBlocks]
      /\ cb'.at = "read" /\ cb'.mixer = cb.mixer
  BY <1>0, <1>1, AudioTypes
<1>3. /\ rendered' \in 0..MaxBlocks /\ rendered \in Nat /\ rendered + 1 \in 0..MaxBlocks
      /\ ring.w = ring.r /\ ring.w \in 0..Modulus-1 /\ ring.w \in Nat /\ ring.w \in Int
      /\ Capacity \in Nat /\ Modulus \in Nat /\ Modulus > 1 /\ Capacity > 0
  <2>1. rendered < MaxBlocks /\ ring.w = ring.r
    BY <1>1 DEF AudioInv, RingInv
  <2>2. /\ rendered \in 0..MaxBlocks /\ MaxBlocks \in Nat
        /\ ring.w \in 0..Modulus-1
        /\ Capacity \in Nat /\ Modulus \in Nat /\ Modulus > 1 /\ Capacity > 0
    BY <1>0, AudioTypes
  <2> QED BY <1>1, <2>1, <2>2
<1>4. Capacity - Available # 0
  <2>1. (ring.w - ring.r) % Modulus = 0
    BY <1>3, RingCounters
  <2> QED BY <1>3, <2>1 DEF Available
<1>5. Slot(ring.w) \in 0..Capacity-1 /\ (ring.w + 1) % Modulus \in 0..Modulus-1
  BY <1>3, SlotInRing, RingCounters DEF Slot
<1>6. /\ ring' \in [w : 0..Modulus-1, r : 0..Modulus-1, slots : [0..Capacity-1 -> 0..MaxBlocks]]
      /\ ring'.w = (ring.w + 1) % Modulus /\ ring'.r = ring.r
      /\ ring'.slots[Slot(ring.w)] = rendered + 1
  <2> DEFINE s == Slot(ring.w)
             w == (ring.w + 1) % Modulus
  <2>1. ring' = [ring EXCEPT !.w = w, !.slots[s] = rendered + 1]
    BY <1>1, <1>4
  <2>2. s \in 0..Capacity-1 /\ w \in 0..Modulus-1
    BY <1>5
  <2> HIDE DEF s, w
  <2>3. /\ ring' \in [w : 0..Modulus-1, r : 0..Modulus-1, slots : [0..Capacity-1 -> 0..MaxBlocks]]
        /\ ring'.w = w /\ ring'.r = ring.r /\ ring'.slots[s] = rendered + 1
    BY <1>0, <1>3, <2>1, <2>2, AudioTypes
  <2> QED BY <2>3 DEF s, w
<1>7. AudioTypeOK'
  BY <1>0, <1>1, <1>2, <1>3, <1>6 DEF AudioTypeOK
<1>8. LockInv'
  BY <1>1, <1>2 DEF AudioInv, LockInv, Doing
<1>9. EngineInv'
  BY <1>1, <1>2 DEF AudioInv, EngineInv, Doing
<1>10. RingInv'
  <2>1. ring'.w = (ring'.r + 1) % Modulus /\ ring'.slots[Slot(ring'.r)] = rendered'
    BY <1>1, <1>3, <1>6
  <2>2. rendered' > 0
    BY <1>1, <1>3
  <2> QED BY <1>2, <2>1, <2>2 DEF RingInv, Slot
<1>11. WavInv'
  <2>1. Past' = Past
    BY <1>1, <1>2, <1>3 DEF Past
  <2>2. rendered' \in Nat /\ rendered' >= rendered
    BY <1>1, <1>3
  <2> QED BY <1>1, <2>1, <2>2, WavSame
<1> QED BY <1>1, <1>7, <1>8, <1>9, <1>10, <1>11 DEF AudioInv

LEMMA ReadAndPlayKeeps == ASSUME AudioInv, ReadAndPlay PROVE AudioInv'
<1>0. AudioTypeOK
  BY DEF AudioInv
<1>1. /\ UNCHANGED <<engine, lock, wav, rendered, app, sounding, calls, failures>>
      /\ cb.at = "read"
      /\ cb' = [cb EXCEPT !.at = IF engine.capturing THEN "capture" ELSE "idle",
                          !.block = IF Available = 0 THEN 0 ELSE ring.slots[Slot(ring.r)]]
      /\ ring' = IF Available = 0 THEN ring ELSE [ring EXCEPT !.r = (@ + 1) % Modulus]
  BY DEF ReadAndPlay
<1>2. /\ ring.w = (ring.r + 1) % Modulus /\ ring.slots[Slot(ring.r)] = rendered
      /\ rendered > 0
  BY <1>1 DEF AudioInv, RingInv
<1>3. /\ ring.r \in 0..Modulus-1 /\ Modulus \in Nat /\ Modulus > 1
      /\ rendered \in 0..MaxBlocks /\ rendered \in Nat
  BY <1>0, AudioTypes
<1>4. Available # 0 /\ (ring.r + 1) % Modulus \in 0..Modulus-1
  BY <1>2, <1>3, RingCounters DEF Available
<1>5. /\ cb' \in [at : {"idle", "render", "read", "capture", "write"},
                  mixer : 0..MaxFailures + 1, block : 0..MaxBlocks]
      /\ cb'.at \in {"capture", "idle"} /\ (engine.capturing => cb'.at = "capture")
      /\ cb'.mixer = cb.mixer /\ cb'.block = rendered
  <2>1. PICK to \in {"capture", "idle"} : to = IF engine.capturing THEN "capture" ELSE "idle"
    OBVIOUS
  <2>2. cb' = [cb EXCEPT !.at = to, !.block = rendered]
    BY <1>1, <1>2, <1>4, <2>1
  <2> QED BY <1>0, <1>3, <2>1, <2>2, AudioTypes
<1>6. /\ ring' \in [w : 0..Modulus-1, r : 0..Modulus-1, slots : [0..Capacity-1 -> 0..MaxBlocks]]
      /\ ring'.w = ring.w /\ ring'.r = (ring.r + 1) % Modulus
  <2> DEFINE r == (ring.r + 1) % Modulus
  <2>1. ring' = [ring EXCEPT !.r = r] /\ r \in 0..Modulus-1
    BY <1>1, <1>4
  <2> HIDE DEF r
  <2>2. /\ ring' \in [w : 0..Modulus-1, r : 0..Modulus-1, slots : [0..Capacity-1 -> 0..MaxBlocks]]
        /\ ring'.w = ring.w /\ ring'.r = r
    BY <1>0, <2>1, AudioTypes
  <2> QED BY <2>2 DEF r
<1>7. AudioTypeOK'
  BY <1>0, <1>1, <1>5, <1>6 DEF AudioTypeOK
<1>8. LockInv'
  BY <1>1, <1>5 DEF AudioInv, LockInv, Doing
<1>9. EngineInv'
  BY <1>1, <1>5 DEF AudioInv, EngineInv, Doing
<1>10. RingInv'
  BY <1>1, <1>2, <1>5, <1>6 DEF RingInv
<1>11. WavInv'
  <2>1. engine.capturing => Past' = Past
    BY <1>1, <1>5 DEF Past
  <2>2. rendered' \in Nat /\ rendered' >= rendered
    BY <1>1, <1>3
  <2> QED BY <1>1, <2>1, <2>2, WavSame
<1> QED BY <1>1, <1>7, <1>8, <1>9, <1>10, <1>11 DEF AudioInv

\* The application holds the lock only when nothing has been captured, or no more is.
LEMMA TryLockKeeps == ASSUME AudioInv, TryLock PROVE AudioInv'
<1>0. AudioTypeOK
  BY DEF AudioInv
<1>1. /\ UNCHANGED <<engine, wav, ring, rendered, app, sounding, calls, failures>>
      /\ cb.at = "capture"
      /\ \/ lock = "free" /\ lock' = "callback" /\ cb' = [cb EXCEPT !.at = "write"]
         \/ lock # "free" /\ lock' = lock /\ cb' = [cb EXCEPT !.at = "idle"]
  BY DEF TryLock, CallbackStep
<1>2. PICK to \in {"write", "idle"} :
        /\ cb' = [cb EXCEPT !.at = to]
        /\ to = "write" => lock = "free" /\ lock' = "callback"
        /\ to = "idle" => lock # "free" /\ lock' = lock
  BY <1>1
<1>3. /\ cb' \in [at : {"idle", "render", "read", "capture", "write"},
                  mixer : 0..MaxFailures + 1, block : 0..MaxBlocks]
      /\ cb'.at = to /\ cb'.mixer = cb.mixer /\ cb'.block = cb.block
  BY <1>0, <1>2, AudioTypes
<1>4. lock # "callback" /\ lock \in {"free", "app", "callback"}
  BY <1>0, <1>1 DEF AudioInv, LockInv, AudioTypeOK
<1>5. AudioTypeOK'
  BY <1>0, <1>1, <1>2, <1>3, <1>4 DEF AudioTypeOK
<1>6. LockInv'
  BY <1>1, <1>2, <1>3, <1>4 DEF AudioInv, LockInv, Doing
<1>7. EngineInv'
  BY <1>1, <1>3 DEF AudioInv, EngineInv, Doing
<1>8. RingInv'
  BY <1>1, <1>3 DEF AudioInv, RingInv, Slot
<1>9. WavInv'
  <2>3. engine.capturing /\ wav.blocks # <<>> => Past' = Past
    <3>1. to = "write" => Past' = Past
      BY <1>1, <1>3 DEF Past
    <3>2. to = "idle" => ~(engine.capturing /\ wav.blocks # <<>>)
      <4> SUFFICES ASSUME to = "idle" PROVE ~(engine.capturing /\ wav.blocks # <<>>)
        OBVIOUS
      <4>1. Doing({"opened", "header", "close"})
        BY <1>2, <1>4 DEF AudioInv, LockInv
      <4>2. CASE Doing({"header", "close"})
        BY <4>2 DEF AudioInv, WavInv
      <4>3. CASE Doing({"opened"})
        <5>1. Doing({"init", "open", "opened"})
          BY <4>3 DEF Doing
        <5> QED BY <5>1 DEF AudioInv, EngineInv, WavInv
      <4> QED BY <4>1, <4>2, <4>3 DEF Doing
    <3> QED BY <3>1, <3>2
  <2>4. rendered' \in Nat /\ rendered' >= rendered
    BY <1>0, <1>1, AudioTypes
  <2> QED BY <1>1, <2>3, <2>4, WavSame
<1> QED BY <1>1, <1>5, <1>6, <1>7, <1>8, <1>9 DEF AudioInv

\* A block is written next to the one before it: while the callback has the lock nobody ends
\* the capture, and had it been without the lock before, nothing would have been captured yet.
LEMMA WriteKeeps == ASSUME AudioInv, Write PROVE AudioInv'
<1>0. AudioTypeOK
  BY DEF AudioInv
<1>1. /\ UNCHANGED <<engine, ring, rendered, app, sounding, calls, failures>>
      /\ cb.at = "write" /\ cb' = [cb EXCEPT !.at = "idle"] /\ lock = "callback" /\ lock' = "free"
      /\ \/ Writable /\ wav' = [wav EXCEPT !.blocks = Append(@, cb.block), !.count = @ + 1]
         \/ Writable /\ DiskFull(wav.count + 1)
         \/ ~Writable /\ wav' = wav
  BY DEF Write, CallbackStep, AudioInv, LockInv
<1>2. /\ cb' \in [at : {"idle", "render", "read", "capture", "write"},
                  mixer : 0..MaxFailures + 1, block : 0..MaxBlocks]
      /\ cb'.at = "idle" /\ cb'.mixer = cb.mixer
  BY <1>0, <1>1, AudioTypes
<1>3. /\ cb.block = rendered /\ rendered > 0 /\ rendered \in 0..MaxBlocks /\ rendered \in Nat
      /\ Len(wav.blocks) \in Nat /\ DOMAIN wav.blocks = 1..Len(wav.blocks)
      /\ wav.blocks \in Seq(0..MaxBlocks)
  <2>1. cb.block = rendered /\ rendered > 0
    BY <1>1 DEF AudioInv, RingInv
  <2> QED BY <1>0, <2>1, AudioTypes
<1>4. /\ ~Doing({"opened", "header", "close"}) /\ ~Doing({"opened"})
      /\ ~Doing({"header", "close"}) /\ ~Doing({"close"})
  BY <1>1 DEF AudioInv, LockInv, Doing
<1>5. wav.writer => engine.capturing /\ app.ready
  BY <1>4 DEF AudioInv, WavInv
<1>6. wav' \in [writer : BOOLEAN, good : BOOLEAN, count : Nat, blocks : Seq(0..MaxBlocks), header : Nat]
  <2>1. Append(wav.blocks, cb.block) \in Seq(0..MaxBlocks) /\ wav.count + 1 \in Nat
    BY <1>0, <1>3, AudioTypes
  <2>2. CASE wav' = [wav EXCEPT !.blocks = Append(@, cb.block), !.count = @ + 1]
    BY <1>0, <2>1, <2>2, AudioTypes
  <2>3. CASE DiskFull(wav.count + 1)
    BY <1>1, <2>1, <2>3, DiskFullKeeps
  <2> QED BY <1>0, <1>1, <2>2, <2>3, AudioTypes
<1>7. AudioTypeOK'
  BY <1>0, <1>1, <1>2, <1>6 DEF AudioTypeOK
<1>8. LockInv'
  BY <1>1, <1>2, <1>4 DEF LockInv, Doing
<1>9. EngineInv'
  BY <1>1, <1>2 DEF AudioInv, EngineInv, Doing
<1>10. RingInv'
  BY <1>1, <1>2 DEF AudioInv, RingInv
<1>11. CASE ~Writable /\ wav' = wav
  <2>1. rendered' \in Nat /\ rendered' >= rendered
    BY <1>1, <1>3
  <2>2. ~(engine.capturing /\ wav.good)
    BY <1>11 DEF AudioInv, WavInv, Writable
  <2>3. WavInv'
    BY <1>1, <1>11, <2>1, <2>2, WavSame
  <2> QED BY <1>1, <1>7, <1>8, <1>9, <1>10, <2>3 DEF AudioInv
<1>12. CASE Writable /\ DiskFull(wav.count + 1)
  <2>1. wav.count + 1 \in Nat
    BY <1>0, AudioTypes
  <2>2. /\ wav'.writer = wav.writer /\ ~wav'.good /\ wav'.header = wav.header
        /\ \A i \in DOMAIN wav'.blocks : /\ wav'.blocks[i] = wav'.blocks[1] + i - 1
                                        /\ wav'.blocks[i] \in 1..rendered'
    BY <1>1, <1>12, <2>1, DiskFullKeeps
  <2>3. wav.writer /\ wav.header = 0
    BY <1>4, <1>12 DEF AudioInv, WavInv, Writable
  <2>4. ~Doing({"header", "close"})' /\ ~Doing({"close"})'
    BY <1>1, <1>4 DEF Doing
  <2>5. WavInv'
    BY <1>1, <1>5, <2>2, <2>3, <2>4 DEF WavInv
  <2> QED BY <1>1, <1>7, <1>8, <1>9, <1>10, <2>5 DEF AudioInv
<1>13. CASE Writable /\ wav' = [wav EXCEPT !.blocks = Append(@, cb.block), !.count = @ + 1]
  <2>0. /\ wav.writer /\ wav.good /\ wav.count = Len(wav.blocks) /\ wav.header = 0
        /\ wav'.writer = wav.writer /\ wav'.good = wav.good /\ wav'.count = wav.count + 1
        /\ wav'.header = wav.header /\ wav'.blocks = Append(wav.blocks, rendered)
    <3>1. wav.writer /\ wav.good /\ wav.count = Len(wav.blocks) /\ wav.header = 0
      BY <1>4, <1>13 DEF AudioInv, WavInv, Writable
    <3> QED BY <1>0, <1>3, <1>13, <3>1, AudioTypes
  <2>1. PICK s \in Seq(0..MaxBlocks) : s = wav.blocks
    BY <1>3
  <2>2. /\ Len(Append(s, rendered)) = Len(s) + 1 /\ Len(s) \in Nat
        /\ Append(s, rendered)[Len(s) + 1] = rendered
        /\ \A i \in 1..Len(s) : Append(s, rendered)[i] = s[i]
        /\ DOMAIN Append(s, rendered) = 1..Len(s) + 1
    BY <1>3
  <2>3. /\ wav'.blocks = Append(s, rendered) /\ Len(wav'.blocks) = Len(s) + 1
        /\ wav'.blocks[Len(s) + 1] = rendered
        /\ \A i \in 1..Len(s) : wav'.blocks[i] = s[i]
        /\ DOMAIN wav'.blocks = 1..Len(s) + 1
    BY <2>0, <2>1, <2>2
  <2>4. \A i \in 1..Len(s) : s[i] = s[1] + i - 1 /\ s[i] \in 1..rendered
    BY <1>3, <2>1 DEF AudioInv, WavInv
  <2>5. s # <<>> => s[Len(s)] = rendered - 1
    BY <1>1, <1>5, <2>0, <2>1 DEF AudioInv, WavInv, Past
  <2>6. Len(s) # 0 => s # <<>>
    OBVIOUS
  <2>7. ASSUME NEW i \in 1..Len(s) + 1
        PROVE  wav'.blocks[i] = wav'.blocks[1] + i - 1 /\ wav'.blocks[i] \in 1..rendered
    <3>1. CASE Len(s) = 0
      <4>1. i = 1 /\ wav'.blocks[1] = rendered
        BY <2>3, <2>7, <3>1
      <4> QED BY <1>3, <4>1
    <3>2. CASE Len(s) # 0
      <4>1. 1 \in 1..Len(s) /\ Len(s) \in 1..Len(s) /\ Len(s) \in Nat
        BY <2>2, <3>2
      <4>2. s[Len(s)] = rendered - 1 /\ s[Len(s)] = s[1] + Len(s) - 1 /\ s[1] \in 1..rendered
        BY <2>4, <2>5, <2>6, <3>2, <4>1
      <4>3. wav'.blocks[1] = s[1]
        BY <2>3, <4>1
      <4>4. CASE i = Len(s) + 1
        <5>1. wav'.blocks[i] = rendered
          BY <2>3, <4>4
        <5> QED BY <1>3, <4>1, <4>2, <4>3, <4>4, <5>1
      <4>5. CASE i # Len(s) + 1
        <5>1. i \in 1..Len(s)
          BY <4>1, <4>5
        <5> QED BY <2>3, <2>4, <4>3, <5>1
      <4> QED BY <4>4, <4>5
    <3> QED BY <3>1, <3>2
  <2>8. WavInv'
    <3>1. Past' = rendered
      BY <1>1, <1>2 DEF Past
    <3>2. wav'.writer /\ engine.capturing /\ app.ready
      BY <1>5, <2>0
    <3>3. \A i \in DOMAIN wav'.blocks : /\ wav'.blocks[i] = wav'.blocks[1] + i - 1
                                        /\ wav'.blocks[i] \in 1..rendered'
      BY <1>1, <2>3, <2>7
    <3>4. ~Doing({"header", "close"})' /\ ~Doing({"close"})'
      BY <1>1, <1>4 DEF Doing
    <3>5. wav'.blocks[Len(wav'.blocks)] = Past'
      BY <2>3, <3>1
    <3>6. wav'.count = Len(wav'.blocks)
      BY <2>0, <2>1, <2>3
    <3> QED BY <1>1, <2>0, <3>2, <3>3, <3>4, <3>5, <3>6 DEF WavInv
  <2> QED BY <1>1, <1>7, <1>8, <1>9, <1>10, <2>8 DEF AudioInv
<1> QED BY <1>1, <1>11, <1>12, <1>13

LEMMA DisconnectKeeps == ASSUME AudioInv, Disconnect PROVE AudioInv'
<1>0. AudioTypeOK
  BY DEF AudioInv
<1>1. /\ UNCHANGED <<lock, wav, ring, cb, rendered, app, sounding, calls>>
      /\ engine.live /\ cb.at = "idle" /\ MayFail
      /\ engine' = [engine EXCEPT !.live = FALSE]
  BY DEF Disconnect
<1>2. /\ engine' \in [stream : BOOLEAN, live : BOOLEAN, mixer : 0..MaxFailures + 1,
                      capturing : BOOLEAN]
      /\ engine'.stream = engine.stream /\ engine'.mixer = engine.mixer
      /\ ~engine'.live /\ engine'.capturing = engine.capturing
  BY <1>0, <1>1, AudioTypes
<1>3. failures' \in 0..MaxFailures /\ failures' = failures + 1 /\ failures \in Nat
      /\ engine.mixer \in Nat
  BY <1>0, <1>1, OneFailure, AudioTypes
<1>4. AudioTypeOK'
  BY <1>0, <1>1, <1>2, <1>3 DEF AudioTypeOK
<1>5. LockInv'
  BY <1>1 DEF AudioInv, LockInv, Doing
<1>6. EngineInv'
  <2>1. /\ engine.mixer <= failures + 1
        /\ ~app.ready /\ ~Doing({"open", "opened"}) => engine.mixer <= failures
    BY DEF AudioInv, EngineInv
  <2>2. /\ engine'.mixer <= failures' + 1
        /\ ~app.ready /\ ~Doing({"open", "opened"}) => engine'.mixer <= failures'
    BY <1>2, <1>3, <2>1
  <2> QED BY <1>1, <1>2, <2>2 DEF AudioInv, EngineInv, Doing
<1>7. WavInv'
  <2>1. rendered' \in Nat /\ rendered' >= rendered /\ Past' = Past
    BY <1>0, <1>1, AudioTypes DEF Past
  <2> QED BY <1>1, <1>2, <2>1, WavSame
<1> QED BY <1>1, <1>4, <1>5, <1>6, <1>7, BlocksSame DEF AudioInv

LEMMA AudioQuiet == ASSUME AudioInv, UNCHANGED audio PROVE AudioInv'
<1>1. /\ UNCHANGED <<engine, lock, wav, ring, cb, rendered, app, sounding, calls, failures>>
  BY DEF audio
<1> QED BY <1>1 DEF AudioInv, AudioTypeOK, LockInv, EngineInv, RingInv, WavInv, Doing, Past, Slot

LEMMA AudioInvKeeps == AudioInv /\ [AudioNext]_audioVars => AudioInv'
<1> SUFFICES ASSUME AudioInv, [AudioNext]_audioVars PROVE AudioInv'
  OBVIOUS
<1>1. ASSUME AudioEnvironment PROVE AudioInv'
  BY <1>1, CallbackKeeps, DisconnectKeeps, AudioQuiet DEF AudioEnvironment
<1>2. ASSUME Main PROVE AudioInv'
  BY <1>2, InitEngineKeeps, OpenCaptureKeeps, CaptureOpenedKeeps, StopKeeps,
     WriteHeaderKeeps, CloseFileKeeps, CloseStreamKeeps, ResetKeeps, SilenceKeeps,
     AudioFrameKeeps, AudioExitKeeps, AudioCommandKeeps, AudioQuiet DEF Main
<1>3. ASSUME Stream PROVE AudioInv'
  BY <1>3, RenderKeeps, ReadAndPlayKeeps, TryLockKeeps, WriteKeeps DEF Stream
<1>4. ASSUME UNCHANGED audioVars PROVE AudioInv'
  BY <1>4, AudioQuiet DEF audioVars
<1> QED BY <1>1, <1>2, <1>3, <1>4 DEF AudioNext

LEMMA AudioInvariant == AudioSpec => []AudioInv
<1>1. AudioSinkInit => AudioInv
  BY AudioInitKeeps DEF AudioSinkInit
<1> QED BY <1>1, AudioInvKeeps, PTL DEF AudioSpec

\* The glue, under the steps of audio-sink.
LEMMA AudioGlueKeeps == ASSUME GlueInv, AudioTypeOK, [AudioNext]_audioVars PROVE GlueInv'
<1>1. CASE UNCHANGED glue
  BY <1>1, PollKeeps
<1>2. CASE AudioEnvironment
  BY <1>1, <1>2, SendKeeps, PollKeeps DEF AudioEnvironment, Callback, Disconnect
<1>3. CASE Main
  <2>1. CASE AudioFrame
    <3>1. app.ready \in BOOLEAN /\ FALSE \in BOOLEAN
      BY DEF AudioTypeOK
    <3> QED BY <2>1, <3>1, PollKeeps DEF AudioFrame
  <2>2. CASE AudioCommand
    BY <2>2, TakeKeeps DEF AudioCommand
  <2>3. CASE AudioExit \/ PollEnds
    BY <2>3, PollKeeps DEF AudioExit
  <2>4. CASE \/ InitEngine \/ OpenCapture \/ CaptureOpened \/ Stop \/ WriteHeader \/ CloseFile
             \/ CloseStream \/ Reset \/ Silence
    BY <1>1, <2>4 DEF InitEngine, OpenCapture, CaptureOpened, Stop, WriteHeader, CloseFile,
                      CloseStream, Reset, Silence, Step
  <2> QED BY <1>3, <2>1, <2>2, <2>3, <2>4 DEF Main
<1>4. CASE Stream
  BY <1>1, <1>4 DEF Stream, Render, ReadAndPlay, TryLock, Write, CallbackStep
<1>5. CASE UNCHANGED audioVars
  BY <1>1, <1>5 DEF audioVars
<1> QED BY <1>2, <1>3, <1>4, <1>5 DEF AudioNext

\* The variables of audio-sink and of the glue keep their types.
THEOREM AudioTypeCorrect == AudioSpec => [](GlueTypeOK /\ AudioTypeOK)
<1>1. AudioSinkInit => GlueInv
  BY GlueInitKeeps DEF AudioSinkInit
<1>2. GlueInv /\ AudioInv /\ [AudioNext]_audioVars => GlueInv'
  BY AudioGlueKeeps DEF AudioInv
<1>3. GlueInv /\ AudioInv => GlueTypeOK /\ AudioTypeOK
  BY DEF GlueInv, AudioInv
<1> QED BY <1>1, <1>2, <1>3, AudioInvariant, PTL DEF AudioSpec

\* For any number of blocks and of failures, whenever the application is destroyed or starts
\* its engine again: a callback that runs has the mixer it began with (CallbackIsSafe).
THEOREM CallbackSafe == AudioSpec => []CallbackIsSafe
<1>1. AudioInv => CallbackIsSafe
  BY DEF AudioInv, EngineInv, CallbackIsSafe
<1> QED BY <1>1, AudioInvariant, PTL

\* However the callback and the end of a capture interleave, a capture that was closed counts
\* what it holds, and holds an unbroken run of the blocks as they were played
\* (CaptureIsWhole).
THEOREM CaptureWhole == AudioSpec => []CaptureIsWhole
<1>1. AudioInv => CaptureIsWhole
  BY DEF AudioInv, WavInv, CaptureIsWhole
<1> QED BY <1>1, AudioInvariant, PTL

-------------------------------------------------------------------------------
(* SimpleNative: counting the events of a queue *)

\* A pointer's slots are presses that were pushed and whose releases were not.
Owed(p) == down[p] + ExtraUps(p)
Held(p) == Cardinality({s \in 1..MaxPointers : slots[s] = p})
SlotsArePressed ==
  ~lost => \A p \in Pointers : Held(p) <= Owed(p) + Count(<<"DOWN", p>>) - Count(<<"UP", p>>)

NativeInv == NativeTypeOK /\ TouchesArePaired /\ SlotsArePressed

LEMMA TimesStep ==
  ASSUME NEW e, NEW q, NEW n \in Nat
  PROVE  /\ Times(e, q, 0) = 0 /\ Times(e, q, n) \in Nat
         /\ Times(e, q, n + 1) = Times(e, q, n) + (IF q[n + 1] = e THEN 1 ELSE 0)
<1> DEFINE Of(m) == {i \in 1..m : q[i] = e}
<1>1. Times(e, q, 0) = 0
  <2>1. Of(0) = {}
    OBVIOUS
  <2>2. Cardinality({}) = 0
    BY FS_EmptySet
  <2> QED BY <2>1, <2>2 DEF Times
<1>2. IsFiniteSet(Of(n)) /\ Cardinality(Of(n)) \in Nat
  <2>1. IsFiniteSet(1..n)
    BY FS_Interval
  <2>2. Of(n) \in SUBSET (1..n)
    OBVIOUS
  <2>3. IsFiniteSet(Of(n))
    BY <2>1, <2>2, FS_Subset
  <2> QED BY <2>3, FS_CardinalityType
<1>3. CASE q[n + 1] = e
  <2>1. Of(n + 1) = Of(n) \cup {n + 1} /\ n + 1 \notin Of(n)
    BY <1>3
  <2>2. Cardinality(Of(n) \cup {n + 1}) = Cardinality(Of(n)) + 1
    BY <1>2, <2>1, FS_AddElement
  <2> QED BY <1>1, <1>2, <1>3, <2>1, <2>2 DEF Times
<1>4. CASE q[n + 1] # e
  <2>1. Of(n + 1) = Of(n)
    BY <1>4
  <2>2. Times(e, q, n + 1) = Cardinality(Of(n + 1)) /\ Times(e, q, n) = Cardinality(Of(n))
    BY DEF Times
  <2> HIDE DEF Of
  <2>3. Times(e, q, n + 1) = Times(e, q, n) + 0
    BY <1>2, <2>1, <2>2
  <2> QED BY <1>1, <1>2, <1>4, <2>2, <2>3
<1> QED BY <1>3, <1>4

LEMMA TimesSame ==
  ASSUME NEW e, NEW q, NEW r, NEW n, \A i \in 1..n : q[i] = r[i]
  PROVE  Times(e, q, n) = Times(e, r, n)
<1>1. {i \in 1..n : q[i] = e} = {i \in 1..n : r[i] = e}
  OBVIOUS
<1> QED BY <1>1 DEF Times

\* What SimpleNative's invariant says of one pointer: d more of its releases may be handled
\* than of its presses, and s slots are its.
Paired(q, p, d, s) ==
  /\ \A n \in 0..Len(q) : Times(<<"UP", p>>, q, n) <= d + Times(<<"DOWN", p>>, q, n)
  /\ s <= d + Times(<<"DOWN", p>>, q, Len(q)) - Times(<<"UP", p>>, q, Len(q))

\* Its slots once the event x is pushed.
SlotsAfter(x, p, s) ==
  IF x = <<"DOWN", p>> THEN s + 1 ELSE IF x = <<"UP", p>> THEN s - 1 ELSE s

LEMMA AppendKeepsPaired ==
  ASSUME NEW q \in Seq(Events), NEW x \in Events, NEW p \in Pointers, NEW d \in Int,
         NEW s \in Nat, Paired(q, p, d, s), x = <<"UP", p>> => s > 0
  PROVE  Append(q, x) \in Seq(Events) /\ Paired(Append(q, x), p, d, SlotsAfter(x, p, s))
<1> DEFINE up == <<"UP", p>>
           press == <<"DOWN", p>>
           L == Len(q)
           r == Append(q, x)
<1>1. /\ r \in Seq(Events) /\ Len(r) = L + 1 /\ L \in Nat
      /\ \A i \in 1..L : r[i] = q[i]
      /\ r[L + 1] = x
  OBVIOUS
<1>2. up # press
  OBVIOUS
<1>3. /\ \A n \in 0..L : Times(up, q, n) <= d + Times(press, q, n)
      /\ s <= d + Times(press, q, L) - Times(up, q, L)
  BY DEF Paired
<1> HIDE DEF r, up, press, L
<1>4. ASSUME NEW n \in 0..L, NEW e PROVE Times(e, r, n) = Times(e, q, n) /\ Times(e, q, n) \in Nat
  <2>1. \A i \in 1..n : r[i] = q[i]
    BY <1>1
  <2>2. n \in Nat
    BY <1>1
  <2> QED BY <2>1, <2>2, TimesSame, TimesStep
<1>5. L \in 0..L
  BY <1>1
<1>6. /\ Times(up, r, L + 1) = Times(up, q, L) + (IF x = up THEN 1 ELSE 0)
      /\ Times(press, r, L + 1) = Times(press, q, L) + (IF x = press THEN 1 ELSE 0)
      /\ Times(up, q, L) \in Nat /\ Times(press, q, L) \in Nat
  <2>1. ASSUME NEW e
        PROVE  /\ Times(e, r, L + 1) = Times(e, q, L) + (IF x = e THEN 1 ELSE 0)
               /\ Times(e, q, L) \in Nat
    <3>1. Times(e, r, L + 1) = Times(e, r, L) + (IF r[L + 1] = e THEN 1 ELSE 0)
      <4>1. L \in Nat
        BY <1>1
      <4>2. \A n \in Nat :
              /\ Times(e, r, 0) = 0 /\ Times(e, r, n) \in Nat
              /\ Times(e, r, n + 1) = Times(e, r, n) + (IF r[n + 1] = e THEN 1 ELSE 0)
        BY TimesStep, Zenon
      <4> QED BY <4>1, <4>2
    <3>2. Times(e, r, L) = Times(e, q, L) /\ Times(e, q, L) \in Nat
      BY <1>4, <1>5
    <3> QED BY <1>1, <3>1, <3>2
  <2> QED BY <2>1
<1>7. SlotsAfter(x, p, s) <= d + Times(press, r, L + 1) - Times(up, r, L + 1)
  <2>1. SlotsAfter(x, p, s) = IF x = press THEN s + 1 ELSE IF x = up THEN s - 1 ELSE s
    BY DEF SlotsAfter, press, up
  <2> QED BY <1>2, <1>3, <1>6, <2>1
<1>8. Times(up, r, L + 1) <= d + Times(press, r, L + 1)
  <2>1. x = up => s > 0
    BY DEF up
  <2> QED BY <1>2, <1>3, <1>6, <2>1
<1>9. ASSUME NEW n \in 0..L + 1 PROVE Times(up, r, n) <= d + Times(press, r, n)
  <2>1. CASE n = L + 1
    BY <1>8, <2>1
  <2>2. CASE n # L + 1
    <3>1. n \in 0..L
      BY <1>1, <2>2
    <3> QED BY <1>3, <1>4, <3>1
  <2> QED BY <2>1, <2>2
<1>10. Paired(r, p, d, SlotsAfter(x, p, s))
  BY <1>1, <1>7, <1>9 DEF Paired, up, press
<1> QED BY <1>1, <1>10 DEF r

LEMMA MiscIsEvent == Misc \in Events /\ Other("BACK") \in Events /\ Tap \in Events
BY DEF Events

LEMMA ToOnlyAPointer ==
  ASSUME NEW k \in {"OTHER", "BACK"}, NEW p
  PROVE  Other(k) # <<"DOWN", p>> /\ Other(k) # <<"UP", p>>
BY DEF Other

\* A tap is one more release of pointer 0.
LEMMA TapKeepsPaired ==
  ASSUME NEW q \in Seq(Events), NEW p \in Pointers, NEW d \in Int, NEW s \in Nat,
         Paired(q, p, d, s)
  PROVE  Append(q, Tap) \in Seq(Events) /\ Paired(Append(q, Tap), p, IF p = 0 THEN d + 1 ELSE d, s)
<1>1. Tap \in Events
  BY MiscIsEvent
<1>2. CASE p = 0
  <2> DEFINE up == Times(<<"UP", p>>, q, Len(q))
             press == Times(<<"DOWN", p>>, q, Len(q))
  <2>1. ASSUME NEW n \in 0..Len(q)
        PROVE  Times(<<"UP", p>>, q, n) <= d + 1 + Times(<<"DOWN", p>>, q, n)
    <3>1. n \in Nat
      OBVIOUS
    <3>2. Times(<<"UP", p>>, q, n) \in Nat /\ Times(<<"DOWN", p>>, q, n) \in Nat
      BY <3>1, TimesStep
    <3>3. Times(<<"UP", p>>, q, n) <= d + Times(<<"DOWN", p>>, q, n)
      BY DEF Paired
    <3> QED BY <3>2, <3>3
  <2>2. s <= d + press - up /\ up \in Nat /\ press \in Nat
    BY TimesStep DEF Paired
  <2> HIDE DEF up, press
  <2>3. s + 1 <= d + 1 + press - up
    BY <2>2
  <2>4. Paired(q, p, d + 1, s + 1)
    BY <2>1, <2>3 DEF Paired, up, press
  <2>5. s + 1 \in Nat /\ s + 1 > 0 /\ d + 1 \in Int
    OBVIOUS
  <2>6. Append(q, Tap) \in Seq(Events) /\ Paired(Append(q, Tap), p, d + 1, SlotsAfter(Tap, p, s + 1))
    BY <1>1, <2>4, <2>5, AppendKeepsPaired
  <2>7. SlotsAfter(Tap, p, s + 1) = s
    BY <1>2 DEF SlotsAfter, Tap
  <2> QED BY <1>2, <2>6, <2>7
<1>3. CASE p # 0
  <2>1. Tap # <<"UP", p>> /\ Tap # <<"DOWN", p>>
    BY <1>3 DEF Tap
  <2>2. Append(q, Tap) \in Seq(Events) /\ Paired(Append(q, Tap), p, d, SlotsAfter(Tap, p, s))
    BY <1>1, <2>1, AppendKeepsPaired
  <2>3. SlotsAfter(Tap, p, s) = s
    BY <2>1 DEF SlotsAfter
  <2> QED BY <1>3, <2>2, <2>3
<1> QED BY <1>2, <1>3

LEMMA OwedIsNumber ==
  ASSUME NativeTypeOK, NEW p \in Pointers PROVE Owed(p) \in Int /\ down[p] \in Int /\ taps \in Nat
BY DEF NativeTypeOK, Owed, ExtraUps

\* Events without a pointer, however many, change nothing.
LEMMA OthersKeepPaired ==
  ASSUME NEW q \in Seq(Events), NEW m \in Seq({Misc}), NEW p, NEW d, NEW s, Paired(q, p, d, s)
  PROVE  q \o m \in Seq(Events) /\ Paired(q \o m, p, d, s)
<1> DEFINE L == Len(q)
           r == q \o m
<1>1. m \in Seq(Events)
  BY MiscIsEvent, SeqMonotonic
<1>2. /\ r \in Seq(Events) /\ L \in Nat /\ Len(m) \in Nat /\ Len(r) = L + Len(m)
      /\ \A i \in 1..L : r[i] = q[i]
      /\ \A i \in L + 1..L + Len(m) : r[i] = Misc
  <2>1. /\ r \in Seq(Events) /\ Len(r) = L + Len(m)
        /\ \A i \in 1..L + Len(m) : r[i] = IF i <= L THEN q[i] ELSE m[i - L]
    BY <1>1, ConcatProperties
  <2>2. L \in Nat /\ Len(m) \in Nat /\ \A i \in 1..Len(m) : m[i] = Misc
    OBVIOUS
  <2> HIDE DEF r, L
  <2>3. \A i \in 1..L : r[i] = q[i]
    BY <2>1, <2>2
  <2>4. ASSUME NEW i \in L + 1..L + Len(m) PROVE r[i] = Misc
    <3>1. i \in 1..L + Len(m) /\ ~(i <= L) /\ i - L \in 1..Len(m)
      BY <2>2
    <3> QED BY <2>1, <2>2, <3>1
  <2> QED BY <2>1, <2>2, <2>3, <2>4
<1> HIDE DEF r, L
<1>3. ASSUME NEW e, e # Misc, NEW n \in 0..Len(r)
      PROVE  Times(e, r, n) = Times(e, q, IF n <= L THEN n ELSE L)
  <2>1. CASE n <= L
    <3>1. \A i \in 1..n : r[i] = q[i]
      BY <1>2, <2>1
    <3> QED BY <2>1, <3>1, TimesSame
  <2>2. CASE ~(n <= L)
    <3>1. {i \in 1..n : r[i] = e} = {i \in 1..L : q[i] = e}
      <4>1. \A i \in 1..n : i \in 1..L \/ i \in L + 1..L + Len(m)
        BY <1>2
      <4>2. \A i \in 1..L : i \in 1..n
        BY <1>2, <2>2
      <4> QED BY <1>2, <1>3, <4>1, <4>2
    <3> QED BY <2>2, <3>1 DEF Times
  <2> QED BY <2>1, <2>2
<1>4. <<"UP", p>> # Misc /\ <<"DOWN", p>> # Misc
  BY ToOnlyAPointer DEF Misc
<1>5. /\ \A n \in 0..L : Times(<<"UP", p>>, q, n) <= d + Times(<<"DOWN", p>>, q, n)
      /\ s <= d + Times(<<"DOWN", p>>, q, L) - Times(<<"UP", p>>, q, L)
  BY DEF Paired, L
<1>6. ASSUME NEW n \in 0..Len(r)
      PROVE  Times(<<"UP", p>>, r, n) <= d + Times(<<"DOWN", p>>, r, n)
  <2> DEFINE k == IF n <= L THEN n ELSE L
  <2>1. k \in 0..L
    BY <1>2
  <2>2. Times(<<"UP", p>>, r, n) = Times(<<"UP", p>>, q, k)
    BY <1>3, <1>4
  <2>3. Times(<<"DOWN", p>>, r, n) = Times(<<"DOWN", p>>, q, k)
    BY <1>3, <1>4
  <2> HIDE DEF k
  <2> QED BY <1>5, <2>1, <2>2, <2>3
<1>7. s <= d + Times(<<"DOWN", p>>, r, Len(r)) - Times(<<"UP", p>>, r, Len(r))
  <2>1. Len(r) \in 0..Len(r) /\ (IF Len(r) <= L THEN Len(r) ELSE L) = L
    BY <1>2
  <2>2. /\ Times(<<"UP", p>>, r, Len(r)) = Times(<<"UP", p>>, q, L)
        /\ Times(<<"DOWN", p>>, r, Len(r)) = Times(<<"DOWN", p>>, q, L)
    BY <1>3, <1>4, <2>1
  <2> QED BY <1>5, <2>2
<1> QED BY <1>2, <1>6, <1>7 DEF Paired, r

\* A push either drops nothing or says that it did.
LEMMA PushAppends ==
  ASSUME NativeTypeOK, NEW events \in Seq(Events), Push(events)
  PROVE  /\ queue' \in Seq(Events) /\ Len(queue') <= MaxQueued /\ lost' \in BOOLEAN
         /\ ~lost' => ~lost /\ queue' = queue \o events
<1> DEFINE both == queue \o events
           upto == IF Len(both) < MaxQueued THEN Len(both) ELSE MaxQueued
<1>1. both \in Seq(Events) /\ Len(both) \in Nat /\ MaxQueued \in Nat /\ lost \in BOOLEAN
  BY SimpleNativeAssumption DEF NativeTypeOK
<1>2. queue' = SubSeq(both, 1, upto) /\ lost' = (lost \/ Len(both) > MaxQueued)
  BY DEF Push, Pushed
<1> HIDE DEF both
<1>3. upto \in Nat /\ upto <= Len(both) /\ upto <= MaxQueued
  BY <1>1
<1>4. Len(both) <= MaxQueued => upto = Len(both)
  BY <1>1
<1> HIDE DEF upto
<1>5. SubSeq(both, 1, upto) \in Seq(Events) /\ Len(SubSeq(both, 1, upto)) = upto
  <2>1. \A i \in 1..upto : both[i] \in Events
    BY <1>1, <1>3
  <2>2. /\ SubSeq(both, 1, upto) \in Seq(Events)
        /\ Len(SubSeq(both, 1, upto)) = IF 1 <= upto THEN upto - 1 + 1 ELSE 0
    BY <1>3, <2>1, SubSeqProperties
  <2> QED BY <1>3, <2>2
<1>6. SubSeq(both, 1, Len(both)) = both
  BY <1>1, SubSeqFull
<1>7. ~lost' => Len(both) <= MaxQueued /\ ~lost
  <2>1. ~lost' => ~(Len(both) > MaxQueued) /\ ~lost
    BY <1>2
  <2>2. ~(Len(both) > MaxQueued) => Len(both) <= MaxQueued
    BY <1>1
  <2> QED BY <2>1, <2>2
<1>8. lost' \in BOOLEAN
  BY <1>1, <1>2
<1> QED BY <1>2, <1>3, <1>4, <1>5, <1>6, <1>7, <1>8 DEF both

-------------------------------------------------------------------------------
(* SimpleNative: types *)

\* What each handler pushes.
LEMMA EventsPushed ==
  ASSUME NEW p \in Pointers, NEW n \in Nat
  PROVE  /\ <<<<"DOWN", p>>>> \in Seq(Events) /\ <<Misc>> \in Seq(Events)
         /\ <<>> \o <<<<"UP", p>>>> \in Seq(Events) /\ <<Tap>> \o <<<<"UP", p>>>> \in Seq(Events)
<1>1. <<"UP", p>> \in Events /\ <<"DOWN", p>> \in Events /\ Misc \in Events /\ Tap \in Events
  BY MiscIsEvent DEF Events
<1>2. /\ <<>> \in Seq(Events) /\ <<<<"UP", p>>>> \in Seq(Events) /\ <<Misc>> \in Seq(Events)
      /\ <<Tap>> \in Seq(Events)
  BY <1>1
<1>3. <<>> \o <<<<"UP", p>>>> \in Seq(Events) /\ <<Tap>> \o <<<<"UP", p>>>> \in Seq(Events)
  BY <1>2, ConcatProperties
<1> QED BY <1>1, <1>2, <1>3

\* A move pushes as many events as it has pointers with a slot.
LEMMA MovesPushed ==
  ASSUME NEW ps \in SUBSET Pointers
  PROVE  [i \in 1..Cardinality({p \in ps : FirstSlot(p) # {}}) |-> Misc] \in Seq({Misc})
<1> DEFINE n == Cardinality({p \in ps : FirstSlot(p) # {}})
<1>1. n \in Nat
  BY SimpleNativeAssumption, FS_Subset, FS_CardinalityType
<1> HIDE DEF n
<1>2. \A m \in Nat : [1..m -> {Misc}] \subseteq Seq({Misc})
  BY SeqDef, Zenon
<1>3. [i \in 1..n |-> Misc] \in [1..n -> {Misc}]
  OBVIOUS
<1>4. [i \in 1..n |-> Misc] \in Seq({Misc})
  BY <1>1, <1>2, <1>3, Zenon
<1> QED BY <1>4 DEF n

\* What the application reads: an event whose second part is what its kind says.
LEMMA InputParts ==
  ASSUME NativeTypeOK, ReadInput
  PROVE  /\ input' \in Seq(Inputs) /\ Head(input) \in Inputs
         /\ Head(input)[1] \in {"DOWN", "UP"} => Head(input)[2] \in Pointers
         /\ Head(input)[1] = "MOVE" => Head(input)[2] \in SUBSET Pointers
<1>1. input \in Seq(Inputs) /\ input # <<>> /\ input' = Tail(input)
  BY DEF ReadInput, NativeTypeOK
<1>2. input' \in Seq(Inputs) /\ Head(input) \in Inputs
  BY <1>1
<1> QED BY <1>2 DEF Inputs

LEMMA NativeTypes == NativeTypeOK /\ [NativeNext]_nativeVars => NativeTypeOK'
<1> SUFFICES ASSUME NativeTypeOK, [NativeNext]_nativeVars PROVE NativeTypeOK'
  OBVIOUS
<1>0. /\ life \in [hasWindow : BOOLEAN, hasFocus : BOOLEAN]
      /\ input \in Seq(Inputs) /\ inputs \in 0..MaxInputs /\ fingers \subseteq Pointers
      /\ slots \in [1..MaxPointers -> Pointers \cup {NoId}]
      /\ queue \in Seq(Events) /\ Len(queue) <= MaxQueued
      /\ lost \in BOOLEAN /\ stop \in BOOLEAN /\ down \in [Pointers -> Int]
      /\ taps \in Nat /\ tapCount \in Nat
  BY DEF NativeTypeOK
<1>1. ASSUME UNCHANGED native PROVE NativeTypeOK'
  BY <1>0, <1>1 DEF native, NativeTypeOK
<1>2. ASSUME NEW c, NativeHandle(c) PROVE NativeTypeOK'
  <2>1. life' \in [hasWindow : BOOLEAN, hasFocus : BOOLEAN]
    BY <1>0, <1>2 DEF NativeHandle
  <2>2. queue' \in Seq(Events) /\ Len(queue') <= MaxQueued /\ lost' \in BOOLEAN
    <3>1. CASE Push(<<Misc>>)
      <4>1. <<Misc>> \in Seq(Events)
        BY MiscIsEvent
      <4> QED BY <3>1, <4>1, PushAppends
    <3>2. CASE UNCHANGED <<queue, lost>>
      BY <1>0, <3>2
    <3> QED BY <1>2, <3>1, <3>2 DEF NativeHandle
  <2> QED BY <1>0, <1>2, <2>1, <2>2 DEF NativeHandle, NativeTypeOK
<1>3. ASSUME Touch PROVE NativeTypeOK'
  <2>1. fingers' \subseteq Pointers /\ \E e \in Inputs : input' = Append(input, e)
    BY <1>0, <1>3 DEF Touch, Comes, Other, Inputs
  <2>2. input' \in Seq(Inputs)
    BY <1>0, <2>1
  <2>3. inputs' \in 0..MaxInputs
    BY <1>0, <1>3, SimpleNativeAssumption DEF Touch
  <2> QED BY <1>0, <1>3, <2>1, <2>2, <2>3 DEF Touch, NativeTypeOK
<1>4. ASSUME GlueTakesInput PROVE NativeTypeOK'
  BY <1>0, <1>4 DEF GlueTakesInput, NativeTypeOK
<1>5. ASSUME ReadInput PROVE NativeTypeOK'
  <2> DEFINE pushed == queue' \in Seq(Events) /\ Len(queue') <= MaxQueued /\ lost' \in BOOLEAN
             kept == slots' \in [1..MaxPointers -> Pointers \cup {NoId}] /\ taps' \in Nat
  <2>1. ASSUME NEW events \in Seq(Events), Push(events) PROVE pushed
    BY <2>1, PushAppends
  <2>2. ASSUME PushNothing PROVE pushed /\ kept
    BY <1>0, <2>2 DEF PushNothing
  <2>3. ASSUME NEW p \in Pointers, HandleDown(p) PROVE pushed /\ kept
    BY <1>0, <2>1, <2>2, <2>3, EventsPushed DEF HandleDown
  <2>4. ASSUME NEW p \in Pointers, HandleUp(p) PROVE pushed /\ kept
    <3>1. ASSUME NEW s \in FirstSlot(p), NEW tap \in {<<>>, <<Tap>>}, Push(tap \o <<<<"UP", p>>>>),
                 taps' = taps + Len(tap), slots' = [slots EXCEPT ![s] = NoId]
          PROVE  pushed /\ kept
      <4>1. tap \o <<<<"UP", p>>>> \in Seq(Events)
        BY EventsPushed
      <4>2. taps' \in Nat
        BY <1>0, <3>1
      <4>3. kept
        BY <1>0, <3>1, <4>2
      <4> QED BY <2>1, <3>1, <4>1, <4>3
    <3> HIDE DEF pushed, kept
    <3> QED BY <2>2, <2>4, <3>1 DEF HandleUp
  <2>5. ASSUME NEW ps \in SUBSET Pointers, HandleMove(ps) PROVE pushed /\ kept
    <3>1. /\ [i \in 1..Cardinality({p \in ps : FirstSlot(p) # {}}) |-> Misc] \in Seq(Events)
          /\ UNCHANGED <<slots, taps>>
      BY <2>5, MiscIsEvent, MovesPushed, SeqMonotonic DEF HandleMove
    <3> QED BY <1>0, <2>1, <2>5, <3>1 DEF HandleMove
  <2>6. ASSUME HandleCancel PROVE pushed /\ kept
    BY <1>0, <2>6 DEF HandleCancel, NoSlots
  <2>7. ASSUME HandleKey PROVE pushed /\ kept
    <3>1. <<Misc, Other("BACK")>> \in Seq(Events)
      BY MiscIsEvent
    <3>2. Push(<<Misc, Other("BACK")>>) /\ UNCHANGED <<slots, taps>>
      BY <2>7 DEF HandleKey
    <3>3. pushed
      BY <2>1, <3>1, <3>2
    <3> QED BY <1>0, <3>2, <3>3
  <2>8. pushed /\ kept
    <3> DEFINE kind == Head(input)[1]
               p == Head(input)[2]
    <3>1. /\ kind \in {"DOWN", "UP"} => p \in Pointers
          /\ kind = "MOVE" => p \in SUBSET Pointers
      BY <1>5, InputParts
    <3>2. \/ kind = "DOWN" /\ HandleDown(p)
          \/ kind = "UP" /\ HandleUp(p)
          \/ kind = "MOVE" /\ HandleMove(p)
          \/ HandleCancel
          \/ HandleKey
      BY <1>5 DEF ReadInput
    <3> HIDE DEF kind, p, pushed, kept
    <3> QED BY <2>3, <2>4, <2>5, <2>6, <2>7, <3>1, <3>2
  <2>9. input' \in Seq(Inputs)
    BY <1>5, InputParts
  <2> QED BY <1>0, <1>5, <2>8, <2>9 DEF ReadInput, NativeTypeOK
<1>6. ASSUME Tick PROVE NativeTypeOK'
  <2>1. ASSUME NEW e PROVE Count(e) \in Nat
    <3>1. Len(queue) \in Nat
      BY <1>0
    <3> QED BY <3>1, TimesStep DEF Count
  <2>2. queue' \in Seq(Events) /\ Len(queue') <= MaxQueued
    <3>1. CASE Ticking(life)
      <4>1. queue' = <<>> /\ MaxQueued \in Nat
        BY <1>6, <3>1, SimpleNativeAssumption DEF Tick
      <4> QED BY <4>1
    <3>2. CASE ~Ticking(life)
      BY <1>0, <1>6, <3>2 DEF Tick
    <3> QED BY <3>1, <3>2
  <2>3. stop' \in BOOLEAN
    BY <1>0, <1>6 DEF Tick
  <2>4. down' \in [Pointers -> Int]
    <3>1. CASE Ticking(life)
      <4>1. down' = [p \in Pointers |->
                       down[p] + Count(<<"DOWN", p>>) - Count(<<"UP", p>>)]
        BY <1>6, <3>1 DEF Tick
      <4>2. ASSUME NEW p \in Pointers
            PROVE  down[p] + Count(<<"DOWN", p>>) - Count(<<"UP", p>>) \in Int
        BY <1>0, <2>1
      <4> QED BY <4>1, <4>2
    <3>2. CASE ~Ticking(life)
      BY <1>0, <1>6, <3>2 DEF Tick
    <3> QED BY <3>1, <3>2
  <2>5. tapCount' \in Nat
    <3>1. Cardinality({i \in DOMAIN queue : queue[i][1] = "UP"}) \in Nat
      <4>1. DOMAIN queue = 1..Len(queue) /\ Len(queue) \in Nat
        BY <1>0
      <4>2. IsFiniteSet(DOMAIN queue)
        BY <4>1, FS_Interval
      <4>3. {i \in DOMAIN queue : queue[i][1] = "UP"} \in SUBSET DOMAIN queue
        OBVIOUS
      <4> QED BY <4>2, <4>3, FS_Subset, FS_CardinalityType
    <3> QED BY <1>0, <1>6, <3>1 DEF Tick
  <2> QED BY <1>0, <1>6, <2>2, <2>3, <2>4, <2>5 DEF Tick, NativeTypeOK
<1> QED BY <1>1, <1>2, <1>3, <1>4, <1>5, <1>6
        DEF NativeNext, NativeThread, NativeEnvironment, NativeCommand, NativeExit, nativeVars

-------------------------------------------------------------------------------
(* SimpleNative: slots and touches *)

\* The pairing, pointer by pointer.
LEMMA NativeInvPaired ==
  NativeInv <=> NativeTypeOK /\ (~lost => \A p \in Pointers : Paired(queue, p, Owed(p), Held(p)))
BY DEF NativeInv, TouchesArePaired, SlotsArePressed, Paired, Count, Owed

LEMMA IdsAreNumbers == ASSUME NEW p \in Pointers PROVE p # NoId
BY SimpleNativeAssumption DEF NoId

LEMMA NativeInvPairedNext ==
  ASSUME NativeTypeOK', \A p \in Pointers : ~lost' => Paired(queue', p, Owed(p)', Held(p)')
  PROVE  NativeInv'
BY DEF NativeInv, TouchesArePaired, SlotsArePressed, Paired, Count, Owed

LEMMA HeldIsNumber ==
  ASSUME NEW p
  PROVE  IsFiniteSet({s \in 1..MaxPointers : slots[s] = p}) /\ Held(p) \in Nat
<1>1. IsFiniteSet(1..MaxPointers)
  <2>1. PICK m \in Int : m = MaxPointers
    BY SimpleNativeAssumption
  <2>2. IsFiniteSet(1..m)
    BY FS_Interval
  <2> QED BY <2>1, <2>2
<1>2. IsFiniteSet({s \in 1..MaxPointers : slots[s] = p})
  BY <1>1, FS_Subset
<1> QED BY <1>2, FS_CardinalityType DEF Held

\* A slot that is given to a pointer, or freed.
LEMMA HeldChanges ==
  ASSUME NativeTypeOK, NEW s \in 1..MaxPointers, NEW id, slots[s] # id,
         slots' = [slots EXCEPT ![s] = id], NEW p
  PROVE  Held(p)' = IF p = id THEN Held(p) + 1
                    ELSE IF p = slots[s] THEN Held(p) - 1 ELSE Held(p)
<1> DEFINE S == {t \in 1..MaxPointers : slots[t] = p}
           T == {t \in 1..MaxPointers : slots'[t] = p}
<1>1. \A t \in 1..MaxPointers : slots'[t] = IF t = s THEN id ELSE slots[t]
  BY DEF NativeTypeOK
<1>2. Held(p) = Cardinality(S) /\ Held(p)' = Cardinality(T) /\ IsFiniteSet(S) /\ Held(p) \in Nat
  BY HeldIsNumber DEF Held
<1>3. CASE p = id
  <2>1. T = S \cup {s} /\ s \notin S
    BY <1>1, <1>3
  <2> HIDE DEF S, T
  <2> QED BY <1>2, <1>3, <2>1, FS_AddElement
<1>4. CASE p # id /\ p = slots[s]
  <2>1. T = S \ {s} /\ s \in S
    BY <1>1, <1>4
  <2> HIDE DEF S, T
  <2>2. Cardinality(S \ {s}) = Cardinality(S) - 1
    BY <1>2, <2>1, FS_RemoveElement
  <2> QED BY <1>2, <1>4, <2>1, <2>2
<1>5. CASE p # id /\ p # slots[s]
  <2>1. T = S
    BY <1>1, <1>5
  <2> QED BY <1>2, <1>5, <2>1
<1> QED BY <1>3, <1>4, <1>5

\* An event that is pushed, alone or after one that has no pointer or is a tap.
LEMMA EventKeeps ==
  ASSUME NativeInv, NativeTypeOK', UNCHANGED down,
         NEW first \in {<<>>, <<Misc>>, <<Tap>>}, NEW x \in Events, Push(first \o <<x>>),
         taps' = taps + (IF first = <<Tap>> THEN 1 ELSE 0),
         \A p \in Pointers : Held(p)' = SlotsAfter(x, p, Held(p)),
         \A p \in Pointers : x = <<"UP", p>> => Held(p) > 0
  PROVE  NativeInv'
<1>1. queue \in Seq(Events) /\ NativeTypeOK
  BY DEF NativeInv, NativeTypeOK
<1>2. first \in Seq(Events) /\ <<x>> \in Seq(Events) /\ first \o <<x>> \in Seq(Events)
  <2>1. Misc \in Events /\ Tap \in Events
    BY MiscIsEvent
  <2>2. /\ <<>> \in Seq(Events) /\ <<Misc>> \in Seq(Events) /\ <<Tap>> \in Seq(Events)
        /\ <<x>> \in Seq(Events)
    BY <2>1
  <2>3. first \in Seq(Events)
    BY <2>2, Zenon
  <2> QED BY <2>2, <2>3, ConcatProperties
<1>3. ~lost' => ~lost /\ queue' = queue \o (first \o <<x>>)
  BY <1>1, <1>2, PushAppends
<1>4. queue \o (first \o <<x>>) = Append(queue \o first, x) /\ queue \o first \in Seq(Events)
  <2>1. queue \o (first \o <<x>>) = (queue \o first) \o <<x>>
    BY <1>1, <1>2, ConcatAssociative
  <2>2. queue \o first \in Seq(Events)
    BY <1>1, <1>2
  <2> QED BY <2>1, <2>2, AppendIsConcat
<1>5. ASSUME ~lost', NEW p \in Pointers PROVE Paired(queue', p, Owed(p)', Held(p)')
  <2>1. Paired(queue, p, Owed(p), Held(p)) /\ Owed(p) \in Int /\ Held(p) \in Nat
    BY <1>1, <1>3, <1>5, NativeInvPaired, HeldIsNumber, OwedIsNumber
  <2>2. Paired(queue \o first, p, Owed(p)', Held(p)) /\ Owed(p)' \in Int
    <3>1. CASE first = <<Tap>>
      <4>1. queue \o first = Append(queue, Tap)
        BY <1>1, <3>1, MiscIsEvent, AppendIsConcat
      <4>2. Owed(p)' = IF p = 0 THEN Owed(p) + 1 ELSE Owed(p)
        BY <1>1, <3>1, OwedIsNumber DEF Owed, ExtraUps
      <4>3. Paired(Append(queue, Tap), p, IF p = 0 THEN Owed(p) + 1 ELSE Owed(p), Held(p))
        BY <1>1, <2>1, TapKeepsPaired
      <4> QED BY <2>1, <4>1, <4>2, <4>3
    <3>2. CASE first # <<Tap>>
      <4>1. first \in Seq({Misc})
        <5>1. <<>> \in Seq({Misc}) /\ <<Misc>> \in Seq({Misc})
          OBVIOUS
        <5> QED BY <3>2, <5>1
      <4>2. Owed(p)' = Owed(p)
        BY <1>1, <3>2, OwedIsNumber DEF Owed, ExtraUps
      <4> QED BY <1>1, <2>1, <4>1, <4>2, OthersKeepPaired
    <3> QED BY <3>1, <3>2
  <2>3. x = <<"UP", p>> => Held(p) > 0
    OBVIOUS
  <2>4. Paired(Append(queue \o first, x), p, Owed(p)', SlotsAfter(x, p, Held(p)))
    BY <1>4, <2>1, <2>2, <2>3, AppendKeepsPaired
  <2> QED BY <1>3, <1>4, <1>5, <2>4
<1> QED BY <1>5, NativeInvPairedNext

\* The steps that push nothing, or nothing with a pointer: the slots are as they were, or none
\* is left.
LEMMA OthersKeep ==
  ASSUME NativeInv, NativeTypeOK', UNCHANGED <<down, taps>>,
         \/ UNCHANGED <<queue, lost>>
         \/ \E m \in Seq({Misc}) : Push(m),
         UNCHANGED slots \/ slots' = NoSlots
  PROVE  NativeInv'
<1>1. queue \in Seq(Events) /\ NativeTypeOK
  BY DEF NativeInv, NativeTypeOK
<1>0. ASSUME NEW p PROVE Owed(p)' = Owed(p)
  BY DEF Owed, ExtraUps
<1>2. ASSUME NEW p \in Pointers PROVE Held(p)' \in {Held(p), 0}
  <2>1. CASE UNCHANGED slots
    BY <2>1 DEF Held
  <2>2. CASE slots' = NoSlots
    <3>1. {s \in 1..MaxPointers : slots'[s] = p} = {}
      BY <2>2, IdsAreNumbers DEF NoSlots
    <3>2. Held(p)' = Cardinality({s \in 1..MaxPointers : slots'[s] = p})
      BY DEF Held
    <3> QED BY <3>1, <3>2, FS_EmptySet
  <2> QED BY <2>1, <2>2
<1>3. ASSUME ~lost', NEW p \in Pointers
      PROVE  ~lost /\ Paired(queue', p, Owed(p), Held(p))
  <2>1. CASE UNCHANGED <<queue, lost>>
    BY <1>3, <2>1, NativeInvPaired
  <2>2. ASSUME NEW m \in Seq({Misc}), Push(m) PROVE ~lost /\ Paired(queue', p, Owed(p), Held(p))
    <3>1. m \in Seq(Events)
      BY MiscIsEvent, SeqMonotonic
    <3>2. ~lost /\ queue' = queue \o m
      BY <1>3, <2>2, <3>1, PushAppends DEF NativeInv
    <3> QED BY <1>1, <3>2, NativeInvPaired, OthersKeepPaired
  <2> QED BY <2>1, <2>2
<1>4. ASSUME ~lost', NEW p \in Pointers PROVE Paired(queue', p, Owed(p)', Held(p)')
  <2> DEFINE up == Times(<<"UP", p>>, queue', Len(queue'))
             press == Times(<<"DOWN", p>>, queue', Len(queue'))
  <2>1. /\ \A n \in 0..Len(queue') : Times(<<"UP", p>>, queue', n) <= Owed(p) + Times(<<"DOWN", p>>, queue', n)
        /\ Held(p) <= Owed(p) + press - up
    BY <1>3, <1>4 DEF Paired
  <2>2. Owed(p) \in Int /\ Held(p) \in Nat /\ up \in Nat /\ press \in Nat
    <3>1. Len(queue') \in Nat
      BY DEF NativeTypeOK
    <3> QED BY <1>1, <3>1, HeldIsNumber, OwedIsNumber, TimesStep
  <2>3. Held(p)' <= Owed(p) + press - up
    <3> HIDE DEF up, press
    <3> QED BY <1>2, <2>1, <2>2
  <2> QED BY <1>0, <2>1, <2>3 DEF Paired
<1> QED BY <1>4, NativeInvPairedNext

\* A press takes a slot for its pointer, the release of one with a slot frees it.
LEMMA ReadInputKeeps == ASSUME NativeInv, ReadInput, NativeTypeOK' PROVE NativeInv'
<1>0. NativeTypeOK /\ UNCHANGED down /\ taps \in Nat
  BY DEF NativeInv, NativeTypeOK, ReadInput
<1>1. ASSUME PushNothing PROVE NativeInv'
  BY <1>0, <1>1, OthersKeep DEF PushNothing
<1>2. ASSUME NEW p \in Pointers, NEW s \in FirstSlot(NoId), Push(<<<<"DOWN", p>>>>),
             slots' = [slots EXCEPT ![s] = p], taps' = taps
      PROVE  NativeInv'
  <2> DEFINE x == <<"DOWN", p>>
  <2>1. x \in Events /\ <<>> \o <<x>> = <<x>>
    <3>1. x \in Events
      BY DEF Events
    <3> QED BY <3>1, ConcatEmptySeq
  <2>2. s \in 1..MaxPointers /\ slots[s] = NoId /\ p # NoId
    BY IdsAreNumbers DEF FirstSlot
  <2>3. \A o \in Pointers : Held(o)' = IF o = p THEN Held(o) + 1 ELSE Held(o)
    BY <1>0, <1>2, <2>2, HeldChanges, IdsAreNumbers
  <2>4. \A o \in Pointers : x # <<"UP", o>> /\ (x = <<"DOWN", o>> <=> o = p)
    OBVIOUS
  <2>5. \A o \in Pointers : Held(o)' = SlotsAfter(x, o, Held(o))
    BY <2>3, <2>4 DEF SlotsAfter
  <2>6. Push(<<>> \o <<x>>)
    BY <1>2, <2>1
  <2>7. <<>> # <<Tap>>
    OBVIOUS
  <2>8. taps' = taps + (IF <<>> = <<Tap>> THEN 1 ELSE 0)
    BY <1>0, <1>2, <2>7
  <2> QED BY <1>0, <2>1, <2>4, <2>5, <2>6, <2>8, EventKeeps
<1>3. ASSUME NEW p \in Pointers, NEW s \in FirstSlot(p), NEW tap \in {<<>>, <<Tap>>},
             Push(tap \o <<<<"UP", p>>>>), taps' = taps + Len(tap), slots' = [slots EXCEPT ![s] = NoId]
      PROVE  NativeInv'
  <2> DEFINE x == <<"UP", p>>
  <2>1. x \in Events
    BY DEF Events
  <2>2. s \in 1..MaxPointers /\ slots[s] = p /\ p # NoId
    BY IdsAreNumbers DEF FirstSlot
  <2>3. \A o \in Pointers : Held(o)' = IF o = p THEN Held(o) - 1 ELSE Held(o)
    BY <1>0, <1>3, <2>2, HeldChanges, IdsAreNumbers
  <2>4. \A o \in Pointers : x # <<"DOWN", o>> /\ (x = <<"UP", o>> <=> o = p)
    OBVIOUS
  <2>5. \A o \in Pointers : Held(o)' = SlotsAfter(x, o, Held(o))
    BY <2>3, <2>4 DEF SlotsAfter
  <2>6. Held(p) > 0
    <3>1. s \in {t \in 1..MaxPointers : slots[t] = p}
      BY <2>2
    <3>2. Cardinality({t \in 1..MaxPointers : slots[t] = p}) # 0
      BY <3>1, HeldIsNumber, FS_EmptySet
    <3>3. Held(p) \in Nat /\ Held(p) # 0
      BY <3>2, HeldIsNumber DEF Held
    <3> QED BY <3>3
  <2>7. taps' = taps + (IF tap = <<Tap>> THEN 1 ELSE 0)
    <3>1. Len(<<>>) = 0 /\ Len(<<Tap>>) = 1 /\ <<>> # <<Tap>>
      OBVIOUS
    <3> QED BY <1>3, <3>1
  <2> QED BY <1>0, <1>3, <2>1, <2>4, <2>5, <2>6, <2>7, EventKeeps
<1>4. ASSUME NEW p \in Pointers, HandleDown(p) PROVE NativeInv'
  BY <1>1, <1>2, <1>4 DEF HandleDown
<1>5. ASSUME NEW p \in Pointers, HandleUp(p) PROVE NativeInv'
  BY <1>1, <1>3, <1>5 DEF HandleUp
<1>6. ASSUME NEW ps \in SUBSET Pointers, HandleMove(ps) PROVE NativeInv'
  BY <1>0, <1>6, MovesPushed, OthersKeep DEF HandleMove
<1>7. ASSUME HandleCancel PROVE NativeInv'
  BY <1>0, <1>7, OthersKeep DEF HandleCancel
<1>8. ASSUME HandleKey PROVE NativeInv'
  <2> DEFINE x == Other("BACK")
  <2>1. UNCHANGED <<slots, taps>> /\ Push(<<Misc, x>>)
    BY <1>8 DEF HandleKey
  <2>2. <<Misc, x>> = <<Misc>> \o <<x>> /\ x \in Events
    BY MiscIsEvent
  <2>3. \A o \in Pointers : x # <<"DOWN", o>> /\ x # <<"UP", o>>
    BY ToOnlyAPointer
  <2>4. \A o \in Pointers : Held(o)' = SlotsAfter(x, o, Held(o))
    BY <2>1, <2>3 DEF SlotsAfter, Held
  <2>5. <<Misc>> # <<Tap>>
    BY ToOnlyAPointer DEF Misc, Tap
  <2>6. taps' = taps + (IF <<Misc>> = <<Tap>> THEN 1 ELSE 0)
    BY <1>0, <2>1, <2>5
  <2> HIDE DEF x
  <2> QED BY <1>0, <2>1, <2>2, <2>3, <2>4, <2>6, EventKeeps
<1> QED BY <1>0, <1>4, <1>5, <1>6, <1>7, <1>8, InputParts DEF ReadInput

\* All events are handled: what was pushed and is pressed is now what was handled and is.
LEMMA TickKeeps == ASSUME NativeInv, Tick, NativeTypeOK' PROVE NativeInv'
<1>1. /\ UNCHANGED <<slots, taps, lost>> /\ queue \in Seq(Events) /\ down \in [Pointers -> Int]
      /\ NativeTypeOK
      /\ Len(queue) \in Nat
  BY DEF Tick, NativeInv, NativeTypeOK
<1>2. CASE Ticking(life)
  <2>1. /\ queue' = <<>>
        /\ down' = [p \in Pointers |->
                      down[p] + Count(<<"DOWN", p>>) - Count(<<"UP", p>>)]
    BY <1>2 DEF Tick
  <2>2. ASSUME ~lost', NEW p \in Pointers PROVE Paired(queue', p, Owed(p)', Held(p)')
    <3>1. Paired(queue, p, Owed(p), Held(p)) /\ Held(p)' = Held(p) /\ Held(p) \in Nat
      BY <1>1, <2>2, NativeInvPaired, HeldIsNumber DEF Held
    <3>2. Count(<<"DOWN", p>>) \in Nat /\ Count(<<"UP", p>>) \in Nat /\ Owed(p) \in Int
      BY <1>1, TimesStep, OwedIsNumber DEF Count
    <3>3. Owed(p)' = Owed(p) + Count(<<"DOWN", p>>) - Count(<<"UP", p>>)
      <4>1. down'[p] = down[p] + Count(<<"DOWN", p>>) - Count(<<"UP", p>>) /\ taps' = taps
        BY <1>1, <2>1
      <4>2. ExtraUps(p)' = ExtraUps(p) /\ ExtraUps(p) \in Int /\ down[p] \in Int
        BY <1>1, OwedIsNumber DEF ExtraUps
      <4> HIDE DEF ExtraUps
      <4> QED BY <3>2, <4>1, <4>2 DEF Owed
    <3>4. Held(p) <= Owed(p)' /\ Owed(p)' \in Int
      BY <3>1, <3>2, <3>3 DEF Paired, Count
    <3>5. Len(queue') = 0 /\ \A e : Times(e, queue', 0) = 0
      BY <2>1, TimesStep
    <3>6. \A n \in 0..Len(queue') :
            Times(<<"UP", p>>, queue', n) <= Owed(p)' + Times(<<"DOWN", p>>, queue', n)
      <4> SUFFICES ASSUME NEW n \in 0..Len(queue')
                   PROVE  Times(<<"UP", p>>, queue', n) <= Owed(p)' + Times(<<"DOWN", p>>, queue', n)
        OBVIOUS
      <4>1. n = 0
        BY <3>5
      <4> QED BY <3>1, <3>4, <3>5, <4>1
    <3> QED BY <3>1, <3>4, <3>5, <3>6 DEF Paired
  <2> QED BY <2>2, NativeInvPairedNext
<1>3. CASE ~Ticking(life)
  <2>1. UNCHANGED <<queue, down>>
    BY <1>3 DEF Tick
  <2> QED BY <1>1, <2>1, OthersKeep
<1> QED BY <1>2, <1>3

LEMMA NativeInitKeeps == SimpleNativeInit => NativeInv
<1> SUFFICES ASSUME SimpleNativeInit PROVE NativeInv
  OBVIOUS
<1>1. /\ input = <<>> /\ queue = <<>> /\ fingers = {} /\ lost = FALSE
      /\ slots = NoSlots /\ down = [p \in Pointers |-> 0] /\ taps = 0 /\ tapCount = 0
  BY DEF SimpleNativeInit, NativeInit
<1>2. NativeTypeOK
  <2>1. /\ MaxQueued \in Nat /\ MaxInputs \in Nat /\ inputs = 0 /\ stop = FALSE
        /\ life = [hasWindow |-> FALSE, hasFocus |-> FALSE]
    BY SimpleNativeAssumption DEF SimpleNativeInit, NativeInit
  <2>2. queue \in Seq(Events) /\ Len(queue) = 0 /\ input \in Seq(Inputs)
    BY <1>1
  <2>3. slots \in [1..MaxPointers -> Pointers \cup {NoId}]
    BY <1>1 DEF NoSlots
  <2>4. Len(queue) <= MaxQueued /\ inputs \in 0..MaxInputs
    BY <2>1, <2>2
  <2>5. fingers \subseteq Pointers /\ lost \in BOOLEAN
    BY <1>1
  <2>6. down \in [Pointers -> Int] /\ taps \in Nat /\ tapCount \in Nat
    BY <1>1
  <2>7. life \in [hasWindow : BOOLEAN, hasFocus : BOOLEAN] /\ stop \in BOOLEAN
    BY <2>1
  <2> QED BY <2>2, <2>3, <2>4, <2>5, <2>6, <2>7 DEF NativeTypeOK
<1>3. ASSUME NEW p \in Pointers PROVE Paired(queue, p, Owed(p), Held(p))
  <2>1. {s \in 1..MaxPointers : slots[s] = p} = {}
    BY <1>1, IdsAreNumbers DEF NoSlots
  <2>2. Held(p) = 0 /\ Owed(p) = 0 /\ Len(queue) = 0
    BY <1>1, <2>1, FS_EmptySet DEF Held, Owed, ExtraUps
  <2>3. \A e : Times(e, queue, 0) = 0
    BY TimesStep
  <2> QED BY <2>2, <2>3 DEF Paired
<1> QED BY <1>2, <1>3, NativeInvPaired

LEMMA NativeQuiet == ASSUME NativeInv, UNCHANGED native PROVE NativeInv'
<1>1. NativeTypeOK'
  BY DEF NativeInv, NativeTypeOK, native
<1> QED BY <1>1, OthersKeep DEF native

LEMMA NativeInvKeeps == NativeInv /\ [NativeNext]_nativeVars => NativeInv'
<1> SUFFICES ASSUME NativeInv, [NativeNext]_nativeVars PROVE NativeInv'
  OBVIOUS
<1>1. NativeTypeOK'
  BY NativeTypes DEF NativeInv
<1>2. ASSUME UNCHANGED <<slots, taps, queue, lost, down>> PROVE NativeInv'
  BY <1>1, <1>2, OthersKeep
<1>3. ASSUME NEW c, NativeHandle(c) PROVE NativeInv'
  <2>1. <<Misc>> \in Seq({Misc})
    OBVIOUS
  <2> QED BY <1>1, <1>3, <2>1, OthersKeep DEF NativeHandle
<1> QED BY <1>1, <1>2, <1>3, ReadInputKeeps, TickKeeps
        DEF NativeNext, NativeThread, NativeEnvironment, NativeCommand, NativeExit,
            Touch, GlueTakesInput, nativeVars, native

LEMMA NativeInvariant == NativeSpec => []NativeInv
BY NativeInitKeeps, NativeInvKeeps, PTL DEF NativeSpec

\* For any number of pointers, slots and events: as long as the event queue was never full, the
\* StateManager is told of no more releases of a pointer than of its presses, but that pointer
\* 0 is released once more for every tap of any pointer (TouchesArePaired).
THEOREM TouchesPaired == NativeSpec => []TouchesArePaired
<1>1. NativeInv => TouchesArePaired
  BY DEF NativeInv
<1> QED BY <1>1, NativeInvariant, PTL

\* The glue, under the steps of simple-native.
LEMMA NativeGlueKeeps == ASSUME GlueInv, NativeTypeOK, [NativeNext]_nativeVars PROVE GlueInv'
<1>1. CASE UNCHANGED glue
  BY <1>1, PollKeeps
<1>2. CASE NativeThread
  <2>1. CASE Tick
    <3>1. Ticking(life) \in BOOLEAN /\ stop' \in BOOLEAN
      BY <2>1 DEF NativeTypeOK, Ticking, Tick
    <3> QED BY <2>1, <3>1, PollKeeps DEF Tick
  <2>2. CASE NativeCommand
    BY <2>2, TakeKeeps DEF NativeCommand
  <2>3. CASE NativeExit \/ PollEnds
    BY <2>3, PollKeeps DEF NativeExit
  <2>4. CASE GlueTakesInput \/ ReadInput
    BY <1>1, <2>4 DEF GlueTakesInput, ReadInput
  <2> QED BY <1>2, <2>1, <2>2, <2>3, <2>4 DEF NativeThread
<1>3. CASE NativeEnvironment
  BY <1>1, <1>3, SendKeeps, PollKeeps DEF NativeEnvironment, Touch
<1>4. CASE UNCHANGED nativeVars
  BY <1>1, <1>4 DEF nativeVars
<1> QED BY <1>2, <1>3, <1>4 DEF NativeNext

\* The variables of simple-native and of the glue keep their types: among them, the event
\* queue never has more than MAX_QUEUED events, of which each is one that is pushed somewhere,
\* and every slot has a pointer or none.
THEOREM NativeTypeCorrect == NativeSpec => [](GlueTypeOK /\ NativeTypeOK)
<1>1. SimpleNativeInit => GlueInv
  BY GlueInitKeeps DEF SimpleNativeInit
<1>2. GlueInv /\ NativeInv /\ [NativeNext]_nativeVars => GlueInv'
  BY NativeGlueKeeps DEF NativeInv
<1>3. GlueInv /\ NativeInv => GlueTypeOK /\ NativeTypeOK
  BY DEF GlueInv, NativeInv
<1> QED BY <1>1, <1>2, <1>3, NativeInvariant, PTL DEF NativeSpec

-------------------------------------------------------------------------------
(* The three together, as MCExamples has them *)

\* A program that does not run keeps its variables, and what is only about them.
AllInv ==
  /\ GlueInv /\ NativeInv /\ AudioInv /\ GlTypeOK
  /\ program = "gl-triangle" => GlInv

\* Whichever program runs: the variables of the glue and of the three keep their types
\* (TypeOK of MCExamples).
THEOREM ExamplesTypeCorrect == Spec => []TypeOK
<1>1. Init => AllInv
  <2> SUFFICES ASSUME Init PROVE AllInv
    OBVIOUS
  <2>1. SimpleNativeInit /\ GlTriangleInit /\ AudioInit
    BY DEF Init, SimpleNativeInit, GlTriangleInit
  <2>2. SimpleNativeInit => NativeInv
    BY NativeInitKeeps
  <2> QED BY <2>1, <2>2, GlInitKeeps, AudioInitKeeps DEF AllInv, GlInv
<1>2. AllInv /\ [Next]_all => AllInv'
  <2> SUFFICES ASSUME AllInv, [Next]_all PROVE AllInv'
    OBVIOUS
  <2>1. ASSUME NativeNext, UNCHANGED <<program, gl, audio>>, program = "simple-native"
        PROVE  AllInv'
    <3>1. NativeInv' /\ GlueInv'
      BY <2>1, NativeInvKeeps, NativeGlueKeeps DEF AllInv, NativeInv
    <3>2. AudioInv' /\ GlTypeOK'
      BY <2>1, AudioQuiet DEF AllInv, GlTypeOK, gl
    <3> QED BY <2>1, <3>1, <3>2 DEF AllInv
  <2>2. ASSUME GlNext, UNCHANGED <<program, native, audio>>, program = "gl-triangle"
        PROVE  AllInv'
    <3>1. GlInv'
      BY <2>2, GlInvKeeps DEF AllInv
    <3>2. NativeInv' /\ AudioInv'
      BY <2>2, AudioQuiet, NativeQuiet DEF AllInv
    <3> QED BY <3>1, <3>2 DEF AllInv, GlInv
  <2>3. ASSUME AudioNext, UNCHANGED <<program, native, gl>>, program = "audio-sink"
        PROVE  AllInv'
    <3>1. AudioInv' /\ GlueInv'
      BY <2>3, AudioInvKeeps, AudioGlueKeeps DEF AllInv, AudioInv
    <3>2. NativeInv' /\ GlTypeOK'
      BY <2>3, NativeQuiet DEF AllInv, GlTypeOK, gl
    <3> QED BY <2>3, <3>1, <3>2 DEF AllInv
  <2>4. ASSUME UNCHANGED all PROVE AllInv'
    <3>1. GlueInv' /\ NativeInv' /\ AudioInv' /\ GlTypeOK'
      BY <2>4, PollKeeps, NativeQuiet, AudioQuiet DEF all, AllInv, GlTypeOK, gl
    <3>2. program = "gl-triangle" => GlInv'
      BY <2>4, GlQuietKeeps DEF all, AllInv
    <3> QED BY <2>4, <3>1, <3>2 DEF all, AllInv
  <2> QED BY <2>1, <2>2, <2>3, <2>4
          DEF Next, Native, Gl, Audio, NativeNext, GlNext, AudioNext
<1>3. AllInv => TypeOK
  BY DEF AllInv, TypeOK, GlueInv, NativeInv, AudioInv
<1> QED BY <1>1, <1>2, <1>3, PTL DEF Spec
===============================================================================
