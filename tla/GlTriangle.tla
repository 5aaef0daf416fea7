------------------------------ MODULE GlTriangle ------------------------------
(***************************************************************************)
(* abt-tests/02-gl-triangle: EGLHelper, Renderer and what they keep of     *)
(* OpenGL from one window to the next.                                     *)
(*                                                                         *)
(* A context is named by the window it was made for, and an OpenGL name by *)
(* the context that generated it, 0 being none.  A name of another context *)
(* does not exist in the current one: binding such a vertex array fails    *)
(* and leaves the default array bound, while binding such a buffer makes   *)
(* one of that name.                                                       *)
(***************************************************************************)
EXTENDS NativeApp

CONSTANT MaxGlFailures  \* bound: calls of EGL and OpenGL that fail

ASSUME GlTriangleAssumption == MaxGlFailures \in Nat

VARIABLES egl,       \* EGLHelper: ctx, surface; current: whether eglMakeCurrent succeeded
          renderer,  \* Renderer: ready; program; array, the vertex arrays' names
          bound,     \* OpenGL: what a mesh's array holds, and the default array ("none")
          ctx,       \* GlApp: hasFocus, ready
          frame,     \* history: of the last frame, what each mesh was drawn from
          glFailures

gl     == <<egl, renderer, bound, ctx, frame, glFailures>>
glVars == <<glue, gl>>

\* The scene, in the order in which init uploads it.
Meshes == {"triangle", "cube", "sphere"}
LastUploaded == "sphere"

NoFrame == [m \in Meshes |-> "none"]

GlInit ==
  /\ egl = [ctx |-> 0, surface |-> 0, current |-> FALSE]
  /\ renderer = [ready |-> FALSE, program |-> 0, array |-> 0]
  /\ bound = "none"
  /\ ctx = [hasFocus |-> FALSE, ready |-> FALSE]
  /\ frame = NoFrame /\ glFailures = 0
GlTriangleInit == GlueInit /\ GlInit

GlMayFail == glFailures < MaxGlFailures /\ glFailures' = glFailures + 1

-------------------------------------------------------------------------------

IsReady == egl.surface # 0 /\ egl.ctx # 0

\* eglGetDisplay to createSurface: what has been made before the call that fails is kept.
InitFails(win) ==
  /\ GlMayFail
  /\ \/ UNCHANGED egl
     \/ egl' = [egl EXCEPT !.ctx = 0]                        \* eglCreateContext
     \/ egl' = [egl EXCEPT !.ctx = win, !.surface = 0]       \* eglCreateWindowSurface
     \/ egl' = [egl EXCEPT !.ctx = win, !.surface = win]     \* eglMakeCurrent
  /\ UNCHANGED <<renderer, bound, ctx, frame>>

\* Renderer::init.  A program that cannot be built ends it, with the old name gone.  Meshes
\* upload in order: arrays are generated where there is no name yet, and a name of another
\* context leaves the default array holding the last mesh.
RendererFails ==
  /\ GlMayFail
  /\ renderer' = [renderer EXCEPT !.program = 0]
  /\ bound' = "none"
RendererInit(win) ==
  /\ renderer' = [ready |-> TRUE, program |-> win,
                  array |-> IF renderer.array = 0 THEN win ELSE renderer.array]
  /\ bound' = IF renderer'.array = win THEN "none" ELSE LastUploaded
  /\ UNCHANGED glFailures

\* recreateSurface, whose result is not looked at; ready is not set again.
Recreate(win) ==
  /\ \/ egl' = [egl EXCEPT !.surface = win, !.current = TRUE] /\ UNCHANGED glFailures
     \/ GlMayFail /\ \E s \in {0, win} : egl' = [egl EXCEPT !.surface = s, !.current = FALSE]
  /\ UNCHANGED <<renderer, bound, ctx, frame>>

\* APP_CMD_INIT_WINDOW.  Whether the renderer could be set up is not looked at.
InitWindow(win) ==
  \/ IsReady /\ Recreate(win)
  \/ ~IsReady /\ InitFails(win)
  \/ /\ ~IsReady
     /\ egl' = [ctx |-> win, surface |-> win, current |-> TRUE]
     /\ RendererFails \/ RendererInit(win)
     /\ ctx' = [ctx EXCEPT !.ready = TRUE]
     /\ UNCHANGED frame

\* Mutated TermWindow: the surface is left to the system.
TermWindow_keepsSurface ==
  /\ ctx' = [ctx EXCEPT !.ready = FALSE]
  /\ UNCHANGED <<egl, renderer, bound, frame, glFailures>>

\* destroySurface.
TermWindow ==
  /\ egl' = IF egl.surface # 0 THEN [egl EXCEPT !.surface = 0, !.current = FALSE] ELSE egl
  /\ ctx' = [ctx EXCEPT !.ready = FALSE]
  /\ UNCHANGED <<renderer, bound, frame, glFailures>>

\* onAppCmd.  What WINDOW_RESIZED sets, the viewport, is left out.
GlHandle(c) ==
  \/ c = "INIT_WINDOW" /\ InitWindow(window')
  \/ c = "TERM_WINDOW" /\ TermWindow
  \/ /\ c \in {"GAINED_FOCUS", "LOST_FOCUS"}
     /\ ctx' = [ctx EXCEPT !.hasFocus = c = "GAINED_FOCUS"]
     /\ UNCHANGED <<egl, renderer, bound, frame, glFailures>>
  \/ c \in {"RESUME", "PAUSE", "WINDOW_RESIZED", "DESTROY"} /\ UNCHANGED gl

GlCommand == \E c \in Commands : Take(c) /\ GlHandle(c)

-------------------------------------------------------------------------------

Drawing(x) == x.ready /\ x.hasFocus

\* Renderer::draw and VertexBuffer::draw: a mesh whose array the context does not have is
\* drawn from the default array; without a program nothing is.
Drawn ==
  [m \in Meshes |-> IF renderer.program = 0 THEN "none"
                    ELSE IF renderer.array = egl.ctx THEN m ELSE bound]

GlFrame ==
  /\ frame' = IF Drawing(ctx) /\ renderer.ready THEN Drawn ELSE frame
  /\ \/ UNCHANGED <<ctx, glFailures>>
     \/ Drawing(ctx) /\ GlMayFail /\ ctx' = [ctx EXCEPT !.ready = FALSE]   \* swapBuffers
  /\ PollAgain(Drawing(ctx'), FALSE)
  /\ UNCHANGED <<egl, renderer, bound>>

\* The end of android_main: Renderer::shutdown, EGLHelper::shutdown.
GlExit ==
  /\ ReturnFromMain
  /\ egl' = [ctx |-> 0, surface |-> 0, current |-> FALSE]
  /\ renderer' = [renderer EXCEPT !.ready = FALSE]
  /\ UNCHANGED <<bound, ctx, frame, glFailures>>

-------------------------------------------------------------------------------
(* Properties *)

GlTypeOK ==
  /\ egl \in [ctx : 0..MaxWindows, surface : 0..MaxWindows, current : BOOLEAN]
  /\ renderer \in [ready : BOOLEAN, program : 0..MaxWindows, array : 0..MaxWindows]
  /\ bound \in {"none", LastUploaded} /\ ctx \in [hasFocus : BOOLEAN, ready : BOOLEAN]
  /\ frame \in [Meshes -> Meshes \cup {"none"}] /\ glFailures \in 0..MaxGlFailures

\* "Destroy surface only; call before window is destroyed" (EGLHelper.h): whatever failed in
\* between, no surface is left on a window that the system has destroyed, and a frame is
\* drawn to the present window, with a context that is current and has the program in use.
FramesHaveTarget ==
  /\ egl.surface \in {0, activity.surface}
  /\ at = "frame" /\ Drawing(ctx) =>
       egl.current /\ egl.surface # 0 /\ renderer.program \in {0, egl.ctx}

\* Each mesh is drawn from the vertices that were uploaded for it (Renderer.cpp:128-148).  It
\* does not hold from the second window on: the arrays' names are those of the first context.
MeshesAreTheirOwn == \A m \in Meshes : frame[m] \in {m, "none"}

-------------------------------------------------------------------------------

GlEnvironment == (Send \/ Woken) /\ UNCHANGED gl
GlThread == GlCommand \/ (PollEnds /\ UNCHANGED gl) \/ GlFrame \/ GlExit
GlNext == GlEnvironment \/ GlThread

GlSpec == GlTriangleInit /\ [][GlNext]_glVars
===============================================================================
