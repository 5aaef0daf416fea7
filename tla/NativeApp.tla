------------------------------- MODULE NativeApp ------------------------------
(***************************************************************************)
(* What the example applications (src/abt-tests) have in common: Android's *)
(* main thread and android_native_app_glue, which are not in the           *)
(* repository and are modelled from how the examples use them, and the     *)
(* polling of android_main, the same in the three of them.                 *)
(*                                                                         *)
(* The main thread writes commands to a pipe and waits until the           *)
(* application's thread has taken those that change the activity's state,  *)
(* its window, or end it.  A window is a number, counting those there have *)
(* been; 0 is no window.                                                   *)
(***************************************************************************)
EXTENDS Naturals, Sequences

CONSTANTS MaxWindows,  \* bound: windows of the activity
          MaxPending,  \* bound: commands in the pipe
          MaxWakes     \* bound: polls that end without an event

ASSUME NativeAppAssumption ==
  {MaxWindows, MaxWakes} \subseteq Nat /\ MaxPending \in Nat \ {0}

VARIABLES activity,   \* of the system: phase, surface (the window it has made and not yet
                      \* destroyed), opened (windows so far), focus
          commands,   \* the pipe
          window,     \* android_app::window
          at,         \* where android_main is: poll, frame, exit, done
          timeout,    \* the argument of ALooper_pollOnce: 0 or forever (-1)
          wakes       \* polls that ended without an event

glue == <<activity, commands, window, at, timeout, wakes>>

Awaited  == {"RESUME", "PAUSE", "INIT_WINDOW", "TERM_WINDOW", "DESTROY"}
Commands == Awaited \cup {"GAINED_FOCUS", "LOST_FOCUS", "WINDOW_RESIZED"}

\* The flags that choose the timeout are false at first.
GlueInit ==
  /\ activity = [phase |-> "paused", surface |-> 0, opened |-> 0, focus |-> FALSE]
  /\ commands = <<>> /\ window = 0
  /\ at = "poll" /\ timeout = "forever" /\ wakes = 0

\* The main thread waits for the application's.
CommandAwaited == \E i \in DOMAIN commands : commands[i] \in Awaited

\* What the system may send, and what it has done with the activity then.
Sendable(c, then) ==
  \/ /\ c = "RESUME" /\ activity.phase = "paused"
     /\ then = [activity EXCEPT !.phase = "resumed"]
  \/ /\ c = "PAUSE" /\ activity.phase = "resumed"
     /\ then = [activity EXCEPT !.phase = "paused"]
  \/ /\ c = "INIT_WINDOW" /\ activity.phase = "resumed"
     /\ activity.surface = 0 /\ activity.opened < MaxWindows
     /\ then = [activity EXCEPT !.surface = activity.opened + 1, !.opened = @ + 1]
  \/ /\ c = "TERM_WINDOW" /\ activity.surface # 0 /\ then = activity
  \/ /\ c = "GAINED_FOCUS" /\ activity.surface # 0 /\ ~activity.focus
     /\ then = [activity EXCEPT !.focus = TRUE]
  \/ c = "LOST_FOCUS" /\ activity.focus /\ then = [activity EXCEPT !.focus = FALSE]
  \/ c = "WINDOW_RESIZED" /\ activity.surface # 0 /\ then = activity
  \/ /\ c = "DESTROY" /\ activity.phase = "paused" /\ activity.surface = 0
     /\ then = [activity EXCEPT !.phase = "gone"]

Send ==
  /\ activity.phase # "gone" /\ ~CommandAwaited /\ Len(commands) < MaxPending
  /\ \E c \in Commands : /\ Sendable(c, activity')
                         /\ commands' = Append(commands, c)
  /\ UNCHANGED <<window, at, timeout, wakes>>

-------------------------------------------------------------------------------

\* A poll returns a command and source->process takes it: android_app::window is set
\* before the handler is called for a new window, and cleared after it for a lost one,
\* which the system destroys then.  DESTROY sets destroyRequested, which ends both loops.
Take(c) ==
  /\ at = "poll" /\ commands # <<>> /\ c = Head(commands)
  /\ commands' = Tail(commands)
  /\ window' = IF c = "INIT_WINDOW" THEN activity.surface
               ELSE IF c = "TERM_WINDOW" THEN 0 ELSE window
  /\ activity' = IF c = "TERM_WINDOW" THEN [activity EXCEPT !.surface = 0] ELSE activity
  /\ at' = IF c = "DESTROY" THEN "exit" ELSE "poll"
  /\ UNCHANGED <<timeout, wakes>>

\* Mutated PollEnds: with a timeout of 0 the loop is left whatever is pending.
PollEnds_whenBusy ==
  /\ at = "poll" /\ timeout = "0"
  /\ at' = "frame"
  /\ UNCHANGED <<activity, commands, window, timeout, wakes>>

\* The inner loop is left when a poll finds nothing: at once with a timeout of 0.
PollEnds ==
  /\ at = "poll" /\ commands = <<>> /\ timeout = "0"
  /\ at' = "frame"
  /\ UNCHANGED <<activity, commands, window, timeout, wakes>>

\* A poll that waits forever ends without an event only if something wakes it: a signal
\* handled by this thread, or ALooper_wake, which no example calls.
Woken ==
  /\ at = "poll" /\ commands = <<>> /\ timeout = "forever"
  /\ wakes < MaxWakes /\ wakes' = wakes + 1
  /\ at' = "frame"
  /\ UNCHANGED <<activity, commands, window, timeout>>

\* The outer loop starts again or stops: the timeout is computed once, before the polls.
PollAgain(busy, stop) ==
  /\ at = "frame" /\ at' = IF stop THEN "exit" ELSE "poll"
  /\ timeout' = IF busy THEN "0" ELSE "forever"
  /\ UNCHANGED <<activity, commands, window, wakes>>

\* android_main returns.
ReturnFromMain ==
  /\ at = "exit" /\ at' = "done"
  /\ UNCHANGED <<activity, commands, window, timeout, wakes>>

GlueTypeOK ==
  /\ activity \in [phase : {"paused", "resumed", "gone"}, surface : 0..MaxWindows,
                   opened : 0..MaxWindows, focus : BOOLEAN]
  /\ commands \in Seq(Commands) /\ Len(commands) <= MaxPending
  /\ window \in 0..MaxWindows
  /\ at \in {"poll", "frame", "exit", "done"}
  /\ timeout \in {"0", "forever"} /\ wakes \in 0..MaxWakes
===============================================================================
