------------------------------- MODULE WatchMode ------------------------------
(***************************************************************************)
(* abt watch: runWatch (src/src/main.cpp) on the main thread, the event    *)
(* loop of InotifyWatcher (Watcher_inotify.cpp) on another, which share    *)
(* the atomics needsRebuild and building; the kernel's inotify queue; and  *)
(* the developer, who edits sources and presses Ctrl+C.                    *)
(*                                                                         *)
(* All sources together are one number, counting the edits.  A build is    *)
(* seen from outside: it begins, reads the sources at some moment, writes  *)
(* its output and ends, and whether it succeeds makes no difference here.  *)
(***************************************************************************)
EXTENDS Naturals, Sequences, SequencesExt

CONSTANTS MaxEdits,      \* bound: edits of the developer
          QueueSize,     \* events the kernel keeps (16384 by default)
          BatchSize,     \* events one read() takes (16 of the largest)
          OutputMatches  \* whether what a build writes is watched and passes the filter

ASSUME WatchAssumption == /\ MaxEdits \in Nat /\ QueueSize \in Nat /\ QueueSize > 0
                          /\ BatchSize \in Nat /\ BatchSize > 0
                          /\ OutputMatches \in BOOLEAN

VARIABLES version,       \* edits made so far
          queue,         \* inotify events the kernel holds
          batch,         \* events the event loop has read and not yet handled
          watcher,       \* where the event loop is
          needsRebuild, building,   \* locals of runWatch
          running, stopPipe,        \* of InotifyWatcher
          main,          \* where runWatch is
          built,         \* the version the last build read
          interrupted,   \* g_interrupted
          dropped        \* history: since a build last read the sources, an event has
                         \* been lost or disregarded

vars == <<version, queue, batch, watcher, needsRebuild, building, running, stopPipe, main,
          built, interrupted, dropped>>

kernel == <<queue, stopPipe>>
loop   == <<batch, watcher>>

\* An event matters by whether its path contains ".cpp", ".h" or ".c".
Events == {"source", "other"}
Output == IF OutputMatches THEN "source" ELSE "other"

Building == {"read", "write", "unmark"}

Init ==
  /\ version = 0
  /\ queue = <<>> /\ batch = <<>>
  /\ watcher = "select"
  /\ needsRebuild = TRUE /\ building = FALSE
  /\ running = TRUE /\ stopPipe = FALSE
  /\ main = "check"
  /\ built = 0
  /\ interrupted = FALSE
  /\ dropped = FALSE

\* inotify merges an event into an equal one, of the same file, at the end of the
\* queue, and loses it when the queue is full: the overflow event has no directory
\* to look up.
Repeats(e) == queue # <<>> /\ Last(queue) = e

Notify(e) ==
  \/ Repeats(e) /\ UNCHANGED <<queue, dropped>>
  \/ /\ Len(queue) < QueueSize
     /\ queue' = Append(queue, e)
     /\ UNCHANGED dropped
  \/ /\ Len(queue) >= QueueSize
     /\ dropped' = TRUE
     /\ UNCHANGED queue

-------------------------------------------------------------------------------
(* The developer *)

EditSource ==
  /\ version < MaxEdits
  /\ version' = version + 1
  /\ Notify("source")
  /\ UNCHANGED <<loop, needsRebuild, building, running, stopPipe, main, built, interrupted>>

\* The first Ctrl+C; another would kill abt.
Interrupt ==
  /\ ~interrupted
  /\ interrupted' = TRUE
  /\ UNCHANGED <<version, kernel, loop, needsRebuild, building, running, main, built, dropped>>

-------------------------------------------------------------------------------
(* InotifyWatcher::eventLoop *)

\* Leave when running_ is false or the stop pipe is readable; else read a batch.
\* With nothing to read select() times out and the loop goes round.
Select ==
  /\ watcher = "select"
  /\ \/ /\ ~running \/ stopPipe
        /\ watcher' = "exited"
        /\ UNCHANGED <<queue, batch>>
     \/ /\ running /\ ~stopPipe /\ queue # <<>>
        /\ batch' = SubSeq(queue, 1, IF Len(queue) < BatchSize THEN Len(queue) ELSE BatchSize)
        /\ queue' = SubSeq(queue, Len(batch') + 1, Len(queue))
        /\ watcher' = "callback"
  /\ UNCHANGED <<version, needsRebuild, building, running, stopPipe, main, built, interrupted,
                 dropped>>

\* Mutated NextEvent: one event is handled of each read.
NextEvent_firstOnly ==
  /\ batch' = <<>>
  /\ watcher' = "select"

\* After an event: the next of the batch, or select() again.
NextEvent ==
  /\ batch' = Tail(batch)
  /\ watcher' = IF Len(batch) = 1 THEN "select" ELSE "callback"

\* The callback of runWatch: the filter and building.load() ...
Callback ==
  /\ watcher = "callback"
  /\ \/ /\ Head(batch) = "source" /\ ~building
        /\ watcher' = "store"
        /\ UNCHANGED <<batch, dropped>>
     \/ /\ Head(batch) = "source" /\ building
        /\ dropped' = TRUE
        /\ NextEvent
     \/ /\ Head(batch) # "source"
        /\ NextEvent
        /\ UNCHANGED dropped
  /\ UNCHANGED <<version, kernel, needsRebuild, building, running, main, built, interrupted>>

\* ... and needsRebuild.store(true).
CallbackStore ==
  /\ watcher = "store"
  /\ needsRebuild' = TRUE
  /\ NextEvent
  /\ UNCHANGED <<version, kernel, building, running, main, built, interrupted, dropped>>

-------------------------------------------------------------------------------
(* runWatch *)

Goto(place) == main' = place

\* Mutated CheckInterrupt: abt watch never asks for the flag of the handler.
CheckInterrupt_never ==
  /\ main = "check"
  /\ Goto("test")
  /\ UNCHANGED <<version, kernel, loop, needsRebuild, building, running, built, interrupted,
                 dropped>>

\* while (!wasInterrupted())
CheckInterrupt ==
  /\ main = "check"
  /\ Goto(IF interrupted THEN "stop" ELSE "test")
  /\ UNCHANGED <<version, kernel, loop, needsRebuild, building, running, built, interrupted,
                 dropped>>

\* The sleep of 100 ms that ends a round takes no step of its own.
TestRebuild ==
  /\ main = "test"
  /\ Goto(IF needsRebuild /\ ~building THEN "claim" ELSE "check")
  /\ UNCHANGED <<version, kernel, loop, needsRebuild, building, running, built, interrupted,
                 dropped>>

\* needsRebuild.store(false), before the sources are read.
Claim ==
  /\ main = "claim"
  /\ needsRebuild' = FALSE
  /\ Goto("mark")
  /\ UNCHANGED <<version, kernel, loop, building, running, built, interrupted, dropped>>

MarkBuilding ==
  /\ main = "mark"
  /\ building' = TRUE
  /\ Goto("read")
  /\ UNCHANGED <<version, kernel, loop, needsRebuild, running, built, interrupted, dropped>>

\* The build reads the sources as they are ...
BuildRead ==
  /\ main = "read"
  /\ built' = version
  /\ dropped' = FALSE
  /\ Goto("write")
  /\ UNCHANGED <<version, kernel, loop, needsRebuild, building, running, interrupted>>

\* ... and writes its output, which may lie in a watched directory.
BuildWrite ==
  /\ main = "write"
  /\ Notify(Output)
  /\ Goto("unmark")
  /\ UNCHANGED <<version, loop, needsRebuild, building, running, stopPipe, built, interrupted>>

UnmarkBuilding ==
  /\ main = "unmark"
  /\ building' = FALSE
  /\ Goto("check")
  /\ UNCHANGED <<version, kernel, loop, needsRebuild, running, built, interrupted, dropped>>

\* Mutated Stop: the event loop is told and nothing waits for it.
Stop_noJoin ==
  /\ main = "stop"
  /\ running' = FALSE /\ stopPipe' = TRUE
  /\ Goto("exited")
  /\ UNCHANGED <<version, queue, loop, needsRebuild, building, built, interrupted, dropped>>

\* InotifyWatcher::stop tells the event loop ...
Stop ==
  /\ main = "stop"
  /\ running' = FALSE /\ stopPipe' = TRUE
  /\ Goto("join")
  /\ UNCHANGED <<version, queue, loop, needsRebuild, building, built, interrupted, dropped>>

\* ... and joins its thread.
Join ==
  /\ main = "join" /\ watcher = "exited"
  /\ Goto("exited")
  /\ UNCHANGED <<version, kernel, loop, needsRebuild, building, running, built, interrupted,
                 dropped>>

-------------------------------------------------------------------------------
EventLoop == Select \/ Callback \/ CallbackStore

\* The steps of runWatch itself, and those of BuildOrchestrator::run, which is
\* over with UnmarkBuilding.
MainLoop == CheckInterrupt \/ TestRebuild \/ Claim \/ MarkBuilding \/ Stop \/ Join
Build    == BuildRead \/ BuildWrite \/ UnmarkBuilding

Done == main = "exited" /\ UNCHANGED vars

Next == EditSource \/ Interrupt \/ EventLoop \/ MainLoop \/ Build \/ Done

Spec == Init /\ [][Next]_vars

\* Both threads are scheduled and the kernel delivers.  A build need not return:
\* its threads can sleep for good (TaskScheduler) and so can a compiler whose
\* pipes are inherited (SpawnProcess).  Nobody has to edit or to press Ctrl+C.
FairSpec == Spec /\ WF_vars(EventLoop) /\ WF_vars(MainLoop)

-------------------------------------------------------------------------------
(* Properties *)

TypeOK ==
  /\ version \in 0 .. MaxEdits /\ built \in 0 .. MaxEdits
  /\ queue \in Seq(Events) /\ Len(queue) <= QueueSize
  /\ batch \in Seq(Events) /\ Len(batch) <= BatchSize
  /\ watcher \in {"select", "callback", "store", "exited"}
  /\ main \in {"check", "test", "claim", "mark", "stop", "join", "exited"} \cup Building
  /\ {needsRebuild, building, running, stopPipe, interrupted, dropped} \subseteq BOOLEAN

\* An edit that no build has read is on its way: in the kernel, in the event
\* loop, as a request, or as a build that has not read yet; unless its event
\* came while building was set, or the queue overflowed.
NoEditForgotten ==
  version > built /\ ~dropped =>
    \/ "source" \in Range(queue) \cup Range(batch)
    \/ needsRebuild
    \/ main \in {"claim", "mark", "read"}
    \/ watcher = "exited"

\* The callback holds references to locals of runWatch: when runWatch is over,
\* no callback runs or will run.
NoCallbackAfterReturn == main = "exited" => watcher = "exited"

\* Ctrl+C ends abt watch, in the middle of a build or of a burst of edits, unless
\* the build under way never returns: nothing tells a build to give up.
InterruptEnds == interrupted ~> main = "exited" \/ [](main \in Building)

\* The last edit is built, unless watching was interrupted, an event disregarded
\* or a build never returns: whatever the order of the loads and stores of the two
\* atomics.
EditsAreBuilt == \/ <>[](main \in Building)
                 \/ <>[](built = version \/ dropped \/ interrupted)
===============================================================================
