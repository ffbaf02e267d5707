--------------------------- MODULE NativeLifecycle ---------------------------
(***************************************************************************)
(* scripts/prepare_native_lifecycle.py: what the patched alvr_main.cpp and *)
(* ALVRActivity.java do when the activity pauses, resumes and ends.  The   *)
(* UI thread and the GLSurfaceView thread share lifecycleMutex, the GL     *)
(* thread and the input worker viewConfigMutex, and whoever stops the      *)
(* worker waits for it.                                                    *)
(*                                                                         *)
(* What is only in the upstream sources is modelled as far as the patch    *)
(* relies on it: GLSurfaceView runs queued events before it pauses and     *)
(* keeps no EGL context over a pause; resuming sets CTX.running; whether   *)
(* pausing clears it is left open; the ALVR core may report the start or   *)
(* the end of a stream in any frame.  A GL name is represented by the      *)
(* number of the EGL context that made it, 0 for none.                     *)
(***************************************************************************)
EXTENDS Naturals

CONSTANT MaxContexts \* bound on the EGL contexts ever made

ASSUME MaxContextsAssumption == MaxContexts \in Nat

VARIABLES ui,            \* the UI thread's next step
          gl,            \* the GL thread's next step
          worker,        \* CTX.inputThread: none if not joinable
          streaming,     \* CTX.streaming, atomic
          running,       \* CTX.running
          glInitialized,
          recreated,     \* CTX.glContextRecreated
          paramsChanged, \* CTX.renderingParamsChanged
          lobby,         \* CTX.lobbyTextures
          stream,        \* CTX.streamTextures
          renderer,      \* CTX.distortionRenderer
          alive,         \* CTX.headTracker and the ALVR core exist
          contexts,      \* EGL contexts made so far
          context,       \* the GL thread's current one, 0 for none
          queued,        \* the release waits in the GL thread's event queue
          released,      \* the latch is down
          pausing,       \* GLSurfaceView was asked to pause
          late,          \* history: the latch was not awaited to its end
          releasedIn,    \* history: the context that was current at the last release
          crashed,       \* history: std::terminate or a use of freed objects
          foreign        \* history: GL was told to delete another context's names

resources == <<lobby, stream, renderer>>
nativeVars == <<worker, streaming, running, glInitialized, recreated, paramsChanged, alive>>
viewVars == <<contexts, context, queued, released, pausing>>
historyVars == <<late, releasedIn, crashed, foreign>>
vars == <<ui, gl, nativeVars, resources, viewVars, historyVars>>

-----------------------------------------------------------------------------
(* The locks, as held by a thread at a step.                               *)

UiLocked == ui \in {"pauseJoin", "destroyJoin"}
GlLocked == gl \in {"releaseJoin", "params", "events", "fov", "startJoin", "start", "stopJoin"}
LifecycleFree == ~UiLocked /\ ~GlLocked

GlConfig == gl = "fov"

\* stopInputThread, once it has cleared `streaming`: join waits for the worker.
Joined == worker \in {"none", "ended"} /\ worker' = "none"

Init ==
  /\ ui = "paused" /\ gl = "paused"
  /\ worker = "none" /\ streaming = FALSE /\ running = FALSE
  /\ glInitialized = FALSE /\ recreated = FALSE /\ paramsChanged = FALSE
  /\ lobby = 0 /\ stream = 0 /\ renderer = 0
  /\ alive = TRUE
  /\ contexts = 0 /\ context = 0 /\ queued = FALSE /\ released = FALSE /\ pausing = TRUE
  /\ late = FALSE /\ releasedIn = 0 /\ crashed = FALSE /\ foreign = FALSE

-----------------------------------------------------------------------------
(* The UI thread.                                                          *)

ResumeView ==
  /\ ui = "paused" /\ ui' = "resume"
  /\ pausing' = FALSE
  /\ UNCHANGED <<gl, nativeVars, resources, contexts, context, queued, released, historyVars>>

ResumeNative ==
  /\ ui = "resume" /\ ui' = "active" /\ LifecycleFree
  /\ running' = TRUE /\ paramsChanged' = TRUE
  /\ UNCHANGED <<gl, worker, streaming, glInitialized, recreated, alive>>
  /\ UNCHANGED <<resources, viewVars, historyVars>>

ActivityPauses ==
  /\ ui = "active" /\ ui' = "pause"
  /\ UNCHANGED <<gl, nativeVars, resources, viewVars, historyVars>>

PauseNative ==
  /\ ui = "pause" /\ ui' = "pauseJoin" /\ LifecycleFree
  /\ streaming' = FALSE
  /\ UNCHANGED <<gl, worker, running, glInitialized, recreated, paramsChanged, alive>>
  /\ UNCHANGED <<resources, viewVars, historyVars>>

PauseJoined ==
  /\ ui = "pauseJoin" /\ ui' = "release" /\ Joined
  /\ running' \in {running, FALSE}
  /\ UNCHANGED <<gl, streaming, glInitialized, recreated, paramsChanged, alive>>
  /\ UNCHANGED <<resources, viewVars, historyVars>>

QueueRelease ==
  /\ ui = "release" /\ ui' = "await"
  /\ queued' = TRUE /\ released' = FALSE
  /\ UNCHANGED <<gl, nativeVars, resources, contexts, context, pausing, historyVars>>

\* Two seconds, or an interrupt, may end the wait early.
Await(inTime) ==
  /\ ui = "await" /\ ui' = "surface"
  /\ inTime => released
  /\ late' = ~inTime
  /\ UNCHANGED <<gl, nativeVars, resources, viewVars, releasedIn, crashed, foreign>>

PauseView ==
  /\ ui = "surface" /\ ui' = "wait"
  /\ pausing' = TRUE
  /\ UNCHANGED <<gl, nativeVars, resources, contexts, context, queued, released, historyVars>>

ViewPaused ==
  /\ ui = "wait" /\ ui' = "paused" /\ gl = "paused"
  /\ UNCHANGED <<gl, nativeVars, resources, viewVars, historyVars>>

Destroy ==
  /\ ui = "paused" /\ ui' = "destroyJoin" /\ LifecycleFree
  /\ running' = FALSE /\ streaming' = FALSE
  /\ UNCHANGED <<gl, worker, glInitialized, recreated, paramsChanged, alive>>
  /\ UNCHANGED <<resources, viewVars, historyVars>>

\* No GL call here: what is left belongs to a context that goes.
Destroyed ==
  /\ ui = "destroyJoin" /\ ui' = "gone" /\ Joined
  /\ alive' = FALSE
  /\ renderer' = 0 /\ glInitialized' = FALSE
  /\ UNCHANGED <<gl, streaming, running, recreated, paramsChanged>>
  /\ UNCHANGED <<lobby, stream, viewVars, historyVars>>

\* Another activity of the same process: CTX is what the last one left.
Create ==
  /\ ui = "gone" /\ ui' = "paused" /\ LifecycleFree
  /\ contexts < MaxContexts
  /\ alive' = TRUE
  /\ UNCHANGED <<gl, worker, streaming, running, glInitialized, recreated, paramsChanged>>
  /\ UNCHANGED <<resources, viewVars, historyVars>>

-----------------------------------------------------------------------------
(* The GL thread: GLSurfaceView's loop.                                    *)

TakeRelease ==
  /\ gl \in {"idle", "paused"} /\ gl' = "release"
  /\ queued /\ queued' = FALSE
  /\ UNCHANGED <<ui, nativeVars, resources, contexts, context, released, pausing, historyVars>>

ViewPauses ==
  /\ gl = "idle" /\ gl' = "paused"
  /\ ~queued /\ pausing
  /\ context' = 0
  /\ UNCHANGED <<ui, nativeVars, resources, contexts, queued, released, pausing, historyVars>>

\* The context is lost without a pause.
LoseContext ==
  /\ gl = "idle" /\ context # 0
  /\ context' = 0
  /\ UNCHANGED <<ui, gl, nativeVars, resources, contexts, queued, released, pausing, historyVars>>

MakeContext ==
  /\ gl \in {"idle", "paused"} /\ gl' = "created"
  /\ ~queued /\ ~pausing /\ context = 0
  /\ contexts < MaxContexts
  /\ contexts' = contexts + 1 /\ context' = contexts + 1
  /\ UNCHANGED <<ui, nativeVars, resources, queued, released, pausing, historyVars>>

BeginFrame ==
  /\ gl = "idle" /\ gl' = "frame"
  /\ ~queued /\ ~pausing /\ context # 0
  /\ UNCHANGED <<ui, nativeVars, resources, viewVars, historyVars>>

-----------------------------------------------------------------------------
(* The GL thread: the native calls.                                        *)

Deletes(names) == foreign' = (foreign \/ ~(names \subseteq {0, context}))

Uses == crashed' = (crashed \/ ~alive)

\* Nothing is initialised, or no context is current.
ReleaseNothing ==
  /\ gl = "release" /\ gl' = "idle" /\ LifecycleFree
  /\ ~glInitialized \/ context = 0
  /\ released' = TRUE /\ releasedIn' = context
  /\ UNCHANGED <<ui, nativeVars, resources, contexts, context, queued, pausing>>
  /\ UNCHANGED <<late, crashed, foreign>>

ReleaseStops ==
  /\ gl = "release" /\ gl' = "releaseJoin" /\ LifecycleFree
  /\ glInitialized /\ context # 0
  /\ streaming' = FALSE
  /\ UNCHANGED <<ui, worker, running, glInitialized, recreated, paramsChanged, alive>>
  /\ UNCHANGED <<resources, viewVars, historyVars>>

ReleaseGl ==
  /\ gl = "releaseJoin" /\ gl' = "idle" /\ Joined
  /\ Deletes({lobby, stream, renderer})
  /\ lobby' = 0 /\ stream' = 0 /\ renderer' = 0
  /\ glInitialized' = FALSE /\ recreated' = TRUE /\ paramsChanged' = TRUE
  /\ released' = TRUE /\ releasedIn' = context
  /\ Uses
  /\ UNCHANGED <<ui, streaming, running, alive, contexts, context, queued, pausing, late>>

SurfaceCreated ==
  /\ gl = "created" /\ gl' = "idle" /\ LifecycleFree
  /\ glInitialized' = TRUE /\ recreated' = TRUE
  /\ renderer' = 0
  /\ Uses
  /\ UNCHANGED <<ui, worker, streaming, running, paramsChanged, alive, lobby, stream>>
  /\ UNCHANGED <<viewVars, late, releasedIn, foreign>>

RenderNothing ==
  /\ gl = "frame" /\ gl' = "idle" /\ LifecycleFree
  /\ ~running
  /\ UNCHANGED <<ui, nativeVars, resources, viewVars, historyVars>>

\* Mutant: a frame does not ask whether the activity runs.
RenderAlways ==
  /\ gl = "frame" /\ gl' = "params" /\ LifecycleFree
  /\ glInitialized' = TRUE
  /\ recreated' = (recreated \/ ~glInitialized)
  /\ Uses
  /\ UNCHANGED <<ui, worker, streaming, running, paramsChanged, alive>>
  /\ UNCHANGED <<resources, viewVars, late, releasedIn, foreign>>

Render ==
  /\ gl = "frame" /\ gl' = "params" /\ LifecycleFree
  /\ running
  /\ glInitialized' = TRUE
  /\ recreated' = (recreated \/ ~glInitialized)
  /\ Uses
  /\ UNCHANGED <<ui, worker, streaming, running, paramsChanged, alive>>
  /\ UNCHANGED <<resources, viewVars, late, releasedIn, foreign>>

\* New parameters are taken inside viewConfigMutex, and replace the renderer.
Params ==
  /\ gl = "params" /\ gl' = "events"
  /\ paramsChanged => worker # "config"
  /\ IF paramsChanged THEN renderer' = context /\ Deletes({renderer})
                      ELSE UNCHANGED <<renderer, foreign>>
  /\ lobby' = IF recreated THEN context ELSE lobby
  /\ paramsChanged' = FALSE /\ recreated' = FALSE
  /\ UNCHANGED <<ui, worker, streaming, running, glInitialized, alive, stream>>
  /\ UNCHANGED <<viewVars, late, releasedIn, crashed>>

NoEvent ==
  /\ gl = "events" /\ gl' = "idle"
  /\ UNCHANGED <<ui, nativeVars, resources, viewVars, historyVars>>

\* STREAMING_STARTED: the fields of view, inside viewConfigMutex ...
StreamStarts ==
  /\ gl = "events" /\ gl' = "fov"
  /\ worker # "config"
  /\ UNCHANGED <<ui, nativeVars, resources, viewVars, historyVars>>

\* ... then, outside of it, the end of a worker that is still there.
StopBeforeStart ==
  /\ gl = "fov" /\ gl' = "startJoin"
  /\ streaming' = FALSE
  /\ UNCHANGED <<ui, worker, running, glInitialized, recreated, paramsChanged, alive>>
  /\ UNCHANGED <<resources, viewVars, historyVars>>

\* Mutant: a worker that is still there is not joined.
StartUnjoined ==
  /\ gl = "startJoin" /\ gl' = "start"
  /\ UNCHANGED <<ui, nativeVars, resources, viewVars, historyVars>>

StartJoined ==
  /\ gl = "startJoin" /\ gl' = "start" /\ Joined
  /\ UNCHANGED <<ui, streaming, running, glInitialized, recreated, paramsChanged, alive>>
  /\ UNCHANGED <<resources, viewVars, historyVars>>

\* Mutant: the flag is set before the old worker is stopped, and so is cleared again.
StartCleared ==
  /\ gl = "start" /\ gl' = "events"
  /\ crashed' = (crashed \/ worker # "none")
  /\ worker' = "loop"
  /\ stream' = context
  /\ UNCHANGED <<ui, streaming, running, glInitialized, recreated, paramsChanged, alive>>
  /\ UNCHANGED <<lobby, renderer, viewVars, late, releasedIn, foreign>>

\* A std::thread that is assigned while it is joinable ends the program.
Start ==
  /\ gl = "start" /\ gl' = "events"
  /\ crashed' = (crashed \/ worker # "none")
  /\ streaming' = TRUE /\ worker' = "loop"
  /\ stream' = context
  /\ UNCHANGED <<ui, running, glInitialized, recreated, paramsChanged, alive, lobby, renderer>>
  /\ UNCHANGED <<viewVars, late, releasedIn, foreign>>

\* STREAMING_STOPPED
StreamStops ==
  /\ gl = "events" /\ gl' = "stopJoin"
  /\ streaming' = FALSE
  /\ UNCHANGED <<ui, worker, running, glInitialized, recreated, paramsChanged, alive>>
  /\ UNCHANGED <<resources, viewVars, historyVars>>

StreamStopped ==
  /\ gl = "stopJoin" /\ gl' = "events" /\ Joined
  /\ Deletes({stream}) /\ stream' = 0
  /\ UNCHANGED <<ui, streaming, running, glInitialized, recreated, paramsChanged, alive>>
  /\ UNCHANGED <<lobby, renderer, viewVars, late, releasedIn, crashed>>

-----------------------------------------------------------------------------
(* The input worker: it looks at `streaming` only between two poses.       *)

WorkerStep(from, to) ==
  /\ worker = from /\ worker' = to
  /\ UNCHANGED <<ui, gl, streaming, running, glInitialized, recreated, paramsChanged, alive>>
  /\ UNCHANGED <<resources, viewVars, late, releasedIn, foreign>>

WorkerGoesOn == streaming /\ WorkerStep("loop", "track") /\ Uses

\* Mutant: the worker also takes the lifecycle lock.
WorkerLocksBoth == ~GlConfig /\ LifecycleFree /\ WorkerStep("track", "config") /\ Uses

WorkerLocks == ~GlConfig /\ WorkerStep("track", "config") /\ Uses

WorkerUnlocks == WorkerStep("config", "loop") /\ Uses

WorkerEnds == ~streaming /\ WorkerStep("loop", "ended") /\ UNCHANGED crashed

-----------------------------------------------------------------------------
Pause ==
  \/ PauseNative \/ PauseJoined \/ QueueRelease \/ PauseView \/ ViewPaused
  \/ \E inTime \in BOOLEAN : Await(inTime)

Ui ==
  \/ ResumeView \/ ResumeNative \/ ActivityPauses \/ Pause
  \/ Destroy \/ Destroyed \/ Create

Native ==
  \/ ReleaseNothing \/ ReleaseStops \/ ReleaseGl
  \/ SurfaceCreated \/ RenderNothing \/ Render \/ Params \/ NoEvent
  \/ StreamStarts \/ StopBeforeStart \/ StartJoined \/ Start \/ StreamStops \/ StreamStopped

View == TakeRelease \/ ViewPauses \/ MakeContext \/ BeginFrame

Worker == WorkerGoesOn \/ WorkerLocks \/ WorkerUnlocks \/ WorkerEnds

Next == Ui \/ Native \/ View \/ LoseContext \/ Worker

Spec == Init /\ [][Next]_vars

\* Every thread that can go on does, a lock that is free again and again is obtained, and
\* frames end.  Nothing is assumed of the user, the core, or of contexts that get lost.
Fairness ==
  /\ SF_vars(PauseNative) /\ WF_vars(Pause)
  /\ WF_vars(Native) /\ SF_vars(Params) /\ SF_vars(NoEvent)
  /\ WF_vars(TakeRelease \/ ViewPauses)
  /\ SF_vars(WorkerLocks) /\ WF_vars(Worker)

FairSpec == Spec /\ Fairness

-----------------------------------------------------------------------------
\* Besides the types: the locks exclude each other, a worker is streaming or awaited, and
\* the renderer is never one of a lost context once the new surface is noted.
TypeOK ==
  /\ ui \in {"paused", "resume", "active", "pause", "pauseJoin", "release", "await", "surface",
             "wait", "destroyJoin", "gone"}
  /\ gl \in {"paused", "idle", "release", "releaseJoin", "created", "frame", "params", "events",
             "fov", "startJoin", "start", "stopJoin"}
  /\ worker \in {"none", "loop", "track", "config", "ended"}
  /\ streaming \in BOOLEAN /\ running \in BOOLEAN /\ alive \in BOOLEAN
  /\ glInitialized \in BOOLEAN /\ recreated \in BOOLEAN /\ paramsChanged \in BOOLEAN
  /\ contexts \in 0..MaxContexts /\ context \in {0, contexts}
  /\ lobby \in 0..contexts /\ stream \in 0..contexts /\ renderer \in 0..contexts
  /\ queued \in BOOLEAN /\ released \in BOOLEAN /\ pausing \in BOOLEAN /\ late \in BOOLEAN
  /\ releasedIn \in 0..contexts /\ crashed \in BOOLEAN /\ foreign \in BOOLEAN
  /\ ~(UiLocked /\ GlLocked)
  /\ worker # "none" /\ ~streaming =>
       UiLocked \/ gl \in {"startJoin", "stopJoin", "releaseJoin"}
  /\ renderer # 0 /\ context # 0 /\ gl # "created" => renderer = context

\* No thread object is assigned while it is joinable, and the worker and the GL thread never
\* use the head tracker or the core after destroyNative, in any order of pauses, streams and
\* activities (prepare_native_lifecycle.py:30-33, 60-73, 83, 97).
NeverCrashes == ~crashed

\* When the view is about to pause, a release that came in time and in the context that is
\* still there has left nothing of it and no worker, provided pausing ended rendering
\* (prepare_native_lifecycle.py:39-56, 82-88, 101-102, 108-124).
ReleasedBeforePause ==
  ui = "surface" /\ ~late /\ ~running /\ context # 0 /\ context = releasedIn =>
    /\ ~glInitialized /\ worker = "none"
    /\ lobby = 0 /\ stream = 0 /\ renderer = 0

\* GL is never told to delete names of a context that is gone ("its GL names can collide with
\* new resources", prepare_native_lifecycle.py:101-102).
NamesAreCurrent == ~foreign

\* A pause ends: the UI thread waits for the GL thread, which waits for the lifecycle lock and
\* for the worker, which waits for the view configuration (prepare_native_lifecycle.py:25,
\* 92-96, 116-128).
PauseEnds == ui = "pause" ~> ui = "paused"
=============================================================================
