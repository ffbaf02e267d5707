------------------------ MODULE NativeLifecycleProofs ------------------------
(***************************************************************************)
(* The safety invariants of NativeLifecycle, for any number of contexts.   *)
(*                                                                         *)
(* What a thread may rely on depends on how far the other one is.  While   *)
(* the activity is paused or gone the GL thread has no context and draws   *)
(* nothing (Parked), so the objects that destroyNative frees are not used. *)
(* In a frame GL is initialised (InFrame), and GL names exist only where   *)
(* it is (NamesAreOwned).  A pause that found rendering ended leaves no    *)
(* worker (Quiesced), and a release that came in time is not undone        *)
(* before the view pauses (ReleaseLasts).                                  *)
(***************************************************************************)
EXTENDS NativeLifecycle, TLAPS

\* The conjuncts of TypeOK, by kind.
Places ==
  /\ ui \in {"paused", "resume", "active", "pause", "pauseJoin", "release", "await", "surface",
             "wait", "destroyJoin", "gone"}
  /\ gl \in {"paused", "idle", "release", "releaseJoin", "created", "frame", "params", "events",
             "fov", "startJoin", "start", "stopJoin"}
  /\ worker \in {"none", "loop", "track", "config", "ended"}

Flags ==
  /\ streaming \in BOOLEAN /\ running \in BOOLEAN /\ alive \in BOOLEAN
  /\ glInitialized \in BOOLEAN /\ recreated \in BOOLEAN /\ paramsChanged \in BOOLEAN
  /\ queued \in BOOLEAN /\ released \in BOOLEAN /\ pausing \in BOOLEAN /\ late \in BOOLEAN
  /\ crashed \in BOOLEAN /\ foreign \in BOOLEAN

Names ==
  /\ contexts \in 0..MaxContexts /\ context \in {0, contexts}
  /\ lobby \in 0..contexts /\ stream \in 0..contexts /\ renderer \in 0..contexts
  /\ releasedIn \in 0..contexts

Locks ==
  /\ ~(UiLocked /\ GlLocked)
  /\ worker # "none" /\ ~streaming =>
       UiLocked \/ gl \in {"startJoin", "stopJoin", "releaseJoin"}
  /\ renderer # 0 /\ context # 0 /\ gl # "created" => renderer = context

Drawing == gl \in {"params", "events", "fov", "startJoin", "start", "stopJoin"}
Pausing == ui \in {"release", "await", "surface"}

Parked ==
  /\ ui \in {"paused", "destroyJoin", "gone"} =>
       pausing /\ context = 0 /\ gl \in {"paused", "release", "idle"}
  /\ ui = "wait" => pausing
  /\ gl = "paused" => context = 0
  /\ ~alive => ui = "gone"
  /\ ui = "gone" => worker = "none"

InFrame ==
  /\ Drawing => glInitialized
  /\ gl = "start" => worker = "none"

NamesAreOwned ==
  context # 0 /\ gl # "created" /\ ~glInitialized => lobby = 0 /\ stream = 0 /\ renderer = 0

Quiesced == Pausing /\ ~running => worker = "none" /\ ~Drawing

ReleaseLasts ==
  /\ gl = "created" => context # releasedIn
  /\ ui = "surface" /\ ~late => released
  /\ ui \in {"await", "surface"} /\ released /\ ~running /\ context # 0 /\ context = releasedIn
       => ~glInitialized

IInv ==
  /\ Places /\ Flags /\ Names /\ Locks /\ NeverCrashes
  /\ Parked /\ InFrame /\ NamesAreOwned /\ Quiesced /\ ReleaseLasts

-----------------------------------------------------------------------------
\* The invariant contains the types.
LEMMA TypesOfIInv == IInv => TypeOK
  BY DEF IInv, Places, Flags, Names, Locks, TypeOK

\* It holds initially.
LEMMA InitInv == ASSUME Init PROVE IInv
<1>1. 0 \in 0..MaxContexts
  BY MaxContextsAssumption
<1>2. Names
  BY <1>1 DEF Init, Names
<1>3. Places /\ Flags
  BY DEF Init, Places, Flags
<1>4. Locks /\ NeverCrashes /\ Parked /\ InFrame /\ NamesAreOwned /\ Quiesced /\ ReleaseLasts
  BY DEF Init, Locks, UiLocked, GlLocked, NeverCrashes, Parked, InFrame, NamesAreOwned,
         Quiesced, ReleaseLasts, Drawing, Pausing
<1>. QED  BY <1>2, <1>3, <1>4 DEF IInv

\* A step of the UI thread preserves the invariant.
LEMMA UiInv == ASSUME IInv, Ui PROVE IInv'
<1>. USE DEF IInv, Places, Flags, Names, Locks, NeverCrashes, Parked, InFrame, NamesAreOwned,
             Quiesced, ReleaseLasts, Drawing, Pausing, UiLocked, GlLocked, LifecycleFree,
             GlConfig, Joined, Deletes, Uses, nativeVars, resources, viewVars, historyVars
<1>1. CASE ResumeView
  <2>1. Places' /\ Names'
    BY <1>1 DEF ResumeView
  <2>2. Flags'
    BY <1>1 DEF ResumeView
  <2>3. Locks' /\ NeverCrashes' /\ InFrame' /\ NamesAreOwned'
    BY <1>1 DEF ResumeView
  <2>4. Parked' /\ Quiesced' /\ ReleaseLasts'
    BY <1>1 DEF ResumeView
  <2>. QED  BY <2>1, <2>2, <2>3, <2>4
<1>2. CASE ResumeNative
  BY <1>2 DEF ResumeNative
<1>3. CASE ActivityPauses
  BY <1>3 DEF ActivityPauses
<1>4. CASE PauseNative
  <2>1. Places' /\ Names'
    BY <1>4 DEF PauseNative
  <2>2. Flags'
    BY <1>4 DEF PauseNative
  <2>3. Locks' /\ NeverCrashes' /\ InFrame' /\ NamesAreOwned'
    BY <1>4 DEF PauseNative
  <2>4. Parked' /\ Quiesced' /\ ReleaseLasts'
    BY <1>4 DEF PauseNative
  <2>. QED  BY <2>1, <2>2, <2>3, <2>4
<1>5. CASE PauseJoined
  <2>1. Places' /\ Names'
    BY <1>5 DEF PauseJoined
  <2>2. Flags'
    BY ZenonT(60), <1>5 DEF PauseJoined
  <2>3. Locks' /\ NeverCrashes' /\ InFrame' /\ NamesAreOwned'
    BY <1>5 DEF PauseJoined
  <2>4. Parked' /\ Quiesced' /\ ReleaseLasts'
    BY <1>5 DEF PauseJoined
  <2>. QED  BY <2>1, <2>2, <2>3, <2>4
<1>6. CASE QueueRelease
  <2>1. Places' /\ Names'
    BY <1>6 DEF QueueRelease
  <2>2. Flags'
    BY <1>6 DEF QueueRelease
  <2>3. Locks' /\ NeverCrashes' /\ InFrame' /\ NamesAreOwned'
    BY <1>6 DEF QueueRelease
  <2>4. Parked' /\ Quiesced' /\ ReleaseLasts'
    BY <1>6 DEF QueueRelease
  <2>. QED  BY <2>1, <2>2, <2>3, <2>4
<1>7. CASE \E inTime \in BOOLEAN : Await(inTime)
  BY <1>7 DEF Await
<1>8. CASE PauseView
  BY <1>8 DEF PauseView
<1>9. CASE ViewPaused
  BY <1>9 DEF ViewPaused
<1>10. CASE Destroy
  <2>1. Places' /\ Names'
    BY <1>10 DEF Destroy
  <2>2. Flags'
    BY <1>10 DEF Destroy
  <2>3. Locks' /\ NeverCrashes' /\ InFrame' /\ NamesAreOwned'
    BY <1>10 DEF Destroy
  <2>4. Parked' /\ Quiesced' /\ ReleaseLasts'
    BY <1>10 DEF Destroy
  <2>. QED  BY <2>1, <2>2, <2>3, <2>4
<1>11. CASE Destroyed
  <2>1. Places' /\ Names'
    BY <1>11 DEF Destroyed
  <2>2. Flags'
    BY <1>11 DEF Destroyed
  <2>3. Locks' /\ NeverCrashes' /\ InFrame' /\ NamesAreOwned'
    BY <1>11 DEF Destroyed
  <2>4. Parked' /\ Quiesced' /\ ReleaseLasts'
    BY <1>11 DEF Destroyed
  <2>. QED  BY <2>1, <2>2, <2>3, <2>4
<1>12. CASE Create
  BY <1>12 DEF Create
<1>. QED  BY <1>1, <1>2, <1>3, <1>4, <1>5, <1>6, <1>7, <1>8, <1>9, <1>10, <1>11, <1>12 DEF Ui, Pause

\* A step of GLSurfaceView, or the loss of its context, preserves it.
LEMMA ViewInv == ASSUME IInv, View \/ LoseContext PROVE IInv'
<1>. USE DEF IInv, Places, Flags, Names, Locks, NeverCrashes, Parked, InFrame, NamesAreOwned,
             Quiesced, ReleaseLasts, Drawing, Pausing, UiLocked, GlLocked, LifecycleFree,
             GlConfig, Joined, Deletes, Uses, nativeVars, resources, viewVars, historyVars
<1>1. CASE TakeRelease
  <2>1. Places' /\ Names'
    BY <1>1 DEF TakeRelease
  <2>2. Flags'
    BY <1>1 DEF TakeRelease
  <2>3. Locks' /\ NeverCrashes' /\ InFrame' /\ NamesAreOwned'
    BY <1>1 DEF TakeRelease
  <2>4. Parked' /\ Quiesced' /\ ReleaseLasts'
    BY <1>1 DEF TakeRelease
  <2>. QED  BY <2>1, <2>2, <2>3, <2>4
<1>2. CASE ViewPauses
  BY <1>2 DEF ViewPauses
<1>3. CASE MakeContext
  <2>1. Places' /\ Names'
    BY <1>3, MaxContextsAssumption DEF MakeContext
  <2>2. Flags'
    BY <1>3, MaxContextsAssumption DEF MakeContext
  <2>3. Locks' /\ NeverCrashes' /\ InFrame' /\ NamesAreOwned'
    BY <1>3, MaxContextsAssumption DEF MakeContext
  <2>4. Parked' /\ Quiesced' /\ ReleaseLasts'
    BY <1>3, MaxContextsAssumption DEF MakeContext
  <2>. QED  BY <2>1, <2>2, <2>3, <2>4
<1>4. CASE BeginFrame
  BY <1>4 DEF BeginFrame
<1>5. CASE LoseContext
  BY <1>5 DEF LoseContext
<1>. QED  BY <1>1, <1>2, <1>3, <1>4, <1>5 DEF View

\* A native call on the GL thread preserves it.
LEMMA NativeInv == ASSUME IInv, Native PROVE IInv'
<1>. USE DEF IInv, Places, Flags, Names, Locks, NeverCrashes, Parked, InFrame, NamesAreOwned,
             Quiesced, ReleaseLasts, Drawing, Pausing, UiLocked, GlLocked, LifecycleFree,
             GlConfig, Joined, Deletes, Uses, nativeVars, resources, viewVars, historyVars
<1>1. CASE ReleaseNothing
  BY <1>1 DEF ReleaseNothing
<1>2. CASE ReleaseStops
  <2>1. Places' /\ Names'
    BY <1>2 DEF ReleaseStops
  <2>2. Flags'
    BY <1>2 DEF ReleaseStops
  <2>3. Locks' /\ NeverCrashes' /\ InFrame' /\ NamesAreOwned'
    BY <1>2 DEF ReleaseStops
  <2>4. Parked' /\ Quiesced' /\ ReleaseLasts'
    BY <1>2 DEF ReleaseStops
  <2>. QED  BY <2>1, <2>2, <2>3, <2>4
<1>3. CASE ReleaseGl
  <2>1. Places' /\ Names'
    BY <1>3 DEF ReleaseGl
  <2>2. Flags'
    BY <1>3 DEF ReleaseGl
  <2>3. Locks' /\ NeverCrashes' /\ InFrame' /\ NamesAreOwned'
    BY <1>3 DEF ReleaseGl
  <2>4. Parked' /\ Quiesced' /\ ReleaseLasts'
    BY <1>3 DEF ReleaseGl
  <2>. QED  BY <2>1, <2>2, <2>3, <2>4
<1>4. CASE SurfaceCreated
  BY <1>4 DEF SurfaceCreated
<1>5. CASE RenderNothing
  BY <1>5 DEF RenderNothing
<1>6. CASE Render
  BY <1>6 DEF Render
<1>7. CASE Params
  <2>1. Places' /\ Names'
    BY <1>7 DEF Params
  <2>2. Flags'
    BY <1>7 DEF Params
  <2>3. Locks' /\ NeverCrashes' /\ InFrame' /\ NamesAreOwned'
    BY <1>7 DEF Params
  <2>4. Parked' /\ Quiesced' /\ ReleaseLasts'
    BY <1>7 DEF Params
  <2>. QED  BY <2>1, <2>2, <2>3, <2>4
<1>8. CASE NoEvent
  BY <1>8 DEF NoEvent
<1>9. CASE StreamStarts
  BY <1>9 DEF StreamStarts
<1>10. CASE StopBeforeStart
  <2>1. Places' /\ Names'
    BY <1>10 DEF StopBeforeStart
  <2>2. Flags'
    BY <1>10 DEF StopBeforeStart
  <2>3. Locks' /\ NeverCrashes' /\ InFrame' /\ NamesAreOwned'
    BY <1>10 DEF StopBeforeStart
  <2>4. Parked' /\ Quiesced' /\ ReleaseLasts'
    BY <1>10 DEF StopBeforeStart
  <2>. QED  BY <2>1, <2>2, <2>3, <2>4
<1>11. CASE StartJoined
  BY <1>11 DEF StartJoined
<1>12. CASE Start
  BY <1>12 DEF Start
<1>13. CASE StreamStops
  <2>1. Places' /\ Names'
    BY <1>13 DEF StreamStops
  <2>2. Flags'
    BY <1>13 DEF StreamStops
  <2>3. Locks' /\ NeverCrashes' /\ InFrame' /\ NamesAreOwned'
    BY <1>13 DEF StreamStops
  <2>4. Parked' /\ Quiesced' /\ ReleaseLasts'
    BY <1>13 DEF StreamStops
  <2>. QED  BY <2>1, <2>2, <2>3, <2>4
<1>14. CASE StreamStopped
  BY <1>14 DEF StreamStopped
<1>. QED  BY <1>1, <1>2, <1>3, <1>4, <1>5, <1>6, <1>7, <1>8, <1>9, <1>10,
             <1>11, <1>12, <1>13, <1>14 DEF Native

\* A step of the input worker preserves it.
LEMMA WorkerInv == ASSUME IInv, Worker PROVE IInv'
<1>. USE DEF IInv, Places, Flags, Names, Locks, NeverCrashes, Parked, InFrame, NamesAreOwned,
             Quiesced, ReleaseLasts, Drawing, Pausing, UiLocked, GlLocked, LifecycleFree,
             GlConfig, Joined, Deletes, Uses, nativeVars, resources, viewVars, historyVars,
             WorkerStep
<1>1. CASE WorkerGoesOn
  BY <1>1 DEF WorkerGoesOn
<1>2. CASE WorkerLocks
  BY <1>2 DEF WorkerLocks
<1>3. CASE WorkerUnlocks
  BY <1>3 DEF WorkerUnlocks
<1>4. CASE WorkerEnds
  BY <1>4 DEF WorkerEnds
<1>. QED  BY <1>1, <1>2, <1>3, <1>4 DEF Worker

\* Every step preserves the invariant.
LEMMA NextInv == ASSUME IInv, [Next]_vars PROVE IInv'
<1>1. CASE UNCHANGED vars
  BY <1>1 DEF IInv, Places, Flags, Names, Locks, UiLocked, GlLocked, NeverCrashes,
              Parked, InFrame, NamesAreOwned, Quiesced, ReleaseLasts, Drawing, Pausing,
              vars, nativeVars, resources, viewVars, historyVars
<1>. QED  BY <1>1, UiInv, ViewInv, NativeInv, WorkerInv DEF Next

-----------------------------------------------------------------------------
\* In every reachable state of the patched program the invariant holds.
THEOREM LifecycleInv == Spec => []IInv
<1>1. Init => IInv
  BY InitInv
<1>2. IInv /\ [Next]_vars => IInv'
  BY NextInv
<1>. QED  BY <1>1, <1>2, PTL DEF Spec

\* The types, the exclusion of the two locks, no worker left unjoined, no stale renderer.
THEOREM LifecycleTypes == Spec => []TypeOK
<1>1. IInv => TypeOK
  BY TypesOfIInv
<1>. QED  BY <1>1, LifecycleInv, PTL

\* No joinable thread is overwritten and nothing is used after destroyNative freed it
\* (prepare_native_lifecycle.py:30-33, 60-73, 83, 97).
THEOREM NothingCrashes == Spec => []NeverCrashes
<1>1. IInv => NeverCrashes
  BY DEF IInv
<1>. QED  BY <1>1, LifecycleInv, PTL

\* A release that came in time has left nothing when the view pauses
\* (prepare_native_lifecycle.py:39-56, 82-88, 108-124).
THEOREM ReleaseIsComplete == Spec => []ReleasedBeforePause
<1>1. IInv => ReleasedBeforePause
  BY DEF IInv, Quiesced, Pausing, NamesAreOwned, ReleaseLasts, ReleasedBeforePause
<1>. QED  BY <1>1, LifecycleInv, PTL
=============================================================================
