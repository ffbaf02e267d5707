--------------------------- MODULE HandCaptureProofs ---------------------------
(***************************************************************************)
(* The safety properties of HandCapture, for any settings, any latencies   *)
(* up to 150 ms and any steps of time.                                     *)
(*                                                                         *)
(* That hands are placed with what is in force, and are gone when nobody   *)
(* wants them, rests on what is on its way: an image survives a change of  *)
(* origin or settings only marked as dropped, or while the window between  *)
(* storing the settings and the new generation is open (Placed); a         *)
(* callback with hands runs only while a pause still waits for it          *)
(* (Callback).  That AR stays off rests on no frame being in the session   *)
(* once the camera is stopped (CameraOrder).                               *)
(***************************************************************************)
EXTENDS HandCapture, TLAPS

Values ==
  /\ ui \in {"idle", "invalidate", "clear", "surface", "session", "settings", "scale",
             "recenter", "resume", "open", "dropHands", "noHands", "close", "end", "gone"}
  /\ doing \in {"start", "pause", "apply", "destroy", "resume"}
  /\ settings \in Settings
  /\ camera \in {"none", "running", "stopped", "closed"}
  /\ gl \in {"idle", "enter", "update", "recenter", "anchor", "pose", "submit", "lost", "drop"}

Flags ==
  /\ paused \in BOOLEAN /\ recenter \in BOOLEAN /\ anchored \in BOOLEAN
  /\ closed \in BOOLEAN /\ failed \in BOOLEAN /\ busy \in BOOLEAN

\* While the UI thread pauses, applies or ends something, the phone is paused.
UiOrder ==
  /\ ui \in {"invalidate", "clear", "surface", "session", "settings", "scale", "recenter",
             "resume", "close", "end", "gone"} => paused
  /\ ui \in {"invalidate", "clear", "session"} => doing \in {"pause", "apply", "destroy"}
  /\ ui = "surface" => doing = "pause"
  /\ ui = "open" => ~paused /\ settings.enabled
  /\ closed <=> ui \in {"end", "gone"}

\* Once the session is paused no frame is in it, until it is resumed, which needs AR.
CameraOrder ==
  /\ ui \in {"settings", "scale", "recenter", "resume", "close", "end", "gone"}
       => camera # "running" /\ ~InSession
  /\ ~settings.enabled => camera # "running" /\ ~InSession

PoseOrder ==
  /\ pose \in [enabled : BOOLEAN, tracking : BOOLEAN, age : 0..(FreshMs + 1)]
  /\ ~settings.enabled /\ ~paused => ~pose.enabled

Control == Values /\ Flags /\ UiOrder /\ CameraOrder /\ PoseOrder

\* A published pose is at least as old as the frame that is to replace it.
Ages ==
  /\ frame \in 0..(FreshMs + 1) /\ previous \in 0..(FreshMs + 1)
  /\ least \in Latencies \cup {None}
ClockOrder ==
  /\ least # None => previous - least <= pose.age
  /\ gl \in {"recenter", "anchor", "pose"} =>
       least # None /\ previous - least <= frame /\ frame <= pose.age
Clock == Ages /\ ClockOrder

\* Before it is closed the tracker has one image at most, and is busy with it.
Tasks ==
  /\ queue \in Seq(ImageType) /\ Len(queue) <= QueueSize
  /\ worker \in ImageType \cup {None}
  /\ \A i \in DOMAIN queue : queue[i].at \in {"start", "close"}
  /\ ~closed => /\ queue = <<>> \/ (worker = None /\ Len(queue) = 1)
                /\ ~busy => queue = <<>> /\ worker = None

\* What never reaches the callback, or was placed with what is in force.
Dropped(image) == image.at = "close" \/ ~image.valid
Placed(image) == Dropped(image) \/ image.current \/ ui = "scale"

Publishing == worker # None /\ worker.at = "publish"

Images ==
  /\ (\A i \in DOMAIN queue : Placed(queue[i])) /\ (worker # None => Placed(worker))
  /\ closed \/ gl = "anchor" =>
       (\A i \in DOMAIN queue : Dropped(queue[i])) /\ (worker # None => Dropped(worker))

\* The callback has a valid image, and hands only if they are wanted or the pause waits for it.
Callback ==
  /\ Publishing => worker.valid /\ ~closed
  /\ Publishing /\ worker.hands =>
       /\ worker.current /\ settings.enabled /\ settings.hands
       /\ ~paused \/ ui = "invalidate"

Given ==
  /\ overlay \in [current : BOOLEAN] \cup {None} /\ sent \in [current : BOOLEAN] \cup {None}
  /\ gl = "anchor" => overlay = None /\ sent = None
  /\ HandsAreCurrent /\ NoUnwantedHands

Hands == Tasks /\ Images /\ Callback /\ Given
IInv == Control /\ Clock /\ Hands

-----------------------------------------------------------------------------
\* The switches are Boolean.
LEMMA Wanted == settings \in Settings => settings.enabled \in BOOLEAN /\ settings.hands \in BOOLEAN
BY SettingsAssumption

\* Nothing has happened yet.
LEMMA InitInv == Init => IInv
<1>. SUFFICES ASSUME Init PROVE IInv
  OBVIOUS
<1>. USE DEF Init
<1>1. Values /\ UiOrder /\ CameraOrder
  BY DEF Values, UiOrder, CameraOrder, InSession
<1>2. Flags
  BY DEF Flags
<1>3. PoseOrder
  BY DEF PoseOrder, FreshMs
<1>4. Clock
  BY DEF Clock, Ages, ClockOrder, FreshMs
<1>5. Tasks
  BY DEF Tasks, QueueSize
<1>6. Images /\ Callback /\ Given
  BY DEF Images, Callback, Publishing, Given, HandsAreCurrent, NoUnwantedHands
<1>. QED  BY <1>1, <1>2, <1>3, <1>4, <1>5, <1>6 DEF IInv, Control, Hands

-----------------------------------------------------------------------------
(* The three threads' control.                                             *)

\* The UI thread keeps the flags.
LEMMA UiFlags == ASSUME IInv, Ui PROVE Flags'
<1>. USE DEF UiStep, glVars, trackerVars, handVars
<1>1. CASE \E what \in {"pause", "apply", "destroy"} : PauseBegin(what)
  BY <1>1 DEF PauseBegin, IInv, Control, Flags
<1>2. CASE PauseInvalidate \/ PauseClear \/ PauseSurface \/ PauseSession
  BY <1>2 DEF PauseInvalidate, PauseClear, PauseSurface, PauseSession, IInv, Control, Flags
<1>3. CASE (\E chosen \in Settings : ApplySettings(chosen)) \/ ApplyScale \/ ApplyRecenter
  BY <1>3 DEF ApplySettings, ApplyScale, ApplyRecenter, IInv, Control, Flags
<1>4. CASE ResumeBegin \/ ResumeWithout \/ ResumeFails \/ ResumeSession
  BY <1>4
  DEF ResumeBegin, ResumeWithout, ResumeFails, ResumeSession, NewSession, IInv, Control, Flags
<1>5. CASE Recenter \/ RecenterInvalidate \/ RecenterClear
  BY <1>5 DEF Recenter, RecenterInvalidate, RecenterClear, IInv, Control, Flags
<1>6. CASE Close \/ Destroyed
  BY <1>6 DEF Close, Destroyed, IInv, Control, Flags
<1>. QED  BY <1>1, <1>2, <1>3, <1>4, <1>5, <1>6 DEF Ui

\* Only ResumeSession starts the camera, and only with AR switched on.
LEMMA UiControl == ASSUME IInv, Ui PROVE Control'
<1>. USE DEF UiStep, glVars, trackerVars, handVars, IInv, Control, Values, UiOrder, CameraOrder,
             InSession
<1>0. paused \in BOOLEAN /\ closed \in BOOLEAN /\ settings.enabled \in BOOLEAN
  BY Wanted DEF Flags
<1>1. CASE \E what \in {"pause", "apply", "destroy"} : PauseBegin(what)
  <2>1. Values' /\ UiOrder' /\ CameraOrder'
    BY <1>1 DEF PauseBegin
  <2>2. PoseOrder'
    BY <1>1 DEF PauseBegin, PoseOrder
  <2>. QED  BY <2>1, <2>2, UiFlags
<1>2. CASE PauseInvalidate \/ PauseSurface \/ PauseSession
  <2>1. Values' /\ UiOrder' /\ CameraOrder'
    BY <1>0, <1>2 DEF PauseInvalidate, PauseSurface, PauseSession
  <2>2. PoseOrder'
    BY <1>2 DEF PauseInvalidate, PauseSurface, PauseSession, PoseOrder
  <2>. QED  BY <2>1, <2>2, UiFlags
<1>3. CASE PauseClear
  <2>1. ui = "clear" /\ ui' \in {"surface", "session"} /\ (ui' = "surface" => doing = "pause")
    BY <1>3 DEF PauseClear
  <2>2. Values' /\ UiOrder' /\ CameraOrder'
    BY <1>0, <1>3, <2>1 DEF PauseClear
  <2>3. PoseOrder'
    BY <1>0, <1>3 DEF PauseClear, PublishPose, PoseOrder
  <2>. QED  BY <2>2, <2>3, UiFlags
<1>4. CASE (\E chosen \in Settings : ApplySettings(chosen)) \/ ApplyScale \/ ApplyRecenter
  <2>1. Values' /\ UiOrder' /\ CameraOrder'
    BY <1>4 DEF ApplySettings, ApplyScale, ApplyRecenter
  <2>2. PoseOrder'
    BY <1>4 DEF ApplySettings, ApplyScale, ApplyRecenter, PoseOrder
  <2>. QED  BY <2>1, <2>2, UiFlags
<1>5. CASE ResumeBegin
  <2>1. /\ ui' \in {"open", "idle"} /\ (ui' = "open" => settings.enabled) /\ ~paused' /\ ~closed
        /\ doing' = "resume"
    BY <1>5 DEF ResumeBegin
  <2>2. Values' /\ UiOrder' /\ CameraOrder'
    BY <1>0, <1>5, <2>1 DEF ResumeBegin
  <2>3. PoseOrder'
    BY <1>5 DEF ResumeBegin, PublishPose, PoseOrder
  <2>. QED  BY <2>2, <2>3, UiFlags
<1>6. CASE ResumeWithout
  <2>1. Values' /\ UiOrder' /\ CameraOrder'
    BY <1>0, <1>6 DEF ResumeWithout
  <2>2. PoseOrder'
    BY <1>6 DEF ResumeWithout, PoseOrder
  <2>. QED  BY <2>1, <2>2, UiFlags
<1>7. CASE ResumeFails \/ ResumeSession
  <2>1. /\ ui = "open" /\ ui' = "idle" /\ camera' \in {"none", "running", "stopped", "closed"}
        /\ UNCHANGED <<doing, paused, settings, gl, closed>>
        /\ ~InSession
    BY <1>7 DEF ResumeFails, ResumeSession
  <2>2. Values' /\ UiOrder' /\ CameraOrder'
    BY <1>0, <2>1
  <2>3. PoseOrder'
    <3>1. settings'.enabled
      BY <2>1
    <3>2. CASE PublishPose(TRUE, FALSE, 0)
      BY <3>1, <3>2 DEF PublishPose, PoseOrder
    <3>3. CASE PublishPose(FALSE, FALSE, 0)
      BY <3>1, <3>3 DEF PublishPose, PoseOrder
    <3>. QED  BY <1>7, <3>2, <3>3 DEF ResumeFails, ResumeSession
  <2>. QED  BY <2>2, <2>3, UiFlags
<1>8. CASE Recenter \/ RecenterInvalidate \/ RecenterClear
  <2>1. Values' /\ UiOrder' /\ CameraOrder'
    BY <1>8 DEF Recenter, RecenterInvalidate, RecenterClear
  <2>2. PoseOrder'
    BY <1>8 DEF Recenter, RecenterInvalidate, RecenterClear, PoseOrder
  <2>. QED  BY <2>1, <2>2, UiFlags
<1>9. CASE Close \/ Destroyed
  <2>1. Values' /\ UiOrder' /\ CameraOrder'
    BY <1>9 DEF Close, Destroyed
  <2>2. PoseOrder'
    BY <1>9 DEF Close, Destroyed, PoseOrder
  <2>. QED  BY <2>1, <2>2, UiFlags
<1>. QED  BY <1>1, <1>2, <1>3, <1>4, <1>5, <1>6, <1>7, <1>8, <1>9 DEF Ui

\* A frame is in the session only while the camera runs.
LEMMA GlControl == ASSUME IInv, Gl PROVE Control'
<1>. USE DEF GlStep, uiVars, trackerVars, handVars, IInv, Control, Values, UiOrder, CameraOrder,
             InSession
<1>1. CASE FrameBegin \/ FrameEnter \/ FrameRepeated
  <2>1. Values' /\ UiOrder' /\ CameraOrder'
    BY <1>1 DEF FrameBegin, FrameEnter, FrameRepeated
  <2>2. Flags' /\ PoseOrder'
    BY <1>1 DEF FrameBegin, FrameEnter, FrameRepeated, Flags, PoseOrder
  <2>. QED  BY <2>1, <2>2
<1>2. CASE \E latency \in Latencies : FrameUpdate(latency)
  <2>1. Values' /\ UiOrder' /\ CameraOrder'
    BY <1>2 DEF FrameUpdate
  <2>2. Flags' /\ PoseOrder'
    BY <1>2 DEF FrameUpdate, Flags, PoseOrder
  <2>. QED  BY <2>1, <2>2
<1>3. CASE \/ FrameRecenter \/ FrameAnchor \/ FrameEnd \/ Submit \/ SubmitFails
           \/ FrameLoses \/ LostHands
  <2>1. Values' /\ UiOrder' /\ CameraOrder'
    BY <1>3 DEF FrameRecenter, FrameAnchor, FrameEnd, Submit, SubmitFails, FrameLoses, LostHands
  <2>2. Flags'
    BY <1>3
    DEF FrameRecenter, FrameAnchor, FrameEnd, Submit, SubmitFails, FrameLoses, LostHands, Flags
  <2>3. PoseOrder'
    BY <1>3
    DEF FrameRecenter, FrameAnchor, FrameEnd, Submit, SubmitFails, FrameLoses, LostHands, PoseOrder
  <2>. QED  BY <2>1, <2>2, <2>3
<1>4. CASE FramePose \/ LostPose
  <2>1. Values' /\ UiOrder' /\ CameraOrder'
    <3>1. /\ gl \in {"pose", "lost"} /\ gl' \in {"submit", "drop"}
          /\ UNCHANGED <<uiVars, closed, camera>>
      BY <1>4 DEF FramePose, LostPose
    <3>. QED  BY <3>1
  <2>2. Flags'
    BY <1>4 DEF FramePose, LostPose, Flags
  <2>3. PoseOrder'
    <3>1. settings.enabled
      BY <1>4 DEF FramePose, LostPose
    <3>2. frame \in 0..(FreshMs + 1) /\ 0 \in 0..(FreshMs + 1)
      BY DEF Clock, Ages, FreshMs
    <3>3. CASE FramePose
      BY <3>1, <3>2, <3>3 DEF FramePose, PublishPose, PoseOrder
    <3>4. CASE LostPose
      BY <3>1, <3>2, <3>4 DEF LostPose, PublishPose, PoseOrder
    <3>. QED  BY <1>4, <3>3, <3>4
  <2>. QED  BY <2>1, <2>2, <2>3
<1>. QED  BY <1>1, <1>2, <1>3, <1>4 DEF Gl

\* The worker touches only its own flags.
LEMMA WorkerControl == ASSUME IInv, Worker PROVE Control'
<1>1. /\ UNCHANGED <<uiVars, glVars, camera, pose, closed>>
      /\ failed' \in {failed, TRUE} /\ busy' \in {busy, FALSE}
  BY DEF Worker, WorkerTakes, WorkerSkips, WorkerStarts, WorkerDelivers, WorkerPublishes,
         WorkerFails, WorkerFinishes, WorkerCloses, WorkerStep
<1>. USE DEF uiVars, glVars, IInv, Control
<1>2. Values' /\ UiOrder' /\ CameraOrder' /\ PoseOrder'
  BY <1>1 DEF Values, UiOrder, CameraOrder, InSession, PoseOrder
<1>3. Flags'
  BY <1>1 DEF Flags
<1>. QED  BY <1>2, <1>3

-----------------------------------------------------------------------------
(* Ages.                                                                   *)

\* A capped age stays capped.
LEMMA OlderTypes ==
  ASSUME NEW a \in 0..(FreshMs + 1), NEW d \in Nat
  PROVE  Older(a, d) \in 0..(FreshMs + 1)
BY DEF Older, Least, FreshMs

\* The cap keeps the order of ages, also of one that is reduced.
LEMMA GrowAlike ==
  ASSUME NEW a \in 0..151, NEW b \in 0..151, NEW c \in 0..151, NEW d \in Nat, a - c <= b
  PROVE  Older(a, d) - c <= Older(b, d)
BY DEF Older, Least, FreshMs

\* So does plain order.
LEMMA GrowInOrder ==
  ASSUME NEW a \in 0..151, NEW b \in 0..151, NEW d \in Nat, a <= b
  PROVE  Older(a, d) <= Older(b, d)
BY DEF Older, Least, FreshMs

\* Whatever the clock is corrected by, a frame is mapped no further back than the pose before.
LEMMA UpdateClock ==
  ASSUME IInv, NEW latency \in Latencies, FrameUpdate(latency)
  PROVE  Clock'
<1>1. /\ latency \in 0..150 /\ latency < previous /\ previous \in 0..151 /\ pose.age \in 0..151
      /\ least # None => least \in 0..150 /\ previous - least <= pose.age
  BY TimesAssumption DEF IInv, Control, PoseOrder, Clock, Ages, ClockOrder, FreshMs, FrameUpdate
<1>2. /\ previous' = latency /\ frame' = latency - least' /\ UNCHANGED pose
      /\ least' = LeastLatency(latency)
  BY DEF FrameUpdate
<1>3. /\ least' \in Latencies /\ least' \in 0..150 /\ least' <= latency
      /\ least' = latency \/ (least # None /\ least' = least)
  BY <1>1, <1>2, TimesAssumption DEF LeastLatency, Least, IInv, Clock, Ages
<1>4. frame' \in 0..150 /\ previous' - least' = frame' /\ frame' <= pose.age
  BY <1>1, <1>2, <1>3, SMTT(40)
<1>5. Ages'
  BY <1>1, <1>2, <1>3, <1>4 DEF Ages, FreshMs
<1>6. ClockOrder'
  <2>1. previous' - least' <= frame' /\ least' # None
    BY <1>3, <1>4, NoneAssumption
  <2>. QED  BY <1>2, <1>4, <2>1 DEF ClockOrder
<1>. QED  BY <1>5, <1>6 DEF Clock

\* A step that leaves the ages alone, and begins no frame.
LEMMA KeepsClock ==
  ASSUME IInv, UNCHANGED <<frame, previous, least>>, pose'.age = pose.age,
         gl' \in {"recenter", "anchor", "pose"} => gl \in {"recenter", "anchor", "pose"}
  PROVE  Clock'
BY DEF IInv, Clock, Ages, ClockOrder

\* A new session has a clock of its own; nothing else on the UI thread touches the ages.
LEMMA UiClock == ASSUME IInv, Ui PROVE Clock'
<1>. USE DEF glVars, trackerVars, handVars
<1>1. CASE ResumeFails \/ ResumeSession
  <2>1. UNCHANGED <<frame, gl>> /\ pose'.age = pose.age /\ ~InSession
    BY <1>1 DEF ResumeFails, ResumeSession, PublishPose
  <2>2. \/ UNCHANGED <<previous, least>>
        \/ previous' = FreshMs + 1 /\ least' = None
    BY <1>1 DEF ResumeFails, ResumeSession, NewSession
  <2>. QED  BY <2>1, <2>2 DEF IInv, Clock, Ages, ClockOrder, InSession, FreshMs
<1>2. CASE PauseClear
  <2>1. pose'.age = pose.age
    BY <1>2 DEF PauseClear, PublishPose
  <2>. QED  BY <1>2, <2>1, KeepsClock DEF PauseClear
<1>3. CASE ResumeBegin
  <2>1. pose'.age = pose.age
    BY <1>3 DEF ResumeBegin, PublishPose
  <2>. QED  BY <1>3, <2>1, KeepsClock DEF ResumeBegin
<1>4. CASE UNCHANGED <<frame, previous, least, pose, gl>>
  BY <1>4, KeepsClock
<1>. QED
  BY <1>1, <1>2, <1>3, <1>4
  DEF Ui, PauseBegin, PauseInvalidate, PauseSurface, PauseSession, ApplySettings, ApplyScale,
      ApplyRecenter, ResumeWithout, Recenter, RecenterInvalidate, RecenterClear, Close, Destroyed

\* A frame publishes the age it was mapped to.
LEMMA GlClock == ASSUME IInv, Gl PROVE Clock'
<1>. USE DEF GlStep, glVars, trackerVars, handVars
<1>1. CASE FramePose
  <2>1. gl = "pose" /\ UNCHANGED <<frame, previous, least>> /\ gl' = "submit" /\ pose'.age = frame
    BY <1>1 DEF FramePose, PublishPose
  <2>. QED  BY <2>1 DEF IInv, Clock, Ages, ClockOrder
<1>2. CASE LostPose
  <2>1. pose'.age = pose.age
    BY <1>2 DEF LostPose, PublishPose
  <2>. QED  BY <1>2, <2>1, KeepsClock DEF LostPose
<1>3. CASE /\ UNCHANGED <<frame, previous, least, pose>>
           /\ gl' \in {"recenter", "anchor", "pose"} => gl \in {"recenter", "anchor", "pose"}
  BY <1>3, KeepsClock
<1>. QED
  BY <1>1, <1>2, <1>3, UpdateClock
  DEF Gl, FrameBegin, FrameEnter, FrameRepeated, FrameRecenter, FrameAnchor, FrameEnd, Submit,
      SubmitFails, FrameLoses, LostHands

\* The worker leaves the ages alone.
LEMMA WorkerClock == ASSUME IInv, Worker PROVE Clock'
<1>1. UNCHANGED <<glVars, pose>>
  BY DEF Worker, WorkerTakes, WorkerSkips, WorkerStarts, WorkerDelivers, WorkerPublishes,
         WorkerFails, WorkerFinishes, WorkerCloses, WorkerStep
<1>. QED  BY <1>1, KeepsClock DEF glVars

\* All ages grow alike up to the cap, so their order stays.
LEMMA ElapseClock == ASSUME IInv, NEW d \in Gaps, Elapse(d) PROVE Clock' /\ PoseOrder'
<1>1. /\ d \in Nat /\ frame \in 0..151 /\ previous \in 0..151 /\ pose.age \in 0..151
      /\ least # None => least \in 0..151
  BY TimesAssumption DEF IInv, Control, PoseOrder, Clock, Ages, FreshMs
<1>2. /\ previous' = Older(previous, d) /\ pose' = [pose EXCEPT !.age = Older(pose.age, d)]
      /\ frame' = IF InSession THEN Older(frame, d) ELSE frame
      /\ UNCHANGED <<least, gl, settings, paused>>
  BY DEF Elapse, uiVars
<1>3. /\ pose' \in [enabled : BOOLEAN, tracking : BOOLEAN, age : 0..(FreshMs + 1)]
      /\ pose'.age = Older(pose.age, d) /\ pose'.enabled = pose.enabled
  BY <1>1, <1>2, OlderTypes DEF IInv, Control, PoseOrder, FreshMs
<1>4. Ages'
  BY <1>1, <1>2, OlderTypes DEF IInv, Clock, Ages, FreshMs
<1>5. ClockOrder'
  <2>1. least # None => Older(previous, d) - least <= Older(pose.age, d)
    BY <1>1, GrowAlike DEF IInv, Clock, ClockOrder
  <2>2. gl \in {"recenter", "anchor", "pose"} =>
          /\ frame' = Older(frame, d) /\ least # None
          /\ Older(previous, d) - least <= Older(frame, d)
          /\ Older(frame, d) <= Older(pose.age, d)
    <3>. SUFFICES ASSUME gl \in {"recenter", "anchor", "pose"}
                  PROVE  /\ frame' = Older(frame, d) /\ least # None
                         /\ Older(previous, d) - least <= Older(frame, d)
                         /\ Older(frame, d) <= Older(pose.age, d)
      OBVIOUS
    <3>1. frame' = Older(frame, d) /\ least # None /\ previous - least <= frame /\ frame <= pose.age
      BY <1>2 DEF IInv, Clock, ClockOrder, InSession
    <3>2. Older(previous, d) - least <= Older(frame, d)
      BY <1>1, <3>1, GrowAlike
    <3>3. Older(frame, d) <= Older(pose.age, d)
      BY <1>1, <3>1, GrowInOrder
    <3>. QED  BY <3>1, <3>2, <3>3
  <2>. QED  BY <1>2, <1>3, <2>1, <2>2 DEF ClockOrder
<1>6. PoseOrder'
  BY <1>2, <1>3 DEF IInv, Control, PoseOrder
<1>. QED  BY <1>4, <1>5, <1>6 DEF Clock

-----------------------------------------------------------------------------
(* Images and hands.                                                       *)

\* A flag taken from an image leaves the rest of it.
LEMMA WithoutFlag ==
  ASSUME NEW image \in ImageType, NEW flag \in {"valid", "current"}
  PROVE  /\ image # None /\ Without(flag, image) \in ImageType /\ Without(flag, image) # None
         /\ Without(flag, image).at = image.at /\ Without(flag, image).hands = image.hands
         /\ flag = "valid" => /\ ~Without(flag, image).valid
                              /\ Without(flag, image).current = image.current
         /\ flag = "current" => /\ ~Without(flag, image).current
                                /\ Without(flag, image).valid = image.valid
<1>1. image # None
  BY NoneAssumption
<1>. QED  BY <1>1, NoneAssumption DEF Without, ImageType

\* The same for a whole queue.
LEMMA QueueWithoutFlag ==
  ASSUME Tasks, NEW flag \in {"valid", "current"}
  PROVE  /\ QueueWithout(flag) \in Seq(ImageType) /\ Len(QueueWithout(flag)) = Len(queue)
         /\ DOMAIN QueueWithout(flag) = DOMAIN queue
         /\ QueueWithout(flag) = <<>> <=> queue = <<>>
         /\ \A i \in DOMAIN queue : /\ queue[i] \in ImageType
                                    /\ QueueWithout(flag)[i] = Without(flag, queue[i])
<1>. DEFINE n == Len(queue)
<1>1. n \in Nat /\ DOMAIN queue = 1..n /\ \A i \in 1..n : queue[i] \in ImageType
  BY DEF Tasks
<1>2. \A i \in 1..n : Without(flag, queue[i]) \in ImageType
  BY <1>1, WithoutFlag
<1>. DEFINE q == [i \in 1..n |-> Without(flag, queue[i])]
<1>3. QueueWithout(flag) = q
  BY <1>1 DEF QueueWithout
<1>. HIDE DEF n
<1>4. q \in Seq(ImageType) /\ Len(q) = n /\ DOMAIN q = 1..n
  BY <1>1, <1>2
<1>5. q = <<>> <=> queue = <<>>
  BY <1>1, <1>4 DEF Tasks, n
<1>. QED  BY <1>1, <1>3, <1>4, <1>5 DEF n

\* A new generation drops what is on its way and takes the hands away, while no callback runs.
LEMMA Generation == ASSUME IInv, NewGeneration, UNCHANGED <<closed, busy>> PROVE Hands'
<1>1. ~Publishing /\ Tasks /\ queue \in Seq(ImageType) /\ worker \in ImageType \cup {None}
  BY DEF NewGeneration, TrackerLocked, Publishing, IInv, Hands, Tasks
<1>2. CASE closed
  <2>1. overlay = None /\ sent = None
    BY <1>2 DEF IInv, Control, UiOrder, Hands, Given, NoUnwantedHands
  <2>2. UNCHANGED <<queue, worker, overlay, sent>>
    BY <1>2 DEF NewGeneration, handVars
  <2>3. Tasks' /\ Images' /\ Callback'
    BY <1>1, <1>2, <2>2 DEF IInv, Hands, Tasks, Images, Placed, Callback, Publishing
  <2>. QED  BY <2>1, <2>2, <2>3 DEF Hands, Given, HandsAreCurrent, NoUnwantedHands
<1>3. CASE ~closed
  <2>1. /\ queue' = QueueWithout("valid") /\ worker' = Without("valid", worker)
        /\ overlay' = None /\ sent' = None
    BY <1>3 DEF NewGeneration, NoHands
  <2>2. CASE worker = None
    <3>1. worker' = None
      BY <2>1, <2>2 DEF Without
    <3>2. Tasks' /\ Images' /\ Callback'
      BY <1>1, <2>1, <2>2, <3>1, QueueWithoutFlag, WithoutFlag
      DEF Tasks, Images, Placed, Dropped, Callback, Publishing
    <3>. QED  BY <2>1, <3>2 DEF Hands, Given, HandsAreCurrent, NoUnwantedHands
  <2>3. CASE worker # None
    <3>1. /\ worker' \in ImageType /\ worker' # None /\ ~worker'.valid /\ worker'.at = worker.at
      BY <1>1, <2>1, <2>3, WithoutFlag
    <3>2. Tasks'
      BY <1>1, <2>1, <2>3, <3>1, QueueWithoutFlag, WithoutFlag DEF Tasks
    <3>3. Images' /\ Callback'
      BY <1>1, <2>1, <2>3, <3>1, QueueWithoutFlag, WithoutFlag
      DEF Images, Placed, Dropped, Callback, Publishing
    <3>. QED  BY <2>1, <3>2, <3>3 DEF Hands, Given, HandsAreCurrent, NoUnwantedHands
  <2>. QED  BY <2>2, <2>3
<1>. QED  BY <1>2, <1>3

\* What an outdating leaves: everything but the flag.
LEMMA Outdates ==
  ASSUME IInv, Outdate, UNCHANGED <<closed, busy>>
  PROVE  /\ Tasks'
         /\ DOMAIN queue' = DOMAIN queue
         /\ \A i \in DOMAIN queue : Dropped(queue[i]) => Dropped(queue'[i])
         /\ worker' # None <=> worker # None
         /\ worker # None => /\ worker'.at = worker.at /\ worker'.valid = worker.valid
                             /\ worker'.hands = worker.hands
         /\ overlay = None => overlay' = None
         /\ sent = None => sent' = None
<1>1. Tasks /\ queue \in Seq(ImageType) /\ worker \in ImageType \cup {None}
  BY DEF IInv, Hands, Tasks
<1>2. /\ queue' = QueueWithout("current") /\ worker' = Without("current", worker)
      /\ overlay' = Without("current", overlay) /\ sent' = Without("current", sent)
  BY DEF Outdate
<1>3. (overlay = None => overlay' = None) /\ (sent = None => sent' = None)
  BY <1>2 DEF Without
<1>4. CASE worker = None
  <2>1. worker' = None
    BY <1>2, <1>4 DEF Without
  <2>2. Tasks'
    BY <1>1, <1>2, <1>4, <2>1, QueueWithoutFlag, WithoutFlag DEF Tasks
  <2>. QED  BY <1>1, <1>2, <1>3, <1>4, <2>1, <2>2, QueueWithoutFlag, WithoutFlag DEF Dropped
<1>5. CASE worker # None
  <2>1. /\ worker' \in ImageType /\ worker' # None /\ worker'.at = worker.at
        /\ worker'.valid = worker.valid /\ worker'.hands = worker.hands
    BY <1>1, <1>2, <1>5, WithoutFlag
  <2>2. Tasks'
    BY <1>1, <1>2, <1>5, <2>1, QueueWithoutFlag, WithoutFlag DEF Tasks
  <2>. QED  BY <1>1, <1>2, <1>3, <1>5, <2>1, <2>2, QueueWithoutFlag, WithoutFlag DEF Dropped
<1>. QED  BY <1>4, <1>5

\* A step that leaves the tracker alone, and takes the hands away when the pause is over.
LEMMA KeepsHands ==
  ASSUME IInv, UNCHANGED <<queue, worker, closed, busy, settings>>,
         UNCHANGED handVars \/ NoHands,
         ui = "scale" => ui' = "scale",
         gl' = "anchor" => gl = "anchor",
         ~paused \/ ui = "invalidate" => ~paused' \/ ui' = "invalidate",
         paused' /\ ui' \notin {"invalidate", "clear"} =>
           (paused /\ ui \notin {"invalidate", "clear"}) \/ NoHands
  PROVE  Hands'
<1>. USE DEF IInv, Hands
<1>1. Tasks'
  BY DEF Tasks
<1>2. Images'
  BY DEF Images, Placed
<1>3. Callback'
  BY DEF Callback, Publishing
<1>4. CASE NoHands
  BY <1>1, <1>2, <1>3, <1>4 DEF NoHands, Given, HandsAreCurrent, NoUnwantedHands
<1>5. CASE UNCHANGED handVars
  BY <1>1, <1>2, <1>3, <1>4, <1>5 DEF handVars, Given, HandsAreCurrent, NoUnwantedHands
<1>. QED  BY <1>4, <1>5

\* The settings change while the phone is paused, so no hands are left and none are on their way.
LEMMA ApplySettingsHands ==
  ASSUME IInv, NEW chosen \in Settings, ApplySettings(chosen)
  PROVE  Hands'
<1>1. /\ ui = "settings" /\ ui' = "scale" /\ Outdate /\ UNCHANGED <<closed, busy, gl>>
  BY DEF ApplySettings, UiStep, glVars
<1>2. paused /\ ~closed /\ gl # "anchor" /\ overlay = None /\ sent = None
  BY <1>1 DEF IInv, Control, UiOrder, CameraOrder, InSession, Hands, Given, NoUnwantedHands
<1>3. Publishing => ~worker.hands
  BY <1>1, <1>2 DEF IInv, Hands, Callback
<1>4. Images'
  BY <1>1, <1>2, Outdates DEF Images, Placed
<1>5. Callback'
  BY <1>1, <1>2, <1>3, Outdates DEF IInv, Hands, Callback, Publishing
<1>6. Given'
  BY <1>1, <1>2, Outdates DEF Given, HandsAreCurrent, NoUnwantedHands
<1>. QED  BY <1>1, <1>4, <1>5, <1>6, Outdates DEF Hands

\* The origin changes in a frame that has dropped the images before it.
LEMMA FrameAnchorHands == ASSUME IInv, FrameAnchor PROVE Hands'
<1>1. /\ gl = "anchor" /\ gl' = "pose" /\ Outdate /\ UNCHANGED <<closed, busy, paused, ui>>
  BY DEF FrameAnchor, GlStep, uiVars
<1>2. /\ overlay = None /\ sent = None
      /\ (\A i \in DOMAIN queue : Dropped(queue[i])) /\ (worker # None => Dropped(worker))
      /\ ~Publishing
  BY <1>1 DEF IInv, Hands, Given, Images, Callback, Publishing, Dropped
<1>3. Images'
  BY <1>1, <1>2, Outdates DEF Images, Placed, Dropped
<1>4. Callback'
  BY <1>1, <1>2, Outdates DEF Callback, Publishing
<1>5. Given'
  BY <1>1, <1>2, Outdates DEF Given, HandsAreCurrent, NoUnwantedHands
<1>. QED  BY <1>1, <1>3, <1>4, <1>5, Outdates DEF Hands

\* The queue has room for the task that closes the landmarker beside the one image.
LEMMA CloseHands == ASSUME IInv, Close PROVE Hands'
<1>1. /\ ui = "close" /\ ui' = "end" /\ closed' /\ ~Publishing /\ overlay' = None /\ sent' = None
      /\ UNCHANGED <<gl, paused, settings>>
      /\ worker' = Without("valid", worker)
      /\ queue' = Append(QueueWithout("valid"), Image(0, "close"))
  BY DEF Close, UiStep, TrackerLocked, Publishing, NoHands, glVars
<1>2. ~closed /\ Tasks
  BY <1>1 DEF IInv, Control, UiOrder, Hands
<1>. DEFINE q == QueueWithout("valid")
            task == Image(0, "close")
<1>3. task \in ImageType /\ task.at = "close"
  BY DEF Image, ImageType, FreshMs
<1>4. /\ q \in Seq(ImageType) /\ Len(q) \in 0..1 /\ DOMAIN q = 1..Len(q)
      /\ \A i \in DOMAIN q : q[i].at \in {"start", "close"} /\ ~q[i].valid
  <2>1. Len(queue) \in 0..1
    BY <1>2 DEF Tasks
  <2>. QED  BY <1>2, <2>1, QueueWithoutFlag, WithoutFlag DEF Tasks
<1>. HIDE DEF q, task
<1>5. /\ queue' \in Seq(ImageType) /\ Len(queue') <= QueueSize
      /\ \A i \in DOMAIN queue' : queue'[i].at \in {"start", "close"} /\ Dropped(queue'[i])
  BY <1>1, <1>3, <1>4 DEF Dropped, QueueSize, q, task
<1>6. worker' \in ImageType \cup {None} /\ (worker' # None => ~worker'.valid)
  BY <1>1, <1>2, WithoutFlag DEF Tasks, Without
<1>7. ~Publishing'
  BY <1>1, <1>2, WithoutFlag DEF Tasks, Without, Publishing
<1>8. Tasks' /\ Images' /\ Callback'
  BY <1>1, <1>5, <1>6, <1>7 DEF Tasks, Images, Placed, Dropped, Callback
<1>9. Given'
  BY <1>1 DEF Given, HandsAreCurrent, NoUnwantedHands
<1>. QED  BY <1>8, <1>9 DEF Hands

\* The UI thread preserves it.
LEMMA UiHands == ASSUME IInv, Ui PROVE Hands'
<1>. USE DEF UiStep, glVars, trackerVars, handVars
<1>1. CASE \E what \in {"pause", "apply", "destroy"} : PauseBegin(what)
  BY <1>1, KeepsHands DEF PauseBegin
<1>2. CASE PauseInvalidate \/ ApplyScale \/ RecenterInvalidate
  BY <1>2, Generation DEF PauseInvalidate, ApplyScale, RecenterInvalidate
<1>3. CASE PauseClear
  <2>1. ui = "clear" /\ ui' # "scale" /\ paused /\ NoHands /\ UNCHANGED <<paused, settings, gl>>
        /\ UNCHANGED <<queue, worker, closed, busy>>
    BY <1>3 DEF PauseClear, IInv, Control, UiOrder
  <2>. QED  BY <2>1, KeepsHands
<1>4. CASE PauseSurface \/ PauseSession
  <2>1. paused /\ ui \notin {"invalidate", "clear", "scale"}
    BY <1>4 DEF PauseSurface, PauseSession, IInv, Control, UiOrder
  <2>. QED  BY <1>4, <2>1, KeepsHands DEF PauseSurface, PauseSession
<1>5. CASE ApplyRecenter \/ Recenter \/ RecenterClear \/ ResumeWithout
  BY <1>5, KeepsHands DEF ApplyRecenter, Recenter, RecenterClear, ResumeWithout
<1>6. CASE ResumeBegin \/ ResumeFails \/ ResumeSession
  <2>1. UNCHANGED <<queue, worker, closed, busy, settings, gl, overlay, sent>>
    BY <1>6 DEF ResumeBegin, ResumeFails, ResumeSession
  <2>2. ui # "scale"
    BY <1>6 DEF ResumeBegin, ResumeFails, ResumeSession
  <2>3. ui = "open" => ~paused
    BY DEF IInv, Control, UiOrder
  <2>4. ~paused'
    BY <1>6, <2>3 DEF ResumeBegin, ResumeFails, ResumeSession
  <2>. QED  BY <2>1, <2>2, <2>4, KeepsHands
<1>7. CASE Destroyed
  BY <1>7, KeepsHands DEF Destroyed
<1>. QED
  BY <1>1, <1>2, <1>3, <1>4, <1>5, <1>6, <1>7, ApplySettingsHands, CloseHands DEF Ui

\* The tracker takes an image when it has none.
LEMMA SubmitHands == ASSUME IInv, Submit PROVE Hands'
<1>1. /\ gl = "submit" /\ gl' = "idle" /\ ~closed /\ ~busy /\ busy' /\ closed' = closed
      /\ queue' = Append(queue, Image(frame, "start"))
      /\ UNCHANGED <<ui, paused, settings, worker, overlay, sent>>
  BY DEF Submit, GlStep, uiVars, handVars
<1>2. queue = <<>> /\ worker = None
  BY <1>1 DEF IInv, Hands, Tasks
<1>. DEFINE image == Image(frame, "start")
<1>3. image \in ImageType /\ image.at = "start" /\ image.current
  BY DEF Image, ImageType, FreshMs, IInv, Clock, Ages
<1>. HIDE DEF image
<1>4. queue' \in Seq(ImageType) /\ Len(queue') = 1 /\ DOMAIN queue' = {1} /\ queue'[1] = image
  BY <1>1, <1>2, <1>3 DEF image
<1>5. Tasks'
  BY <1>1, <1>2, <1>3, <1>4 DEF Tasks, QueueSize
<1>6. Images' /\ Callback'
  BY <1>1, <1>2, <1>3, <1>4 DEF Images, Placed, Callback, Publishing
<1>7. Given'
  BY <1>1 DEF IInv, Hands, Given, HandsAreCurrent, NoUnwantedHands
<1>. QED  BY <1>5, <1>6, <1>7 DEF Hands

\* The GL thread preserves it.
LEMMA GlHands == ASSUME IInv, Gl PROVE Hands'
<1>. USE DEF GlStep, uiVars, trackerVars, handVars
<1>1. CASE FrameRecenter \/ LostHands
  BY <1>1, Generation DEF FrameRecenter, LostHands
<1>2. CASE FrameBegin \/ FrameEnter \/ FrameRepeated
  BY <1>2, KeepsHands DEF FrameBegin, FrameEnter, FrameRepeated
<1>3. CASE \E latency \in Latencies : FrameUpdate(latency)
  BY <1>3, KeepsHands DEF FrameUpdate
<1>4. CASE FramePose \/ FrameEnd \/ SubmitFails \/ FrameLoses \/ LostPose
  <2>1. /\ gl' # "anchor" /\ UNCHANGED <<ui, paused, queue, worker, closed, busy, settings>>
        /\ UNCHANGED handVars \/ NoHands
    BY <1>4 DEF FramePose, FrameEnd, SubmitFails, FrameLoses, LostPose
  <2>. QED  BY <2>1, KeepsHands
<1>. QED  BY <1>1, <1>2, <1>3, <1>4, FrameAnchorHands, SubmitHands DEF Gl

-----------------------------------------------------------------------------
(* The worker.                                                             *)

\* What a worker's step leaves alone.
LEMMA WorkerLeaves ==
  ASSUME Worker
  PROVE  UNCHANGED <<ui, paused, settings, gl, closed>>
BY DEF Worker, WorkerTakes, WorkerSkips, WorkerStarts, WorkerDelivers, WorkerPublishes,
       WorkerFails, WorkerFinishes, WorkerCloses, WorkerStep, uiVars, glVars

\* An image moves on, its flags stay; to the callback only with what the callback needs.
LEMMA ImageMovesOn ==
  ASSUME IInv, worker # None, worker' \in ImageType, UNCHANGED <<queue, busy>>,
         UNCHANGED <<ui, paused, settings, gl, closed>>,
         worker.at # "close", worker'.valid = worker.valid, worker'.current = worker.current,
         worker'.at = "publish" => /\ worker.valid /\ ~closed
                                   /\ worker'.hands => Active
  PROVE  Tasks' /\ Images' /\ Callback'
<1>. USE DEF IInv, Hands
<1>1. Tasks'
  BY DEF Tasks
<1>2. Images'
  BY DEF Images, Placed, Dropped
<1>3. Callback'
  BY DEF Callback, Publishing, Images, Placed, Dropped, Active, Control, UiOrder
<1>. QED  BY <1>1, <1>2, <1>3

\* The worker is done with what it had.
LEMMA ImageEnds ==
  ASSUME IInv, worker # None, worker' = None, UNCHANGED queue, busy' \in {busy, FALSE},
         worker.at = "close" \/ ~busy', UNCHANGED <<ui, paused, settings, gl, closed>>
  PROVE  Tasks' /\ Images' /\ Callback'
BY DEF IInv, Hands, Tasks, Images, Placed, Callback, Publishing

\* The worker preserves it: what it publishes was placed with what is in force.
LEMMA WorkerHands == ASSUME IInv, Worker PROVE Hands'
<1>. USE DEF handVars
<1>1. UNCHANGED <<ui, paused, settings, gl, closed>>
  BY WorkerLeaves
<1>2. worker \in ImageType \cup {None}
  BY DEF IInv, Hands, Tasks
<1>3. UNCHANGED handVars \/ NoHands => Given'
  BY <1>1 DEF IInv, Hands, Given, NoHands, HandsAreCurrent, NoUnwantedHands
<1>4. CASE WorkerTakes
  <2>1. /\ worker = None /\ queue # <<>> /\ queue \in Seq(ImageType)
        /\ worker' = Head(queue) /\ queue' = Tail(queue) /\ UNCHANGED <<busy, handVars>>
    BY <1>4 DEF WorkerTakes, IInv, Hands, Tasks
  <2>2. /\ Len(queue) \in Nat /\ queue' \in Seq(ImageType) /\ Len(queue') = Len(queue) - 1
        /\ worker' = queue[1] /\ 1 \in DOMAIN queue /\ worker' \in ImageType
        /\ DOMAIN queue' = 1..(Len(queue) - 1)
        /\ \A i \in DOMAIN queue' : i + 1 \in DOMAIN queue /\ queue'[i] = queue[i + 1]
    BY <2>1
  <2>3. Tasks'
    BY <1>1, <2>1, <2>2 DEF IInv, Hands, Tasks, QueueSize
  <2>4. Images'
    BY <1>1, <2>1, <2>2, NoneAssumption DEF IInv, Hands, Images, Placed
  <2>5. Callback'
    BY <2>1, <2>2 DEF IInv, Hands, Tasks, Callback, Publishing
  <2>. QED  BY <1>3, <2>1, <2>3, <2>4, <2>5 DEF Hands
<1>5. CASE WorkerSkips \/ WorkerStarts
  <2>1. /\ worker # None /\ worker.at = "start" /\ UNCHANGED <<queue, busy, handVars>>
        /\ \E to \in {"finish", "detect"} : worker' = [worker EXCEPT !.at = to]
    BY <1>5 DEF WorkerSkips, WorkerStarts, WorkerStep
  <2>2. /\ worker' \in ImageType /\ worker'.at # "publish"
        /\ worker'.valid = worker.valid /\ worker'.current = worker.current
    BY <1>2, <2>1 DEF ImageType
  <2>. QED  BY <1>1, <1>3, <2>1, <2>2, ImageMovesOn DEF Hands
<1>6. ASSUME NEW found \in BOOLEAN, WorkerDelivers(found) PROVE Hands'
  <2>1. /\ worker # None /\ worker.at = "detect" /\ UNCHANGED <<queue, busy, handVars>>
        /\ worker' = IF ~closed /\ worker.valid
                       THEN [worker EXCEPT !.at = "publish",
                                           !.hands = found /\ worker.age <= FreshMs /\ Active]
                       ELSE [worker EXCEPT !.at = "finish"]
    BY <1>6 DEF WorkerDelivers
  <2>2. (found /\ worker.age <= FreshMs /\ Active) \in BOOLEAN
    OBVIOUS
  <2>3. /\ worker' \in ImageType /\ worker'.valid = worker.valid /\ worker'.current = worker.current
        /\ worker'.at = "publish" => worker.valid /\ ~closed /\ (worker'.hands => Active)
    BY <1>2, <2>1, <2>2 DEF ImageType
  <2>. QED  BY <1>1, <1>3, <2>1, <2>3, ImageMovesOn DEF Hands
<1>7. CASE WorkerPublishes
  <2>1. /\ Publishing /\ worker' = [worker EXCEPT !.at = "finish"] /\ UNCHANGED <<queue, busy>>
        /\ sent' = IF worker.hands THEN [current |-> worker.current] ELSE None
        /\ overlay' = IF settings.show THEN sent' ELSE None
    BY <1>7 DEF WorkerPublishes, WorkerStep, Publishing
  <2>2. /\ worker' \in ImageType /\ worker'.at # "publish"
        /\ worker'.valid = worker.valid /\ worker'.current = worker.current
    BY <1>2, <2>1 DEF ImageType, Publishing
  <2>3. Tasks' /\ Images' /\ Callback'
    BY <1>1, <2>1, <2>2, ImageMovesOn DEF Publishing
  <2>4. gl # "anchor"
    BY <2>1 DEF IInv, Hands, Images, Callback, Publishing, Dropped
  <2>5. CASE worker.hands
    <3>1. /\ worker.current /\ settings.enabled /\ settings.hands /\ (~paused \/ ui = "invalidate")
          /\ worker.current \in BOOLEAN
      BY <1>2, <2>1, <2>5 DEF IInv, Hands, Callback, Publishing, ImageType
    <3>2. /\ sent' = [current |-> worker.current] /\ overlay' \in {sent', None}
          /\ sent' \in [current : BOOLEAN] /\ sent'.current
      BY <2>1, <2>5, <3>1
    <3>3. Given'
      BY <1>1, <2>4, <3>1, <3>2 DEF Given, HandsAreCurrent, NoUnwantedHands
    <3>. QED  BY <2>3, <3>3 DEF Hands
  <2>6. CASE ~worker.hands
    BY <1>3, <2>1, <2>3, <2>6 DEF Hands, NoHands
  <2>. QED  BY <2>5, <2>6
<1>8. CASE WorkerFails
  <2>1. /\ worker # None /\ worker.at = "detect" /\ UNCHANGED <<queue, busy>>
        /\ UNCHANGED handVars \/ NoHands
        /\ worker' = [worker EXCEPT !.at = "finish"]
    BY <1>8 DEF WorkerFails, WorkerStep
  <2>2. /\ worker' \in ImageType /\ worker'.at # "publish"
        /\ worker'.valid = worker.valid /\ worker'.current = worker.current
    BY <1>2, <2>1 DEF ImageType
  <2>. QED  BY <1>1, <1>3, <2>1, <2>2, ImageMovesOn DEF Hands
<1>9. CASE WorkerFinishes \/ WorkerCloses
  <2>1. /\ worker # None /\ worker' = None /\ UNCHANGED <<queue, handVars>>
        /\ busy' \in {busy, FALSE} /\ (worker.at = "close" \/ ~busy')
    BY <1>9 DEF WorkerFinishes, WorkerCloses
  <2>. QED  BY <1>1, <1>3, <2>1, ImageEnds DEF Hands
<1>. QED  BY <1>4, <1>5, <1>6, <1>7, <1>8, <1>9 DEF Worker

-----------------------------------------------------------------------------
(* Time, and all steps.                                                    *)

\* Images grow older.
LEMMA ElapseHands == ASSUME IInv, NEW d \in Gaps, Elapse(d) PROVE Hands'
<1>1. /\ d \in Nat /\ queue \in Seq(ImageType) /\ worker \in ImageType \cup {None}
      /\ UNCHANGED <<ui, paused, settings, gl, closed, busy, overlay, sent>>
      /\ queue' = [i \in DOMAIN queue |-> [queue[i] EXCEPT !.age = Older(@, d)]]
      /\ worker' = IF worker = None THEN None ELSE [worker EXCEPT !.age = Older(@, d)]
  BY TimesAssumption DEF IInv, Hands, Tasks, Elapse, uiVars, handVars
<1>2. ASSUME NEW image \in ImageType
      PROVE  /\ [image EXCEPT !.age = Older(@, d)] \in ImageType
             /\ [image EXCEPT !.age = Older(@, d)].at = image.at
             /\ [image EXCEPT !.age = Older(@, d)].hands = image.hands
             /\ [image EXCEPT !.age = Older(@, d)].valid = image.valid
             /\ [image EXCEPT !.age = Older(@, d)].current = image.current
  <2>1. image.age \in 0..(FreshMs + 1)
    BY DEF ImageType
  <2>2. Older(image.age, d) \in 0..(FreshMs + 1)
    BY <1>1, <2>1, OlderTypes
  <2>. QED  BY <2>2 DEF ImageType
<1>. DEFINE n == Len(queue)
            Aged(image) == [image EXCEPT !.age = Older(@, d)]
            q == [i \in 1..n |-> Aged(queue[i])]
<1>3. n \in Nat /\ DOMAIN queue = 1..n /\ queue' = q /\ \A i \in 1..n : queue[i] \in ImageType
  BY <1>1
<1>. HIDE DEF n
<1>4. \A i \in 1..n : /\ Aged(queue[i]) \in ImageType /\ Aged(queue[i]).at = queue[i].at
                      /\ Aged(queue[i]).valid = queue[i].valid
                      /\ Aged(queue[i]).current = queue[i].current
  BY <1>2, <1>3
<1>. HIDE DEF Aged
<1>5. /\ q \in Seq(ImageType) /\ Len(q) = n /\ DOMAIN q = 1..n
      /\ \A i \in 1..n : /\ q[i].at = queue[i].at /\ q[i].valid = queue[i].valid
                         /\ q[i].current = queue[i].current
      /\ q = <<>> <=> queue = <<>>
  BY <1>1, <1>3, <1>4 DEF n
<1>. HIDE DEF q
<1>6. CASE worker = None
  <2>1. worker' = None
    BY <1>1, <1>6
  <2>2. Tasks'
    BY <1>1, <1>3, <1>5, <1>6, <2>1 DEF IInv, Hands, Tasks, n
  <2>3. Images' /\ Callback'
    BY <1>1, <1>3, <1>5, <1>6, <2>1
    DEF IInv, Hands, Images, Placed, Dropped, Callback, Publishing
  <2>. QED  BY <1>1, <2>2, <2>3 DEF IInv, Hands, Given, HandsAreCurrent, NoUnwantedHands
<1>7. CASE worker # None
  <2>1. /\ worker' \in ImageType /\ worker' # None /\ worker'.at = worker.at
        /\ worker'.hands = worker.hands /\ worker'.valid = worker.valid
        /\ worker'.current = worker.current
    BY <1>1, <1>2, <1>7, NoneAssumption
  <2>2. Tasks'
    <3>1. \A i \in 1..n : q[i].at \in {"start", "close"}
      BY <1>3, <1>5 DEF IInv, Hands, Tasks
    <3>2. ~closed => queue = <<>> /\ busy
      BY <1>7 DEF IInv, Hands, Tasks
    <3>3. n <= QueueSize
      BY DEF IInv, Hands, Tasks, n
    <3>. QED  BY <1>1, <1>3, <1>5, <2>1, <3>1, <3>2, <3>3 DEF Tasks
  <2>3. Images'
    <3>1. \A i \in 1..n : Dropped(q[i]) <=> Dropped(queue[i])
      BY <1>5 DEF Dropped
    <3>2. Dropped(worker') <=> Dropped(worker)
      BY <2>1 DEF Dropped
    <3>. QED  BY <1>1, <1>3, <1>5, <1>7, <2>1, <3>1, <3>2 DEF IInv, Hands, Images, Placed
  <2>4. Callback'
    BY <1>1, <1>7, <2>1 DEF IInv, Hands, Callback, Publishing
  <2>. QED  BY <1>1, <2>2, <2>3, <2>4 DEF IInv, Hands, Given, HandsAreCurrent, NoUnwantedHands
<1>. QED  BY <1>6, <1>7

\* Time passes.
LEMMA ElapseInv == ASSUME IInv, NEW d \in Gaps, Elapse(d) PROVE IInv'
<1>1. UNCHANGED <<uiVars, gl, recenter, anchored, camera, closed, failed, busy>>
  BY DEF Elapse
<1>2. Values' /\ UiOrder' /\ CameraOrder'
  BY <1>1 DEF IInv, Control, Values, UiOrder, CameraOrder, InSession, uiVars
<1>3. Flags'
  BY <1>1 DEF IInv, Control, Flags, uiVars
<1>. QED  BY <1>2, <1>3, ElapseClock, ElapseHands DEF IInv, Control

\* The renderer only stops to track.
LEMMA ReadPoseInv == ASSUME IInv, ReadPose PROVE IInv'
<1>1. /\ UNCHANGED <<uiVars, glVars, camera, trackerVars, handVars>>
      /\ pose' = [pose EXCEPT !.tracking = FALSE]
  BY DEF ReadPose
<1>2. pose'.age = pose.age /\ PoseOrder'
  BY <1>1 DEF IInv, Control, PoseOrder, uiVars
<1>3. Values' /\ UiOrder' /\ CameraOrder'
  BY <1>1 DEF IInv, Control, Values, UiOrder, CameraOrder, InSession, uiVars, glVars, trackerVars
<1>4. Flags'
  BY <1>1 DEF IInv, Control, Flags, uiVars, glVars, trackerVars
<1>5. Clock'
  BY <1>1, <1>2, KeepsClock DEF glVars
<1>6. Hands'
  BY <1>1, KeepsHands DEF uiVars, glVars, trackerVars
<1>. QED  BY <1>2, <1>3, <1>4, <1>5, <1>6 DEF IInv, Control

\* Every step preserves the invariant.
LEMMA NextInv == ASSUME IInv, [Next]_vars PROVE IInv'
<1>1. CASE UNCHANGED vars
  <2>1. UNCHANGED <<uiVars, glVars, camera, trackerVars, pose, handVars>>
    BY <1>1 DEF vars
  <2>2. Values' /\ UiOrder' /\ CameraOrder' /\ PoseOrder'
    BY <2>1 DEF IInv, Control, Values, UiOrder, CameraOrder, PoseOrder, InSession, uiVars, glVars,
                trackerVars
  <2>3. Flags'
    BY <2>1 DEF IInv, Control, Flags, uiVars, glVars, trackerVars
  <2>4. Clock' /\ Hands'
    BY <2>1, KeepsClock, KeepsHands DEF uiVars, glVars, trackerVars
  <2>. QED  BY <2>2, <2>3, <2>4 DEF IInv, Control
<1>2. CASE Ui
  BY <1>2, UiControl, UiClock, UiHands DEF IInv
<1>3. CASE Gl
  BY <1>3, GlControl, GlClock, GlHands DEF IInv
<1>4. CASE Worker
  BY <1>4, WorkerControl, WorkerClock, WorkerHands DEF IInv
<1>. QED  BY <1>1, <1>2, <1>3, <1>4, ReadPoseInv, ElapseInv DEF Next

-----------------------------------------------------------------------------
\* In every reachable state of the three threads the invariant holds.
THEOREM CaptureInv == Spec => []IInv
<1>1. Init => IInv
  BY InitInv
<1>2. IInv /\ [Next]_vars => IInv'
  BY NextInv
<1>. QED  BY <1>1, <1>2, PTL DEF Spec

\* The fields have their types and the worker's queue always has room (HandTracker.java:41-42,
\* 67, 85, 195).
THEOREM CaptureTypes == Spec => []TypeOK
<1>1. ASSUME IInv PROVE TypeOK
  <2>1. ASSUME ~closed PROVE Len(queue) # QueueSize
    <3>1. queue = <<>> \/ Len(queue) = 1
      BY <1>1, <2>1 DEF IInv, Hands, Tasks
    <3>. QED  BY <3>1 DEF QueueSize
  <2>2. /\ paused \in BOOLEAN /\ recenter \in BOOLEAN /\ anchored \in BOOLEAN
        /\ closed \in BOOLEAN /\ failed \in BOOLEAN /\ busy \in BOOLEAN
    BY <1>1 DEF IInv, Control, Flags
  <2>. QED
    BY <1>1, <2>1, <2>2
    DEF IInv, Control, Values, PoseOrder, Clock, Ages, Hands, Tasks, Given, TypeOK
<1>. QED  BY <1>1, CaptureInv, PTL

\* Hands that are drawn or sent were placed with the origin and the settings in force
\* (HandTracker.java:141, 180-187, XrController.java:128-134, 188).
THEOREM HandsStayCurrent == Spec => []HandsAreCurrent
<1>1. IInv => HandsAreCurrent
  BY DEF IInv, Hands, Given
<1>. QED  BY <1>1, CaptureInv, PTL

\* No hands once beforePause is over, or while the settings want none (XrController.java:96,
\* 157-165).
THEOREM UnwantedHandsAreGone == Spec => []NoUnwantedHands
<1>1. IInv => NoUnwantedHands
  BY DEF IInv, Hands, Given
<1>. QED  BY <1>1, CaptureInv, PTL

\* AR that is switched off stays off (XrController.java:74, 98, 188).
THEOREM OffStaysOff == Spec => []OffFallsBack
<1>1. IInv => OffFallsBack
  BY DEF IInv, Control, PoseOrder, OffFallsBack
<1>. QED  BY <1>1, CaptureInv, PTL

\* Captures of published poses never go back in time, whatever the clock is corrected by
\* (FrameClock.java:7-13).
THEOREM CapturesAdvance == Spec => CaptureAdvances
<1>1. ASSUME IInv, Next, gl = "pose", gl' = "submit" PROVE pose'.age <= pose.age
  <2>1. CASE Gl
    <3>1. FramePose
      BY <1>1, <2>1
      DEF Gl, FrameBegin, FrameEnter, FrameRepeated, FrameUpdate, FrameRecenter, FrameAnchor,
          FrameEnd, Submit, SubmitFails, FrameLoses, LostPose, LostHands, GlStep
    <3>2. pose'.age = frame
      BY <3>1 DEF FramePose, PublishPose
    <3>. QED  BY <1>1, <3>2 DEF IInv, Clock, ClockOrder
  <2>2. CASE UNCHANGED gl
    BY <1>1, <2>2
  <2>3. Ui \/ ReadPose \/ (\E d \in Gaps : Elapse(d)) => UNCHANGED gl
    BY DEF Ui, PauseBegin, PauseInvalidate, PauseClear, PauseSurface, PauseSession, ApplySettings,
           ApplyScale, ApplyRecenter, ResumeBegin, ResumeWithout, ResumeFails, ResumeSession,
           Recenter, RecenterInvalidate, RecenterClear, Close, Destroyed, ReadPose, Elapse, glVars
  <2>. QED  BY <1>1, <2>1, <2>2, <2>3, WorkerLeaves DEF Next
<1>2. IInv /\ [Next]_vars => [gl = "pose" /\ gl' = "submit" => pose'.age <= pose.age]_vars
  BY <1>1
<1>. QED  BY <1>2, CaptureInv, PTL DEF Spec, CaptureAdvances
=============================================================================
