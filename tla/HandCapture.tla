------------------------------ MODULE HandCapture ------------------------------
(***************************************************************************)
(* From the camera to the pose and hand snapshots on the phone, all in     *)
(* android-client: XrController.java on the UI and GL threads, the worker  *)
(* of HandTracker.java with its callback, FrameClock.java and the native   *)
(* snapshots of phonexr_pose.hpp and phonexr_hands.hpp.                    *)
(*                                                                         *)
(* Two Java locks: the session lock, held by a frame from "update" to its  *)
(* end and by the UI thread within single steps, and the tracker's lock,   *)
(* held by the worker while it is in the callback and by everybody else    *)
(* within single steps.                                                    *)
(*                                                                         *)
(* Times are ages in milliseconds, capped where no comparison can tell.    *)
(* Instead of a generation an image has the flag valid, which a new        *)
(* generation clears.  The flag current is history: the image was placed   *)
(* with the origin and the settings that are in force.                     *)
(***************************************************************************)
EXTENDS Integers, Sequences

CONSTANTS Settings,  \* what Apply may choose: [enabled, hands, show : BOOLEAN]
          Latencies, \* milliseconds from exposure to session.update
          Gaps,      \* milliseconds that pass in one step
          None

ASSUME SettingsAssumption == Settings \subseteq [enabled : BOOLEAN, hands : BOOLEAN, show : BOOLEAN]
ASSUME TimesAssumption == Latencies \subseteq 0..150 /\ Gaps \subseteq Nat

FreshMs == 150  \* MAX_RESULT_AGE_NS, and 150000000ULL in the snapshots
QueueSize == 2  \* new ArrayBlockingQueue<>(2)

VARIABLES
  ui, doing,         \* the UI thread: its next step, and what it is in the middle of
  paused, settings,  \* XrController's fields
  recenter, anchored,
  camera,            \* session and resumed: "none", "running", "stopped" or "closed"
  gl, frame,         \* the GL thread: its next step, and the mapped age of its frame
  previous, least,   \* FrameClock: age of the last timestamp, minimumOffset or None
  closed, failed, busy, queue, \* HandTracker
  worker,            \* the image the worker is at, or None
  pose,              \* native: [enabled, tracking, age]
  overlay,           \* native: the hands that are drawn, or None
  sent               \* what HandSender was given last: hands, or None for an empty observation

uiVars == <<ui, doing, paused, settings>>
glVars == <<gl, frame, previous, least, recenter, anchored>>
trackerVars == <<closed, failed, busy, queue, worker>>
handVars == <<overlay, sent>>
vars == <<uiVars, glVars, camera, trackerVars, pose, handVars>>

Least(a, b) == IF a < b THEN a ELSE b
Older(a, d) == Least(a + d, FreshMs + 1)

Init ==
  /\ ui = "idle" /\ doing = "start" /\ paused = TRUE /\ settings \in Settings
  /\ recenter = TRUE /\ anchored = FALSE /\ camera = "none"
  /\ gl = "idle" /\ frame = 0 /\ previous = FreshMs + 1 /\ least = None
  /\ closed = FALSE /\ failed = FALSE /\ busy = FALSE /\ queue = <<>> /\ worker = None
  /\ pose = [enabled |-> FALSE, tracking |-> FALSE, age |-> FreshMs + 1]
  /\ overlay = None /\ sent = None

-----------------------------------------------------------------------------
(* Shared parts.                                                           *)

InSession == gl \in {"update", "recenter", "anchor", "pose", "submit", "lost", "drop"}
TrackerLocked == worker # None /\ worker.at = "publish"
Active == ~paused /\ settings.enabled /\ settings.hands

PublishPose(on, tracks, age) ==
  pose' = [enabled |-> on, tracking |-> tracks, age |-> IF tracks THEN age ELSE pose.age]

NoHands == overlay' = None /\ sent' = None

Image(age, at) == [age |-> age, at |-> at, hands |-> FALSE, valid |-> TRUE, current |-> TRUE]

\* An image without a flag, in the queue and at the worker.
Without(flag, image) == IF image = None THEN None ELSE [image EXCEPT ![flag] = FALSE]
QueueWithout(flag) == [i \in DOMAIN queue |-> Without(flag, queue[i])]

\* A new generation: the images on their way are dropped, the listener gets no hands.
NewGeneration ==
  /\ ~TrackerLocked
  /\ IF closed THEN UNCHANGED <<queue, worker, handVars>>
     ELSE /\ queue' = QueueWithout("valid") /\ worker' = Without("valid", worker)
          /\ NoHands

\* The origin or the settings change: everything placed with the old ones is outdated.
Outdate ==
  /\ queue' = QueueWithout("current") /\ worker' = Without("current", worker)
  /\ overlay' = Without("current", overlay) /\ sent' = Without("current", sent)

-----------------------------------------------------------------------------
(* The UI thread.                                                          *)

UiStep(from, to) == ui = from /\ ui' = to

\* The start of beforePause, in onPause, onDestroy or the settings' Apply.
PauseBegin(what) ==
  /\ UiStep("idle", "invalidate")
  /\ what = "destroy" => paused
  /\ what # "destroy" => ~paused
  /\ doing' = what /\ paused' = TRUE
  /\ UNCHANGED <<settings, glVars, camera, trackerVars, pose, handVars>>

PauseInvalidate ==
  /\ UiStep("invalidate", "clear")
  /\ NewGeneration
  /\ UNCHANGED <<doing, paused, settings, glVars, camera, closed, failed, busy, pose>>

PauseClear ==
  /\ UiStep("clear", IF doing = "pause" THEN "surface" ELSE "session")
  /\ NoHands
  /\ PublishPose(settings.enabled, FALSE, 0)
  /\ UNCHANGED <<doing, paused, settings, glVars, camera, trackerVars>>

\* GLSurfaceView.onPause waits for the frame in progress.
PauseSurface ==
  /\ UiStep("surface", "session")
  /\ gl = "idle"
  /\ UNCHANGED <<doing, paused, settings, glVars, camera, trackerVars, pose, handVars>>

\* Mutant: the session is paused without its lock.
PauseSessionUnlocked ==
  /\ UiStep("session", CASE doing = "pause" -> "idle" [] doing = "apply" -> "settings"
                         [] doing = "destroy" -> "close")
  /\ camera' = IF camera = "running" THEN "stopped" ELSE camera
  /\ UNCHANGED <<doing, paused, settings, glVars, trackerVars, pose, handVars>>

\* afterPause.
PauseSession ==
  /\ UiStep("session", CASE doing = "pause" -> "idle" [] doing = "apply" -> "settings"
                         [] doing = "destroy" -> "close")
  /\ ~InSession
  /\ camera' = IF camera = "running" THEN "stopped" ELSE camera
  /\ UNCHANGED <<doing, paused, settings, glVars, trackerVars, pose, handVars>>

\* Apply stores the settings, then the hand scale, which is a new generation.
ApplySettings(chosen) ==
  /\ UiStep("settings", "scale")
  /\ settings' = chosen
  /\ Outdate
  /\ UNCHANGED <<doing, paused, glVars, camera, closed, failed, busy, pose>>

ApplyScale ==
  /\ UiStep("scale", "recenter")
  /\ NewGeneration
  /\ UNCHANGED <<doing, paused, settings, glVars, camera, closed, failed, busy, pose>>

ApplyRecenter ==
  /\ UiStep("recenter", "resume")
  /\ recenter' = TRUE
  /\ UNCHANGED <<doing, paused, settings, gl, frame, previous, least, anchored>>
  /\ UNCHANGED <<camera, trackerVars, pose, handVars>>

\* onResume, of the activity, after Apply or when a permission was decided: AR is off first.
ResumeBegin ==
  /\ \/ ui = "resume"
     \/ ui = "idle" /\ closed = FALSE
  /\ ui' = IF settings.enabled THEN "open" ELSE "idle"
  /\ paused' = FALSE /\ doing' = "resume"
  /\ PublishPose(FALSE, FALSE, 0)
  /\ UNCHANGED <<settings, glVars, camera, trackerVars, handVars>>

\* No viewer, no permission, no AR, or AR is still to be installed.
ResumeWithout ==
  /\ UiStep("open", "idle")
  /\ UNCHANGED <<doing, paused, settings, glVars, camera, trackerVars, pose, handVars>>

\* A new session asks for an origin and has a clock of its own.
NewSession ==
  IF camera = "none"
    THEN recenter' = TRUE /\ previous' = FreshMs + 1 /\ least' = None
    ELSE UNCHANGED <<recenter, previous, least>>

\* The session cannot be made or resumed.
ResumeFails ==
  /\ UiStep("open", "idle")
  /\ ~InSession
  /\ \/ UNCHANGED <<camera, recenter, previous, least>>
     \/ camera # "running" /\ camera' = "stopped" /\ NewSession
  /\ PublishPose(FALSE, FALSE, 0)
  /\ UNCHANGED <<doing, paused, settings, gl, frame, anchored, trackerVars, handVars>>

ResumeSession ==
  /\ UiStep("open", "idle")
  /\ ~InSession
  /\ camera' = "running" /\ NewSession
  /\ PublishPose(TRUE, FALSE, 0)
  /\ UNCHANGED <<doing, paused, settings, gl, frame, anchored, trackerVars, handVars>>

\* The settings' Recenter button: the flag, then a new generation, then no hands.
Recenter ==
  /\ UiStep("idle", "dropHands") /\ ~paused
  /\ recenter' = TRUE
  /\ UNCHANGED <<doing, paused, settings, gl, frame, previous, least, anchored>>
  /\ UNCHANGED <<camera, trackerVars, pose, handVars>>

RecenterInvalidate ==
  /\ UiStep("dropHands", "noHands")
  /\ NewGeneration
  /\ UNCHANGED <<doing, paused, settings, glVars, camera, closed, failed, busy, pose>>

RecenterClear ==
  /\ UiStep("noHands", "idle")
  /\ NoHands
  /\ UNCHANGED <<doing, paused, settings, glVars, camera, trackerVars, pose>>

\* HandTracker.close: the worker also gets the task that closes the landmarker.
Close ==
  /\ UiStep("close", "end")
  /\ ~TrackerLocked
  /\ closed' = TRUE
  /\ NoHands
  /\ worker' = Without("valid", worker)
  /\ queue' = Append(QueueWithout("valid"), Image(0, "close"))
  /\ UNCHANGED <<doing, paused, settings, glVars, camera, failed, busy, pose>>

Destroyed ==
  /\ UiStep("end", "gone")
  /\ ~InSession
  /\ camera' = "closed" /\ anchored' = FALSE
  /\ UNCHANGED <<doing, paused, settings, gl, frame, previous, least, recenter>>
  /\ UNCHANGED <<trackerVars, pose, handVars>>

-----------------------------------------------------------------------------
(* The GL thread.                                                          *)

GlStep(from, to) == gl = from /\ gl' = to

\* Mutant: frames go on while paused.
FrameBeginPaused ==
  /\ GlStep("idle", "enter")
  /\ settings.enabled
  /\ UNCHANGED <<uiVars, frame, previous, least, recenter, anchored>>
  /\ UNCHANGED <<camera, trackerVars, pose, handVars>>

\* The test before the session lock.
FrameBegin ==
  /\ GlStep("idle", "enter")
  /\ ~paused /\ settings.enabled
  /\ UNCHANGED <<uiVars, frame, previous, least, recenter, anchored>>
  /\ UNCHANGED <<camera, trackerVars, pose, handVars>>

\* The test under the session lock.
FrameEnter ==
  /\ GlStep("enter", IF camera = "running" THEN "update" ELSE "idle")
  /\ UNCHANGED <<uiVars, frame, previous, least, recenter, anchored>>
  /\ UNCHANGED <<camera, trackerVars, pose, handVars>>

\* FrameClock.map of an exposure that long ago: the least latency seen is taken for none.
LeastLatency(latency) == IF least = None THEN latency ELSE Least(latency, least)

\* Mutant: the least offset is corrected after it was used.
FrameUpdateUncorrected(latency) ==
  /\ gl = "update" /\ latency < previous
  /\ gl' = IF recenter \/ ~anchored THEN "recenter" ELSE "pose"
  /\ previous' = latency
  /\ least' = LeastLatency(latency)
  /\ frame' = latency - (IF least = None THEN latency ELSE least)
  /\ UNCHANGED <<uiVars, recenter, anchored, camera, trackerVars, pose, handVars>>

\* A tracked frame; whether it shall recenter is read once.
FrameUpdate(latency) ==
  /\ gl = "update" /\ latency < previous
  /\ gl' = IF recenter \/ ~anchored THEN "recenter" ELSE "pose"
  /\ previous' = latency
  /\ least' = LeastLatency(latency)
  /\ frame' = latency - least'
  /\ UNCHANGED <<uiVars, recenter, anchored, camera, trackerVars, pose, handVars>>

\* The camera has no new frame.
FrameRepeated ==
  /\ GlStep("update", "idle")
  /\ least # None
  /\ UNCHANGED <<uiVars, frame, previous, least, recenter, anchored>>
  /\ UNCHANGED <<camera, trackerVars, pose, handVars>>

\* Mutant: the images on their way survive the new origin.
FrameRecenterKeeping ==
  /\ GlStep("recenter", "anchor")
  /\ ~TrackerLocked /\ NoHands
  /\ UNCHANGED <<uiVars, frame, previous, least, recenter, anchored>>
  /\ UNCHANGED <<camera, trackerVars, pose>>

FrameRecenter ==
  /\ GlStep("recenter", "anchor")
  /\ NewGeneration
  /\ UNCHANGED <<uiVars, frame, previous, least, recenter, anchored>>
  /\ UNCHANGED <<camera, closed, failed, busy, pose>>

\* A new anchor.  A press of Recenter between it and the reset of the flag finds the origin
\* it asks for, so the two are one step.
FrameAnchor ==
  /\ GlStep("anchor", "pose")
  /\ anchored' = TRUE /\ recenter' = FALSE
  /\ Outdate
  /\ UNCHANGED <<uiVars, frame, previous, least, camera, closed, failed, busy, pose>>

FramePose ==
  /\ GlStep("pose", "submit")
  /\ PublishPose(TRUE, TRUE, frame)
  /\ UNCHANGED <<uiVars, frame, previous, least, recenter, anchored>>
  /\ UNCHANGED <<camera, trackerVars, handVars>>

\* Hands are off, the last image was less than 33 ms ago, there is no image, or the tracker
\* refuses it.
FrameEnd ==
  /\ GlStep("submit", "idle")
  /\ UNCHANGED <<uiVars, frame, previous, least, recenter, anchored>>
  /\ UNCHANGED <<camera, trackerVars, pose, handVars>>

\* Mutant: the tracker takes images while it has one.
SubmitBusy ==
  /\ GlStep("submit", "idle")
  /\ settings.hands /\ ~closed /\ ~failed /\ ~TrackerLocked
  /\ busy' = TRUE
  /\ queue' = Append(queue, Image(frame, "start"))
  /\ UNCHANGED <<uiVars, frame, previous, least, recenter, anchored>>
  /\ UNCHANGED <<camera, closed, failed, worker, pose, handVars>>

Submit ==
  /\ GlStep("submit", "idle")
  /\ settings.hands /\ ~closed /\ ~failed /\ ~busy /\ ~TrackerLocked
  /\ busy' = TRUE
  /\ queue' = Append(queue, Image(frame, "start"))
  /\ UNCHANGED <<uiVars, frame, previous, least, recenter, anchored>>
  /\ UNCHANGED <<camera, closed, failed, worker, pose, handVars>>

\* The image cannot be converted.
SubmitFails ==
  /\ GlStep("submit", "idle")
  /\ settings.hands /\ ~closed /\ ~failed /\ ~busy /\ ~TrackerLocked
  /\ NoHands
  /\ UNCHANGED <<uiVars, frame, previous, least, recenter, anchored>>
  /\ UNCHANGED <<camera, trackerVars, pose>>

\* Tracking is lost, or an exception anywhere in the frame.
FrameLoses ==
  /\ gl \in {"update", "recenter", "anchor", "pose", "submit"} /\ gl' = "lost"
  /\ UNCHANGED <<uiVars, frame, previous, least, recenter, anchored>>
  /\ UNCHANGED <<camera, trackerVars, pose, handVars>>

LostPose ==
  /\ GlStep("lost", "drop")
  /\ PublishPose(TRUE, FALSE, 0)
  /\ UNCHANGED <<uiVars, frame, previous, least, recenter, anchored>>
  /\ UNCHANGED <<camera, trackerVars, handVars>>

LostHands ==
  /\ GlStep("drop", "idle")
  /\ NewGeneration
  /\ UNCHANGED <<uiVars, frame, previous, least, recenter, anchored>>
  /\ UNCHANGED <<camera, closed, failed, busy, pose>>

-----------------------------------------------------------------------------
(* The tracker's worker.                                                   *)

WorkerStep(from, to) ==
  /\ worker # None /\ worker.at = from
  /\ worker' = [worker EXCEPT !.at = to]
  /\ UNCHANGED <<uiVars, glVars, camera, pose>>

WorkerTakes ==
  /\ worker = None /\ queue # <<>>
  /\ worker' = Head(queue) /\ queue' = Tail(queue)
  /\ UNCHANGED <<uiVars, glVars, camera, closed, failed, busy, pose, handVars>>

\* Mutant: a cancelled image is dropped before the part that ends it.
WorkerSkipsBusy ==
  /\ worker # None /\ worker.at = "start" /\ (closed \/ ~worker.valid)
  /\ worker' = None
  /\ UNCHANGED <<uiVars, glVars, camera, closed, failed, busy, queue, pose, handVars>>

\* Cancelled before it starts.
WorkerSkips ==
  /\ worker # None /\ (closed \/ ~worker.valid)
  /\ WorkerStep("start", "finish")
  /\ UNCHANGED <<closed, failed, busy, queue, handVars>>

WorkerStarts ==
  /\ worker # None /\ ~closed /\ worker.valid
  /\ WorkerStep("start", "detect")
  /\ UNCHANGED <<closed, failed, busy, queue, handVars>>

\* Mutant: hands are published whether or not they are wanted.
WorkerDeliversAlways(found) ==
  /\ worker # None /\ worker.at = "detect"
  /\ worker' = IF ~closed /\ worker.valid
                 THEN [worker EXCEPT !.at = "publish", !.hands = found /\ worker.age <= FreshMs]
                 ELSE [worker EXCEPT !.at = "finish"]
  /\ UNCHANGED <<uiVars, glVars, camera, closed, failed, busy, queue, pose, handVars>>

\* The result is there: the callback begins, or the image was cancelled meanwhile.  The
\* callback reads once whether hands are wanted.
WorkerDelivers(found) ==
  /\ worker # None /\ worker.at = "detect"
  /\ worker' = IF ~closed /\ worker.valid
                 THEN [worker EXCEPT !.at = "publish",
                                     !.hands = found /\ worker.age <= FreshMs /\ Active]
                 ELSE [worker EXCEPT !.at = "finish"]
  /\ UNCHANGED <<uiVars, glVars, camera, closed, failed, busy, queue, pose, handVars>>

\* The callback's effects, and the end of the lock.
WorkerPublishes ==
  /\ WorkerStep("publish", "finish")
  /\ LET given == IF worker.hands THEN [current |-> worker.current] ELSE None
     IN  sent' = given /\ overlay' = IF settings.show THEN given ELSE None
  /\ UNCHANGED <<closed, failed, busy, queue>>

\* Inference throws: the tracker is given up, unless the image was cancelled.
WorkerFails ==
  /\ WorkerStep("detect", "finish")
  /\ IF ~closed /\ worker.valid
       THEN failed' = TRUE /\ NoHands
       ELSE UNCHANGED <<failed, handVars>>
  /\ UNCHANGED <<closed, busy, queue>>

WorkerFinishes ==
  /\ worker # None /\ worker.at = "finish"
  /\ worker' = None /\ busy' = FALSE
  /\ UNCHANGED <<uiVars, glVars, camera, closed, failed, queue, pose, handVars>>

WorkerCloses ==
  /\ worker # None /\ worker.at = "close"
  /\ worker' = None
  /\ UNCHANGED <<uiVars, glVars, camera, closed, failed, busy, queue, pose, handVars>>

-----------------------------------------------------------------------------
\* The renderer's readPose gives up a pose that is too old.
ReadPose ==
  /\ pose.enabled /\ pose.age > FreshMs
  /\ pose' = [pose EXCEPT !.tracking = FALSE]
  /\ UNCHANGED <<uiVars, glVars, camera, trackerVars, handVars>>

Elapse(d) ==
  /\ previous' = Older(previous, d)
  /\ frame' = IF InSession THEN Older(frame, d) ELSE frame
  /\ queue' = [i \in DOMAIN queue |-> [queue[i] EXCEPT !.age = Older(@, d)]]
  /\ worker' = IF worker = None THEN None ELSE [worker EXCEPT !.age = Older(@, d)]
  /\ pose' = [pose EXCEPT !.age = Older(@, d)]
  /\ UNCHANGED <<uiVars, gl, least, recenter, anchored, camera, closed, failed, busy, handVars>>

Ui ==
  \/ \E what \in {"pause", "apply", "destroy"} : PauseBegin(what)
  \/ PauseInvalidate \/ PauseClear \/ PauseSurface \/ PauseSession
  \/ \E chosen \in Settings : ApplySettings(chosen)
  \/ ApplyScale \/ ApplyRecenter
  \/ ResumeBegin \/ ResumeWithout \/ ResumeFails \/ ResumeSession
  \/ Recenter \/ RecenterInvalidate \/ RecenterClear
  \/ Close \/ Destroyed

Gl ==
  \/ FrameBegin \/ FrameEnter \/ FrameRepeated
  \/ \E latency \in Latencies : FrameUpdate(latency)
  \/ FrameRecenter \/ FrameAnchor \/ FramePose
  \/ FrameEnd \/ Submit \/ SubmitFails
  \/ FrameLoses \/ LostPose \/ LostHands

Worker ==
  \/ WorkerTakes \/ WorkerSkips \/ WorkerStarts
  \/ \E found \in BOOLEAN : WorkerDelivers(found)
  \/ WorkerPublishes \/ WorkerFails \/ WorkerFinishes \/ WorkerCloses

Next == Ui \/ Gl \/ Worker \/ ReadPose \/ \E d \in Gaps : Elapse(d)

Spec == Init /\ [][Next]_vars

\* What the UI thread began it goes on with; each thread goes on when it can.
UiGoesOn == ui # "idle" /\ Ui

FairSpec ==
  Spec /\ WF_ui(UiGoesOn) /\ WF_gl(Gl) /\ WF_worker(Worker)

-----------------------------------------------------------------------------
ImageType == [age : 0..(FreshMs + 1), at : {"start", "detect", "publish", "finish", "close"},
              hands : BOOLEAN, valid : BOOLEAN, current : BOOLEAN]

ASSUME NoneAssumption == None \notin ImageType \cup [current : BOOLEAN] \cup Latencies

\* The fields of the three threads and the snapshots.
\* Besides the types: the worker's bounded queue has room for its image and for the task that
\* closes the landmarker, so execute never throws (HandTracker.java:41-42, 67, 85, 195).
TypeOK ==
  /\ ui \in {"idle", "invalidate", "clear", "surface", "session", "settings", "scale",
             "recenter", "resume", "open", "dropHands", "noHands", "close", "end", "gone"}
  /\ doing \in {"start", "pause", "apply", "destroy", "resume"}
  /\ paused \in BOOLEAN /\ settings \in Settings
  /\ recenter \in BOOLEAN /\ anchored \in BOOLEAN
  /\ camera \in {"none", "running", "stopped", "closed"}
  /\ gl \in {"idle", "enter", "update", "recenter", "anchor", "pose", "submit", "lost", "drop"}
  /\ frame \in 0..(FreshMs + 1) /\ previous \in 0..(FreshMs + 1) /\ least \in Latencies \cup {None}
  /\ closed \in BOOLEAN /\ failed \in BOOLEAN /\ busy \in BOOLEAN
  /\ queue \in Seq(ImageType) /\ Len(queue) <= QueueSize /\ (Len(queue) = QueueSize => closed)
  /\ worker \in ImageType \cup {None}
  /\ pose \in [enabled : BOOLEAN, tracking : BOOLEAN, age : 0..(FreshMs + 1)]
  /\ overlay \in [current : BOOLEAN] \cup {None} /\ sent \in [current : BOOLEAN] \cup {None}

\* Hands that are drawn or sent were placed with the origin and the settings in force, even
\* when the image was taken before a recenter, a loss of tracking or a pause
\* (HandTracker.java:141, 180-187, XrController.java:128-134, 188).
HandsAreCurrent == \A hands \in {overlay, sent} \ {None} : hands.current

\* Once beforePause is over, and as long as the settings want no hands, none are drawn or
\* sent, whatever frame or image was in progress (XrController.java:96, 157-165).
NoUnwantedHands ==
  \/ paused /\ ui \notin {"invalidate", "clear"}
  \/ ~(settings.enabled /\ settings.hands)
  => overlay = None /\ sent = None

\* With AR switched off the pose falls back to Cardboard and stays there: no frame that began
\* before can switch it on again (docs/REVIEW.md:44, XrController.java:74, 98, 188).
OffFallsBack == ~settings.enabled /\ ui = "idle" /\ ~paused => ~pose.enabled

\* The captures of published poses never go back in time, although the clock they are mapped
\* with is corrected from frame to frame (FrameClock.java:7-13).
CaptureAdvances ==
  [][ gl = "pose" /\ gl' = "submit" => pose'.age <= pose.age ]_vars

\* An image taken is given back, cancelled or not: tracking is free for the next one again and
\* again (HandTracker.java:162).
ImagesFinish == []<>~busy

\* A pause ends: the UI thread, which waits for both locks and the frame in progress, gets
\* them although the GL thread takes the tracker's lock inside the session lock and the
\* worker calls back inside the tracker's.
PauseEnds == []<>(ui \notin {"invalidate", "clear", "surface", "session"})
=============================================================================
