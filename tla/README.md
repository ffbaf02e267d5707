# PhoneXR in TLA+

PhoneXR turns an Android phone in a Cardboard viewer into a VR headset for a Windows PC:
ARCore gives the head pose, MediaPipe finds the hands in the same camera frames, and the
hands drive a synthetic touch contact and the overlay panels of Desktop+ on the PC.
This directory holds TLA+ models of that program, the TLC configurations that check them
on small instances, and theorems that TLAPS checks for every value of the constants.

Paths below are relative to the repository.

## Inventory

| Component | Source | State | Operations | Talks to |
|---|---|---|---|---|
| ContactEngine | `windows-bridge/phonexr_bridge/interaction.py` | active contact, hover record, enabled, last frame, block time, releasing flag | `release`, `tick`, `frame` | injects through WindowsSink; called by the main loop |
| WindowsSink | `phonexr_bridge/win32.py` | the contact Windows holds | `emit` (down, update, up), window test | Windows |
| Bridge main loop | `phonexr_bridge/__main__.py` | command queue, snapshot, age of hands | one pass: command, snapshot, drain, panel check, tick; shutdown | GUI thread (queue), Receiver, Adapter, ContactEngine |
| Receiver | `phonexr_bridge/protocol.py` | last sequence, last send time, least clock offset | `decode` | UDP from the phone |
| Adapter, Manipulator | `phonexr_bridge/adapter.py` | request number, pending request, grab | `read`, `send`, `clear`, `frame` | files shared with Desktop+ |
| Desktop+ adapter | `desktopplus-integration/adapter/PhoneXRAdapter.cpp` | session, entries with revisions, last answer | `PhoneXRAdapterTick` | the same files; Desktop+ itself |
| HandSender | `android-client/.../xr/HandSender.java` | pending observation, number block, closed | `send`, `pause`, `close`, worker `run` | UDP; `xr-counters` preferences |
| HandTracker | `.../xr/HandTracker.java` | generation, busy, failed, closed, worker queue | `submit`, `process`, `setHandScale`, `invalidate`, `close` | callbacks into XrController under its lock |
| XrController | `.../xr/XrController.java`, `FrameClock.java` | session, anchor, recenter, paused, settings | `onFrame` (GL thread), `onResume`, `beforePause`, `afterPause`, settings (UI thread), `onHands` (worker) | everything on the phone |
| Native snapshots | `android-client/native/phonexr_pose.hpp`, `phonexr_hands.hpp` | last pose and hands with their capture time | `publish*`, `sampleTracking`, `readPose`, `renderHands` | ALVR's input and render threads |
| Pairing storage | `.../xr/PairingStore.java` | stored pairing | `save`, `load` | XrController |
| Diagnostic pose protocol | `shared/protocol/pose_packet.py`, `tools/packet-viewer`, `tools/replay-tool` | last sequence and time, expiry | decode, gate | UDP |
| Companion GUI | `phonexr_bridge/setup_ui.py` | child process, event queue, pairing code, clipboard, closing flag | start, stop, close, keys, copy, timer | a bridge process through two pipes |
| Native lifecycle patch | `scripts/prepare_native_lifecycle.py` | two locks, a latch, the input thread, GL names | pause, resume, destroy, release, frames, streams | UI, GL and input threads, the EGL context |
| Geometry | `HandPoseEstimator.java`, `phonexr_projection.hpp`, `shared/math/pose.hpp` | none | pure functions | - |
| Scripts, CI | `scripts/`, `tools/`, `desktopplus-integration/prepare_desktopplus.py` | none that outlives a run | patches, downloads, smoke tests | - |

What is hard in it:

- *Partial failure.* Windows may refuse any injection. A refused UP must neither forget the
  contact nor allow another one.
- *Interleaving.* The GUI thread queues keys between any two steps of the loop; Ctrl-C may
  come anywhere; on the phone three threads share the hands, and two HandSender instances of
  one pairing may run at the same time.
- *Stale state.* A panel may move, close, be replaced by another one with the same handle, or
  belong to a restarted Desktop+ between the snapshot and what is done with it.
- *Crash and restart.* The phone's process dies between reserving and using packet numbers;
  either program on the PC restarts beside the other's files.
- *Unreliable delivery and unrelated clocks.* UDP loses, repeats and reorders; the receiver
  judges freshness from a clock that is not its own.
- *Two processes and two pipes.* The companion's window shows what its bridge said some time
  ago and sends keys that arrive some time later; either may die.
- *Locks and joins.* On the phone the UI thread waits for the GL thread, which waits for a lock
  and for the input thread, which waits for another lock; GL names die with their context.
- *Timeouts.* A 500 ms request timeout races an answer; a 150 ms watchdog races a frame.

What makes each part correct: the engine and Windows agree on the contact, and the calls form
DOWN, UPDATE..., UP; a touch is deliberate; grab and touch exclude each other; silence,
disabling input and shutting down lift the contact; a panel moves only from the pose it was
seen in; an answer is about the request it is taken for; packet numbers are never reused; what
the bridge hears is in order and fresh; the companion's window tells the truth about input,
keeps no pairing code and ends its bridge; a pause of the phone ends, with nothing left in GL.

## Modules

| Module | What it is |
|---|---|
| `TouchContract` | abstract: what Windows is promised about the one contact |
| `ContactEngine` | `interaction.py`, any caller |
| `ContactHistory` | ContactEngine with a history variable for one property |
| `ContactEngineProofs` | theorems about ContactEngine and ContactHistory |
| `Bridge` | `__main__.py` around ContactEngine: loop, GUI thread, Ctrl-C, shutdown |
| `BridgeProofs` | theorems about Bridge, and that it implements BridgeProcess |
| `Manipulation` | `adapter.py`, `PhoneXRAdapter.cpp` and their two files |
| `BridgeProcess` | abstract: what the companion relies on of a bridge process |
| `Companion` | `setup_ui.py` around BridgeProcess |
| `NativeLifecycle` | the sources as `prepare_native_lifecycle.py` patches them |
| `HandTransport` | `HandSender.java`, UDP, `protocol.py` |
| `HandCapture` | `HandTracker.java`, `XrController.java`, `FrameClock.java` and the native snapshots |
| `PoseGate` | `pose_packet.py`, `tools/packet-viewer/receive.py`, `tools/replay-tool/replay.py` |
| `ManipulationProofs`, `CompanionProofs`, `NativeLifecycleProofs`, `HandTransportProofs`, `HandCaptureProofs`, `PoseGateProofs` | theorems about the module they are named after |
| `MC*` | small inputs for TLC |

An operator marked *Mutant* is the definition after it with a plausible bug. It is part of no
specification; substituting it makes the property it belongs to fail, which shows that the
property depends on that line of the code.

### ContactEngine and TouchContract

`active`, `hover`, `enabled`, `releasing` are the fields of the same name. The code stores
instants (`last_frame`, `hover['since']`, `blocked_until`) and only compares their distance to
now; `quiet`, `hover.age` and `blocked` are those distances, capped one above the largest
constant they are compared with, so no comparison can tell. `os` is what Windows holds and
`calls` the injection calls of the step. One action per way through a method: `ReleaseCall`,
`Tick`, the seven ways through `frame` (`FrameReleases`, `FrameLoses`, ...), `SetEnabled`,
`Elapse`. The geometry of `project` is abstracted to an observation: which hand at which
panel, where on the screen, how deep, and whether the window test accepts the place.

`TouchContract` sees only contact, lifting and calls. `ImplementsTouchContract` instantiates
it with `contact <- os, lifting <- releasing`.

### Bridge

`pc` follows one pass: `control` (one key at most), `read` (panels.json), `clock` (one sample
of the time), `drain`, `check` (the contact's panel and window), `tick`; then `exit` and
`done`. `Drain` decodes a batch and hands on the last frame only, to the manipulator or to the
engine. Which of the two gets it depends on the manipulator's geometry, so both are allowed
where the code's guards allow them. `CutPress` is Ctrl-C between the return of an accepted
DOWN and the assignment that notes it; `CutExit` is Ctrl-C in the shutdown's own sleep.
`cut` and `overlooked` are history variables.

### BridgeProcess and Companion

`BridgeProcess` knows keys that wait, whether input is enabled, whether a contact is down, and
whether the process runs, is ending or is dead. `Bridge` implements it
(`ImplementsBridgeProcess`), with `contact <- os # None` and `life` from `pc`; input counts as
enabled only while the loop runs, since the shutdown injects nothing new. This includes that a
waiting `q` ends the process, which follows from the fairness of Bridge's loop.

`Companion` uses the steps of BridgeProcess for its child and adds what the child prints. So
what is checked of the companion holds with the real loop behind it. `commands` is the pipe to
the child together with the thread that reads it and its queue, `events` the pipe back together
with the window's reader thread and queue; all four keep order, so one queue stands for two.
`gui` says whether the window is at rest (`open`), inside one call of its timer (`polling`: no
button can be pressed between two lines), in the modal error box of a refused release, or gone.
`ClearSecret`, `Pass`, `StopConnection` are `clear_secret`, `send`, `stop`. A line of an earlier
child (`setup_ui.py:157`) does not occur: Start stays disabled until the end of the child before
has been handled. A Start that fails changes nothing. The child reports a refused release when a
contact is left with Windows, where the code asks the engine (`__main__.py:132`): the two differ
only after a Ctrl-C, which a child without a console does not get. `WindowDies` is any other end of the
window's process: the bridge's `read_controls` queues `q`. `asked`, `leaving`, `told`, `locked`
and `reopened` are history.

### NativeLifecycle

The patched C++ and Java sources are upstream's and not in this repository; the module models
what the patch puts there, and of the rest what it relies on. These are assumptions:
GLSurfaceView runs queued events before it pauses, its `onPause` waits for the GL thread and
gives up the EGL context, and a context may also be lost in between; `CTX.running` is set when
the activity resumes, and whether `pauseNative` clears it is left open, so that the properties
hold either way or say that they need it; lobby textures are made by the first frame that sees
`glContextRecreated`; the ALVR core may report the start or end of a stream in every frame, also
twice. `ui` and `gl` are the next steps of two threads; who holds `lifecycleMutex` follows from
them (`UiLocked`, `GlLocked`). `worker` is `CTX.inputThread`: `none` if not joinable, `track`
when it is about to take `viewConfigMutex`, `config` inside it, `ended` when only `join` is
missing. `stopInputThread` is two steps: `streaming` is cleared, then `Joined`. A GL name is the
number of the context that made it. `Destroy` and `Create` are the end of an activity and the
next one of the same process, which finds `CTX` as it was left. `late`, `releasedIn`, `crashed`
and `foreign` are history.

### Manipulation

One panel on a ring of positions. `ForeignChange` is Desktop+'s user: moving, locking,
closing, opening a panel that gets the same handle. `TickIdle` and `TickCommand` are the
adapter's tick without and with a command file, including the revision counter, tombstones,
rejection of old and unreadable files, and a snapshot that could not be written. `Read`,
`Grab`, `LoseGrab`, `Wait`, `Rejected`, `Send` are the branches of the bridge's side, in the
order of its loop; `Lags` is the time between sampling now and the file being there, capped like every age.
Both programs may restart at any point. Fields `seen`, `expects` and `mine` are history.

### HandTransport

`Senders` are HandSender instances in creation order; each has its number block, its pending
observation and the item its worker has taken. `Pair` is XrController replacing an instance,
`Held` says who the tracker's callback may still hold. `network` only grows: a packet may
arrive at any time, more than once or never. `Die` is the end of the process, with or without
a reboot that restarts the phone's clock. `Receive` is the Receiver's accepting branch;
`Accepts` holds its checks in code order. Encryption is abstracted to packets that arrive
unchanged.

### HandCapture

Three threads, each with its next step: `ui`, `gl`, and `worker`, which holds the image it is
at. `PauseBegin` to `PauseSession` are `beforePause`, the wait of `GLSurfaceView.onPause` and
`afterPause`; Apply and destroy share them, Apply without that wait. `InSession` is the
session lock held by a frame; `TrackerLocked` is the tracker's lock held by the worker inside
its callback. Everybody else holds these locks within one step. An image's flag `valid` stands
for "its generation is the tracker's", which is all the code asks. `current` is history: the
image was placed with the origin and settings now in force. The callback reads whether hands
are wanted in `WorkerDelivers` and acts on it in `WorkerPublishes`. `FrameUpdate` contains
`FrameClock.map`; `least` is the least latency seen, from which a frame's mapped age follows.
A frame may lose tracking or throw at any of its steps. `sampleTracking` and `renderHands`
only read, and their freshness test is one comparison. A frame that
returns at once for want of a camera texture changes nothing and is left out.

### PoseGate

The sender is `send_synthetic`, one process after the other with the same pairing; `Stamp` is
its `max(now, last + 1)`, `Number` its wrapping sequence. `network` only grows, so a packet may
arrive at any time, again or never. The gate's `latest` and `tracking` are the fields of the
same name and `age` is the time since `last_received_ns`, capped at the timeout. `pc` follows
one pass of `run_receiver`: `Poll`, `Select` (with the first expiry), `Accept`, `Refuse` or
`Drained` up to the bound of the batch, `ExpireAgain`, `Report`; `Stop` is its regular end and
`Fail` Ctrl-C or a socket error. Everything `decode` may object to is `Refuse`. `told` and
`lost` are what the viewer has printed; the count of refused packets is left out.

## Runs

| Run | Shows | Bounds and why they are enough |
|---|---|---|
| `contact` | agreement with Windows, one contact at a time, refinement of TouchContract, a touch is deliberate | two hands and two sessions tell apart the fields of an identity (the proofs cover panels and revisions for all values); two locations; depths in contact, at the press threshold (where the window check may refuse the location), in front and too far; a gap of 29 ms is one short of the debounce, 151 ms passes the watchdog |
| `bridge` | grab and touch exclude each other, contact and grab are watched, shutdown lifts, silence and disabling lift, refinement of BridgeProcess | two revisions and two sessions of a panel, batches of one frame, or of an empty one and another, two queued keys, gaps of 75 ms (twice is still fresh) and 151 ms; all ten release attempts |
| `companion` | the window tells the truth about input, ends are clean, Stop, closing and death end the process | three waiting keys, and buttons are not pressed while three lines wait: enough for an answer to be two requests old, or for `q` to wait behind both others. Nothing else is bounded |
| `lifecycle` | threads are joined, objects outlive their users, a release in time leaves nothing, a pause ends | three EGL contexts: one to be lost, one to be paused, one of the next activity. Deadlock is not checked because the system rests once the last activity is gone; that a pause gets through all locks is `PauseEnds` |
| `manipulation` | answers are true, a panel moves only from the pose seen | two positions tell apart "same" and "moved"; two requests, since an answer can only be mistaken for the previous one; two sessions; gaps of 500 ms, which is exactly the timeout on both sides, so that with a lag of 1 ms before the file is written the bridge gives up what Desktop+ still accepts |
| `transport` | numbers unique, order, freshness | the properties relate two packets, so two are sent; two senders with a block each, or two numbers of one block (a sender that goes on to a further block needs three packets, and is covered by `NumbersAreNeverReused` for any number of them); times 0, 100, 200 ms, so that age or delay alone is within 150 ms and both together are not |
| `capture` | hands are placed with the origin in force, none while paused or unwanted, Cardboard fallback, captures in order, room in the worker's queue, images are given back, a pause ends | AR off, and AR on with hands neither wanted nor drawn; latencies 0 and 150 ms, the ends of what is fresh, so the clock is corrected as far as it can be; 149 ms steps, once fresh and twice not, and below the worst latency, so that a clock corrected too late shows. Nothing else is bounded |
| `pose_gate` | order, no later pose refused, no restart taken for a continuation, every loss reported once, tracking ends | numbers modulo 8; a run is three packets (the code's minimum) and so shorter than half the range; starts 2 and 6, so that one run wraps and, delayed, has a number newer than the other's; a clock that moves and one that stands still; two datagrams per batch, enough for TRACKING and PAUSED in one; steps of 100 ms, two of which reach the timeout |
| `bridge_empty_hands` | counterexample, see below | |
| `bridge_shutdown` | counterexample, see below | |
| `manipulation_foreign` | counterexample, see below | |
| `lifecycle_names` | counterexample, see below | |

### Fairness

Fairness is stated with the variables that the fair steps always change as subscript
(`WF_pc(Loop)`), which means the same as with all of them and is cheaper to evaluate. So are
liveness properties of the form `[]<>P`: where `~P` persists until what is promised happens,
it says the same as a leads-to.

`FairSpec` of Bridge assumes weak fairness of the loop and of the shutdown: the loop blocks on
nothing but a 5 ms sleep. It assumes strong fairness of a retried release that Windows
accepts: liveness cannot hold if Windows refuses every UP for ever, and the code promises only
to go on trying. No fairness is assumed of frames, keys or Ctrl-C.

`FairSpec` of HandCapture assumes weak fairness of the GL thread, of the worker (inference
ends, in a result or an exception) and of what the UI thread has begun. None is assumed of
what starts a pause, an Apply or a resume.

`FairSpec` of PoseGate assumes weak fairness of the viewer's loop, which blocks for 20 ms at
most, and of its clock. None is assumed of sender or network.

`FairSpec` of Companion assumes that a starting process gets somewhere, a running one takes its
keys and an ending one ends, which is what Bridge's fairness gives (`Quits`), and that Tk calls
the timer. Users may press nothing, and may leave the error box open.

`FairSpec` of NativeLifecycle assumes weak fairness of every thread's next step, and strong
fairness of taking a lock that is free again and again (frames and poses are paced by the
display and by a sleep) and of reaching the end of a frame's events. None is assumed of the
user, of the core or of losing a context.

### Disagreements between the code and what it says

- `bridge_empty_hands`: `drain` keeps only the last of up to 128 decoded frames, so a frame
  without hands followed by another one in the same drain never releases the contact
  (`__main__.py:38`; `docs/HAND_PROTOCOL.md:19` says empty hands do).
- `bridge_shutdown`: Ctrl-C between an accepted DOWN and its note, or in the shutdown's sleep,
  ends the process with the contact down (`interaction.py:102`; `ARCHITECTURE.md:52`).
- `manipulation_foreign`: a user's change that is published together with the acknowledgement
  of the grab's request is adopted as the grab's own (`adapter.py:103-104`).

- `lifecycle_names`: after a lost EGL context `surfaceCreatedNative` forgets the renderer, but
  not the lobby and stream textures; a pause before the next frame, or the end of the stream,
  deletes their old names in the new context (`prepare_native_lifecycle.py:79, 47-48, 100`; the
  comment at 101 says why that must not happen). For the renderer itself the repair works: a
  conjunct of `TypeOK` says so.

## Proofs

Every safety property that a passing run checks is a theorem, for every value of the constants
the assumptions allow. Each module of proofs has one inductive invariant, `Inv`, `BInv` or
`IInv`, and `ContactEngineProofs` also `HInv`; TLC checked it on the runs' instances first. Each
has a lemma per action, or per group of actions that disturb the same conjuncts.

| Module | Theorems | What the inductive invariant adds, and why |
|---|---|---|
| `ContactEngineProofs` | `TypeCorrect`, `MirrorHolds`, `OneAtATimeHolds`, `EngineImplementsTouchContract`, `TouchesAreDeliberate` | `Inv` adds nothing: the three need each other. A lift finds the contact where Windows has it because of `ContactMirrorsOS`, and `releasing` implies a contact because of `OneAtATime`. In the refinement `ContactMirrorsOS` makes a call at `active.xy` a call at the contact. `HInv` adds `Followed`: the finger being debounced is one of the streaks the sensor showed, not for longer and at the same depth, so what the engine requires of its hover record is true of the streak |
| `BridgeProofs` | `BridgeTypes`, `GrabExcludesTouch`, `ContactIsWatched`, `GrabIsWatched`, `ShutdownLiftsUnlessCut`, `BridgeIsProcess` | `PassFacts`: what each step of the pass has established. After `check` the contact is on a panel of the snapshot, after `tick` it is fresh, and a key that comes in between is not seen before `control`. `BridgeIsProcess` is the step simulation of BridgeProcess: a pass that presses does so with input enabled, which is `PassFacts` again |
| `ManipulationProofs` | `ManipulationTypes`, `AnswersStayTrue`, `MovesFromSeenPose` | `Seen`: who saw the panel in this session, at the revision it has now, saw it where its signature is. `Numbered`, `Unanswered`: the pending request is the last one, so is a command still in its file, and no answer names it; then an answer `ack` kept beside an unreadable file is an older request's. `Counted` bounds the revision |
| `CompanionProofs` | `CompanionTypes`, `WindowTellsInput`, `EndsAreClean` | The window lags behind its process, so `Asked` and `Shown` say what the last waiting key and the last waiting line will make of both; `Clean`: what is still to be cleaned up has its line waiting |
| `NativeLifecycleProofs` | `LifecycleTypes`, `NothingCrashes`, `ReleaseIsComplete` | How far the threads are with each other: a paused activity has no context and draws nothing (`Parked`), in a frame GL is initialised (`InFrame`), a pause that found rendering ended leaves no worker (`Quiesced`), a release in time is not undone (`ReleaseLasts`) |
| `HandTransportProofs` | `TransportTypes`, `NumbersAreNeverReused`, `HearingIsOrdered`, `HearingIsFresh` | `Blocks`: no two instances share a number, and no packet has one that is still in a block. `BootsInOrder`: along the numbers, the start of the phone that sent them never goes back, since a reboot ends every instance; the receiver's two clocks are compared through it |
| `HandCaptureProofs` | `CaptureTypes`, `HandsStayCurrent`, `UnwantedHandsAreGone`, `OffStaysOff`, `CapturesAdvance` | What is on its way: an image survives a change of origin or settings only marked as dropped, or before the new generation (`Images`); a callback with hands runs only while a pause still waits for it (`Callback`); no frame is in a session that is stopped (`CameraOrder`); a frame is at most as old as the published pose (`ClockOrder`); a busy tracker has one image (`Tasks`) |
| `PoseGateProofs` | `PoseTypes`, `AcceptedInSendingOrder`, `LaterPosesAreAcceptable`, `RestartIsRefused`, `LossesAreReported` | Stamps grow along a run and from run to run (`StampsInOrder`), a number is its run's first plus the index (`PacketsOfRuns`). Then the arithmetic: the distance of two numbers modulo the wrap (`Distance`, `DistanceBack`), for any even modulus |

`ManipulationInv`, `CompanionInv` and so on state the invariants themselves. Bounds such as
`MaxRequests` or `MaxContexts` are constants too, so the theorems hold for histories of any
length.

Assumptions, all evaluated by TLC in a passing run:

- numbers are numbers: `NumbersAssumption`, `BoundsAssumption`, `BoundAssumption`,
  `BlockAssumption`, `SendersAssumption`, `PacketsAssumption`, `TimeAssumption`,
  `MaxCommandsAssumption`, `MaxContextsAssumption`;
- a frame shows a hand at a panel once (`FingersAssumption`): the hands of a packet have
  different ids and panels are kept by theirs;
- inputs have the shape the code gives them: `ViewsAssumption`, `SnapshotsAssumption`,
  `BatchesAssumption`, `SettingsAssumption`, `InputAssumption`;
- `None` is no value of a field that may hold it: `NoneAssumption` of each module;
- latencies are at most 150 ms, the worst whose pose is still fresh (`TimesAssumption`);
- the modulus is even (`ModulusAssumption`), as 2^32 is, and a run is shorter than half of it
  (`RunAssumption`): with more, a later pose is refused as the protocol says.

Only model-checked:

- liveness, which needs fairness and `ENABLED` and is out of the prover's reach:
  `SilenceLifts`, `DisableLifts`, `Quits` within `ImplementsBridgeProcess`, `EndsWhenAsked`,
  `TrackingEnds`, `ImagesFinish`, and `PauseEnds` of HandCapture and of NativeLifecycle;
- the four expected violations, which are what the code does.

## Plan

1. Done: ContactEngine, TouchContract, Bridge, Manipulation, HandTransport, HandCapture,
   PoseGate, BridgeProcess, Companion, NativeLifecycle and the proofs above.
2. Safety halves of the liveness properties that can be proved: a busy tracker has an image on
   its way (`Tasks` says so already), a pause of the phone never waits for a lock whose holder
   waits for the pause, a bridge that is asked to end has its `q` waiting.
3. How long a replaced sender can keep its successor unheard.

Not modelled and why: the geometry is floating point arithmetic, covered by unit tests;
scripts are one-shot text patches and downloads; the smoke harness is test infrastructure;
Win32 structures, AES, JSON and file protection are library behaviour. Clock drift between
phone and PC needs unbounded runs.
