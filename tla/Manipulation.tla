----------------------------- MODULE Manipulation -----------------------------
(***************************************************************************)
(* Moving a panel by pinching it: the Manipulator and Adapter of           *)
(* windows-bridge/phonexr_bridge/adapter.py, the adapter inside Desktop+   *)
(* (desktopplus-integration/adapter/PhoneXRAdapter.cpp) and the two files  *)
(* between them, command.bin and panels.json, each replaced atomically.    *)
(*                                                                         *)
(* One panel.  Its pose is a point on a ring of Poses positions, a pinch   *)
(* is at one of the same positions, and dragging adds the pinch's movement *)
(* to the pose the grab started from.  Files and requests carry their age  *)
(* in milliseconds, capped where no comparison can tell ages apart.        *)
(***************************************************************************)
EXTENDS Integers

CONSTANTS Poses,        \* number of positions
          Gaps,         \* milliseconds that pass in one step
          Lags,         \* milliseconds between sampling now and replacing command.bin
          MaxRequests,  \* bound on requests the bridge makes
          MaxForeign,   \* bound on changes Desktop+'s user makes
          MaxSessions,  \* bound on starts of Desktop+
          None

ASSUME BoundsAssumption ==
  /\ Poses \in Nat \ {0}
  /\ Gaps \subseteq Nat /\ Lags \subseteq Nat
  /\ MaxRequests \in Nat /\ MaxForeign \in Nat /\ MaxSessions \in Nat \ {0}

CommandMs == 500   \* current_ms<=command_ms+500, and now-self.pending[1] > .5
SnapshotMs == 1000 \* 0 <= time.time()*1000-data['updatedUnixMs'] <= 1000

Pose == 0..(Poses - 1)
Modes == {"free", "locked", "gone"}

VARIABLES pose, mode,         \* the panel in Desktop+: where it is, "free", "locked" or "gone"
          session, rev, sig,  \* the adapter: its session, the panel's revision and signature
          ack, ackStatus,     \* the adapter's last answer
          command, panels,    \* the files: None or their content and age
          foreign,            \* count of the user's changes
          phase, snap,        \* the bridge: "read" or "frame", and the snapshot it read
          request, pending,   \* Adapter.request and Adapter.pending
          grab,               \* Manipulator.grab
          applied             \* history: requests that moved the panel

desktopVars == <<pose, mode, foreign>>
adapterVars == <<session, rev, sig, ack, ackStatus, applied>>
bridgeVars == <<phase, snap, request, pending, grab>>
vars == <<desktopVars, adapterVars, bridgeVars, command, panels>>

Least(a, b) == IF a < b THEN a ELSE b

Init ==
  /\ pose = 0 /\ mode = "free" /\ foreign = 0
  /\ session = 1 /\ rev = 0 /\ sig = None
  /\ ack = 0 /\ ackStatus = "none" /\ applied = {}
  /\ command = None /\ panels = None
  /\ phase = "read" /\ snap = None /\ request = 0 /\ pending = None /\ grab = None

-----------------------------------------------------------------------------
(* Desktop+ and its user.                                                  *)

\* The user moves the panel, locks or closes it, or opens one that gets the same handle.
ForeignChange ==
  /\ foreign < MaxForeign /\ foreign' = foreign + 1
  /\ \/ pose' \in Pose \ {pose} /\ UNCHANGED mode
     \/ mode' \in Modes \ {mode} /\ UNCHANGED pose
  /\ UNCHANGED <<adapterVars, bridgeVars, command, panels>>

\* A new process: new session, no entries, no answer; the files stay.
DesktopRestart ==
  /\ session < MaxSessions /\ session' = session + 1
  /\ rev' = 0 /\ sig' = None /\ ack' = 0 /\ ackStatus' = "none"
  /\ UNCHANGED <<desktopVars, applied, bridgeVars, command, panels>>

\* Panels(): an entry's revision counts the changes of its signature.  A panel that is gone
\* leaves a tombstone: no signature, the old revision.
Signature(at, m) == IF m = "gone" THEN None ELSE [pose |-> at, mode |-> m]
Revised(r, old, new) == IF new \in {None, old} THEN r ELSE r + 1

Publish(written) ==
  panels' = IF written
              THEN [session |-> session, pose |-> pose', mode |-> mode, rev |-> rev',
                    ack |-> ack', status |-> ackStatus', age |-> 0]
              ELSE panels

\* PhoneXRAdapterTick without a command.
TickIdle(written) ==
  /\ command = None
  /\ sig' = Signature(pose, mode) /\ rev' = Revised(rev, sig, sig')
  /\ UNCHANGED <<session, ack, ackStatus, applied, desktopVars, bridgeVars, command>>
  /\ Publish(written)

\* Mutant: the revision is not compared.
VerdictAnyRevision(c, r, outcome) ==
  IF c.session # session THEN "stale"
  ELSE IF r # 0 /\ mode = "free" THEN outcome ELSE "unavailable"

\* Mutant: a refusal in the bridge's own words.
VerdictRejected(c, r, outcome) ==
  IF c.session = session /\ r = c.rev /\ mode = "free" THEN outcome ELSE "rejected"

\* The adapter's answer to a command it could read, r being the panel's revision, 0 if there
\* is no entry; outcome is what the matrix check and Desktop+ itself make of it.
Verdict(c, r, outcome) ==
  IF c.session # session THEN "stale"
  ELSE IF r = 0 THEN "unavailable"
  ELSE IF r # c.rev THEN "stale"
  ELSE IF mode # "free" THEN "unavailable" ELSE outcome

\* The matrix or the width is bad; the user drags a panel in Desktop+; it is applied.
Outcomes == {"invalid", "unavailable", "accepted"}

\* PhoneXRAdapterTick with a command: it is claimed and deleted whatever it holds.  An
\* unreadable or old one is "invalid" and leaves the last answered request in ack.
TickCommand(readable, outcome, written) ==
  /\ command # None /\ command' = None
  /\ LET seen == Signature(pose, mode)
         fresh == Revised(rev, sig, seen)
         valid == readable /\ command.age <= CommandMs
         verdict == IF valid THEN Verdict(command, fresh, outcome) ELSE "invalid"
         moves == verdict = "accepted"
     IN  /\ ack' = IF valid THEN command.req ELSE ack
         /\ ackStatus' = verdict
         /\ pose' = IF moves THEN command.to ELSE pose
         /\ applied' = IF moves THEN applied \cup {command.req} ELSE applied
         /\ sig' = Signature(pose', mode)
         /\ rev' = Revised(fresh, seen, sig')
  /\ UNCHANGED <<session, mode, foreign, bridgeVars>>
  /\ Publish(written)

-----------------------------------------------------------------------------
(* The bridge.                                                             *)

\* The snapshot without its age.
Content(file) == [file EXCEPT !.age = 0]

Answered(s, p) == p # None /\ s.ack = p.req

\* Adapter.read, and the loop's clear() without a snapshot.
Read ==
  /\ phase = "read" /\ phase' = "frame"
  /\ snap' = IF panels # None /\ panels.age <= SnapshotMs THEN Content(panels) ELSE None
  /\ grab' = IF snap' = None THEN None ELSE grab
  /\ UNCHANGED <<request, pending, desktopVars, adapterVars, command, panels>>

EndFrame == phase = "frame" /\ phase' = "read"
Elsewhere == UNCHANGED <<snap, desktopVars, adapterVars, panels>>

\* No packet, or one the contact engine takes.
NoFrame ==
  /\ EndFrame
  /\ UNCHANGED <<request, pending, grab, command>> /\ Elsewhere

\* Manipulator.clear: input toggled, or hands older than 150 ms.
Clear ==
  /\ EndFrame
  /\ grab' = None
  /\ UNCHANGED <<request, pending, command>> /\ Elsewhere

\* A pinch on the panel's border.  expects is history: where this grab found the panel, or
\* left it by its last accepted request; a request pending from before is not its own.
Grab(at) ==
  /\ EndFrame
  /\ snap # None /\ grab = None /\ snap.mode = "free"
  /\ grab' = [from |-> snap.pose, at |-> at, session |-> snap.session, rev |-> snap.rev,
              expects |-> snap.pose]
  /\ pending' = IF pending = None THEN None ELSE [pending EXCEPT !.mine = FALSE]
  /\ UNCHANGED <<request, command>> /\ Elsewhere

\* The snapshot shows the grabbed panel, at the grab's revision or at a new one together
\* with the acceptance of the pending request.
Followable ==
  /\ snap.mode = "free" /\ snap.session = grab.session
  /\ \/ snap.rev = grab.rev
     \/ Answered(snap, pending) /\ snap.status = "accepted"

\* The pinch opened, the panel went away, or its revision changed for no known reason.
LoseGrab(pinched) ==
  /\ EndFrame
  /\ snap # None /\ grab # None
  /\ ~pinched \/ ~Followable
  /\ grab' = None
  /\ UNCHANGED <<request, pending, command>> /\ Elsewhere

Following == EndFrame /\ snap # None /\ grab # None /\ Followable

\* send() without an answer to the pending request, in time.
Wait ==
  /\ Following
  /\ pending # None /\ ~Answered(snap, pending) /\ pending.age <= CommandMs
  /\ grab' = [grab EXCEPT !.rev = snap.rev]
  /\ UNCHANGED <<request, pending, command>> /\ Elsewhere

\* send() sees a refusal, or no answer for too long.
Rejected ==
  /\ Following
  /\ pending # None
  /\ IF Answered(snap, pending) THEN snap.status # "accepted" ELSE pending.age > CommandMs
  /\ pending' = None /\ grab' = None
  /\ UNCHANGED <<request, command>> /\ Elsewhere

\* send() makes the next request for a pinch at h; writing the file may fail.
Send(h, lag, written) ==
  /\ Following
  /\ pending = None \/ (Answered(snap, pending) /\ snap.status = "accepted")
  /\ request < MaxRequests /\ request' = request + 1
  /\ LET expects == IF pending # None /\ pending.mine THEN pending.to ELSE grab.expects
         to == (grab.from + h - grab.at) % Poses
     IN  IF written
           THEN /\ command' = [session |-> snap.session, rev |-> snap.rev, req |-> request',
                               to |-> to, age |-> 0, seen |-> snap.pose, expects |-> expects]
                /\ pending' = [req |-> request', age |-> Least(lag, CommandMs + 1), to |-> to,
                               mine |-> TRUE]
                /\ grab' = [grab EXCEPT !.rev = snap.rev, !.expects = expects]
           ELSE pending' = None /\ grab' = None /\ UNCHANGED command
  /\ Elsewhere

\* A new process forgets the grab and the request; request numbers do not repeat.
\* Mutant: the numbers start again.
BridgeRestartCounting ==
  /\ phase' = "read" /\ snap' = None /\ pending' = None /\ grab' = None
  /\ request' = 0
  /\ UNCHANGED <<desktopVars, adapterVars, command, panels>>

BridgeRestart ==
  /\ phase' = "read" /\ snap' = None /\ pending' = None /\ grab' = None
  /\ UNCHANGED <<request, desktopVars, adapterVars, command, panels>>

-----------------------------------------------------------------------------
Older(file, d, limit) ==
  IF file = None THEN None ELSE [file EXCEPT !.age = Least(@ + d, limit + 1)]

Elapse(d) ==
  /\ command' = Older(command, d, CommandMs)
  /\ panels' = Older(panels, d, SnapshotMs)
  /\ pending' = Older(pending, d, CommandMs)
  /\ UNCHANGED <<desktopVars, adapterVars, phase, snap, request, grab>>

Desktop ==
  \/ ForeignChange \/ DesktopRestart
  \/ \E written \in BOOLEAN : TickIdle(written)
  \/ \E readable, written \in BOOLEAN, outcome \in Outcomes :
       TickCommand(readable, outcome, written)

Bridge ==
  \/ Read \/ NoFrame \/ Clear \/ Wait \/ Rejected \/ BridgeRestart
  \/ \E at \in Pose : Grab(at)
  \/ \E pinched \in BOOLEAN : LoseGrab(pinched)
  \/ \E h \in Pose, lag \in Lags, written \in BOOLEAN : Send(h, lag, written)

Next == Desktop \/ Bridge \/ \E d \in Gaps : Elapse(d)

Spec == Init /\ [][Next]_vars

-----------------------------------------------------------------------------
Revisions == 0..(2 * (MaxRequests + MaxForeign) + 1)
Requests == 0..MaxRequests
Statuses == {"none", "invalid", "stale", "unavailable", "accepted"}

Command == [session : 1..MaxSessions, rev : Revisions, req : Requests, to : Pose,
            age : 0..(CommandMs + 1), seen : Pose, expects : Pose]
Snapshot == [session : 1..MaxSessions, pose : Pose, mode : Modes, rev : Revisions,
             ack : Requests, status : Statuses, age : 0..(SnapshotMs + 1)]
Pending == [req : Requests, age : 0..(CommandMs + 1), to : Pose, mine : BOOLEAN]
GrabRecord == [from : Pose, at : Pose, session : 1..MaxSessions, rev : Revisions,
               expects : Pose]

\* None is no command, snapshot, request, grab or signature.
ASSUME NoneAssumption ==
  None \notin Command \cup Snapshot \cup Pending \cup GrabRecord
            \cup [pose : Pose, mode : Modes]

\* The fields of both programs and of the files between them.
TypeOK ==
  /\ pose \in Pose /\ mode \in Modes /\ foreign \in 0..MaxForeign
  /\ session \in 1..MaxSessions /\ rev \in Revisions
  /\ sig \in [pose : Pose, mode : Modes] \cup {None}
  /\ ack \in Requests /\ ackStatus \in Statuses /\ applied \subseteq Requests
  /\ command \in Command \cup {None} /\ panels \in Snapshot \cup {None}
  /\ phase \in {"read", "frame"} /\ snap \in Snapshot \cup {None}
  /\ request \in Requests /\ pending \in Pending \cup {None} /\ grab \in GrabRecord \cup {None}

\* The adapter moves the panel only from the pose the bridge saw when it made the request:
\* whatever the user, a restart of either program, an old file or a slow write did in
\* between is noticed (PhoneXRAdapter.cpp:173-190).
AppliedFromSeenPose ==
  [][ applied' # applied => command.seen = pose ]_vars

\* What a snapshot answers to the pending request is what happened to it: "accepted" exactly
\* if it moved the panel.  The adapter keeps the last request number when it rejects an
\* unreadable file, so an answer could be taken for another request's (adapter.py:44-49).
AnswersAreTrue ==
  snap # None /\ Answered(snap, pending) =>
    (snap.status = "accepted" <=> pending.req \in applied)

\* A grab follows only its own requests: it sends from a snapshot that shows the panel where
\* the grab found it or left it.  "A revision may change only after our own acknowledged
\* command." (adapter.py:103)
FollowsOwnMoves == command # None => command.seen = command.expects
=============================================================================
