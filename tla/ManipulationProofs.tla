-------------------------- MODULE ManipulationProofs --------------------------
(***************************************************************************)
(* The safety properties of Manipulation, for any number of positions,     *)
(* any timing and any number of requests, changes by the user and starts   *)
(* of either program.                                                      *)
(*                                                                         *)
(* That the panel moves from the pose the bridge saw rests on what a       *)
(* revision stands for: Recent.  That an answer is the pending request's   *)
(* own rests on the order of the request numbers: Numbered, Unanswered.    *)
(***************************************************************************)
EXTENDS Manipulation, TLAPS

\* The revision as it will be when the adapter next looks at the panel.
Fresh == Revised(rev, sig, Signature(pose, mode))

\* Every count of the revision was a first sight, a change of the user or a request.
Counted ==
  /\ Fresh <= 1 + foreign + request
  /\ command # None => Fresh <= foreign + request

\* Who saw the panel in this session, at the revision it has now, saw it where it was found.
Recent(s, r, at) ==
  /\ s <= session
  /\ s = session => r <= rev /\ (r = rev /\ sig # None => at = sig.pose)

Seen ==
  /\ panels # None => Recent(panels.session, panels.rev, panels.pose)
  /\ snap # None => Recent(snap.session, snap.rev, snap.pose)
  /\ command # None => Recent(command.session, command.rev, command.seen)

\* The pending request is the last one made, and so is a command that is still there.
Numbered ==
  /\ applied \subseteq 1..request /\ ack <= request
  /\ panels # None => panels.ack <= request
  /\ snap # None => snap.ack <= request
  /\ pending # None => pending.req = request /\ request >= 1
  /\ command # None =>
       /\ command.req \in 1..request
       /\ pending # None => command.req = request

\* A command that is still there was not answered.
Unanswered ==
  command # None =>
    /\ command.req \notin applied /\ ack # command.req
    /\ panels # None => panels.ack # command.req
    /\ snap # None => snap.ack # command.req

\* An answer to the pending request is the truth.
Tells(a, status) ==
  pending # None /\ a = pending.req => (status = "accepted" <=> pending.req \in applied)

Answers ==
  /\ Tells(ack, ackStatus)
  /\ panels # None => Tells(panels.ack, panels.status)
  /\ snap # None => Tells(snap.ack, snap.status)

History == Counted /\ Seen /\ Numbered /\ Unanswered /\ Answers
IInv == TypeOK /\ History

-----------------------------------------------------------------------------
(* Helpers of the model.                                                   *)

Panel == [pose : Pose, mode : Modes]

\* None is no record.
LEMMA NoneIsNone ==
  /\ None \notin Command /\ None \notin Snapshot /\ None \notin Pending
  /\ None \notin GrabRecord /\ None \notin Panel
BY NoneAssumption DEF Panel

\* The bounds are numbers, and there is a position and a session.
LEMMA Naturals ==
  /\ Poses \in Nat \ {0} /\ MaxRequests \in Nat /\ MaxForeign \in Nat
  /\ MaxSessions \in Nat \ {0} /\ Gaps \subseteq Nat /\ Lags \subseteq Nat
BY BoundsAssumption

\* A panel's signature is where it is, and none once it is gone.
LEMMA SignatureOf ==
  ASSUME NEW at \in Pose, NEW m \in Modes
  PROVE  /\ Signature(at, m) \in Panel \cup {None}
         /\ Signature(at, m) # None => Signature(at, m).pose = at
         /\ m = "free" => Signature(at, m) # None
BY NoneIsNone DEF Signature, Panel, Modes

\* A revision is kept or counted; kept only when there is nothing new to see.
LEMMA RevisedBy ==
  ASSUME NEW r \in Nat, NEW old, NEW new
  PROVE  /\ Revised(r, old, new) \in Nat
         /\ Revised(r, old, new) \in {r, r + 1}
         /\ Revised(r, old, new) >= r
         /\ Revised(r, old, new) = r /\ new # None => new = old
         /\ new = old => Revised(r, old, new) = r
BY DEF Revised

\* The smaller of two.
LEMMA LeastOf ==
  ASSUME NEW a \in Nat, NEW b \in Nat
  PROVE  Least(a, b) \in 0..b
BY DEF Least

\* A file or a request that got older says what it said.
LEMMA OlderSnapshot ==
  ASSUME NEW file \in Snapshot \cup {None}, NEW d \in Nat
  PROVE  /\ Older(file, d, SnapshotMs) \in Snapshot \cup {None}
         /\ Older(file, d, SnapshotMs) # None =>
              /\ file # None
              /\ Older(file, d, SnapshotMs).session = file.session
              /\ Older(file, d, SnapshotMs).rev = file.rev
              /\ Older(file, d, SnapshotMs).pose = file.pose
              /\ Older(file, d, SnapshotMs).ack = file.ack
              /\ Older(file, d, SnapshotMs).status = file.status
<1>1. CASE file = None
  BY <1>1 DEF Older
<1>2. CASE file # None
  <2>1. file \in Snapshot /\ file.age + d \in Nat /\ SnapshotMs + 1 \in Nat
    <3>1. file.age \in Nat
      BY <1>2 DEF Snapshot, SnapshotMs
    <3>. QED  BY <1>2, <3>1 DEF SnapshotMs
  <2>2. Least(file.age + d, SnapshotMs + 1) \in 0..(SnapshotMs + 1)
    BY <2>1, LeastOf
  <2>. DEFINE a == Least(file.age + d, SnapshotMs + 1)
  <2>3. Older(file, d, SnapshotMs) = [file EXCEPT !.age = a]
    BY <1>2 DEF Older
  <2>. HIDE DEF a
  <2>4. a \in 0..(SnapshotMs + 1)
    BY <2>2 DEF a
  <2>. QED  BY <1>2, <2>1, <2>3, <2>4 DEF Snapshot
<1>. QED  BY <1>1, <1>2

\* So with the command.
LEMMA OlderCommand ==
  ASSUME NEW file \in Command \cup {None}, NEW d \in Nat
  PROVE  /\ Older(file, d, CommandMs) \in Command \cup {None}
         /\ file = None <=> Older(file, d, CommandMs) = None
         /\ file # None =>
              /\ Older(file, d, CommandMs).session = file.session
              /\ Older(file, d, CommandMs).rev = file.rev
              /\ Older(file, d, CommandMs).seen = file.seen
              /\ Older(file, d, CommandMs).req = file.req
<1>1. CASE file = None
  BY <1>1 DEF Older
<1>2. CASE file # None
  <2>1. file \in Command /\ file.age + d \in Nat /\ CommandMs + 1 \in Nat
    <3>1. file.age \in Nat
      BY <1>2 DEF Command, CommandMs
    <3>. QED  BY <1>2, <3>1 DEF CommandMs
  <2>2. Least(file.age + d, CommandMs + 1) \in 0..(CommandMs + 1)
    BY <2>1, LeastOf
  <2>. DEFINE a == Least(file.age + d, CommandMs + 1)
  <2>3. Older(file, d, CommandMs) = [file EXCEPT !.age = a]
    BY <1>2 DEF Older
  <2>. HIDE DEF a
  <2>4. a \in 0..(CommandMs + 1)
    BY <2>2 DEF a
  <2>5. Older(file, d, CommandMs) \in Command
    BY <2>1, <2>3, <2>4 DEF Command
  <2>. QED  BY <1>2, <2>1, <2>3, <2>5, NoneIsNone DEF Command
<1>. QED  BY <1>1, <1>2

\* And with the pending request.
LEMMA OlderPending ==
  ASSUME NEW p \in Pending \cup {None}, NEW d \in Nat
  PROVE  /\ Older(p, d, CommandMs) \in Pending \cup {None}
         /\ Older(p, d, CommandMs) # None => p # None /\ Older(p, d, CommandMs).req = p.req
<1>1. CASE p = None
  BY <1>1 DEF Older
<1>2. CASE p # None
  <2>1. p \in Pending /\ p.age + d \in Nat /\ CommandMs + 1 \in Nat
    <3>1. p.age \in Nat
      BY <1>2 DEF Pending, CommandMs
    <3>. QED  BY <1>2, <3>1 DEF CommandMs
  <2>2. Least(p.age + d, CommandMs + 1) \in 0..(CommandMs + 1)
    BY <2>1, LeastOf
  <2>. DEFINE a == Least(p.age + d, CommandMs + 1)
  <2>3. Older(p, d, CommandMs) = [p EXCEPT !.age = a]
    BY <1>2 DEF Older
  <2>. HIDE DEF a
  <2>4. a \in 0..(CommandMs + 1)
    BY <2>2 DEF a
  <2>. QED  BY <1>2, <2>1, <2>3, <2>4 DEF Pending
<1>. QED  BY <1>1, <1>2

\* A revision that was counted as Counted says is in range.
LEMMA RevisionInRange ==
  ASSUME NEW r \in Nat, NEW f \in 0..MaxForeign, NEW q \in 0..MaxRequests, r <= 1 + f + q
  PROVE  r \in Revisions
BY Naturals DEF Revisions

-----------------------------------------------------------------------------
(* The initial state.                                                      *)

\* Nothing is written, seen or asked at the start.
LEMMA InitHolds == Init => IInv
<1>. SUFFICES ASSUME Init PROVE IInv
  OBVIOUS
<1>1. 0 \in Pose /\ 1 \in 1..MaxSessions /\ 0 \in Revisions /\ 0 \in Requests /\ 0 \in 0..MaxForeign
  BY Naturals DEF Pose, Revisions, Requests
<1>2. TypeOK
  BY <1>1 DEF Init, TypeOK, Modes, Statuses
<1>3. Fresh \in {0, 1}
  BY DEF Init, Fresh, Revised
<1>4. Counted
  BY <1>3 DEF Init, Counted
<1>5. Seen /\ Unanswered /\ Answers
  BY DEF Init, Seen, Unanswered, Answers, Tells
<1>6. Numbered
  BY DEF Init, Numbered
<1>. QED  BY <1>2, <1>4, <1>5, <1>6 DEF IInv, History

-----------------------------------------------------------------------------
(* The history's part of the invariant: most steps only pass on what they  *)
(* read, let it age or forget it.                                          *)

\* f says what g said.
Same(f, g) ==
  /\ g # None
  /\ f.session = g.session /\ f.rev = g.rev /\ f.pose = g.pose
  /\ f.ack = g.ack /\ f.status = g.status

PassesOn ==
  /\ UNCHANGED <<desktopVars, adapterVars, request>>
  /\ panels' # None => Same(panels', panels)
  /\ snap' # None => Same(snap', snap) \/ Same(snap', panels)
  /\ pending' # None => pending # None /\ pending'.req = pending.req
  /\ command' = None <=> command = None
  /\ command # None =>
       /\ command'.session = command.session /\ command'.rev = command.rev
       /\ command'.seen = command.seen /\ command'.req = command.req

LEMMA HistoryPassedOn ==
  ASSUME History, PassesOn
  PROVE  History'
<1>1. UNCHANGED <<pose, mode, foreign, session, rev, sig, ack, ackStatus, applied, request>>
  BY DEF PassesOn, desktopVars, adapterVars
<1>2. Counted'
  BY <1>1 DEF History, PassesOn, Counted, Fresh
<1>3. Seen'
  BY <1>1 DEF History, PassesOn, Seen, Recent, Same
<1>4. Numbered'
  BY <1>1 DEF History, PassesOn, Numbered, Same
<1>5. Unanswered'
  BY <1>1 DEF History, PassesOn, Unanswered, Same
<1>6. Answers'
  BY <1>1 DEF History, PassesOn, Answers, Tells, Same
<1>. QED  BY <1>2, <1>3, <1>4, <1>5, <1>6 DEF History

\* A revision counted as it should be is in range.
LEMMA RevisionCounted ==
  ASSUME IInv, UNCHANGED <<foreign, request>>, rev' \in Nat, Fresh' = rev', Counted'
  PROVE  rev' \in Revisions
<1>1. foreign \in 0..MaxForeign /\ request \in 0..MaxRequests
  BY DEF IInv, TypeOK, Requests
<1>2. rev' <= 1 + foreign + request
  BY DEF Counted
<1>. QED  BY <1>1, <1>2, RevisionInRange

\* panels.json keeps what it said, or says what the adapter knows.
LEMMA Published ==
  ASSUME TypeOK, NEW written \in BOOLEAN, Publish(written), session' = session,
         pose' \in Pose, rev' \in Revisions, ack' \in Requests, ackStatus' \in Statuses
  PROVE  /\ panels' \in Snapshot \cup {None}
         /\ \/ panels' = panels
            \/ /\ panels' # None /\ panels'.session = session' /\ panels'.rev = rev'
               /\ panels'.pose = pose' /\ panels'.ack = ack' /\ panels'.status = ackStatus'
<1>1. CASE ~written
  BY <1>1 DEF Publish, TypeOK
<1>2. CASE written
  <2>. DEFINE new == [session |-> session, pose |-> pose', mode |-> mode, rev |-> rev',
                      ack |-> ack', status |-> ackStatus', age |-> 0]
  <2>1. panels' = new
    BY <1>2 DEF Publish
  <2>2. new \in Snapshot
    BY DEF TypeOK, Snapshot, SnapshotMs
  <2>3. new # None
    BY <2>2, NoneIsNone
  <2>. QED  BY <2>1, <2>2, <2>3
<1>. QED  BY <1>1, <1>2

\* What was seen stays recent while the adapter's session lasts and the revision counts
\* what is new.
LEMMA RecentLater ==
  ASSUME TypeOK, Seen, session' = session, rev' \in Nat, rev' >= rev,
         rev' = rev /\ sig' # None => sig' = sig
  PROVE  /\ panels # None =>
              /\ panels.session <= session'
              /\ panels.session = session' =>
                   /\ panels.rev <= rev'
                   /\ panels.rev = rev' /\ sig' # None => panels.pose = sig'.pose
         /\ snap # None =>
              /\ snap.session <= session'
              /\ snap.session = session' =>
                   /\ snap.rev <= rev'
                   /\ snap.rev = rev' /\ sig' # None => snap.pose = sig'.pose
         /\ command # None =>
              /\ command.session <= session'
              /\ command.session = session' =>
                   /\ command.rev <= rev'
                   /\ command.rev = rev' /\ sig' # None => command.seen = sig'.pose
<1>1. rev \in Nat
  BY DEF TypeOK, Revisions
<1>2. /\ panels # None => panels.rev \in Nat
      /\ snap # None => snap.rev \in Nat
      /\ command # None => command.rev \in Nat
  BY DEF TypeOK, Snapshot, Command, Revisions
<1>. QED  BY <1>1, <1>2 DEF Seen, Recent

\* The user's change counts once, when the adapter next looks.
LEMMA ForeignHistory == IInv /\ ForeignChange => History'
<1>. SUFFICES ASSUME IInv, ForeignChange PROVE History'
  OBVIOUS
<1>1. /\ UNCHANGED <<session, rev, sig, ack, ackStatus, applied, request, pending>>
      /\ UNCHANGED <<command, panels, snap>> /\ foreign' = foreign + 1
  BY DEF ForeignChange, adapterVars, bridgeVars
<1>2. Fresh \in Nat /\ Fresh >= rev /\ Fresh' \in {rev, rev + 1} /\ rev \in Nat /\ foreign \in Nat
  BY <1>1, RevisedBy DEF IInv, TypeOK, Fresh, Revisions
<1>3. Counted'
  <2>1. request \in Nat
    BY DEF IInv, TypeOK, Requests
  <2>2. Fresh' <= Fresh + 1 /\ Fresh' \in Nat
    BY <1>2
  <2>3. Fresh' <= 1 + foreign' + request'
    BY <1>1, <1>2, <2>1, <2>2 DEF IInv, History, Counted
  <2>4. ASSUME command # None PROVE Fresh' <= foreign' + request'
    <3>1. Fresh <= foreign + request
      BY <2>4 DEF IInv, History, Counted
    <3>. QED  BY <1>1, <1>2, <2>1, <2>2, <3>1
  <2>. QED  BY <1>1, <2>3, <2>4 DEF Counted
<1>4. Seen' /\ Numbered' /\ Unanswered' /\ Answers'
  BY <1>1 DEF IInv, History, Seen, Recent, Numbered, Unanswered, Answers, Tells
<1>. QED  BY <1>3, <1>4 DEF History

\* A new session has seen nothing, and no file is of it.
LEMMA RestartHistory == IInv /\ DesktopRestart => History'
<1>. SUFFICES ASSUME IInv, DesktopRestart PROVE History'
  OBVIOUS
<1>1. /\ UNCHANGED <<pose, mode, foreign, applied, request, pending, command, panels, snap>>
      /\ session' = session + 1 /\ rev' = 0 /\ sig' = None /\ ack' = 0
  BY DEF DesktopRestart, desktopVars, bridgeVars
<1>2. Fresh' \in {0, 1}
  BY <1>1, RevisedBy DEF Fresh, Revised
<1>3. foreign \in Nat /\ request \in Nat /\ session \in Nat
  BY DEF IInv, TypeOK, Requests
<1>4. command # None => request >= 1
  BY <1>3 DEF IInv, History, Numbered
<1>5. Counted'
  <2>1. Fresh' <= 1 /\ Fresh' \in Nat
    BY <1>2
  <2>2. Fresh' <= 1 + foreign' + request'
    BY <1>1, <1>3, <2>1
  <2>3. ASSUME command' # None PROVE Fresh' <= foreign' + request'
    BY <1>1, <1>3, <1>4, <2>1, <2>3
  <2>. QED  BY <2>2, <2>3 DEF Counted
<1>6. /\ panels # None => panels.session <= session /\ panels.session \in Nat
      /\ snap # None => snap.session <= session /\ snap.session \in Nat
      /\ command # None => command.session <= session /\ command.session \in Nat
  BY DEF IInv, TypeOK, History, Seen, Recent, Snapshot, Command
<1>7. Seen'
  BY <1>1, <1>3, <1>6 DEF Seen, Recent
<1>8. Numbered'
  BY <1>1, <1>3 DEF IInv, History, Numbered
<1>9. Unanswered'
  BY <1>1, <1>3 DEF IInv, History, Unanswered, Numbered
<1>10. Answers'
  BY <1>1, <1>3 DEF IInv, History, Answers, Tells, Numbered
<1>. QED  BY <1>5, <1>7, <1>8, <1>9, <1>10 DEF History

\* A tick without a command looks at the panel.
LEMMA IdleHistory ==
  ASSUME IInv, NEW written \in BOOLEAN, TickIdle(written)
  PROVE  History' /\ rev' = Fresh /\ sig' \in Panel \cup {None}
<1>1. /\ UNCHANGED <<session, pose, mode, foreign, ack, ackStatus, applied>>
      /\ UNCHANGED <<request, pending, snap, command>>
      /\ command = None /\ sig' = Signature(pose, mode) /\ rev' = Revised(rev, sig, sig')
  BY DEF TickIdle, desktopVars, bridgeVars
<1>2. pose \in Pose /\ mode \in Modes /\ rev \in Nat
  BY DEF IInv, TypeOK, Revisions
<1>3. sig' \in Panel \cup {None} /\ (sig' # None => sig'.pose = pose)
  BY <1>1, <1>2, SignatureOf
<1>4. /\ rev' = Fresh /\ rev' \in Nat /\ rev' >= rev
      /\ rev' = rev /\ sig' # None => sig' = sig
  BY <1>1, <1>2, RevisedBy DEF Fresh
<1>5. Fresh' = rev'
  BY <1>1, <1>4, RevisedBy DEF Fresh
<1>6. Counted'
  BY <1>1, <1>4, <1>5 DEF IInv, History, Counted
<1>7. \/ panels' = panels
      \/ /\ panels' # None /\ panels'.session = session' /\ panels'.rev = rev'
         /\ panels'.pose = pose' /\ panels'.ack = ack' /\ panels'.status = ackStatus'
  BY <1>1, <1>2, <1>4, <1>5, <1>6, RevisionCounted, Published DEF TickIdle, IInv, TypeOK
<1>8. Seen'
  <2>1. session \in Int
    BY DEF IInv, TypeOK
  <2>. QED  BY <1>1, <1>3, <1>4, <1>7, <2>1, RecentLater DEF IInv, History, Seen, Recent
<1>9. Numbered'
  BY <1>1, <1>7 DEF IInv, History, Numbered
<1>10. Unanswered'
  BY <1>1 DEF Unanswered
<1>11. Answers'
  BY <1>1, <1>7 DEF IInv, History, Answers, Tells
<1>. QED  BY <1>3, <1>4, <1>6, <1>8, <1>9, <1>10, <1>11 DEF History

\* A tick with a command answers it or leaves the answers alone; either way it is gone.
LEMMA CommandHistory ==
  ASSUME IInv, NEW readable \in BOOLEAN, NEW outcome \in Outcomes, NEW written \in BOOLEAN,
         TickCommand(readable, outcome, written)
  PROVE  /\ History'
         /\ pose' \in Pose /\ rev' \in Revisions /\ sig' \in Panel \cup {None}
         /\ ack' \in Requests /\ ackStatus' \in Statuses /\ applied' \subseteq Requests
         /\ panels' \in Snapshot \cup {None}
         /\ applied' # applied => command.seen = pose
<1>. DEFINE seen == Signature(pose, mode)
            valid == readable /\ command.age <= CommandMs
            verdict == IF valid THEN Verdict(command, Fresh, outcome) ELSE "invalid"
<1>1. /\ UNCHANGED <<session, mode, foreign, request, pending, snap>>
      /\ command # None /\ command' = None
      /\ ack' = IF valid THEN command.req ELSE ack
      /\ ackStatus' = verdict
      /\ pose' = IF verdict = "accepted" THEN command.to ELSE pose
      /\ applied' = IF verdict = "accepted" THEN applied \cup {command.req} ELSE applied
      /\ sig' = Signature(pose', mode)
      /\ rev' = Revised(Fresh, seen, sig')
      /\ Publish(written)
  BY DEF TickCommand, bridgeVars, Fresh
<1>2. command \in Command
  BY <1>1 DEF IInv, TypeOK
<1>3. /\ verdict \in Statuses
      /\ verdict = "accepted" =>
           valid /\ command.session = session /\ Fresh = command.rev /\ mode = "free"
  BY DEF Verdict, Statuses, Outcomes
<1>4. ~valid => verdict = "invalid"
  OBVIOUS
<1>. HIDE DEF valid, verdict
<1>5. /\ pose \in Pose /\ mode \in Modes /\ rev \in Nat /\ pose' \in Pose
      /\ ack' \in Requests /\ ackStatus' \in Statuses /\ applied' \subseteq Requests
  BY <1>1, <1>2, <1>3 DEF IInv, TypeOK, Revisions, Command
<1>6. /\ seen # None => seen.pose = pose
      /\ sig' \in Panel \cup {None}
      /\ sig' # None => sig'.pose = pose'
      /\ mode = "free" => seen # None
  BY <1>1, <1>5, SignatureOf
<1>. HIDE DEF seen
<1>7. /\ Fresh \in Nat /\ Fresh >= rev
      /\ Fresh = rev /\ seen # None => seen = sig
  BY <1>5, RevisedBy DEF Fresh, seen
<1>8. /\ rev' \in Nat /\ rev' <= Fresh + 1 /\ rev' >= Fresh
      /\ rev' = Fresh /\ sig' # None => sig' = seen
  BY <1>1, <1>7, RevisedBy
<1>9. /\ rev' >= rev
      /\ rev' = rev /\ sig' # None => sig' = sig
  BY <1>5, <1>6, <1>7, <1>8
<1>10. Fresh' = rev'
  BY <1>1, <1>8, RevisedBy DEF Fresh
<1>11. Counted'
  <2>1. Fresh <= foreign + request /\ foreign \in Nat /\ request \in Nat
    BY <1>1 DEF IInv, TypeOK, Requests, History, Counted
  <2>2. rev' <= 1 + foreign + request
    BY <1>7, <1>8, <2>1
  <2>. QED  BY <1>1, <1>10, <2>2 DEF Counted
<1>12. rev' \in Revisions
  BY <1>1, <1>8, <1>10, <1>11, RevisionCounted
<1>13. /\ panels' \in Snapshot \cup {None}
       /\ \/ panels' = panels
          \/ /\ panels' # None /\ panels'.session = session' /\ panels'.rev = rev'
             /\ panels'.pose = pose' /\ panels'.ack = ack' /\ panels'.status = ackStatus'
  BY <1>1, <1>5, <1>12, Published DEF IInv
<1>14. Seen'
  <2>1. session \in Int
    BY DEF IInv, TypeOK
  <2>2. panels' # None => Recent(panels.session, panels.rev, panels.pose)'
    BY <1>1, <1>6, <1>8, <1>9, <1>13, <2>1, RecentLater DEF IInv, History, Recent
  <2>3. snap' # None => Recent(snap.session, snap.rev, snap.pose)'
    BY <1>1, <1>8, <1>9, RecentLater DEF IInv, History, Recent
  <2>. QED  BY <1>1, <2>2, <2>3 DEF Seen
<1>15. Numbered'
  <2>1. request \in Nat /\ command.req \in 1..request
    BY <1>1 DEF IInv, TypeOK, Requests, History, Numbered
  <2>2. applied' \subseteq applied \cup {command.req} /\ ack' \in {ack, command.req}
    BY <1>1
  <2>3. applied \subseteq 1..request /\ ack <= request
    BY DEF IInv, History, Numbered
  <2>4. applied' \subseteq 1..request /\ ack' <= request
    BY <2>1, <2>2, <2>3
  <2>. QED  BY <1>1, <1>13, <2>1, <2>4 DEF IInv, History, Numbered
<1>16. Unanswered'
  BY <1>1 DEF Unanswered
<1>17. Answers'
  <2>1. pending # None => pending.req = command.req
    BY <1>1 DEF IInv, History, Numbered
  <2>2. /\ command.req \notin applied /\ ack # command.req
        /\ panels # None => panels.ack # command.req
        /\ snap # None => snap.ack # command.req
    BY <1>1 DEF IInv, History, Unanswered
  <2>3. valid => Tells(ack, ackStatus)'
    BY <1>1, <2>1, <2>2 DEF Tells
  <2>4. ~valid => Tells(ack, ackStatus)'
    BY <1>1, <2>1, <2>2 DEF Tells
  <2>5. Tells(ack, ackStatus)'
    BY <2>3, <2>4
  <2>6. /\ panels # None => panels.ack # pending'.req \/ pending' = None
        /\ snap # None => snap.ack # pending'.req \/ pending' = None
    BY <1>1, <2>1, <2>2
  <2>7. panels' # None => Tells(panels.ack, panels.status)'
    BY <1>13, <2>5, <2>6 DEF Tells
  <2>8. snap' # None => Tells(snap.ack, snap.status)'
    BY <1>1, <2>6 DEF Tells
  <2>. QED  BY <2>5, <2>7, <2>8 DEF Answers
<1>18. ASSUME applied' # applied PROVE command.seen = pose
  <2>1. command.session = session /\ Fresh = command.rev /\ seen # None
    BY <1>1, <1>3, <1>6, <1>18
  <2>2. /\ command.rev <= rev
        /\ command.rev = rev /\ sig # None => command.seen = sig.pose
    BY <1>1, <2>1 DEF IInv, History, Seen, Recent
  <2>3. Fresh = rev
    BY <1>5, <1>7, <2>1, <2>2
  <2>. QED  BY <1>6, <1>7, <2>1, <2>2, <2>3
<1>. QED
  BY <1>5, <1>6, <1>11, <1>12, <1>13, <1>14, <1>15, <1>16, <1>17, <1>18 DEF History

\* A request that is written takes a new number and says what its snapshot said.
LEMMA SendHistory ==
  ASSUME IInv, NEW h \in Pose, NEW lag \in Lags, NEW written \in BOOLEAN,
         Send(h, lag, written)
  PROVE  History'
<1>1. /\ UNCHANGED <<pose, mode, foreign, session, rev, sig, ack, ackStatus, applied>>
      /\ UNCHANGED <<snap, panels>> /\ snap # None /\ request' = request + 1
  BY DEF Send, Following, Elsewhere, desktopVars, adapterVars
<1>2. request \in Nat /\ foreign \in Nat /\ Fresh \in Nat /\ Fresh' = Fresh /\ ack \in Nat
  BY <1>1, RevisedBy DEF IInv, TypeOK, Requests, Fresh, Revisions
<1>3. \/ command' = command /\ pending' = None
      \/ /\ command' # None => /\ command'.session = snap.session /\ command'.rev = snap.rev
                               /\ command'.seen = snap.pose /\ command'.req = request'
         /\ pending' # None => pending'.req = request'
  BY DEF Send
<1>4. Counted'
  <2>1. Fresh <= 1 + foreign + request
    BY DEF IInv, History, Counted
  <2>2. Fresh <= foreign + (request + 1)
    BY <1>2, <2>1
  <2>3. Fresh <= 1 + foreign + (request + 1)
    BY <1>2, <2>2
  <2>. QED  BY <1>1, <1>2, <2>2, <2>3 DEF Counted
<1>5. Seen'
  BY <1>1, <1>3 DEF IInv, History, Seen, Recent
<1>6. /\ panels # None => panels.ack \in Nat /\ panels.ack <= request
      /\ snap # None => snap.ack \in Nat /\ snap.ack <= request
      /\ ack <= request /\ applied \subseteq 1..request
      /\ command # None => command.req \in 1..request
  BY DEF IInv, TypeOK, Snapshot, Requests, History, Numbered
<1>7. Numbered'
  <2>1. applied \subseteq 1..(request + 1)
    BY <1>2, <1>6
  <2>. QED  BY <1>1, <1>2, <1>3, <1>6, <2>1 DEF Numbered
<1>8. Unanswered'
  <2>1. request + 1 \notin applied /\ ack # request + 1
    BY <1>2, <1>6
  <2>2. /\ panels # None => panels.ack # request + 1
        /\ snap # None => snap.ack # request + 1
    BY <1>2, <1>6
  <2>. QED  BY <1>1, <1>3, <2>1, <2>2 DEF IInv, History, Unanswered
<1>9. Answers'
  <2>1. ack # request + 1
    BY <1>2, <1>6
  <2>2. /\ panels # None => panels.ack # request + 1
        /\ snap # None => snap.ack # request + 1
    BY <1>2, <1>6
  <2>. QED  BY <1>1, <1>3, <2>1, <2>2 DEF Answers, Tells
<1>. QED  BY <1>4, <1>5, <1>7, <1>8, <1>9 DEF History

-----------------------------------------------------------------------------
(* Every step of the bridge.                                               *)

\* A snapshot is the file without its age.
LEMMA ReadHolds == IInv /\ Read => IInv'
<1>. SUFFICES ASSUME IInv, Read PROVE IInv'
  OBVIOUS
<1>1. /\ UNCHANGED <<request, pending, desktopVars, adapterVars, command, panels>>
      /\ phase' = "frame"
      /\ snap' = None \/ (panels # None /\ snap' = Content(panels))
      /\ grab' \in {None, grab}
  BY DEF Read
<1>2. snap' # None => snap' \in Snapshot /\ Same(snap', panels)
  <2>. SUFFICES ASSUME snap' # None PROVE snap' \in Snapshot /\ Same(snap', panels)
    OBVIOUS
  <2>1. panels \in Snapshot /\ panels # None /\ snap' = [panels EXCEPT !.age = 0]
    BY <1>1 DEF IInv, TypeOK, Content
  <2>2. 0 \in 0..(SnapshotMs + 1)
    BY DEF SnapshotMs
  <2>. QED  BY <2>1, <2>2 DEF Snapshot, Same
<1>3. TypeOK'
  BY <1>1, <1>2 DEF IInv, TypeOK, desktopVars, adapterVars
<1>4. PassesOn
  BY <1>1, <1>2 DEF PassesOn, Same
<1>. QED  BY <1>3, <1>4, HistoryPassedOn DEF IInv

\* A grab, and what ends it.
LEMMA GrabHolds == ASSUME IInv, NEW at \in Pose, Grab(at) PROVE IInv'
<1>1. /\ UNCHANGED <<desktopVars, adapterVars, command, panels, snap, request>>
      /\ phase' = "read" /\ snap # None
      /\ grab' = [from |-> snap.pose, at |-> at, session |-> snap.session, rev |-> snap.rev,
                  expects |-> snap.pose]
      /\ pending' = IF pending = None THEN None ELSE [pending EXCEPT !.mine = FALSE]
  BY DEF Grab, EndFrame, Elsewhere
<1>2. grab' \in GrabRecord
  BY <1>1 DEF IInv, TypeOK, Snapshot, GrabRecord
<1>3. /\ pending' \in Pending \cup {None}
      /\ pending' # None => pending # None /\ pending'.req = pending.req
  BY <1>1 DEF IInv, TypeOK, Pending
<1>4. TypeOK'
  BY <1>1, <1>2, <1>3 DEF IInv, TypeOK, desktopVars, adapterVars
<1>5. PassesOn
  BY <1>1, <1>3 DEF PassesOn, Same
<1>. QED  BY <1>4, <1>5, HistoryPassedOn DEF IInv

\* A frame without a request leaves the pending one or drops it.
LEMMA FrameHolds ==
  ASSUME IInv,
         \/ NoFrame \/ Clear \/ Wait \/ Rejected \/ BridgeRestart
         \/ \E pinched \in BOOLEAN : LoseGrab(pinched)
  PROVE  IInv'
<1>1. /\ UNCHANGED <<desktopVars, adapterVars, command, panels, request>>
      /\ phase' = "read" /\ snap' \in {snap, None} /\ pending' \in {pending, None}
  BY DEF NoFrame, Clear, Wait, Rejected, BridgeRestart, LoseGrab, Following, EndFrame, Elsewhere
<1>2. grab' \in GrabRecord \cup {None}
  <2>1. CASE Wait
    <3>1. snap \in Snapshot /\ grab \in GrabRecord
      BY <2>1 DEF Wait, Following, IInv, TypeOK
    <3>. QED  BY <2>1, <3>1 DEF Wait, Snapshot, GrabRecord
  <2>2. CASE ~Wait
    BY <2>2 DEF NoFrame, Clear, Rejected, BridgeRestart, LoseGrab, IInv, TypeOK
  <2>. QED  BY <2>1, <2>2
<1>3. TypeOK'
  BY <1>1, <1>2 DEF IInv, TypeOK, desktopVars, adapterVars
<1>4. PassesOn
  BY <1>1 DEF PassesOn, Same
<1>. QED  BY <1>3, <1>4, HistoryPassedOn DEF IInv

\* A request, whether its file is written or not.
LEMMA SendHolds ==
  ASSUME IInv, NEW h \in Pose, NEW lag \in Lags, NEW written \in BOOLEAN,
         Send(h, lag, written)
  PROVE  IInv'
<1>. DEFINE expects == IF pending # None /\ pending.mine THEN pending.to ELSE grab.expects
            to == (grab.from + h - grab.at) % Poses
            age == Least(lag, CommandMs + 1)
<1>1. /\ UNCHANGED <<desktopVars, adapterVars, panels, snap>>
      /\ phase' = "read" /\ snap # None /\ grab # None
      /\ request < MaxRequests /\ request' = request + 1
  BY DEF Send, Following, EndFrame, Elsewhere
<1>2. \/ /\ command' = [session |-> snap.session, rev |-> snap.rev, req |-> request',
                        to |-> to, age |-> 0, seen |-> snap.pose, expects |-> expects]
         /\ pending' = [req |-> request', age |-> age, to |-> to, mine |-> TRUE]
         /\ grab' = [grab EXCEPT !.rev = snap.rev, !.expects = expects]
      \/ pending' = None /\ grab' = None /\ UNCHANGED command
  BY DEF Send
<1>3. snap \in Snapshot /\ grab \in GrabRecord /\ pending \in Pending \cup {None}
  BY <1>1 DEF IInv, TypeOK
<1>4. expects \in Pose
  BY <1>3 DEF Pending, GrabRecord
<1>5. to \in Pose
  <2>1. grab.from \in Int /\ grab.at \in Int /\ h \in Int
    BY <1>3, Naturals DEF GrabRecord, Pose
  <2>2. grab.from + h - grab.at \in Int
    BY <2>1
  <2>. DEFINE x == grab.from + h - grab.at
  <2>. HIDE DEF x
  <2>3. x \in Int => x % Poses \in 0..(Poses - 1)
    BY Naturals
  <2>. QED  BY <2>2, <2>3 DEF x, Pose
<1>6. age \in 0..(CommandMs + 1)
  <2>1. lag \in Nat /\ CommandMs + 1 \in Nat
    BY Naturals DEF CommandMs
  <2>. QED  BY <2>1, LeastOf
<1>7. request' \in Requests
  BY <1>1, Naturals DEF IInv, TypeOK, Requests
<1>. HIDE DEF expects, to, age
<1>8. command' \in Command \cup {None}
  <2>1. 0 \in 0..(CommandMs + 1)
    BY DEF CommandMs
  <2>. QED  BY <1>2, <1>3, <1>4, <1>5, <1>7, <2>1 DEF Command, Snapshot, IInv, TypeOK
<1>9. pending' \in Pending \cup {None}
  <2>1. [req |-> request', age |-> age, to |-> to, mine |-> TRUE] \in Pending
    BY <1>5, <1>6, <1>7, Zenon DEF Pending
  <2>. QED  BY <1>2, <2>1
<1>10. grab' \in GrabRecord \cup {None}
  BY <1>2, <1>3, <1>4 DEF GrabRecord, Snapshot
<1>11. TypeOK'
  BY <1>1, <1>7, <1>8, <1>9, <1>10 DEF IInv, TypeOK, desktopVars, adapterVars
<1>. QED  BY <1>11, SendHistory DEF IInv

-----------------------------------------------------------------------------
(* Every step of Desktop+, and time.                                       *)

\* Every step of Desktop+: its user, its restart and the adapter's ticks.
LEMMA DesktopHolds == IInv /\ Desktop => IInv'
<1>. SUFFICES ASSUME IInv, Desktop PROVE IInv'
  OBVIOUS
<1>1. CASE ForeignChange
  <2>1. /\ pose' \in Pose /\ mode' \in Modes /\ foreign' \in 0..MaxForeign
        /\ UNCHANGED <<adapterVars, bridgeVars, command, panels>>
    BY <1>1, Naturals DEF ForeignChange, IInv, TypeOK
  <2>2. TypeOK'
    BY <2>1 DEF IInv, TypeOK, adapterVars, bridgeVars
  <2>. QED  BY <1>1, <2>2, ForeignHistory DEF IInv
<1>2. CASE DesktopRestart
  <2>1. /\ session' \in 1..MaxSessions /\ rev' \in Revisions /\ sig' = None
        /\ ack' \in Requests /\ ackStatus' \in Statuses
        /\ UNCHANGED <<desktopVars, applied, bridgeVars, command, panels>>
    BY <1>2, Naturals DEF DesktopRestart, IInv, TypeOK, Revisions, Requests, Statuses
  <2>2. TypeOK'
    BY <2>1 DEF IInv, TypeOK, desktopVars, bridgeVars
  <2>. QED  BY <1>2, <2>2, RestartHistory DEF IInv
<1>3. ASSUME NEW written \in BOOLEAN, TickIdle(written) PROVE IInv'
  <2>1. /\ UNCHANGED <<session, ack, ackStatus, applied, desktopVars, bridgeVars, command>>
        /\ Publish(written)
    BY <1>3 DEF TickIdle
  <2>2. History' /\ rev' = Fresh /\ sig' \in Panel \cup {None}
    BY <1>3, IdleHistory
  <2>3. rev' \in Revisions
    <3>1. Fresh \in Nat /\ foreign \in 0..MaxForeign /\ request \in 0..MaxRequests
      BY RevisedBy DEF IInv, TypeOK, Requests, Revisions, Fresh
    <3>2. Fresh <= 1 + foreign + request
      BY DEF IInv, History, Counted
    <3>. QED  BY <2>2, <3>1, <3>2, RevisionInRange
  <2>4. panels' \in Snapshot \cup {None}
    BY <2>1, <2>3, Published DEF IInv, TypeOK, desktopVars
  <2>5. TypeOK'
    BY <2>1, <2>2, <2>3, <2>4 DEF IInv, TypeOK, Panel, desktopVars, bridgeVars
  <2>. QED  BY <2>2, <2>5 DEF IInv
<1>4. ASSUME NEW readable \in BOOLEAN, NEW outcome \in Outcomes, NEW written \in BOOLEAN,
             TickCommand(readable, outcome, written)
      PROVE  IInv'
  <2>1. command' = None /\ UNCHANGED <<session, mode, foreign, bridgeVars>>
    BY <1>4 DEF TickCommand
  <2>2. /\ History'
        /\ pose' \in Pose /\ rev' \in Revisions /\ sig' \in Panel \cup {None}
        /\ ack' \in Requests /\ ackStatus' \in Statuses /\ applied' \subseteq Requests
        /\ panels' \in Snapshot \cup {None}
    BY <1>4, CommandHistory
  <2>3. TypeOK'
    BY <2>1, <2>2 DEF IInv, TypeOK, Panel, bridgeVars
  <2>. QED  BY <2>2, <2>3 DEF IInv
<1>. QED  BY <1>1, <1>2, <1>3, <1>4 DEF Desktop

\* Time only makes the files and the request older.
LEMMA ElapseHolds == ASSUME IInv, NEW d \in Gaps, Elapse(d) PROVE IInv'
<1>1. /\ d \in Nat
      /\ command \in Command \cup {None} /\ panels \in Snapshot \cup {None}
      /\ pending \in Pending \cup {None}
      /\ command' = Older(command, d, CommandMs) /\ panels' = Older(panels, d, SnapshotMs)
      /\ pending' = Older(pending, d, CommandMs)
      /\ UNCHANGED <<desktopVars, adapterVars, phase, snap, request, grab>>
  BY Naturals DEF Elapse, IInv, TypeOK
<1>2. /\ command' \in Command \cup {None} /\ panels' \in Snapshot \cup {None}
      /\ pending' \in Pending \cup {None}
  BY <1>1, OlderCommand, OlderSnapshot, OlderPending
<1>3. TypeOK'
  BY <1>1, <1>2 DEF IInv, TypeOK, desktopVars, adapterVars
<1>4. panels' # None => Same(panels', panels)
  BY <1>1, OlderSnapshot DEF Same
<1>5. pending' # None => pending # None /\ pending'.req = pending.req
  BY <1>1, OlderPending
<1>6. /\ command' = None <=> command = None
      /\ command # None =>
           /\ command'.session = command.session /\ command'.rev = command.rev
           /\ command'.seen = command.seen /\ command'.req = command.req
  BY <1>1, OlderCommand
<1>7. PassesOn
  BY <1>1, <1>4, <1>5, <1>6 DEF PassesOn, Same
<1>. QED  BY <1>3, <1>7, HistoryPassedOn DEF IInv

\* A step that changes nothing.
LEMMA StutterHolds == IInv /\ UNCHANGED vars => IInv'
<1>. SUFFICES ASSUME IInv, UNCHANGED vars PROVE IInv'
  OBVIOUS
<1>1. TypeOK'
  BY DEF IInv, TypeOK, vars, desktopVars, adapterVars, bridgeVars
<1>2. PassesOn
  BY DEF PassesOn, Same, vars, desktopVars, adapterVars, bridgeVars
<1>. QED  BY <1>1, <1>2, HistoryPassedOn DEF IInv

-----------------------------------------------------------------------------
(* The specification.                                                      *)

\* Every step keeps the invariant.
LEMMA StepHolds == IInv /\ [Next]_vars => IInv'
<1>. SUFFICES ASSUME IInv, [Next]_vars PROVE IInv'
  OBVIOUS
<1>1. CASE Desktop
  BY <1>1, DesktopHolds
<1>2. CASE Bridge
  BY <1>2, ReadHolds, GrabHolds, FrameHolds, SendHolds DEF Bridge
<1>3. CASE \E d \in Gaps : Elapse(d)
  BY <1>3, ElapseHolds
<1>4. CASE UNCHANGED vars
  BY <1>4, StutterHolds
<1>. QED  BY <1>1, <1>2, <1>3, <1>4 DEF Next

\* The inductive invariant of Manipulation.
THEOREM ManipulationInv == Spec => []IInv
<1>. QED  BY InitHolds, StepHolds, PTL DEF Spec

\* Both programs and the files between them keep their shape, and the panel's revision is at
\* most one more than the changes and the requests.
THEOREM ManipulationTypes == Spec => []TypeOK
<1>1. IInv => TypeOK
  BY DEF IInv
<1>. QED  BY <1>1, ManipulationInv, PTL

\* What a snapshot answers to the pending request is what happened to it
\* (adapter.py:44-49, PhoneXRAdapter.cpp:160-190).
THEOREM AnswersStayTrue == Spec => []AnswersAreTrue
<1>1. IInv => AnswersAreTrue
  BY DEF IInv, History, Answers, Tells, AnswersAreTrue, Answered
<1>. QED  BY <1>1, ManipulationInv, PTL

\* Only a command moves the panel by request.
LEMMA OnlyCommandsApply ==
  ASSUME IInv, [Next]_vars
  PROVE  applied' # applied => command.seen = pose
<1>1. CASE Desktop
  <2>1. ASSUME NEW readable \in BOOLEAN, NEW outcome \in Outcomes, NEW written \in BOOLEAN,
               TickCommand(readable, outcome, written)
        PROVE  applied' # applied => command.seen = pose
    BY <2>1, CommandHistory
  <2>. QED
    BY <1>1, <2>1 DEF Desktop, ForeignChange, DesktopRestart, TickIdle, adapterVars
<1>2. CASE Bridge
  BY <1>2 DEF Bridge, Read, NoFrame, Clear, Grab, LoseGrab, Wait, Rejected, Send,
              BridgeRestart, Elsewhere, adapterVars
<1>3. CASE \E d \in Gaps : Elapse(d)
  BY <1>3 DEF Elapse, adapterVars
<1>4. CASE UNCHANGED vars
  BY <1>4 DEF vars, adapterVars
<1>. QED  BY <1>1, <1>2, <1>3, <1>4 DEF Next

\* The adapter moves the panel only from the pose the bridge saw (PhoneXRAdapter.cpp:173-190).
THEOREM MovesFromSeenPose == Spec => AppliedFromSeenPose
<1>1. IInv /\ [Next]_vars => [applied' # applied => command.seen = pose]_vars
  BY OnlyCommandsApply
<1>. QED  BY <1>1, ManipulationInv, PTL DEF Spec, AppliedFromSeenPose
=============================================================================
