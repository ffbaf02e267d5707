----------------------------- MODULE BridgeProofs -----------------------------
(***************************************************************************)
(* The safety invariants of Bridge, for every value of the constants.      *)
(*                                                                         *)
(* They are not inductive: what holds after a pass depends on what each    *)
(* step of the pass established.  BInv says what is known at each step:    *)
(* once the snapshot is read, a missing one leaves neither a grab nor a    *)
(* contact that is not being lifted; once the contact is checked, it is on *)
(* a panel of the snapshot; and a contact that is not being lifted always  *)
(* has input enabled, which is what keeps disabling and shutdown safe.     *)
(* The last part shows that Bridge is a process as BridgeProcess has it.   *)
(***************************************************************************)
EXTENDS Bridge, ContactEngineProofs

AfterRead == pc \in {"clock", "drain", "check", "tick"}
Touching == active # None /\ ~releasing

PassFacts ==
  /\ Touching => enabled
  /\ AfterRead /\ snapshot = None => ~grab /\ ~Touching
  /\ pc = "tick" /\ Touching => OnPanel

BInv ==
  /\ BTypeOK /\ OneAtATime
  /\ cut => ~Running
  /\ GrabXorTouch /\ PassFacts
  /\ WatchedContact /\ WatchedGrab /\ ExitLifts

\* The loop's own state except pc.
LoopType ==
  /\ commands \in Seq({"e", "d", "q"})
  /\ snapshot \in Snapshots \cup {None}
  /\ handsAge \in 0..(StaleMs + 1)
  /\ grab \in BOOLEAN /\ cut \in BOOLEAN /\ overlooked \in BOOLEAN
  /\ attempts \in 0..ExitAttempts

\* While the loop runs, the engine's own invariant holds.
LEMMA RunningInv == ASSUME BInv, Running PROVE Inv /\ ~cut /\ LoopType
  BY DEF BInv, BTypeOK, ExitLifts, Inv, LoopType

\* What a running step owes: the engine's invariant, the types, and the pass facts.
LEMMA RunningSuffices ==
  ASSUME Inv', ~cut', LoopType', pc' \in {"control", "read", "clock", "drain", "check", "tick"},
         GrabXorTouch', PassFacts', WatchedContact', WatchedGrab'
  PROVE  BInv'
<1>1. Running'
  BY DEF Running
<1>2. BTypeOK'
  BY DEF Inv, LoopType, BTypeOK
<1>3. ExitLifts'
  <2>1. pc' # "done"
    OBVIOUS
  <2>. QED  BY <2>1 DEF ExitLifts, Inv
<1>. QED  BY <1>1, <1>2, <1>3 DEF BInv, Inv

\* A key dequeued leaves a queue of keys.
LEMMA TailType ==
  ASSUME commands \in Seq({"e", "d", "q"}), commands # <<>>
  PROVE  Tail(commands) \in Seq({"e", "d", "q"})
  OBVIOUS

\* Releasing leaves no contact, or one that is being lifted.
LEMMA ReleaseEndsTouching ==
  ASSUME NEW ok \in BOOLEAN, Release(<<>>, ok)
  PROVE  active' # None => releasing'
  BY ReleaseAlone

\* The initial state satisfies the invariant.
LEMMA BInitInv == ASSUME BInit PROVE BInv
<1>1. Inv
  BY InitInv DEF BInit
<1>2. handsAge \in 0..(StaleMs + 1) /\ attempts \in 0..ExitAttempts
  BY DEF BInit, StaleMs, ExitAttempts
<1>3. LoopType
  <2>1. commands = <<>> /\ snapshot = None
        /\ grab = FALSE /\ cut = FALSE /\ overlooked = FALSE
    BY DEF BInit
  <2>2. <<>> \in Seq({"e", "d", "q"})
    OBVIOUS
  <2>. QED  BY <1>2, <2>1, <2>2 DEF LoopType
<1>4. active = None /\ pc = "control" /\ grab = FALSE /\ cut = FALSE
  BY DEF BInit, Init
<1>5. BTypeOK /\ ExitLifts
  BY <1>1, <1>3, <1>4 DEF BTypeOK, Inv, LoopType, ExitLifts
<1>. QED  BY <1>1, <1>4, <1>5
          DEF BInv, Inv, Running, GrabXorTouch, PassFacts, AfterRead, Touching,
              WatchedContact, WatchedGrab

\* No key, nothing changes.
LEMMA NoCommandInv == ASSUME BInv, NoCommand PROVE BInv'
<1>1. Inv /\ ~cut /\ LoopType
  BY RunningInv DEF NoCommand, GoTo, Running
<1>2. /\ UNCHANGED <<active, hover, enabled, quiet, blocked, releasing, os>>
      /\ UNCHANGED <<commands, snapshot, handsAge, grab, attempts, cut, overlooked>>
      /\ pc' = "read"
  BY InjectNone DEF NoCommand, GoTo, engineVars
<1>3. Inv' /\ ~cut' /\ LoopType'
  BY <1>1, <1>2 DEF Inv, TypeOK, ContactMirrorsOS, OneAtATime, LoopType
<1>4. GrabXorTouch' /\ PassFacts' /\ WatchedContact' /\ WatchedGrab'
  BY <1>2 DEF BInv, GrabXorTouch, PassFacts, AfterRead, Touching, WatchedContact, WatchedGrab
<1>. QED  BY <1>2, <1>3, <1>4, RunningSuffices

\* Enabling and disabling both release whatever is held.
LEMMA ToggleInv == ASSUME BInv, NEW ok \in BOOLEAN, Toggle(ok) PROVE BInv'
<1>1. Inv /\ ~cut /\ LoopType
  BY RunningInv DEF Toggle, GoTo, Running
<1>2. /\ Release(<<>>, ok) /\ pc' = "read" /\ grab' = FALSE /\ handsAge' = StaleMs + 1
      /\ UNCHANGED <<quiet, blocked, snapshot, attempts, cut, overlooked>>
  BY DEF Toggle, GoTo
<1>3. enabled' \in BOOLEAN
  BY DEF Toggle
<1>4. commands' \in Seq({"e", "d", "q"})
  BY <1>1, TailType DEF Toggle, LoopType
<1>5. /\ hover' = None /\ releasing' \in BOOLEAN
      /\ active' \in Contact \cup {None} /\ os' \in XY \cup {None}
      /\ ContactMirrorsOS' /\ OneAtATime'
  BY <1>1, <1>2, ReleaseInv
<1>6. Inv'
  BY <1>1, <1>2, <1>3, <1>5 DEF Inv, TypeOK
<1>7. handsAge' \in 0..(StaleMs + 1)
  BY <1>2 DEF StaleMs
<1>8. ~cut' /\ LoopType'
  BY <1>1, <1>2, <1>4, <1>7 DEF LoopType
<1>9. ~Touching'
  BY <1>2, ReleaseEndsTouching DEF Touching
<1>10. GrabXorTouch' /\ PassFacts' /\ WatchedContact' /\ WatchedGrab'
  BY <1>2, <1>9 DEF GrabXorTouch, PassFacts, AfterRead, Touching, WatchedContact, WatchedGrab
<1>. QED  BY <1>2, <1>6, <1>8, <1>10, RunningSuffices

\* A snapshot read changes neither the contact nor the grab.
LEMMA ReadInv == ASSUME BInv, NEW snap \in Snapshots, ReadFresh(snap) PROVE BInv'
<1>1. Inv /\ ~cut /\ LoopType
  BY RunningInv DEF ReadFresh, GoTo, Running
<1>2. /\ UNCHANGED <<active, hover, enabled, quiet, blocked, releasing, os>>
      /\ UNCHANGED <<commands, handsAge, grab, attempts, cut, overlooked>>
      /\ pc' = "clock" /\ snapshot' = snap
  BY InjectNone DEF ReadFresh, GoTo, engineVars
<1>3. snapshot' # None
  BY <1>2, SnapshotsAssumption
<1>4. Inv' /\ ~cut' /\ LoopType'
  BY <1>1, <1>2 DEF Inv, TypeOK, ContactMirrorsOS, OneAtATime, LoopType
<1>5. GrabXorTouch' /\ PassFacts' /\ WatchedContact' /\ WatchedGrab'
  BY <1>2, <1>3 DEF BInv, GrabXorTouch, PassFacts, AfterRead, Touching, WatchedContact,
                    WatchedGrab
<1>. QED  BY <1>2, <1>4, <1>5, RunningSuffices

\* Without a snapshot nothing stays held.
LEMMA ReadNothingInv == ASSUME BInv, NEW ok \in BOOLEAN, ReadNothing(ok) PROVE BInv'
<1>1. Inv /\ ~cut /\ LoopType
  BY RunningInv DEF ReadNothing, GoTo, Running
<1>2. /\ ReleaseCall(ok) /\ pc' = "clock" /\ snapshot' = None /\ grab' = FALSE
      /\ UNCHANGED <<commands, handsAge, attempts, cut, overlooked>>
  BY DEF ReadNothing, GoTo
<1>3. Inv' /\ ~Touching'
  BY <1>1, <1>2, ReleaseCallInv, ReleaseEndsTouching DEF ReleaseCall, Touching
<1>4. ~cut' /\ LoopType'
  BY <1>1, <1>2 DEF LoopType
<1>5. GrabXorTouch' /\ PassFacts' /\ WatchedContact' /\ WatchedGrab'
  BY <1>2, <1>3 DEF GrabXorTouch, PassFacts, AfterRead, Touching, WatchedContact, WatchedGrab
<1>. QED  BY <1>2, <1>3, <1>4, <1>5, RunningSuffices

\* Sampling the clock ages the instants and nothing else.
LEMMA ClockInv == ASSUME BInv, NEW d \in Gaps, Clock(d) PROVE BInv'
<1>1. Inv /\ ~cut /\ LoopType
  BY RunningInv DEF Clock, GoTo, Running
<1>2. /\ Elapse(d) /\ pc = "clock" /\ pc' = "drain"
      /\ handsAge' = Least(handsAge + d, StaleMs + 1)
      /\ UNCHANGED <<commands, snapshot, grab, attempts, cut, overlooked>>
  BY DEF Clock, GoTo
<1>3. Inv'
  BY <1>1, <1>2, ElapseInv
<1>4. handsAge' \in 0..(StaleMs + 1)
  <2>1. handsAge \in 0..151 /\ d \in Nat
    BY <1>1, NumbersAssumption DEF LoopType, StaleMs
  <2>. QED  BY <1>2, <2>1 DEF Least, StaleMs
<1>5. ~cut' /\ LoopType'
  BY <1>1, <1>2, <1>4 DEF LoopType
<1>6. /\ UNCHANGED <<active, releasing, enabled>>
      /\ hover = None => hover' = None
  BY <1>2 DEF Elapse, Age
<1>7. GrabXorTouch' /\ PassFacts' /\ WatchedContact' /\ WatchedGrab'
  BY <1>2, <1>6 DEF BInv, GrabXorTouch, PassFacts, AfterRead, Touching, WatchedContact,
                    WatchedGrab, OnPanel
<1>. QED  BY <1>2, <1>3, <1>5, <1>7, RunningSuffices

\* A pass without an accepted frame changes nothing here.
LEMMA DrainNothingInv == ASSUME BInv, DrainNothing PROVE BInv'
<1>1. Inv /\ ~cut /\ LoopType
  BY RunningInv DEF DrainNothing, GoTo, Running
<1>2. /\ UNCHANGED <<active, hover, enabled, quiet, blocked, releasing, os>>
      /\ UNCHANGED <<commands, snapshot, handsAge, grab, attempts, cut>>
      /\ pc = "drain" /\ pc' = "check" /\ overlooked' = FALSE
  BY InjectNone DEF DrainNothing, GoTo, engineVars
<1>3. Inv' /\ ~cut' /\ LoopType'
  BY <1>1, <1>2 DEF Inv, TypeOK, ContactMirrorsOS, OneAtATime, LoopType
<1>4. GrabXorTouch' /\ PassFacts' /\ WatchedContact' /\ WatchedGrab'
  BY <1>2 DEF BInv, GrabXorTouch, PassFacts, AfterRead, Touching, WatchedContact, WatchedGrab
<1>. QED  BY <1>2, <1>3, <1>4, RunningSuffices

\* A frame goes to the manipulator, to the contact engine, or only to the watchdogs:
\* never to the engine while there is a grab.
LEMMA DrainInv ==
  ASSUME BInv, NEW batch \in Batches, NEW ok \in BOOLEAN, Drain(batch, ok)
  PROVE  BInv'
<1>1. Inv /\ ~cut /\ LoopType
  BY RunningInv DEF Drain, GoTo, Running
<1>2. /\ pc = "drain" /\ pc' = "check" /\ 0 \in 0..(StaleMs + 1)
      /\ handsAge' = 0 /\ overlooked' \in BOOLEAN
      /\ UNCHANGED <<commands, snapshot, attempts, cut>>
  <2>1. 0 \in 0..(StaleMs + 1)
    BY DEF StaleMs
  <2>2. overlooked' \in BOOLEAN
    BY DEF Drain
  <2>. QED  BY <2>1, <2>2 DEF Drain, GoTo
<1>3. CASE NoteFrame
  <2>1. /\ UNCHANGED <<active, hover, enabled, blocked, releasing, os, grab>>
        /\ quiet' = 0
    BY <1>3, InjectNone DEF NoteFrame
  <2>2. Inv'
    BY <1>1, <1>2, <2>1 DEF Inv, TypeOK, ContactMirrorsOS, OneAtATime
  <2>3. ~cut' /\ LoopType'
    BY <1>1, <1>2, <2>1 DEF LoopType
  <2>4. GrabXorTouch' /\ PassFacts' /\ WatchedContact' /\ WatchedGrab'
    BY <1>2, <2>1 DEF BInv, GrabXorTouch, PassFacts, AfterRead, Touching, WatchedContact,
                      WatchedGrab
  <2>. QED  BY <1>2, <2>2, <2>3, <2>4, RunningSuffices
<1>4. CASE snapshot # None /\ enabled /\ Manipulate
  <2>1. /\ active = None /\ hover' = None /\ grab' \in BOOLEAN /\ quiet' = 0
        /\ UNCHANGED <<active, enabled, blocked, releasing, os>>
    BY <1>4, <1>1, InjectNone DEF Manipulate, LoopType
  <2>2. Inv'
    BY <1>1, <1>2, <2>1 DEF Inv, TypeOK, ContactMirrorsOS, OneAtATime
  <2>3. ~cut' /\ LoopType'
    BY <1>1, <1>2, <2>1 DEF LoopType
  <2>4. GrabXorTouch' /\ PassFacts' /\ WatchedContact' /\ WatchedGrab'
    BY <1>2, <1>4, <2>1 DEF GrabXorTouch, PassFacts, AfterRead, Touching, WatchedContact,
                            WatchedGrab
  <2>. QED  BY <1>2, <2>2, <2>3, <2>4, RunningSuffices
<1>5. CASE /\ snapshot # None /\ enabled /\ batch # <<>>
           /\ Touch(batch[Len(batch)], ok)
  <2>1. batch[Len(batch)] \in Views
    BY <1>5, BatchesAssumption
  <2>2. snapshot.live \in LivePanels /\ snapshot.session \in Sessions
    BY <1>1, <1>5, SnapshotsAssumption DEF LoopType
  <2>3. /\ Frame(batch[Len(batch)], snapshot.live, snapshot.session, ok)
        /\ UNCHANGED grab /\ (active = None => ~grab)
    BY <1>5 DEF Touch
  <2>4. Inv'
    BY <1>1, <2>1, <2>2, <2>3, FrameInv
  <2>5. ~cut' /\ LoopType'
    BY <1>1, <1>2, <2>3 DEF LoopType
  <2>6. ~grab /\ ~grab' /\ enabled'
    BY <1>5, <2>3 DEF BInv, GrabXorTouch, Frame
  <2>7. GrabXorTouch' /\ PassFacts' /\ WatchedContact' /\ WatchedGrab'
    BY <1>2, <1>5, <2>6 DEF GrabXorTouch, PassFacts, AfterRead, Touching, WatchedContact,
                            WatchedGrab
  <2>. QED  BY <1>2, <2>4, <2>5, <2>7, RunningSuffices
<1>6. \/ NoteFrame
      \/ snapshot # None /\ enabled /\ Manipulate
      \/ snapshot # None /\ enabled /\ batch # <<>> /\ Touch(batch[Len(batch)], ok)
  BY DEF Drain
<1>. QED  BY <1>3, <1>4, <1>5, <1>6

\* The check leaves no contact off the snapshot's panels, unless it is being lifted.
LEMMA CheckInv ==
  ASSUME BInv, NEW valid \in BOOLEAN, NEW ok \in BOOLEAN, Check(valid, ok)
  PROVE  BInv'
<1>1. Inv /\ ~cut /\ LoopType
  BY RunningInv DEF Check, GoTo, Running
<1>2. /\ pc = "check" /\ pc' = "tick"
      /\ UNCHANGED <<commands, snapshot, handsAge, grab, attempts, cut, overlooked>>
  BY DEF Check, GoTo
<1>3. ~cut' /\ LoopType'
  BY <1>1, <1>2 DEF LoopType
<1>4. CASE ReleaseCall(ok)
  <2>1. Inv' /\ ~Touching' /\ UNCHANGED enabled /\ hover' = None
    BY <1>1, <1>4, ReleaseCallInv, ReleaseEndsTouching, ReleaseAlone
       DEF ReleaseCall, Touching
  <2>2. active = None => active' = None
    BY <1>4, ReleaseAlone DEF ReleaseCall
  <2>3. GrabXorTouch' /\ PassFacts' /\ WatchedContact' /\ WatchedGrab'
    BY <1>2, <2>1, <2>2 DEF BInv, GrabXorTouch, PassFacts, AfterRead, Touching,
                            WatchedContact, WatchedGrab
  <2>. QED  BY <1>2, <1>3, <2>1, <2>3, RunningSuffices
<1>5. CASE /\ ~(snapshot # None /\ active # None /\ ~(OnPanel /\ valid))
           /\ Inject(<<>>) /\ UNCHANGED engineVars
  <2>1. UNCHANGED <<active, hover, enabled, quiet, blocked, releasing, os>>
    BY <1>5, InjectNone DEF engineVars
  <2>2. Inv'
    BY <1>1, <2>1 DEF Inv, TypeOK, ContactMirrorsOS, OneAtATime
  <2>3. Touching => OnPanel
    BY <1>2, <1>5 DEF BInv, PassFacts, AfterRead, Touching
  <2>4. GrabXorTouch' /\ PassFacts' /\ WatchedContact' /\ WatchedGrab'
    BY <1>2, <2>1, <2>3 DEF BInv, GrabXorTouch, PassFacts, AfterRead, Touching, OnPanel,
                            WatchedContact, WatchedGrab
  <2>. QED  BY <1>2, <1>3, <2>2, <2>4, RunningSuffices
<1>. QED  BY <1>4, <1>5 DEF Check

\* The end of a pass: what is stale is released, and the watched facts hold.
LEMMA TickStepInv == ASSUME BInv, NEW ok \in BOOLEAN, TickStep(ok) PROVE BInv'
<1>1. Inv /\ ~cut /\ LoopType
  BY RunningInv DEF TickStep, GoTo, Running
<1>2. /\ pc = "tick" /\ pc' = "control" /\ Tick(ok)
      /\ grab' = (grab /\ enabled /\ handsAge <= StaleMs)
      /\ UNCHANGED <<commands, snapshot, handsAge, attempts, cut, overlooked>>
  BY DEF TickStep, GoTo
<1>3. grab' \in BOOLEAN /\ (grab' => grab /\ enabled /\ handsAge <= StaleMs)
  BY <1>2
<1>4. Inv' /\ ~cut' /\ LoopType'
  BY <1>1, <1>2, <1>3, TickInv DEF LoopType
<1>5. CASE TickReleases /\ ReleaseCall(ok)
  <2>1. ~Touching' /\ UNCHANGED enabled /\ hover' = None /\ (active = None => active' = None)
    BY <1>5, ReleaseEndsTouching, ReleaseAlone DEF ReleaseCall, Touching
  <2>2. GrabXorTouch' /\ PassFacts' /\ WatchedContact' /\ WatchedGrab'
    BY <1>2, <1>3, <2>1 DEF BInv, GrabXorTouch, PassFacts, AfterRead, Touching,
                            WatchedContact, WatchedGrab
  <2>. QED  BY <1>2, <1>4, <2>2, RunningSuffices
<1>6. CASE ~TickReleases /\ Inject(<<>>) /\ UNCHANGED engineVars
  <2>1. UNCHANGED <<active, hover, enabled, quiet, releasing>>
    BY <1>6 DEF engineVars
  <2>2. quiet <= StaleMs
    BY <1>1, <1>6 DEF TickReleases, Inv, TypeOK, StaleMs
  <2>3. GrabXorTouch' /\ PassFacts' /\ WatchedContact' /\ WatchedGrab'
    BY <1>2, <1>3, <2>1, <2>2 DEF BInv, GrabXorTouch, PassFacts, AfterRead, Touching,
                                  OnPanel, WatchedContact, WatchedGrab
  <2>. QED  BY <1>2, <1>4, <2>3, RunningSuffices
<1>. QED  BY <1>2, <1>5, <1>6 DEF Tick

\* Leaving the loop changes neither the contact nor what is known of it.
LEMMA LeaveInv ==
  ASSUME BInv, Quit \/ Abort \/ CutExit \/ \E obs \in Views : CutPress(obs)
  PROVE  BInv'
<1>1. UNCHANGED <<active, hover, enabled, blocked, releasing, grab, attempts, snapshot>>
      /\ pc' \in {"exit", "done"} /\ overlooked' = overlooked
  BY DEF Quit, Abort, CutExit, CutPress, GoTo, engineVars
<1>2. quiet' \in {0, quiet} /\ handsAge' \in {0, handsAge}
  BY DEF Quit, Abort, CutExit, CutPress, engineVars
<1>3. commands' \in Seq({"e", "d", "q"})
  BY TailType DEF Quit, Abort, CutExit, CutPress, BInv, BTypeOK
<1>4. os' \in XY \cup {None}
  <2>1. CASE Quit \/ Abort \/ CutExit
    BY <2>1, InjectNone DEF Quit, Abort, CutExit, BInv, BTypeOK, TypeOK
  <2>2. CASE \E obs \in Views : CutPress(obs)
    <3>1. PICK obs \in Views : CutPress(obs)
      BY <2>2
    <3>2. PICK o \in Nearest(Candidates(obs, snapshot.live)) :
            Inject(<<Call("down", o.xy, TRUE)>>)
      BY <3>1 DEF CutPress
    <3>3. o \in Observation
      BY <3>2, ViewsAssumption DEF Nearest, Candidates
    <3>4. os' = o.xy
      BY <3>2, InjectOne
    <3>. QED  BY <3>3, <3>4 DEF Observation
  <2>. QED  BY <2>1, <2>2
<1>5. TypeOK'
  <2>1. 0 \in 0..(StaleMs + 1)
    BY DEF StaleMs
  <2>. QED  BY <1>1, <1>2, <1>4, <2>1 DEF BInv, BTypeOK, TypeOK
<1>6. BTypeOK'
  <2>1. 0 \in 0..(StaleMs + 1)
    BY DEF StaleMs
  <2>2. cut' \in BOOLEAN
    BY DEF Quit, Abort, CutExit, CutPress, BInv, BTypeOK
  <2>. QED  BY <1>1, <1>2, <1>3, <1>5, <2>1, <2>2 DEF BInv, BTypeOK
<1>7. ~Running'
  BY <1>1 DEF Running
<1>8. ExitLifts'
  <2>1. CASE Quit \/ Abort
    <3>1. os' = os /\ cut' = cut /\ pc' = "exit"
      BY <2>1, InjectNone DEF Quit, Abort, GoTo
    <3>. QED  BY <1>1, <3>1 DEF BInv, ExitLifts, ContactMirrorsOS
  <2>2. CASE CutExit \/ \E obs \in Views : CutPress(obs)
    BY <2>2 DEF CutExit, CutPress, ExitLifts
  <2>. QED  BY <2>1, <2>2
<1>. QED  BY <1>1, <1>6, <1>7, <1>8
          DEF BInv, OneAtATime, GrabXorTouch, PassFacts, AfterRead, Touching,
              WatchedContact, WatchedGrab

\* A shutdown attempt lifts the contact or counts; ending early means it was lifted.
LEMMA ExitAttemptInv == ASSUME BInv, NEW ok \in BOOLEAN, ExitAttempt(ok) PROVE BInv'
<1>1. /\ pc = "exit" /\ enabled' = FALSE /\ Release(<<>>, ok)
      /\ UNCHANGED <<quiet, blocked, commands, snapshot, handsAge, grab, cut, overlooked>>
      /\ pc' = IF active' = None \/ attempts' = ExitAttempts THEN "done" ELSE "exit"
  BY DEF ExitAttempt
<1>2. attempts' \in 0..ExitAttempts
  BY DEF ExitAttempt, BInv, BTypeOK, ExitAttempts
<1>3. /\ hover' = None
      /\ active = None => os' = os /\ active' = None /\ releasing' = FALSE
      /\ active # None => /\ os' = (IF ok THEN None ELSE os)
                          /\ active' = (IF ok THEN None ELSE active)
                          /\ releasing' = ~ok
  BY <1>1, ReleaseAlone
<1>4. TypeOK' /\ OneAtATime'
  BY <1>1, <1>3 DEF BInv, BTypeOK, TypeOK, OneAtATime
<1>5. pc' \in {"exit", "done"} /\ ~Running'
  BY <1>1 DEF Running
<1>6. BTypeOK'
  BY <1>1, <1>2, <1>4, <1>5 DEF BInv, BTypeOK
<1>7. ~cut => ContactMirrorsOS'
  BY <1>3 DEF BInv, ExitLifts, ContactMirrorsOS
<1>8. ExitLifts'
  BY <1>1, <1>7 DEF ExitLifts, ContactMirrorsOS
<1>9. GrabXorTouch'
  BY <1>1, <1>3 DEF BInv, GrabXorTouch
<1>10. ~Touching'
  BY <1>3 DEF Touching
<1>. QED  BY <1>4, <1>5, <1>6, <1>8, <1>9, <1>10
          DEF BInv, PassFacts, AfterRead, Running, WatchedContact, WatchedGrab

\* Queueing a key changes nothing the loop has looked at.
LEMMA PutCommandInv ==
  ASSUME BInv, NEW key \in {"e", "d", "q"}, PutCommand(key) PROVE BInv'
<1>1. /\ UNCHANGED <<active, hover, enabled, quiet, blocked, releasing, os>>
      /\ UNCHANGED <<pc, snapshot, handsAge, grab, attempts, cut, overlooked>>
      /\ commands' = Append(commands, key)
  BY InjectNone DEF PutCommand, engineVars
<1>2. commands' \in Seq({"e", "d", "q"})
  BY <1>1 DEF BInv, BTypeOK
<1>3. BTypeOK'
  BY <1>1, <1>2 DEF BInv, BTypeOK, TypeOK
<1>. QED  BY <1>1, <1>3
          DEF BInv, OneAtATime, Running, GrabXorTouch, PassFacts, AfterRead, Touching, OnPanel,
              WatchedContact, WatchedGrab, ExitLifts, ContactMirrorsOS

\* Every step preserves the invariant.
LEMMA BNextInv == ASSUME BInv, [BNext \/ Ended]_bridgeVars PROVE BInv'
<1>1. CASE UNCHANGED bridgeVars
  <2>1. /\ UNCHANGED <<active, hover, enabled, quiet, blocked, releasing, os>>
        /\ UNCHANGED <<pc, commands, snapshot, handsAge, grab, attempts, cut, overlooked>>
    BY <1>1 DEF bridgeVars, loopVars, vars, engineVars
  <2>2. BTypeOK'
    BY <2>1 DEF BInv, BTypeOK, TypeOK
  <2>. QED  BY <2>1, <2>2
            DEF BInv, OneAtATime, Running, GrabXorTouch, PassFacts, AfterRead, Touching,
                OnPanel, WatchedContact, WatchedGrab, ExitLifts, ContactMirrorsOS
<1>2. CASE NoCommand \/ Quit \/ \E ok \in BOOLEAN : Toggle(ok)
  BY <1>2, NoCommandInv, ToggleInv, LeaveInv
<1>3. CASE (\E ok \in BOOLEAN : ReadNothing(ok)) \/ (\E snap \in Snapshots : ReadFresh(snap))
  <2>1. CASE \E snap \in Snapshots : ReadFresh(snap)
    BY <2>1, ReadInv
  <2>2. CASE \E ok \in BOOLEAN : ReadNothing(ok)
    BY <2>2, ReadNothingInv
  <2>. QED  BY <1>3, <2>1, <2>2
<1>4. CASE \E d \in Gaps : Clock(d)
  BY <1>4, ClockInv
<1>5. CASE DrainNothing
  BY <1>5, DrainNothingInv
<1>6. CASE \E batch \in Batches, ok \in BOOLEAN : Drain(batch, ok)
  BY <1>6, DrainInv
<1>7. CASE \E valid, ok \in BOOLEAN : Check(valid, ok)
  BY <1>7, CheckInv
<1>8. CASE \E ok \in BOOLEAN : TickStep(ok) \/ ExitAttempt(ok)
  BY <1>8, TickStepInv, ExitAttemptInv
<1>9. CASE Interrupts
  BY <1>9, LeaveInv DEF Interrupts
<1>10. CASE \E key \in {"e", "d", "q"} : PutCommand(key)
  BY <1>10, PutCommandInv
<1>11. CASE Ended
  BY <1>1, <1>11 DEF Ended
<1>. QED  BY <1>1, <1>2, <1>3, <1>4, <1>5, <1>6, <1>7, <1>8, <1>9, <1>10, <1>11
          DEF BNext, Loop, Shutdown

-----------------------------------------------------------------------------
\* In every reachable state of the bridge the invariant holds.
THEOREM BridgeInv == BSpec => []BInv
<1>1. BInit => BInv
  BY BInitInv
<1>2. BInv /\ [BNext \/ Ended]_bridgeVars => BInv'
  BY BNextInv
<1>. QED  BY <1>1, <1>2, PTL DEF BSpec

\* The types, as the run checks them.
THEOREM BridgeTypes == BSpec => []BTypeOK
<1>1. BInv => BTypeOK
  BY DEF BInv
<1>. QED  BY <1>1, BridgeInv, PTL

\* A panel grab and a touch never exist together.
THEOREM GrabExcludesTouch == BSpec => []GrabXorTouch
<1>1. BInv => GrabXorTouch
  BY DEF BInv
<1>. QED  BY <1>1, BridgeInv, PTL

\* After a pass a contact that is not being lifted is fresh, enabled and on its panel.
THEOREM ContactIsWatched == BSpec => []WatchedContact
<1>1. BInv => WatchedContact
  BY DEF BInv
<1>. QED  BY <1>1, BridgeInv, PTL

\* After a pass a grab has fresh hands, enabled input and a snapshot.
THEOREM GrabIsWatched == BSpec => []WatchedGrab
<1>1. BInv => WatchedGrab
  BY DEF BInv
<1>. QED  BY <1>1, BridgeInv, PTL

\* Without Ctrl-C in the wrong place, only ten refused UPs leave a contact behind.
THEOREM ShutdownLiftsUnlessCut == BSpec => []ExitLifts
<1>1. BInv => ExitLifts
  BY DEF BInv
<1>. QED  BY <1>1, BridgeInv, PTL

-----------------------------------------------------------------------------
(* The loop is the process the companion relies on.                        *)

\* What BridgeProcess sees of the bridge.
Input == enabled /\ Running
Holding == os # None
Life == IF Running THEN "running" ELSE IF pc = "exit" THEN "ending" ELSE "dead"

SameInput == Input' <=> Input
SameHolding == Holding' <=> Holding

\* The steps of BridgeProcess in these terms.
LEMMA StutterRefines ==
  ASSUME SameInput, SameHolding, Life' = Life, commands' = commands
  PROVE  UNCHANGED Process!processVars
  BY DEF SameInput, SameHolding, Input, Holding, Life, Process!processVars

\* A key arrives.
LEMMA KeyRefines ==
  ASSUME NEW key \in {"e", "d", "q"}, Len(commands) < MaxCommands,
         commands' = Append(commands, key), SameInput, SameHolding, Life' = Life
  PROVE  Process!PNext
<1>1. Process!Key(key)
  BY DEF SameInput, SameHolding, Input, Holding, Life, Process!Key
<1>. QED  BY <1>1 DEF Process!PNext

\* A key is obeyed; a contact is lifted at most.
LEMMA ObeyRefines ==
  ASSUME Life = "running", Life' = Life,
         commands # <<>>, Head(commands) \in {"e", "d"}, commands' = Tail(commands),
         Input' <=> Head(commands) = "e", Holding' => Holding
  PROVE  Process!PNext
<1>1. Process!Obey
  BY DEF Input, Holding, Life, Process!Obey
<1>. QED  BY <1>1 DEF Process!PNext

\* The loop is left, on a key or not.
LEMMA LeaveRefines ==
  ASSUME Life = "running", Life' = "ending",
         \/ commands' = commands
         \/ commands # <<>> /\ Head(commands) = "q" /\ commands' = Tail(commands),
         ~Input', SameHolding \/ (Input /\ Holding')
  PROVE  Process!PNext
<1>1. Process!Leave
  BY DEF SameHolding, Input, Holding, Life, Process!Leave
<1>. QED  BY <1>1 DEF Process!PNext

\* The contact comes or goes.
LEMMA HoldingRefines ==
  ASSUME Life # "dead", Life' = Life, commands' = commands, SameInput,
         Holding' => Holding \/ (Life = "running" /\ Input)
  PROVE  [Process!PNext]_(Process!processVars)
<1>1. CASE SameHolding
  BY <1>1, StutterRefines
<1>2. CASE Holding /\ ~Holding'
  <2>1. Process!Lift
    BY <1>2 DEF SameInput, Input, Holding, Life, Process!Lift
  <2>. QED  BY <2>1 DEF Process!PNext
<1>3. CASE ~Holding /\ Holding'
  <2>1. Process!Touch
    BY <1>3 DEF SameInput, Input, Holding, Life, Process!Touch
  <2>. QED  BY <2>1 DEF Process!PNext
<1>. QED  BY <1>1, <1>2, <1>3 DEF SameHolding, Holding

\* The process ends.
LEMMA EndRefines ==
  ASSUME Life = "ending", Life' = "dead", commands' = commands, SameInput, Holding' => Holding
  PROVE  Process!PNext
<1>1. Process!EndProcess
  BY DEF SameInput, Input, Holding, Life, Process!EndProcess
<1>. QED  BY <1>1 DEF Process!PNext

\* Releasing never makes a contact.
LEMMA ReleaseNeverHolds ==
  ASSUME NEW ok \in BOOLEAN, Release(<<>>, ok) PROVE Holding' => Holding
  BY ReleaseAlone DEF Holding

\* A step inside a pass: at most the contact changes, and one begins only from a frame, which
\* the engine is only given while input is enabled.
LEMMA PassRefines ==
  ASSUME BInv,
         \/ NoCommand \/ DrainNothing
         \/ \E ok \in BOOLEAN : ReadNothing(ok) \/ TickStep(ok)
         \/ \E snap \in Snapshots : ReadFresh(snap)
         \/ \E d \in Gaps : Clock(d)
         \/ \E batch \in Batches, ok \in BOOLEAN : Drain(batch, ok)
         \/ \E valid, ok \in BOOLEAN : Check(valid, ok)
  PROVE  [Process!PNext]_(Process!processVars)
<1>1. /\ Running /\ Running'
      /\ enabled' = enabled /\ commands' = commands
  <2>1. CASE NoCommand \/ DrainNothing \/ \E snap \in Snapshots : ReadFresh(snap)
    BY <2>1 DEF NoCommand, DrainNothing, ReadFresh, GoTo, Running, engineVars
  <2>2. CASE \E ok \in BOOLEAN : ReadNothing(ok) \/ TickStep(ok)
    BY <2>2 DEF ReadNothing, TickStep, Tick, ReleaseCall, GoTo, Running, engineVars
  <2>3. CASE \E d \in Gaps : Clock(d)
    BY <2>3 DEF Clock, Elapse, GoTo, Running
  <2>4. CASE \E batch \in Batches, ok \in BOOLEAN : Drain(batch, ok)
    BY <2>4 DEF Drain, Manipulate, Touch, Frame, NoteFrame, GoTo, Running
  <2>5. CASE \E valid, ok \in BOOLEAN : Check(valid, ok)
    BY <2>5 DEF Check, ReleaseCall, GoTo, Running, engineVars
  <2>. QED  BY <2>1, <2>2, <2>3, <2>4, <2>5
<1>2. Holding' => Holding \/ enabled
  <2>1. CASE NoCommand \/ DrainNothing \/ \E snap \in Snapshots : ReadFresh(snap)
    BY <2>1, InjectNone DEF NoCommand, DrainNothing, ReadFresh, Holding
  <2>2. CASE \E ok \in BOOLEAN : ReadNothing(ok) \/ TickStep(ok)
    BY <2>2, InjectNone, ReleaseNeverHolds DEF ReadNothing, TickStep, Tick, ReleaseCall, Holding
  <2>3. CASE \E d \in Gaps : Clock(d)
    BY <2>3, InjectNone DEF Clock, Elapse, Holding
  <2>4. CASE \E batch \in Batches, ok \in BOOLEAN : Drain(batch, ok)
    BY <2>4, InjectNone DEF Drain, NoteFrame, Holding
  <2>5. CASE \E valid, ok \in BOOLEAN : Check(valid, ok)
    BY <2>5, InjectNone, ReleaseNeverHolds DEF Check, ReleaseCall, Holding
  <2>. QED  BY <2>1, <2>2, <2>3, <2>4, <2>5
<1>. QED  BY <1>1, <1>2, HoldingRefines DEF Life, SameInput, Input

\* Leaving the loop, a Ctrl-C in the middle of a DOWN included.
LEMMA LeaveStepRefines ==
  ASSUME BInv, Quit \/ Abort \/ \E obs \in Views : CutPress(obs)
  PROVE  Process!PNext
<1>1. Life = "running" /\ Life' = "ending" /\ ~Input'
  BY DEF Quit, Abort, CutPress, GoTo, Running, Life, Input
<1>2. \/ commands' = commands
      \/ commands # <<>> /\ Head(commands) = "q" /\ commands' = Tail(commands)
  BY DEF Quit, Abort, CutPress
<1>3. SameHolding \/ (Input /\ Holding')
  <2>1. CASE Quit \/ Abort
    BY <2>1, InjectNone DEF Quit, Abort, SameHolding, Holding
  <2>2. CASE \E obs \in Views : CutPress(obs)
    <3>1. PICK obs \in Views : CutPress(obs)
      BY <2>2
    <3>2. PICK o \in Nearest(Candidates(obs, snapshot.live)) :
            Inject(<<Call("down", o.xy, TRUE)>>)
      BY <3>1 DEF CutPress
    <3>3. o.xy \in XY
      BY <3>2, ViewsAssumption DEF Nearest, Candidates, Observation
    <3>4. os' = o.xy
      BY <3>2, InjectOne
    <3>. QED  BY <3>1, <3>3, <3>4, NoneAssumption
              DEF CutPress, Idle, GoTo, Running, Input, Holding
  <2>. QED  BY <2>1, <2>2
<1>. QED  BY <1>1, <1>2, <1>3, LeaveRefines

\* A shutdown attempt lifts the contact or leaves it; the last one ends the process.
LEMMA ExitRefines ==
  ASSUME BInv, CutExit \/ \E ok \in BOOLEAN : ExitAttempt(ok)
  PROVE  [Process!PNext]_(Process!processVars)
<1>1. Life = "ending" /\ ~Input /\ ~Input' /\ commands' = commands /\ Life' \in {"ending", "dead"}
  BY DEF CutExit, ExitAttempt, GoTo, Running, Life, Input
<1>2. Holding' => Holding
  <2>1. CASE CutExit
    BY <2>1, InjectNone DEF CutExit, Holding
  <2>2. CASE \E ok \in BOOLEAN : ExitAttempt(ok)
    BY <2>2, ReleaseNeverHolds DEF ExitAttempt
  <2>. QED  BY <2>1, <2>2
<1>3. CASE Life' = "ending"
  BY <1>1, <1>2, <1>3, HoldingRefines DEF SameInput
<1>4. CASE Life' = "dead"
  BY <1>1, <1>2, <1>4, EndRefines DEF SameInput
<1>. QED  BY <1>1, <1>3, <1>4

\* Every step of the bridge is one of the process, or leaves it alone.
LEMMA BNextRefines ==
  ASSUME BInv, [BNext \/ Ended]_bridgeVars PROVE [Process!PNext]_(Process!processVars)
<1>1. CASE UNCHANGED bridgeVars
  <2>1. UNCHANGED <<pc, commands, enabled, os>>
    BY <1>1 DEF bridgeVars, loopVars, vars, engineVars
  <2>. QED  BY <2>1, StutterRefines DEF SameInput, SameHolding, Input, Holding, Life, Running
<1>2. CASE \E key \in {"e", "d", "q"} : PutCommand(key)
  <2>1. PICK key \in {"e", "d", "q"} : PutCommand(key)
    BY <1>2
  <2>2. UNCHANGED <<pc, enabled, os>>
    BY <2>1, InjectNone DEF PutCommand, engineVars
  <2>. QED  BY <2>1, <2>2, KeyRefines
            DEF PutCommand, SameInput, SameHolding, Input, Holding, Life, Running
<1>3. CASE \E ok \in BOOLEAN : Toggle(ok)
  <2>1. PICK ok \in BOOLEAN : Toggle(ok)
    BY <1>3
  <2>2. Running /\ Running' /\ (Input' <=> Head(commands) = "e")
    BY <2>1 DEF Toggle, GoTo, Running, Input
  <2>3. Holding' => Holding
    BY <2>1, ReleaseNeverHolds DEF Toggle
  <2>. QED  BY <2>1, <2>2, <2>3, ObeyRefines DEF Toggle, Life
<1>4. CASE Interrupts \/ Quit \/ Shutdown
  BY <1>4, LeaveStepRefines, ExitRefines DEF Interrupts, Shutdown
<1>5. CASE Loop /\ ~Quit /\ ~(\E ok \in BOOLEAN : Toggle(ok))
  BY <1>5, PassRefines DEF Loop
<1>6. CASE Ended
  BY <1>1, <1>6 DEF Ended
<1>. QED  BY <1>1, <1>2, <1>3, <1>4, <1>5, <1>6 DEF BNext, Loop

\* The bridge is the process the companion is built upon: a contact begins only while input
\* is enabled and the loop runs, input changes only by a key and in the keys' order, and
\* nothing but shutting down ends the process (__main__.py:42-50, 82-134).
THEOREM BridgeIsProcess == BSpec => Process!PSpec
<1>1. BInit => Process!PInit
  BY DEF BInit, Init, Running, Process!PInit
<1>2. BInv /\ [BNext \/ Ended]_bridgeVars => [Process!PNext]_(Process!processVars)
  BY BNextRefines
<1>. QED  BY <1>1, <1>2, BridgeInv, PTL DEF BSpec, Process!PSpec
=============================================================================
