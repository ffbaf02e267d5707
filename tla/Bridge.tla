-------------------------------- MODULE Bridge --------------------------------
(***************************************************************************)
(* windows-bridge/phonexr_bridge/__main__.py: one thread that runs the     *)
(* input loop around ContactEngine and the Manipulator, a GUI thread that  *)
(* queues commands, Ctrl-C, and a shutdown that tries to lift the contact. *)
(*                                                                         *)
(* One pass of the loop is five steps: "control", "read", "drain",         *)
(* "check", "tick".  Time is sampled once a pass, before "drain" acts.     *)
(* The manipulator appears here only as "a grab exists"; what a grab does  *)
(* to the panel is module Manipulation.                                    *)
(***************************************************************************)
EXTENDS ContactEngine

CONSTANTS Snapshots,   \* contents of panels.json: [session, live]
          Batches,     \* sequences of frames one drain accepts
          MaxCommands  \* bound on the GUI thread's queue

ASSUME SnapshotsAssumption ==
  /\ Snapshots \subseteq [session : Sessions, live : LivePanels]
  /\ None \notin [session : Sessions, live : LivePanels]
ASSUME BatchesAssumption == Batches \subseteq Seq(Views)
ASSUME MaxCommandsAssumption == MaxCommands \in Nat

ExitAttempts == 10 \* for _ in range(10)

VARIABLES pc,
          commands,  \* queue.SimpleQueue: keys the loop has not taken
          snapshot,  \* the panels of this pass, or None
          handsAge,  \* now - last_hands, StaleMs + 1 for None or more
          grab,      \* manipulator.grab is not None
          attempts,  \* release attempts of the shutdown
          cut,       \* history: Ctrl-C came inside a call or inside the shutdown
          overlooked \* history: this pass dropped an accepted frame that lost the contact

loopVars == <<pc, commands, snapshot, handsAge, grab, attempts, cut, overlooked>>
bridgeVars == <<vars, loopVars>>

BInit ==
  /\ Init
  /\ pc = "control" /\ commands = <<>> /\ snapshot = None
  /\ handsAge = StaleMs + 1 /\ grab = FALSE
  /\ attempts = 0 /\ cut = FALSE /\ overlooked = FALSE

GoTo(from, to) == pc = from /\ pc' = to

-----------------------------------------------------------------------------
(* The GUI thread.  The end of its pipe queues "q" like the key itself.    *)
PutCommand(key) ==
  /\ Len(commands) < MaxCommands
  /\ commands' = Append(commands, key)
  /\ Inject(<<>>)
  /\ UNCHANGED <<engineVars, pc, snapshot, handsAge, grab, attempts, cut, overlooked>>

-----------------------------------------------------------------------------
(* The loop.                                                               *)

NoCommand ==
  /\ GoTo("control", "read")
  /\ commands = <<>>
  /\ Inject(<<>>)
  /\ UNCHANGED <<engineVars, commands, snapshot, handsAge, grab, attempts, cut, overlooked>>

Quit ==
  /\ GoTo("control", "exit")
  /\ commands # <<>> /\ Head(commands) = "q" /\ commands' = Tail(commands)
  /\ Inject(<<>>)
  /\ UNCHANGED <<engineVars, snapshot, handsAge, grab, attempts, cut, overlooked>>

\* Mutant: only the newest of the waiting keys counts.
ToggleNewest(ok) ==
  /\ GoTo("control", "read")
  /\ commands # <<>> /\ commands[Len(commands)] \in {"e", "d"} /\ commands' = <<>>
  /\ enabled' = (commands[Len(commands)] = "e")
  /\ Release(<<>>, ok)
  /\ grab' = FALSE /\ handsAge' = StaleMs + 1
  /\ UNCHANGED <<quiet, blocked, snapshot, attempts, cut, overlooked>>

Toggle(ok) ==
  /\ GoTo("control", "read")
  /\ commands # <<>> /\ Head(commands) \in {"e", "d"} /\ commands' = Tail(commands)
  /\ enabled' = (Head(commands) = "e")
  /\ Release(<<>>, ok)
  /\ grab' = FALSE /\ handsAge' = StaleMs + 1
  /\ UNCHANGED <<quiet, blocked, snapshot, attempts, cut, overlooked>>

ReadFresh(snap) ==
  /\ GoTo("read", "clock")
  /\ snapshot' = snap
  /\ Inject(<<>>)
  /\ UNCHANGED <<engineVars, commands, handsAge, grab, attempts, cut, overlooked>>

\* No file, a stale file or an invalid one.
ReadNothing(ok) ==
  /\ GoTo("read", "clock")
  /\ snapshot' = None
  /\ ReleaseCall(ok)
  /\ grab' = FALSE
  /\ UNCHANGED <<commands, handsAge, attempts, cut, overlooked>>

\* now = time.monotonic()
Clock(d) ==
  /\ GoTo("clock", "drain")
  /\ Elapse(d)
  /\ handsAge' = Least(handsAge + d, StaleMs + 1)
  /\ UNCHANGED <<commands, snapshot, grab, attempts, cut, overlooked>>

DrainNothing ==
  /\ GoTo("drain", "check")
  /\ overlooked' = FALSE
  /\ Inject(<<>>)
  /\ UNCHANGED <<engineVars, commands, snapshot, handsAge, grab, attempts, cut>>

\* The manipulator takes the frame: it holds a grab, or makes one.
\* Mutant: a finger stays debounced when the manipulator takes the frame.
ManipulateHovering ==
  /\ active = None
  /\ grab' \in {TRUE, ~grab}
  /\ Inject(<<>>)
  /\ quiet' = 0 /\ UNCHANGED <<active, hover, enabled, blocked, releasing>>

Manipulate ==
  /\ active = None
  /\ hover' = None
  /\ grab' \in {TRUE, ~grab}
  /\ Inject(<<>>)
  /\ quiet' = 0 /\ UNCHANGED <<active, enabled, blocked, releasing>>

Touch(obs, ok) ==
  /\ active = None => ~grab
  /\ Frame(obs, snapshot.live, snapshot.session, ok)
  /\ UNCHANGED grab

\* Input disabled or no panels: the frame only feeds the watchdogs.
NoteFrame ==
  /\ snapshot = None \/ ~enabled
  /\ quiet' = 0
  /\ Inject(<<>>)
  /\ UNCHANGED <<active, hover, enabled, blocked, releasing, grab>>

\* drain decodes every packet of the batch and keeps the last frame only.
Drain(batch, ok) ==
  /\ GoTo("drain", "check")
  /\ batch # <<>>
  /\ LET last == batch[Len(batch)]
     IN  \/ snapshot # None /\ enabled /\ (Manipulate \/ Touch(last, ok))
         \/ NoteFrame
  /\ overlooked' = /\ snapshot # None /\ enabled /\ active # None /\ ~releasing
                   /\ \E i \in 1..(Len(batch) - 1) :
                        Tracked(batch[i], snapshot.live, snapshot.session) = {}
  /\ handsAge' = 0
  /\ UNCHANGED <<commands, snapshot, attempts, cut>>

\* The active contact's panel is still in this pass's snapshot.
OnPanel ==
  /\ active.id.panel \in DOMAIN snapshot.live
  /\ snapshot.live[active.id.panel] = active.id.rev
  /\ snapshot.session = active.id.session

\* Mutant: only the window is checked, not the panel's revision and session.
CheckWindow(valid, ok) ==
  /\ GoTo("check", "tick")
  /\ IF snapshot # None /\ active # None /\ ~valid
       THEN ReleaseCall(ok)
       ELSE Inject(<<>>) /\ UNCHANGED engineVars
  /\ UNCHANGED <<commands, snapshot, handsAge, grab, attempts, cut, overlooked>>

\* valid is the window check's answer for the contact's location.
Check(valid, ok) ==
  /\ GoTo("check", "tick")
  /\ IF snapshot # None /\ active # None /\ ~(OnPanel /\ valid)
       THEN ReleaseCall(ok)
       ELSE Inject(<<>>) /\ UNCHANGED engineVars
  /\ UNCHANGED <<commands, snapshot, handsAge, grab, attempts, cut, overlooked>>

\* Mutant: hands that stop arriving leave the grab.
TickStepHolding(ok) ==
  /\ GoTo("tick", "control")
  /\ Tick(ok)
  /\ UNCHANGED <<commands, snapshot, handsAge, grab, attempts, cut, overlooked>>

TickStep(ok) ==
  /\ GoTo("tick", "control")
  /\ Tick(ok)
  /\ grab' = (grab /\ enabled /\ handsAge <= StaleMs)
  /\ UNCHANGED <<commands, snapshot, handsAge, attempts, cut, overlooked>>

-----------------------------------------------------------------------------
(* Leaving the loop.                                                       *)

Running == pc \notin {"exit", "done"}

\* Ctrl-C between two steps, or a socket error that drain raises.
Abort ==
  /\ Running /\ pc' = "exit"
  /\ Inject(<<>>)
  /\ UNCHANGED <<engineVars, commands, snapshot, handsAge, grab, attempts, cut, overlooked>>

\* Ctrl-C after Windows accepted a DOWN and before the engine noted it.
CutPress(obs) ==
  /\ GoTo("drain", "exit")
  /\ snapshot # None /\ Idle /\ blocked = 0 /\ ~grab
  /\ \E o \in Nearest(Candidates(obs, snapshot.live)) :
       /\ Hovering(IdOf(o, snapshot.live, snapshot.session)) /\ Presses(o)
       /\ Inject(<<Call("down", o.xy, TRUE)>>)
  /\ quiet' = 0 /\ handsAge' = 0 /\ cut' = TRUE
  /\ UNCHANGED <<active, hover, enabled, blocked, releasing>>
  /\ UNCHANGED <<commands, snapshot, grab, attempts, overlooked>>

\* Mutant: the shutdown tries for as long as Windows refuses.
ExitAttemptUnlimited(ok) ==
  /\ pc = "exit"
  /\ enabled' = FALSE
  /\ Release(<<>>, ok)
  /\ attempts' = attempts + 1
  /\ pc' = IF active' = None THEN "done" ELSE "exit"
  /\ UNCHANGED <<quiet, blocked, commands, snapshot, handsAge, grab, cut, overlooked>>

\* Mutant: no second attempt.
ExitAttemptOnce(ok) ==
  /\ GoTo("exit", "done")
  /\ enabled' = FALSE
  /\ Release(<<>>, ok)
  /\ attempts' = attempts + 1
  /\ UNCHANGED <<quiet, blocked, commands, snapshot, handsAge, grab, cut, overlooked>>

ExitAttempt(ok) ==
  /\ pc = "exit" /\ attempts < ExitAttempts
  /\ enabled' = FALSE
  /\ Release(<<>>, ok)
  /\ attempts' = attempts + 1
  /\ pc' = IF active' = None \/ attempts' = ExitAttempts THEN "done" ELSE "exit"
  /\ UNCHANGED <<quiet, blocked, commands, snapshot, handsAge, grab, cut, overlooked>>

\* A second Ctrl-C while the shutdown sleeps between its attempts.
CutExit ==
  /\ GoTo("exit", "done")
  /\ cut' = TRUE
  /\ Inject(<<>>)
  /\ UNCHANGED <<engineVars, commands, snapshot, handsAge, grab, attempts, overlooked>>

-----------------------------------------------------------------------------
Loop ==
  \/ NoCommand \/ Quit \/ DrainNothing
  \/ \E ok \in BOOLEAN : Toggle(ok) \/ ReadNothing(ok) \/ TickStep(ok)
  \/ \E snap \in Snapshots : ReadFresh(snap)
  \/ \E d \in Gaps : Clock(d)
  \/ \E batch \in Batches, ok \in BOOLEAN : Drain(batch, ok)
  \/ \E valid, ok \in BOOLEAN : Check(valid, ok)

Shutdown == \E ok \in BOOLEAN : ExitAttempt(ok)

Interrupts == Abort \/ CutExit \/ \E obs \in Views : CutPress(obs)

BNext ==
  \/ Loop \/ Shutdown \/ Interrupts
  \/ \E key \in {"e", "d", "q"} : PutCommand(key)

\* The process has ended.
Ended == pc = "done" /\ UNCHANGED bridgeVars

BSpec == BInit /\ [][BNext \/ Ended]_bridgeVars

\* The loop never waits for anything but its own 5 ms sleep, and Windows does not
\* refuse every UP of a contact for ever.
Fairness ==
  /\ WF_pc(Loop) /\ WF_attempts(Shutdown)
  /\ SF_pc(releasing /\ TickStep(TRUE))

FairSpec == BSpec /\ Fairness

-----------------------------------------------------------------------------
\* Besides the types: the shutdown gives up after ten attempts (__main__.py:128).
BTypeOK ==
  /\ TypeOK
  /\ pc \in {"control", "read", "clock", "drain", "check", "tick", "exit", "done"}
  /\ commands \in Seq({"e", "d", "q"})
  /\ snapshot \in Snapshots \cup {None}
  /\ handsAge \in 0..(StaleMs + 1)
  /\ grab \in BOOLEAN /\ cut \in BOOLEAN /\ overlooked \in BOOLEAN
  /\ attempts \in 0..ExitAttempts

\* One hand gesture drives one thing: while a panel is grabbed there is no contact and no
\* finger being debounced (__main__.py:111-114), whatever release failed before.
GrabXorTouch == grab => active = None /\ hover = None

\* After every pass, a contact that is not already being lifted was refreshed in the last
\* 150 ms, with input enabled, on a panel this pass's snapshot still shows at the same
\* revision in the same session (__main__.py:101-104, 115-120).
WatchedContact ==
  pc = "control" /\ active # None /\ ~releasing =>
    enabled /\ quiet <= StaleMs /\ snapshot # None /\ OnPanel

\* After every pass a grab has hands not older than 150 ms, input enabled and a snapshot
\* (__main__.py:98, 104, 121).
WatchedGrab ==
  pc = "control" /\ grab => enabled /\ handsAge <= StaleMs /\ snapshot # None

\* Unless Ctrl-C cut it short, the shutdown leaves a contact behind only when Windows
\* refused all ten UPs (__main__.py:126-133); the engine agrees with Windows before.
ExitLifts ==
  ~cut => /\ ContactMirrorsOS
          /\ pc = "done" /\ os # None => attempts = ExitAttempts

\* The documented promise without the exception for Ctrl-C (ARCHITECTURE.md:52).
ShutdownLifts == pc = "done" /\ os # None => attempts = ExitAttempts

\* Every accepted frame without the contact's finger has released the contact when the pass
\* that decodes it ends (docs/HAND_PROTOCOL.md:19, "empty hands").
EmptyHandsRelease == pc = "control" /\ overlooked => active = None \/ releasing

\* No contact outlives its hands for good: it is lifted, if Windows accepts UP at some point,
\* since the watchdog retries it every pass (interaction.py:59-61).
SilenceLifts == []<>(os = None \/ quiet <= StaleMs \/ ~Running)

\* Nor does one outlive input that is disabled, whatever the hands go on doing
\* (__main__.py:95-98, interaction.py:59-61).
DisableLifts == []<>(os = None \/ enabled \/ ~Running)

\* What the companion relies on (module BridgeProcess): a contact begins only with input
\* enabled and the loop running, input changes only by a key and in the keys' order, nothing
\* but shutting down ends the process, and a waiting "q" does (__main__.py:42-50, 82-134).
Process ==
  INSTANCE BridgeProcess WITH
    enabled <- enabled /\ Running,
    contact <- os # None,
    life <- IF Running THEN "running" ELSE IF pc = "exit" THEN "ending" ELSE "dead"

ImplementsBridgeProcess == Process!PSpec /\ Process!Quits
=============================================================================
