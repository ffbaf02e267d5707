---------------------------- MODULE ContactEngine ----------------------------
(***************************************************************************)
(* windows-bridge/phonexr_bridge/interaction.py: the contact lifecycle of  *)
(* the Windows bridge.  One action per way through a public method, for    *)
(* any caller: the methods arrive in any order with any input.             *)
(*                                                                         *)
(* Depths are millimetres in front of a panel (negative: behind it), times *)
(* are milliseconds.  The code stores instants and compares differences;   *)
(* here a variable holds the difference itself, capped where no comparison *)
(* can tell larger ones apart.                                             *)
(***************************************************************************)
EXTENDS Integers, Sequences

CONSTANTS Hands, Panels, Revs, Sessions, \* identities of the inputs
          XY,      \* screen locations
          Depths,  \* fingertip depths the sensor reports
          Views,   \* what one frame shows: sets of observations
          Gaps,    \* milliseconds between two looks at the clock
          None     \* Python's None

Observation == [hand : Hands, panel : Panels, xy : XY, z : Depths, valid : BOOLEAN]
Identity == [session : Sessions, panel : Panels, rev : Revs, hand : Hands]

ASSUME NumbersAssumption == Depths \subseteq Int /\ Gaps \subseteq Nat
ASSUME ViewsAssumption == Views \subseteq SUBSET Observation

\* A frame shows a hand at a panel once: the hands of a packet have different ids
\* (protocol.py:48), and the panels are kept by their ids (interaction.py:67).
ASSUME FingersAssumption ==
  \A view \in Views : \A o, p \in view : o.hand = p.hand /\ o.panel = p.panel => o = p

ASSUME NoneAssumption == /\ None \notin XY
                         /\ None \notin [id : Identity, xy : XY]
                         /\ None \notin [id : Identity, age : 0..30, front : BOOLEAN, z : Depths]

StaleMs == 150   \* tick: now-self.last_frame > .150
DebounceMs == 30 \* now-hover['since'] >= .03
BlockMs == 80    \* self.blocked_until = now+.08

VARIABLES active,    \* the contact the engine believes in: its identity and last accepted xy
          hover,     \* the finger being debounced: identity, age, seen in front, last depth
          enabled,
          quiet,     \* now - last_frame, at most StaleMs + 1
          blocked,   \* blocked_until - now, at least 0
          releasing,
          os,        \* external: where the operating system holds the contact, or None
          calls      \* the injection calls of the last step

engineVars == <<active, hover, enabled, quiet, blocked, releasing>>
vars == <<engineVars, os, calls>>

Call(phase, xy, ok) == [phase |-> phase, xy |-> xy, ok |-> ok]
Least(a, b) == IF a < b THEN a ELSE b
Abs(n) == IF n < 0 THEN -n ELSE n

\* Accepted calls act on the operating system's contact in order, refused ones do not.
Inject(cs) ==
  LET After(c, at) == IF ~c.ok THEN at ELSE IF c.phase = "up" THEN None ELSE c.xy
  IN  /\ calls' = cs
      /\ os' = CASE Len(cs) = 0 -> os
                 [] Len(cs) = 1 -> After(cs[1], os)
                 [] OTHER -> After(cs[2], After(cs[1], os))

Init ==
  /\ active = None /\ hover = None /\ enabled = FALSE
  /\ quiet = StaleMs + 1 /\ blocked = 0 /\ releasing = FALSE
  /\ os = None /\ calls = <<>>

-----------------------------------------------------------------------------
(* release, after the injection calls in prefix; ok is the answer to UP.   *)
Release(prefix, ok) ==
  /\ hover' = None
  /\ IF active = None
       THEN Inject(prefix) /\ releasing' = FALSE /\ UNCHANGED active
       ELSE /\ Inject(Append(prefix, Call("up", active.xy, ok)))
            /\ active' = IF ok THEN None ELSE active
            /\ releasing' = ~ok

ReleaseCall(ok) == Release(<<>>, ok) /\ UNCHANGED <<enabled, quiet, blocked>>

\* Mutant: no watchdog.
TickReleasesUnwatched == releasing \/ ~enabled

\* Mutant: only the watchdog.
TickReleasesWatchdog == quiet > StaleMs

TickReleases == releasing \/ ~enabled \/ quiet > StaleMs

Tick(ok) ==
  \/ TickReleases /\ ReleaseCall(ok)
  \/ ~TickReleases /\ Inject(<<>>) /\ UNCHANGED engineVars

-----------------------------------------------------------------------------
(* frame: obs are the fingertips that project into a panel, live maps the  *)
(* visible interactive panels to their revisions.                          *)

Candidates(obs, live) ==
  {o \in obs : o.panel \in DOMAIN live /\ -10 <= o.z /\ o.z <= 80 /\ o.valid}

Nearest(cs) == {o \in cs : \A c \in cs : Abs(o.z) <= Abs(c.z)}

IdOf(o, live, session) ==
  [session |-> session, panel |-> o.panel, rev |-> live[o.panel], hand |-> o.hand]

\* The observations that carry the active contact on.
Tracked(obs, live, session) ==
  {o \in obs : /\ o.panel \in DOMAIN live
               /\ IdOf(o, live, session) = active.id
               /\ -40 <= o.z /\ o.z < 16 /\ o.valid}

Idle == active = None /\ ~releasing /\ enabled

\* releasing or not enabled: the frame only tries to release.
FrameReleases(ok) ==
  /\ releasing \/ ~enabled
  /\ Release(<<>>, ok)
  /\ UNCHANGED blocked

FrameLoses(obs, live, session, ok) ==
  /\ enabled /\ ~releasing /\ active # None
  /\ Tracked(obs, live, session) = {}
  /\ Release(<<>>, ok)
  /\ blocked' = IF ok THEN BlockMs ELSE blocked

FrameDrags(obs, live, session) ==
  /\ enabled /\ ~releasing /\ active # None
  /\ \E o \in Tracked(obs, live, session) :
       /\ Inject(<<Call("update", o.xy, TRUE)>>)
       /\ active' = [active EXCEPT !.xy = o.xy]
  /\ UNCHANGED <<hover, blocked, releasing>>

\* Mutant: the contact takes the new location before Windows accepted it.
FrameDragRefusedMoved(obs, live, session, ok) ==
  /\ enabled /\ ~releasing /\ active # None
  /\ \E o \in Tracked(obs, live, session) :
       /\ Inject(<<Call("update", o.xy, FALSE), Call("up", o.xy, ok)>>)
       /\ active' = IF ok THEN None ELSE [active EXCEPT !.xy = o.xy]
  /\ hover' = None /\ releasing' = ~ok
  /\ UNCHANGED blocked

FrameDragRefused(obs, live, session, ok) ==
  /\ enabled /\ ~releasing /\ active # None
  /\ \E o \in Tracked(obs, live, session) :
       Release(<<Call("update", o.xy, FALSE)>>, ok)
  /\ UNCHANGED blocked

FrameBlocked ==
  /\ Idle /\ blocked > 0
  /\ Inject(<<>>)
  /\ UNCHANGED <<active, hover, blocked, releasing>>

FrameEmpty(obs, live) ==
  /\ Idle /\ blocked = 0
  /\ Candidates(obs, live) = {}
  /\ hover' = None
  /\ Inject(<<>>)
  /\ UNCHANGED <<active, blocked, releasing>>

\* Mutant: only the hand is compared.
HoveringHand(id) == hover # None /\ hover.id.hand = id.hand

Hovering(id) == hover # None /\ hover.id = id

FrameApproaches(o, id) ==
  /\ ~Hovering(id)
  /\ hover' = [id |-> id, age |-> 0, front |-> o.z >= 16, z |-> o.z]
  /\ Inject(<<>>)
  /\ UNCHANGED active

\* The finger was in front of the panel, stayed long enough and still approaches.
Presses(o) ==
  /\ hover.front \/ o.z >= 16
  /\ hover.age >= DebounceMs
  /\ o.z <= 8 /\ o.z < hover.z

\* Mutant: the contact is noted whether or not Windows accepted it.
FramePressesAlways(o, id, ok) ==
  /\ Hovering(id) /\ Presses(o)
  /\ Inject(<<Call("down", o.xy, ok)>>)
  /\ active' = [id |-> id, xy |-> o.xy]
  /\ hover' = None

\* Mutant: the finger stays debounced during the contact.
FramePressesHovering(o, id, ok) ==
  /\ Hovering(id) /\ Presses(o)
  /\ Inject(<<Call("down", o.xy, ok)>>)
  /\ active' = IF ok THEN [id |-> id, xy |-> o.xy] ELSE None
  /\ UNCHANGED hover

FramePresses(o, id, ok) ==
  /\ Hovering(id) /\ Presses(o)
  /\ Inject(<<Call("down", o.xy, ok)>>)
  /\ active' = IF ok THEN [id |-> id, xy |-> o.xy] ELSE None
  /\ hover' = None

FrameHovers(o, id) ==
  /\ Hovering(id) /\ ~Presses(o)
  /\ hover' = [hover EXCEPT !.front = @ \/ o.z >= 16, !.z = o.z]
  /\ Inject(<<>>)
  /\ UNCHANGED active

\* The candidate nearest to its panel is the only one considered.
FrameFollows(obs, live, session, ok) ==
  /\ Idle /\ blocked = 0
  /\ \E o \in Nearest(Candidates(obs, live)) :
       LET id == IdOf(o, live, session)
       IN  FrameApproaches(o, id) \/ FramePresses(o, id, ok) \/ FrameHovers(o, id)
  /\ UNCHANGED <<blocked, releasing>>

Frame(obs, live, session, ok) ==
  /\ quiet' = 0
  /\ UNCHANGED enabled
  /\ \/ FrameReleases(ok)
     \/ FrameLoses(obs, live, session, ok)
     \/ FrameDrags(obs, live, session)
     \/ FrameDragRefused(obs, live, session, ok)
     \/ FrameBlocked
     \/ FrameEmpty(obs, live)
     \/ FrameFollows(obs, live, session, ok)

-----------------------------------------------------------------------------
\* The caller's assignment to engine.enabled.
SetEnabled(b) ==
  /\ enabled' = b
  /\ Inject(<<>>)
  /\ UNCHANGED <<active, hover, quiet, blocked, releasing>>

\* d milliseconds pass for every stored instant.
Age(d) ==
  /\ quiet' = Least(quiet + d, StaleMs + 1)
  /\ blocked' = IF blocked > d THEN blocked - d ELSE 0
  /\ hover' = IF hover = None THEN None
              ELSE [hover EXCEPT !.age = Least(@ + d, DebounceMs)]

Elapse(d) == Age(d) /\ Inject(<<>>) /\ UNCHANGED <<active, enabled, releasing>>

LivePanels == UNION {[S -> Revs] : S \in SUBSET Panels}

Next ==
  \/ \E d \in Gaps : Elapse(d)
  \/ \E b \in BOOLEAN : SetEnabled(b)
  \/ \E ok \in BOOLEAN : Tick(ok) \/ ReleaseCall(ok)
  \/ \E obs \in Views, live \in LivePanels, session \in Sessions, ok \in BOOLEAN :
       Frame(obs, live, session, ok)

Spec == Init /\ [][Next]_vars

-----------------------------------------------------------------------------
Contact == [id : Identity, xy : XY]
Hover == [id : Identity, age : 0..DebounceMs, front : BOOLEAN, z : Depths]

\* Every field keeps the values the methods give it (interaction.py:40-47).
TypeOK ==
  /\ active \in Contact \cup {None}
  /\ hover \in Hover \cup {None}
  /\ enabled \in BOOLEAN /\ releasing \in BOOLEAN
  /\ quiet \in 0..(StaleMs + 1)
  /\ blocked \in 0..BlockMs
  /\ os \in XY \cup {None}

\* The engine believes in a contact exactly when the operating system holds one, at the
\* location of the last accepted call (interaction.py:1, "OS failures never advance
\* contact state"): a refused DOWN, UPDATE or UP leaves both sides agreeing.
ContactMirrorsOS == os = IF active = None THEN None ELSE active.xy

\* A refused UP keeps the contact and stops everything else: no finger is debounced
\* while a contact exists or is still to be lifted (interaction.py:49-57, 101-104).
OneAtATime ==
  /\ active # None => hover = None
  /\ releasing => active # None

Inv == TypeOK /\ ContactMirrorsOS /\ OneAtATime

\* The operating system's view of the engine is the touch protocol (ARCHITECTURE.md:66).
OSContact == INSTANCE TouchContract WITH contact <- os, lifting <- releasing
ImplementsTouchContract == OSContact!Spec
=============================================================================
