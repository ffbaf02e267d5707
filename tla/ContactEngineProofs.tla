------------------------- MODULE ContactEngineProofs -------------------------
(***************************************************************************)
(* Inv of ContactEngine holds in every reachable state, and the engine     *)
(* implements TouchContract, for every value of the constants.             *)
(*                                                                         *)
(* Inv is inductive as it stands.  OneAtATime carries the two facts about  *)
(* the engine's own fields that make ContactMirrorsOS survive a DOWN: a    *)
(* finger is debounced only without a contact, and a contact that is still *)
(* to be lifted is never forgotten.                                        *)
(*                                                                         *)
(* HInv of ContactHistory is Inv and what the sensor showed of the finger  *)
(* being debounced; from it every touch is deliberate.                     *)
(***************************************************************************)
EXTENDS ContactHistory, SequenceTheorems, TLAPS

-----------------------------------------------------------------------------
(* What injecting none, one or two calls does to the contact.              *)

\* No call leaves the operating system's contact as it was.
LEMMA InjectNone == ASSUME Inject(<<>>) PROVE calls' = <<>> /\ os' = os
  BY DEF Inject

\* Appending to a sequence of one element.
LEMMA AppendToOne == ASSUME NEW a, NEW b PROVE Append(<<a>>, b) = <<a, b>>
<1> DEFINE s == Append(<<a>>, b)
           t == <<a, b>>
<1>1. <<a>> \in Seq({a, b}) /\ b \in {a, b}
  OBVIOUS
<1>2. t \in Seq({a, b}) /\ Len(t) = 2 /\ t[1] = a /\ t[2] = b
  OBVIOUS
<1>3. s \in Seq({a, b}) /\ Len(s) = 2 /\ s[1] = a /\ s[2] = b
  BY <1>1
<1>4. \A i \in 1..Len(s) : s[i] = t[i]
  BY <1>2, <1>3
<1> HIDE DEF s, t
<1>5. s = t
  BY <1>2, <1>3, <1>4, SeqEqual
<1>. QED  BY <1>5 DEF s, t

\* Concatenating two sequences of one element.
LEMMA ConcatOnes == ASSUME NEW a, NEW b PROVE <<a>> \o <<b>> = <<a, b>>
<1>1. <<a>> \in Seq({a, b}) /\ b \in {a, b}
  OBVIOUS
<1>2. <<a>> \o <<b>> = Append(<<a>>, b)
  BY <1>1, AppendIsConcat
<1>. QED  BY <1>2, AppendToOne

\* One call moves the contact exactly if it was accepted.
LEMMA InjectOne ==
  ASSUME NEW ph, NEW xy, NEW ok \in BOOLEAN, Inject(<<Call(ph, xy, ok)>>)
  PROVE  /\ calls' = <<Call(ph, xy, ok)>>
         /\ os' = IF ~ok THEN os ELSE IF ph = "up" THEN None ELSE xy
<1>1. Len(<<Call(ph, xy, ok)>>) = 1 /\ <<Call(ph, xy, ok)>>[1] = Call(ph, xy, ok)
  OBVIOUS
<1>2. Call(ph, xy, ok).ok = ok /\ Call(ph, xy, ok).phase = ph /\ Call(ph, xy, ok).xy = xy
  BY DEF Call
<1>. QED  BY <1>1, <1>2 DEF Inject

\* A refused UPDATE followed by an UP is as good as the UP.
LEMMA InjectRefusedThenUp ==
  ASSUME NEW xy, NEW at, NEW ok \in BOOLEAN,
         Inject(<<Call("update", xy, FALSE), Call("up", at, ok)>>)
  PROVE  /\ calls' = <<Call("update", xy, FALSE), Call("up", at, ok)>>
         /\ os' = IF ok THEN None ELSE os
<1> DEFINE cs == <<Call("update", xy, FALSE), Call("up", at, ok)>>
<1>1. Len(cs) = 2 /\ cs[1] = Call("update", xy, FALSE) /\ cs[2] = Call("up", at, ok)
  OBVIOUS
<1>2. /\ ~cs[1].ok
      /\ cs[2].ok = ok /\ cs[2].phase = "up"
  BY <1>1 DEF Call
<1>. QED  BY <1>1, <1>2 DEF Inject

\* release() called on its own: without a contact it only clears flags, with one it
\* injects a single UP at the last accepted location.
LEMMA ReleaseAlone ==
  ASSUME NEW ok \in BOOLEAN, Release(<<>>, ok)
  PROVE  /\ hover' = None
         /\ active = None => /\ calls' = <<>> /\ os' = os
                             /\ active' = None /\ releasing' = FALSE
         /\ active # None => /\ calls' = <<Call("up", active.xy, ok)>>
                             /\ os' = (IF ok THEN None ELSE os)
                             /\ active' = (IF ok THEN None ELSE active)
                             /\ releasing' = ~ok
<1>1. Append(<<>>, Call("up", active.xy, ok)) = <<Call("up", active.xy, ok)>>
  OBVIOUS
<1>2. CASE active = None
  BY <1>2, InjectNone DEF Release
<1>3. CASE active # None
  <2>1. Inject(<<Call("up", active.xy, ok)>>)
    BY <1>1, <1>3 DEF Release
  <2>. QED  BY <1>3, <2>1, InjectOne DEF Release
<1>. QED  BY <1>2, <1>3

\* release() inside frame() after a refused UPDATE: both calls, then as above.
LEMMA ReleaseAfterRefusal ==
  ASSUME NEW xy, NEW ok \in BOOLEAN, active # None, Release(<<Call("update", xy, FALSE)>>, ok)
  PROVE  /\ hover' = None
         /\ calls' = <<Call("update", xy, FALSE), Call("up", active.xy, ok)>>
         /\ os' = (IF ok THEN None ELSE os)
         /\ active' = (IF ok THEN None ELSE active)
         /\ releasing' = ~ok
<1>1. Append(<<Call("update", xy, FALSE)>>, Call("up", active.xy, ok))
        = <<Call("update", xy, FALSE), Call("up", active.xy, ok)>>
  BY AppendToOne
<1>2. Inject(<<Call("update", xy, FALSE), Call("up", active.xy, ok)>>)
  BY <1>1 DEF Release
<1>3. /\ calls' = <<Call("update", xy, FALSE), Call("up", active.xy, ok)>>
      /\ os' = IF ok THEN None ELSE os
  BY <1>2, InjectRefusedThenUp
<1>4. hover' = None /\ active' = (IF ok THEN None ELSE active) /\ releasing' = ~ok
  BY DEF Release
<1>. QED  BY <1>3, <1>4

-----------------------------------------------------------------------------
(* The inductive invariant: one lemma per kind of step.                    *)

\* The identity of an observation on a live panel is a proper identity.
LEMMA IdType ==
  ASSUME NEW obs \in Views, NEW live \in LivePanels, NEW session \in Sessions,
         NEW o \in obs, o.panel \in DOMAIN live
  PROVE  /\ IdOf(o, live, session) \in Identity
         /\ o.xy \in XY /\ o.z \in Depths /\ o.z \in Int
<1>1. o \in Observation
  BY ViewsAssumption
<1>2. PICK S \in SUBSET Panels : live \in [S -> Revs]
  BY DEF LivePanels
<1>3. live[o.panel] \in Revs
  BY <1>2
<1>. QED  BY <1>1, <1>3, NumbersAssumption DEF Observation, IdOf, Identity

\* The initial state satisfies the invariant.
LEMMA InitInv == ASSUME Init PROVE Inv
<1>1. quiet \in 0..(StaleMs + 1) /\ blocked \in 0..BlockMs
  BY DEF Init, StaleMs, BlockMs
<1>2. /\ active = None /\ hover = None /\ os = None
      /\ enabled \in BOOLEAN /\ releasing = FALSE
  BY DEF Init
<1>3. TypeOK
  BY <1>1, <1>2 DEF TypeOK
<1>. QED  BY <1>2, <1>3 DEF Inv, ContactMirrorsOS, OneAtATime

\* What every way of releasing does to the part of the invariant it can disturb.
LEMMA ReleaseInv ==
  ASSUME Inv, NEW ok \in BOOLEAN,
         \/ Release(<<>>, ok)
         \/ /\ active # None
            /\ \E xy \in XY : Release(<<Call("update", xy, FALSE)>>, ok)
  PROVE  /\ hover' = None /\ releasing' \in BOOLEAN
         /\ active' \in Contact \cup {None} /\ os' \in XY \cup {None}
         /\ ContactMirrorsOS' /\ OneAtATime'
<1>1. /\ hover' = None
      /\ active = None => os' = os /\ active' = None /\ releasing' = FALSE
      /\ active # None => /\ os' = (IF ok THEN None ELSE os)
                          /\ active' = (IF ok THEN None ELSE active)
                          /\ releasing' = ~ok
  BY ReleaseAlone, ReleaseAfterRefusal
<1>2. os = (IF active = None THEN None ELSE active.xy) /\ active \in Contact \cup {None}
      /\ os \in XY \cup {None}
  BY DEF Inv, TypeOK, ContactMirrorsOS
<1>3. CASE active = None
  BY <1>1, <1>2, <1>3 DEF ContactMirrorsOS, OneAtATime
<1>4. CASE active # None
  BY <1>1, <1>2, <1>4 DEF ContactMirrorsOS, OneAtATime
<1>. QED  BY <1>3, <1>4

\* frame() preserves the invariant on every path.
LEMMA FrameInv ==
  ASSUME Inv, NEW obs \in Views, NEW live \in LivePanels, NEW session \in Sessions,
         NEW ok \in BOOLEAN, Frame(obs, live, session, ok)
  PROVE  Inv'
<1>1. quiet' \in 0..(StaleMs + 1) /\ enabled' \in BOOLEAN
  BY DEF Frame, Inv, TypeOK, StaleMs
<1>2. /\ active \in Contact \cup {None} /\ hover \in Hover \cup {None}
      /\ blocked \in 0..BlockMs /\ os \in XY \cup {None} /\ releasing \in BOOLEAN
      /\ os = IF active = None THEN None ELSE active.xy
      /\ active # None => hover = None
      /\ releasing => active # None
  BY DEF Inv, TypeOK, ContactMirrorsOS, OneAtATime
<1>3. BlockMs \in 0..BlockMs
  BY DEF BlockMs
<1>4. CASE FrameReleases(ok)
  <2>1. Release(<<>>, ok) /\ blocked' = blocked
    BY <1>4 DEF FrameReleases
  <2>. QED  BY <1>1, <1>2, <2>1, ReleaseInv DEF Inv, TypeOK
<1>5. CASE FrameLoses(obs, live, session, ok)
  <2>1. Release(<<>>, ok) /\ blocked' \in 0..BlockMs
    BY <1>2, <1>3, <1>5 DEF FrameLoses
  <2>. QED  BY <1>1, <2>1, ReleaseInv DEF Inv, TypeOK
<1>6. CASE FrameDrags(obs, live, session)
  <2>1. PICK o \in Tracked(obs, live, session) :
          /\ Inject(<<Call("update", o.xy, TRUE)>>)
          /\ active' = [active EXCEPT !.xy = o.xy]
    BY <1>6 DEF FrameDrags
  <2>2. o \in obs /\ o.panel \in DOMAIN live
    BY DEF Tracked
  <2>3. o.xy \in XY
    BY <2>2, IdType
  <2>4. active \in Contact /\ active # None
    BY <1>2, <1>6 DEF FrameDrags
  <2>5. active' \in Contact /\ active'.xy = o.xy
    BY <2>1, <2>3, <2>4 DEF Contact
  <2>6. active' # None
    BY <2>5, NoneAssumption DEF Contact
  <2>7. os' = o.xy
    BY <2>1, InjectOne
  <2>8. hover' = hover /\ blocked' = blocked /\ releasing' = releasing
    BY <1>6 DEF FrameDrags
  <2>9. TypeOK'
    BY <1>1, <1>2, <2>3, <2>5, <2>7, <2>8 DEF TypeOK
  <2>. QED  BY <1>2, <2>4, <2>5, <2>6, <2>7, <2>8, <2>9
            DEF Inv, ContactMirrorsOS, OneAtATime
<1>7. CASE FrameDragRefused(obs, live, session, ok)
  <2>1. PICK o \in Tracked(obs, live, session) :
          Release(<<Call("update", o.xy, FALSE)>>, ok)
    BY <1>7 DEF FrameDragRefused
  <2>2. o \in obs /\ o.panel \in DOMAIN live
    BY DEF Tracked
  <2>3. o.xy \in XY /\ active # None /\ blocked' = blocked
    BY <1>7, <2>2, IdType DEF FrameDragRefused
  <2>. QED  BY <1>1, <1>2, <2>1, <2>3, ReleaseInv DEF Inv, TypeOK
<1>8. CASE FrameBlocked
  <2>1. UNCHANGED <<active, hover, blocked, releasing, os>>
    BY <1>8, InjectNone DEF FrameBlocked
  <2>. QED  BY <1>1, <1>2, <2>1 DEF Inv, TypeOK, ContactMirrorsOS, OneAtATime
<1>9. CASE FrameEmpty(obs, live)
  <2>1. UNCHANGED <<active, blocked, releasing, os>> /\ hover' = None
    BY <1>9, InjectNone DEF FrameEmpty
  <2>. QED  BY <1>1, <1>2, <2>1 DEF Inv, TypeOK, ContactMirrorsOS, OneAtATime
<1>10. CASE FrameFollows(obs, live, session, ok)
  <2> DEFINE Id(o) == IdOf(o, live, session)
  <2>1. PICK o \in Nearest(Candidates(obs, live)) :
          FrameApproaches(o, Id(o)) \/ FramePresses(o, Id(o), ok) \/ FrameHovers(o, Id(o))
    BY <1>10 DEF FrameFollows
  <2>2. o \in obs /\ o.panel \in DOMAIN live
    BY DEF Nearest, Candidates
  <2>3. Id(o) \in Identity /\ o.xy \in XY /\ o.z \in Depths /\ o.z \in Int
    BY <2>2, IdType
  <2>4. active = None /\ os = None /\ releasing = FALSE
        /\ blocked' = blocked /\ releasing' = FALSE
    BY <1>2, <1>10 DEF FrameFollows, Idle
  <2> HIDE DEF Id
  <2>5. CASE FrameApproaches(o, Id(o))
    <3>1. hover' \in Hover /\ UNCHANGED <<active, os>>
      BY <2>3, <2>5, InjectNone DEF FrameApproaches, Hover, DebounceMs
    <3>. QED  BY <1>1, <1>2, <2>4, <3>1 DEF Inv, TypeOK, ContactMirrorsOS, OneAtATime
  <2>6. CASE FramePresses(o, Id(o), ok)
    <3>1. /\ hover' = None
          /\ active' = IF ok THEN [id |-> Id(o), xy |-> o.xy] ELSE None
          /\ os' = IF ok THEN o.xy ELSE None
      BY <2>4, <2>6, InjectOne DEF FramePresses
    <3>2. /\ [id |-> Id(o), xy |-> o.xy] \in Contact
          /\ [id |-> Id(o), xy |-> o.xy] # None
          /\ [id |-> Id(o), xy |-> o.xy].xy = o.xy
      BY <2>3, NoneAssumption DEF Contact
    <3>. QED  BY <1>1, <1>2, <2>3, <2>4, <3>1, <3>2
              DEF Inv, TypeOK, ContactMirrorsOS, OneAtATime
  <2>7. CASE FrameHovers(o, Id(o))
    <3>1. hover \in Hover
      BY <1>2, <2>7 DEF FrameHovers, Hovering
    <3>2. hover' \in Hover /\ UNCHANGED <<active, os>>
      BY <2>3, <2>7, <3>1, InjectNone DEF FrameHovers, Hover
    <3>. QED  BY <1>1, <1>2, <2>4, <3>2 DEF Inv, TypeOK, ContactMirrorsOS, OneAtATime
  <2>. QED  BY <2>1, <2>5, <2>6, <2>7
<1>. QED  BY <1>4, <1>5, <1>6, <1>7, <1>8, <1>9, <1>10 DEF Frame

\* release() on its own preserves the invariant.
LEMMA ReleaseCallInv == ASSUME Inv, NEW ok \in BOOLEAN, ReleaseCall(ok) PROVE Inv'
<1>1. Release(<<>>, ok) /\ UNCHANGED <<enabled, quiet, blocked>>
  BY DEF ReleaseCall
<1>. QED  BY <1>1, ReleaseInv DEF Inv, TypeOK

\* tick() preserves it, whether it releases or not.
LEMMA TickInv == ASSUME Inv, NEW ok \in BOOLEAN, Tick(ok) PROVE Inv'
<1>1. CASE ReleaseCall(ok)
  BY <1>1, ReleaseCallInv
<1>2. CASE Inject(<<>>) /\ UNCHANGED engineVars
  BY <1>2, InjectNone DEF engineVars, Inv, TypeOK, ContactMirrorsOS, OneAtATime
<1>. QED  BY <1>1, <1>2 DEF Tick

\* The passing of time changes the three ages within their caps.
LEMMA AgeInv ==
  ASSUME Inv, NEW d \in Nat, Age(d)
  PROVE  /\ quiet' \in 0..(StaleMs + 1) /\ blocked' \in 0..BlockMs
         /\ hover' \in Hover \cup {None}
         /\ hover = None => hover' = None
<1>1. quiet \in 0..151 /\ blocked \in 0..80
  BY DEF Inv, TypeOK, StaleMs, BlockMs
<1>2. quiet' \in 0..151 /\ blocked' \in 0..80
  BY <1>1 DEF Age, Least, StaleMs
<1>3. hover = None => hover' = None
  BY DEF Age
<1>4. ASSUME hover \in Hover PROVE hover' \in Hover
  <2>1. hover # None
    BY <1>4, NoneAssumption DEF Hover, DebounceMs
  <2>2. hover' = [hover EXCEPT !.age = Least(hover.age + d, DebounceMs)]
    BY <2>1 DEF Age
  <2>3. hover.age \in 0..30
    BY <1>4 DEF Hover, DebounceMs
  <2>4. Least(hover.age + d, DebounceMs) \in 0..DebounceMs
    BY <2>3 DEF Least, DebounceMs
  <2>. QED  BY <1>4, <2>2, <2>4 DEF Hover
<1>5. hover' \in Hover \cup {None}
  BY <1>3, <1>4 DEF Inv, TypeOK
<1>6. quiet' \in 0..(StaleMs + 1) /\ blocked' \in 0..BlockMs
  BY <1>2 DEF StaleMs, BlockMs
<1>. QED  BY <1>3, <1>5, <1>6

\* So it preserves the invariant.
LEMMA ElapseInv == ASSUME Inv, NEW d \in Gaps, Elapse(d) PROVE Inv'
<1>1. UNCHANGED <<active, enabled, releasing, os>> /\ Age(d) /\ d \in Nat
  BY InjectNone, NumbersAssumption DEF Elapse
<1>2. TypeOK'
  BY <1>1, AgeInv DEF Inv, TypeOK
<1>. QED  BY <1>1, <1>2, AgeInv DEF Inv, ContactMirrorsOS, OneAtATime

\* Every step of the specification preserves the invariant.
LEMMA NextInv == ASSUME Inv, [Next]_vars PROVE Inv'
<1>1. CASE UNCHANGED vars
  BY <1>1 DEF vars, engineVars, Inv, TypeOK, ContactMirrorsOS, OneAtATime
<1>2. CASE \E d \in Gaps : Elapse(d)
  BY <1>2, ElapseInv
<1>3. CASE \E b \in BOOLEAN : SetEnabled(b)
  BY <1>3, InjectNone DEF SetEnabled, Inv, TypeOK, ContactMirrorsOS, OneAtATime
<1>4. CASE \E ok \in BOOLEAN : Tick(ok) \/ ReleaseCall(ok)
  <2>1. PICK ok \in BOOLEAN : Tick(ok) \/ ReleaseCall(ok)
    BY <1>4
  <2>. QED  BY <2>1, TickInv, ReleaseCallInv
<1>5. CASE \E obs \in Views, live \in LivePanels, session \in Sessions, ok \in BOOLEAN :
             Frame(obs, live, session, ok)
  BY <1>5, FrameInv
<1>. QED  BY <1>1, <1>2, <1>3, <1>4, <1>5 DEF Next

\* In every reachable state the fields have their types, the engine's belief about the
\* contact is the operating system's, and no finger is debounced beside a contact.
THEOREM InvHolds == Spec => []Inv
<1>1. Init => Inv
  BY InitInv
<1>2. Inv /\ [Next]_vars => Inv'
  BY NextInv
<1>. QED  BY <1>1, <1>2, PTL DEF Spec

\* The type invariant, as the run checks it.
THEOREM TypeCorrect == Spec => []TypeOK
<1>1. Inv => TypeOK
  BY DEF Inv
<1>. QED  BY <1>1, InvHolds, PTL

\* A refused DOWN, UPDATE or UP never separates the engine from the operating system.
THEOREM MirrorHolds == Spec => []ContactMirrorsOS
<1>1. Inv => ContactMirrorsOS
  BY DEF Inv
<1>. QED  BY <1>1, InvHolds, PTL

\* A finger is debounced only without a contact, and a pending release has one.
THEOREM OneAtATimeHolds == Spec => []OneAtATime
<1>1. Inv => OneAtATime
  BY DEF Inv
<1>. QED  BY <1>1, InvHolds, PTL

-----------------------------------------------------------------------------
(* The refinement: every step of the engine is a step of TouchContract.    *)

\* Both modules build the record of a call alike.
LEMMA SameCall ==
  ASSUME NEW ph, NEW xy, NEW ok PROVE OSContact!Call(ph, xy, ok) = Call(ph, xy, ok)
  BY DEF OSContact!Call, Call

\* A step without calls that leaves contact and releasing alone is a rest.
LEMMA RestRefines ==
  ASSUME calls' = <<>>, os' = os, releasing' = releasing PROVE OSContact!Next
  BY DEF OSContact!Next, OSContact!Rest

\* A release is an UP where the contact is, alone or after a refused UPDATE, or a rest.
LEMMA ReleaseRefines ==
  ASSUME Inv, NEW ok \in BOOLEAN,
         \/ Release(<<>>, ok)
         \/ /\ active # None /\ ~releasing
            /\ \E xy \in XY : Release(<<Call("update", xy, FALSE)>>, ok)
  PROVE  OSContact!Next
<1>1. /\ active # None => os = active.xy /\ os # None
      /\ active = None => ~releasing
  <2>1. active # None => active.xy \in XY
    BY DEF Inv, TypeOK, Contact
  <2>. QED  BY <2>1, NoneAssumption DEF Inv, ContactMirrorsOS, OneAtATime
<1>2. CASE active = None
  <2>1. calls' = <<>> /\ os' = os /\ releasing' = FALSE
    BY <1>2, ReleaseAlone
  <2>2. releasing = FALSE
    BY <1>1, <1>2 DEF Inv, TypeOK
  <2>. QED  BY <2>1, <2>2, RestRefines
<1>3. CASE active # None /\ Release(<<>>, ok)
  <2>1. /\ calls' = <<Call("up", os, ok)>>
        /\ os' = (IF ok THEN None ELSE os) /\ releasing' = ~ok
    BY <1>1, <1>3, ReleaseAlone
  <2>2. <<>> \o <<Call("up", os, ok)>> = <<Call("up", os, ok)>>
    OBVIOUS
  <2>3. OSContact!Lift(<<>>, ok)
    BY <1>1, <1>3, <2>1, <2>2, SameCall DEF OSContact!Lift
  <2>. QED  BY <2>3 DEF OSContact!Next
<1>4. CASE active # None /\ ~releasing
           /\ \E xy \in XY : Release(<<Call("update", xy, FALSE)>>, ok)
  <2>1. PICK xy \in XY : Release(<<Call("update", xy, FALSE)>>, ok)
    BY <1>4
  <2>2. /\ calls' = <<Call("update", xy, FALSE), Call("up", os, ok)>>
        /\ os' = (IF ok THEN None ELSE os) /\ releasing' = ~ok
    BY <1>1, <1>4, <2>1, ReleaseAfterRefusal
  <2>3. <<Call("update", xy, FALSE)>> \o <<Call("up", os, ok)>>
          = <<Call("update", xy, FALSE), Call("up", os, ok)>>
    BY ConcatOnes
  <2>4. OSContact!Lift(<<Call("update", xy, FALSE)>>, ok)
    BY <1>1, <1>4, <2>2, <2>3, SameCall DEF OSContact!Lift
  <2>5. OSContact!MoveRefused(xy, ok)
    BY <1>4, <2>4, SameCall DEF OSContact!MoveRefused
  <2>. QED  BY <2>5 DEF OSContact!Next
<1>. QED  BY <1>2, <1>3, <1>4

\* Every path through frame() is a step of the touch protocol.
LEMMA FrameRefines ==
  ASSUME Inv, NEW obs \in Views, NEW live \in LivePanels, NEW session \in Sessions,
         NEW ok \in BOOLEAN, Frame(obs, live, session, ok)
  PROVE  OSContact!Next
<1>1. os = (IF active = None THEN None ELSE active.xy)
      /\ (active # None => active.xy \in XY /\ active.xy # None)
  BY NoneAssumption DEF Inv, TypeOK, ContactMirrorsOS, Contact
<1>2. CASE FrameReleases(ok) \/ FrameLoses(obs, live, session, ok)
  BY <1>2, ReleaseRefines DEF FrameReleases, FrameLoses
<1>3. CASE FrameDrags(obs, live, session)
  <2>1. PICK o \in Tracked(obs, live, session) : Inject(<<Call("update", o.xy, TRUE)>>)
    BY <1>3 DEF FrameDrags
  <2>2. o \in obs /\ o.panel \in DOMAIN live
    BY DEF Tracked
  <2>3. o.xy \in XY
    BY <2>2, IdType
  <2>4. calls' = <<Call("update", o.xy, TRUE)>> /\ os' = o.xy
    BY <2>1, InjectOne
  <2>5. OSContact!Move(o.xy)
    BY <1>1, <1>3, <2>4, SameCall DEF FrameDrags, OSContact!Move
  <2>. QED  BY <2>3, <2>5 DEF OSContact!Next
<1>4. CASE FrameDragRefused(obs, live, session, ok)
  <2>1. PICK o \in Tracked(obs, live, session) :
          Release(<<Call("update", o.xy, FALSE)>>, ok)
    BY <1>4 DEF FrameDragRefused
  <2>2. o \in obs /\ o.panel \in DOMAIN live
    BY DEF Tracked
  <2>3. o.xy \in XY
    BY <2>2, IdType
  <2>. QED  BY <1>4, <2>1, <2>3, ReleaseRefines DEF FrameDragRefused
<1>5. CASE FrameBlocked \/ FrameEmpty(obs, live)
  BY <1>5, InjectNone, RestRefines DEF FrameBlocked, FrameEmpty
<1>6. CASE FrameFollows(obs, live, session, ok)
  <2>1. PICK o \in Nearest(Candidates(obs, live)) :
          LET id == IdOf(o, live, session)
          IN  FrameApproaches(o, id) \/ FramePresses(o, id, ok) \/ FrameHovers(o, id)
    BY <1>6 DEF FrameFollows
  <2>2. o \in obs /\ o.panel \in DOMAIN live
    BY DEF Nearest, Candidates
  <2>3. o.xy \in XY /\ active = None /\ releasing' = releasing
    BY <1>6, <2>2, IdType DEF FrameFollows, Idle
  <2>4. CASE calls' = <<>> /\ os' = os
    BY <2>3, <2>4, RestRefines
  <2>5. CASE Inject(<<Call("down", o.xy, ok)>>)
    <3>1. /\ calls' = <<Call("down", o.xy, ok)>>
          /\ os' = IF ok THEN o.xy ELSE None
      BY <1>1, <2>3, <2>5, InjectOne
    <3>2. OSContact!Press(o.xy, ok)
      BY <1>1, <2>3, <3>1, SameCall DEF OSContact!Press
    <3>. QED  BY <2>3, <3>2 DEF OSContact!Next
  <2>. QED  BY <2>1, <2>4, <2>5, InjectNone
            DEF FrameApproaches, FramePresses, FrameHovers
<1>. QED  BY <1>2, <1>3, <1>4, <1>5, <1>6 DEF Frame

\* Every step of the engine is one of the touch protocol, or leaves it alone.
LEMMA NextRefines ==
  ASSUME Inv, [Next]_vars PROVE [OSContact!Next]_(OSContact!vars)
<1>1. CASE UNCHANGED vars
  BY <1>1 DEF vars, engineVars, OSContact!vars
<1>2. CASE \E d \in Gaps : Elapse(d)
  BY <1>2, InjectNone, RestRefines DEF Elapse
<1>3. CASE \E b \in BOOLEAN : SetEnabled(b)
  BY <1>3, InjectNone, RestRefines DEF SetEnabled
<1>4. CASE \E ok \in BOOLEAN : Tick(ok) \/ ReleaseCall(ok)
  <2>1. PICK ok \in BOOLEAN : Tick(ok) \/ ReleaseCall(ok)
    BY <1>4
  <2>2. CASE Release(<<>>, ok)
    BY <2>2, ReleaseRefines
  <2>3. CASE Inject(<<>>) /\ UNCHANGED engineVars
    BY <2>3, InjectNone, RestRefines DEF engineVars
  <2>. QED  BY <2>1, <2>2, <2>3 DEF Tick, ReleaseCall
<1>5. CASE \E obs \in Views, live \in LivePanels, session \in Sessions, ok \in BOOLEAN :
             Frame(obs, live, session, ok)
  BY <1>5, FrameRefines
<1>. QED  BY <1>1, <1>2, <1>3, <1>4, <1>5 DEF Next

\* Seen from the operating system, the engine only ever makes the calls of the touch
\* protocol: DOWN, UPDATEs and UP where the last accepted call left the contact, and
\* after a refused UP nothing but UP.
THEOREM EngineImplementsTouchContract == Spec => ImplementsTouchContract
<1>1. Init => OSContact!Init
  BY DEF Init, OSContact!Init
<1>2. Inv /\ [Next]_vars => [OSContact!Next]_(OSContact!vars)
  BY NextRefines
<1>. QED  BY <1>1, <1>2, InvHolds, PTL DEF Spec, ImplementsTouchContract, OSContact!Spec

-----------------------------------------------------------------------------
(* A touch is deliberate: ContactHistory.                                  *)

\* What tlapm must know of the history's records.
StreakAges == \A id \in DOMAIN streak : streak[id].age \in 0..DebounceMs

\* The finger being debounced is one of the streaks, not for longer and at the same depth.
Followed ==
  hover # None =>
    /\ blocked = 0 /\ hover.id \in DOMAIN streak
    /\ hover.age <= streak[hover.id].age
    /\ hover.front => streak[hover.id].front
    /\ hover.z = streak[hover.id].z

HInv == Inv /\ StreakAges /\ Followed

\* A finger's streak goes on with what the frame shows of it, or begins.
LEMMA ExtendedAt ==
  ASSUME NEW obs \in Views, NEW live, NEW session, NEW o \in Candidates(obs, live)
  PROVE  LET id == IdOf(o, live, session)
             next == Extended(obs, live, session)
         IN  /\ id \in DOMAIN next
             /\ next[id].z = o.z
             /\ id \in DOMAIN streak => /\ next[id].age = streak[id].age
                                        /\ next[id].front <=> streak[id].front \/ o.z >= 16
             /\ id \notin DOMAIN streak => /\ next[id].age = 0
                                           /\ next[id].front <=> o.z >= 16
<1>. DEFINE seen == Candidates(obs, live)
            id == IdOf(o, live, session)
            Of(x) == CHOOSE c \in seen : IdOf(c, live, session) = x
            D == {IdOf(c, live, session) : c \in seen}
<1>1. id \in D
  OBVIOUS
<1>2. Of(id) \in seen /\ IdOf(Of(id), live, session) = id
  OBVIOUS
<1>3. Of(id) = o
  <2>1. Of(id).panel = o.panel /\ Of(id).hand = o.hand
    BY <1>2 DEF IdOf
  <2>2. Of(id) \in obs /\ o \in obs
    BY <1>2 DEF Candidates
  <2>. QED  BY <2>1, <2>2, FingersAssumption
<1>4. Extended(obs, live, session) =
        [x \in D |-> IF x \in DOMAIN streak
                       THEN [age |-> streak[x].age, z |-> Of(x).z,
                             front |-> streak[x].front \/ Of(x).z >= 16]
                       ELSE [age |-> 0, z |-> Of(x).z, front |-> Of(x).z >= 16]]
  BY DEF Extended
<1>. HIDE DEF D, Of, id, seen
<1>5. CASE id \in DOMAIN streak
  <2>1. Extended(obs, live, session)[id] =
          [age |-> streak[id].age, z |-> o.z, front |-> streak[id].front \/ o.z >= 16]
    BY <1>1, <1>3, <1>4, <1>5, Zenon
  <2>2. Extended(obs, live, session)[id].front <=> streak[id].front \/ o.z >= 16
    <3>. DEFINE front == streak[id].front \/ o.z >= 16
    <3>1. Extended(obs, live, session)[id] = [age |-> streak[id].age, z |-> o.z, front |-> front]
      BY <2>1
    <3>. HIDE DEF front
    <3>2. Extended(obs, live, session)[id].front = front
      BY <3>1
    <3>. QED  BY <3>2 DEF front
  <2>3. id \in DOMAIN Extended(obs, live, session)
    BY <1>1, <1>4
  <2>. QED  BY <1>5, <2>1, <2>2, <2>3 DEF id
<1>6. CASE id \notin DOMAIN streak
  <2>1. Extended(obs, live, session)[id] = [age |-> 0, z |-> o.z, front |-> o.z >= 16]
    BY <1>1, <1>3, <1>4, <1>6, Zenon
  <2>2. Extended(obs, live, session)[id].front <=> o.z >= 16
    <3>. DEFINE front == o.z >= 16
    <3>1. Extended(obs, live, session)[id] = [age |-> 0, z |-> o.z, front |-> front]
      BY <2>1
    <3>. HIDE DEF front
    <3>2. Extended(obs, live, session)[id].front = front
      BY <3>1
    <3>. QED  BY <3>2 DEF front
  <2>3. id \in DOMAIN Extended(obs, live, session)
    BY <1>1, <1>4
  <2>. QED  BY <1>6, <2>1, <2>2, <2>3 DEF id
<1>. QED  BY <1>5, <1>6 DEF id

\* The ages stay in range.
LEMMA ExtendedAges ==
  ASSUME StreakAges, NEW obs, NEW live, NEW session
  PROVE  \A id \in DOMAIN Extended(obs, live, session) :
           Extended(obs, live, session)[id].age \in 0..DebounceMs
<1>. DEFINE seen == Candidates(obs, live)
            Of(x) == CHOOSE c \in seen : IdOf(c, live, session) = x
            D == {IdOf(c, live, session) : c \in seen}
<1>1. Extended(obs, live, session) =
        [x \in D |-> IF x \in DOMAIN streak
                       THEN [age |-> streak[x].age, z |-> Of(x).z,
                             front |-> streak[x].front \/ Of(x).z >= 16]
                       ELSE [age |-> 0, z |-> Of(x).z, front |-> Of(x).z >= 16]]
  BY DEF Extended
<1>. HIDE DEF D, Of
<1>2. 0 \in 0..DebounceMs
  BY DEF DebounceMs
<1>3. ASSUME NEW id \in D PROVE Extended(obs, live, session)[id].age \in 0..DebounceMs
  <2>1. CASE id \in DOMAIN streak
    BY <1>1, <2>1 DEF StreakAges
  <2>2. CASE id \notin DOMAIN streak
    BY <1>1, <1>2, <2>2
  <2>. QED  BY <2>1, <2>2
<1>. QED  BY <1>1, <1>3

\* No call, or an accepted DOWN, is no refused DOWN.
LEMMA NoRefusedDown ==
  /\ calls' = <<>> => ~\E i \in DOMAIN calls' : IsRefusedDown(calls'[i])
  /\ \A xy : calls' = <<Call("down", xy, TRUE)>> =>
       ~\E i \in DOMAIN calls' : IsRefusedDown(calls'[i])
BY DEF IsRefusedDown, Call

\* A frame keeps the streaks, and a press in it is deliberate.
LEMMA HFrameInv ==
  ASSUME HInv, NEW obs \in Views, NEW live \in LivePanels, NEW session \in Sessions,
         NEW ok \in BOOLEAN, HFrame(obs, live, session, ok)
  PROVE  /\ HInv'
         /\ active = None /\ active' # None =>
              LET id == active'.id
              IN  /\ id \in DOMAIN streak
                  /\ streak[id].age >= DebounceMs
                  /\ streak'[id].front
                  /\ streak'[id].z <= 8
                  /\ streak'[id].z < streak[id].z
<1>. DEFINE next == Extended(obs, live, session)
            deliberate ==
              active = None /\ active' # None =>
                LET id == active'.id
                IN  /\ id \in DOMAIN streak
                    /\ streak[id].age >= DebounceMs
                    /\ streak'[id].front
                    /\ streak'[id].z <= 8
                    /\ streak'[id].z < streak[id].z
<1>1. Frame(obs, live, session, ok) /\ Inv /\ Inv'
  BY FrameInv DEF HFrame, HInv
<1>2. streak' = NoStreak \/ streak' = next
  BY DEF HFrame
<1>3. StreakAges'
  <2>1. CASE streak' = NoStreak
    BY <2>1 DEF NoStreak, StreakAges
  <2>2. CASE streak' = next
    BY <2>2, ExtendedAges DEF HInv, StreakAges
  <2>. QED  BY <1>2, <2>1, <2>2
<1>4. CASE hover' = None /\ (active = None => active' = None)
  BY <1>1, <1>3, <1>4 DEF HInv, Followed
<1>5. CASE FrameReleases(ok) \/ FrameLoses(obs, live, session, ok)
           \/ FrameDragRefused(obs, live, session, ok)
  <2>1. hover' = None /\ (active = None => active' = None)
    BY <1>5 DEF FrameReleases, FrameLoses, FrameDragRefused, Release
  <2>. QED  BY <1>4, <2>1
<1>6. CASE FrameDrags(obs, live, session) \/ FrameBlocked \/ FrameEmpty(obs, live)
  <2>1. active # None => hover = None
    BY <1>1 DEF Inv, OneAtATime
  <2>2. hover' = None /\ (active = None => active' = None)
    <3>1. CASE FrameDrags(obs, live, session)
      BY <2>1, <3>1 DEF FrameDrags
    <3>2. CASE FrameBlocked
      BY <3>2 DEF FrameBlocked, Idle, HInv, Followed
    <3>3. CASE FrameEmpty(obs, live)
      BY <3>3 DEF FrameEmpty, Idle
    <3>. QED  BY <1>6, <3>1, <3>2, <3>3
  <2>. QED  BY <1>4, <2>2
<1>7. CASE FrameFollows(obs, live, session, ok)
  <2>1. PICK o \in Nearest(Candidates(obs, live)) :
          \/ FrameApproaches(o, IdOf(o, live, session))
          \/ FramePresses(o, IdOf(o, live, session), ok)
          \/ FrameHovers(o, IdOf(o, live, session))
    BY <1>7 DEF FrameFollows
  <2>. DEFINE id == IdOf(o, live, session)
  <2>2. o \in Candidates(obs, live) /\ active = None /\ blocked = 0 /\ blocked' = 0
    BY <1>7 DEF FrameFollows, Idle, Nearest
  <2>3. o.z \in Int /\ id \in Identity /\ o.xy \in XY
    BY <2>2, IdType DEF Candidates
  <2>4. /\ id \in DOMAIN next
        /\ next[id].z = o.z
        /\ id \in DOMAIN streak => /\ next[id].age = streak[id].age
                                   /\ next[id].front <=> streak[id].front \/ o.z >= 16
        /\ id \notin DOMAIN streak => /\ next[id].age = 0
                                      /\ next[id].front <=> o.z >= 16
    BY <2>2, ExtendedAt
  <2>5. next[id].age >= 0
    <3>1. next[id].age \in 0..DebounceMs
      BY <2>4, ExtendedAges DEF HInv
    <3>. QED  BY <3>1 DEF DebounceMs
  <2>. HIDE DEF id, next
  <2>6. CASE FrameApproaches(o, id)
    <3>1. hover' = [id |-> id, age |-> 0, front |-> o.z >= 16, z |-> o.z]
          /\ active' = active /\ calls' = <<>>
      BY <2>6, InjectNone DEF FrameApproaches
    <3>2. streak' = next
      BY <2>2, <3>1, NoRefusedDown DEF HFrame, next
    <3>3. Followed'
      BY <2>2, <2>4, <2>5, <3>1, <3>2 DEF Followed
    <3>. QED  BY <1>1, <1>3, <2>2, <3>1, <3>3 DEF HInv
  <2>7. CASE FrameHovers(o, id)
    <3>1. /\ hover # None /\ hover.id = id /\ active' = active /\ calls' = <<>>
          /\ hover' = [hover EXCEPT !.front = hover.front \/ o.z >= 16, !.z = o.z]
      BY <2>7, InjectNone DEF FrameHovers, Hovering
    <3>2. streak' = next
      BY <2>2, <3>1, NoRefusedDown DEF HFrame, next
    <3>3. hover \in Hover
      BY <1>1, <3>1 DEF Inv, TypeOK
    <3>4. /\ hover'.id = id /\ hover'.age = hover.age /\ hover'.z = o.z
          /\ hover'.front <=> hover.front \/ o.z >= 16
      BY <3>1, <3>3 DEF Hover
    <3>5. /\ id \in DOMAIN streak /\ hover.age <= streak[id].age
          /\ hover.front => streak[id].front
      BY <3>1 DEF HInv, Followed
    <3>6. Followed'
      BY <2>2, <2>4, <3>2, <3>4, <3>5 DEF Followed
    <3>. QED  BY <1>1, <1>3, <2>2, <3>1, <3>6 DEF HInv
  <2>8. CASE FramePresses(o, id, ok)
    <3>1. /\ hover # None /\ hover.id = id /\ Presses(o) /\ hover' = None
          /\ calls' = <<Call("down", o.xy, ok)>>
          /\ active' = IF ok THEN [id |-> id, xy |-> o.xy] ELSE None
      BY <2>8, InjectOne DEF FramePresses, Hovering
    <3>2. CASE ~ok
      BY <1>4, <3>1, <3>2
    <3>3. CASE ok
      <4>1. streak' = next /\ active'.id = id
        BY <2>2, <3>1, <3>3, NoRefusedDown DEF HFrame, next
      <4>2. /\ id \in DOMAIN streak /\ hover.age <= streak[id].age
            /\ hover.front => streak[id].front
            /\ hover.z = streak[id].z
        BY <3>1 DEF HInv, Followed
      <4>3. hover.age \in Nat /\ streak[id].age \in Nat
        BY <1>1, <3>1, <4>2 DEF Inv, TypeOK, Hover, HInv, StreakAges, DebounceMs
      <4>4. streak[id].age >= DebounceMs
        BY <3>1, <4>2, <4>3 DEF Presses, DebounceMs
      <4>5. streak'[id].front /\ streak'[id].z <= 8 /\ streak'[id].z < streak[id].z
        BY <2>4, <3>1, <4>1, <4>2 DEF Presses
      <4>6. Followed'
        BY <3>1 DEF Followed
      <4>. QED  BY <1>1, <1>3, <4>1, <4>2, <4>4, <4>5, <4>6 DEF HInv
    <3>. QED  BY <3>2, <3>3
  <2>. QED  BY <2>1, <2>6, <2>7, <2>8 DEF id
<1>. QED  BY <1>1, <1>5, <1>6, <1>7 DEF Frame

\* Both ages grow alike.
LEMMA HElapseInv == ASSUME HInv, NEW d \in Gaps, HElapse(d) PROVE HInv'
<1>1. Inv /\ Inv' /\ d \in Nat /\ Age(d)
  BY ElapseInv, NumbersAssumption DEF HElapse, Elapse, HInv
<1>2. streak' = [id \in DOMAIN streak |->
                   [age |-> Least(streak[id].age + d, DebounceMs),
                    z |-> streak[id].z, front |-> streak[id].front]]
  BY DEF HElapse
<1>3. ASSUME NEW id \in DOMAIN streak
      PROVE  /\ streak[id].age \in 0..DebounceMs
             /\ Least(streak[id].age + d, DebounceMs) \in 0..DebounceMs
  <2>1. streak[id].age \in 0..DebounceMs
    BY DEF HInv, StreakAges
  <2>. QED  BY <1>1, <2>1 DEF Least, DebounceMs
<1>4. ASSUME NEW id \in DOMAIN streak
      PROVE  /\ streak'[id].age = Least(streak[id].age + d, DebounceMs)
             /\ streak'[id].front = streak[id].front
             /\ streak'[id].z = streak[id].z
  BY <1>2
<1>5. StreakAges'
  BY <1>2, <1>3, <1>4 DEF StreakAges
<1>6. ASSUME hover # None
      PROVE  /\ hover' # None => Followed'
  <2>. DEFINE id == hover.id
  <2>1. hover \in Hover /\ hover' = [hover EXCEPT !.age = Least(hover.age + d, DebounceMs)]
    BY <1>1, <1>6 DEF Inv, TypeOK, Age
  <2>2. /\ hover'.id = id /\ hover'.front = hover.front /\ hover'.z = hover.z
        /\ hover'.age = Least(hover.age + d, DebounceMs)
    BY <2>1 DEF Hover
  <2>3. /\ blocked = 0 /\ id \in DOMAIN streak /\ hover.age <= streak[id].age
        /\ hover.front => streak[id].front
        /\ hover.z = streak[id].z
    BY <1>6 DEF HInv, Followed
  <2>4. blocked' = 0
    BY <1>1, <2>3 DEF Age
  <2>. HIDE DEF id
  <2>5. hover'.age <= streak'[id].age
    <3>. DEFINE a == hover.age
                b == streak[id].age
    <3>1. a \in Nat /\ b \in Nat /\ a <= b
      BY <1>3, <2>1, <2>3 DEF Hover, DebounceMs
    <3>. HIDE DEF a, b
    <3>2. Least(a + d, DebounceMs) <= Least(b + d, DebounceMs)
      BY <1>1, <3>1 DEF Least, DebounceMs
    <3>. QED  BY <1>4, <2>2, <2>3, <3>2 DEF a, b
  <2>6. id \in DOMAIN streak'
    BY <1>2, <2>3
  <2>. QED  BY <1>4, <2>2, <2>3, <2>4, <2>5, <2>6 DEF Followed
<1>7. hover = None => hover' = None
  BY <1>1 DEF Age
<1>. QED  BY <1>1, <1>5, <1>6, <1>7 DEF HInv, Followed

\* A step that shows no frame: what is not released is followed as before.
LEMMA HQuietInv ==
  ASSUME HInv, Inv', UNCHANGED streak, hover' = None \/ UNCHANGED <<hover, blocked>>
  PROVE  HInv'
  BY DEF HInv, StreakAges, Followed

\* Every step of ContactHistory.
LEMMA HNextInv == ASSUME HInv, [HNext]_historyVars PROVE HInv'
<1>1. CASE UNCHANGED historyVars
  <2>1. UNCHANGED vars /\ UNCHANGED <<streak, hover, blocked>>
    BY <1>1 DEF historyVars, vars, engineVars
  <2>. QED  BY <2>1, NextInv, HQuietInv DEF HInv
<1>2. CASE \E d \in Gaps : HElapse(d)
  BY <1>2, HElapseInv
<1>3. CASE \E b \in BOOLEAN : SetEnabled(b) /\ UNCHANGED streak
  <2>1. Inv' /\ UNCHANGED <<streak, hover, blocked>>
    BY <1>3, NextInv DEF HInv, Next, SetEnabled
  <2>. QED  BY <2>1, HQuietInv
<1>4. CASE \E ok \in BOOLEAN : (Tick(ok) \/ ReleaseCall(ok)) /\ UNCHANGED streak
  <2>1. Inv' /\ UNCHANGED streak
    BY <1>4, TickInv, ReleaseCallInv DEF HInv
  <2>2. hover' = None \/ UNCHANGED <<hover, blocked>>
    BY <1>4 DEF Tick, ReleaseCall, Release, engineVars
  <2>. QED  BY <2>1, <2>2, HQuietInv
<1>5. CASE \E obs \in Views, live \in LivePanels, session \in Sessions, ok \in BOOLEAN :
             HFrame(obs, live, session, ok)
  BY <1>5, HFrameInv
<1>. QED  BY <1>1, <1>2, <1>3, <1>4, <1>5 DEF HNext

\* Only a frame makes a contact.
LEMMA PressIsDeliberate ==
  ASSUME HInv, [HNext]_historyVars, active = None, active' # None
  PROVE  LET id == active'.id
         IN  /\ id \in DOMAIN streak
             /\ streak[id].age >= DebounceMs
             /\ streak'[id].front
             /\ streak'[id].z <= 8
             /\ streak'[id].z < streak[id].z
<1>1. PICK obs \in Views, live \in LivePanels, session \in Sessions, ok \in BOOLEAN :
        HFrame(obs, live, session, ok)
  BY DEF HNext, historyVars, vars, engineVars, HElapse, Elapse, SetEnabled, Tick, ReleaseCall,
         Release
<1>. QED  BY <1>1, HFrameInv

\* What every debounced finger was seen to do, with any number of hands, panels, revisions
\* and sessions.
THEOREM HoverIsFollowed == HSpec => []HInv
<1>1. HInit => HInv
  BY InitInv DEF HInit, Init, HInv, StreakAges, Followed, NoStreak
<1>2. HInv /\ [HNext]_historyVars => HInv'
  BY HNextInv
<1>. QED  BY <1>1, <1>2, PTL DEF HSpec

\* A touch begins only with one finger that stayed a candidate for 30 ms, was in front of the
\* panel and comes closer (interaction.py:95-101).
THEOREM TouchesAreDeliberate == HSpec => TouchIsDeliberate
<1>1. HInv /\ [HNext]_historyVars =>
        [active = None /\ active' # None =>
           LET id == active'.id
           IN  /\ id \in DOMAIN streak
               /\ streak[id].age >= DebounceMs
               /\ streak'[id].front
               /\ streak'[id].z <= 8
               /\ streak'[id].z < streak[id].z]_historyVars
  BY PressIsDeliberate
<1>. QED  BY <1>1, HoverIsFollowed, PTL DEF HSpec, TouchIsDeliberate
=============================================================================
