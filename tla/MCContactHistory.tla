--------------------------- MODULE MCContactHistory ---------------------------
(* Bounded inputs for ContactHistory. *)
EXTENDS ContactHistory, FiniteSetsExt

\* In contact, at the press threshold, in front, too far away.
MCDepths == {-10, 8, 16, 81}

\* One millisecond short of the debounce time, and past the watchdog.
MCGaps == {29, 151}

\* Frames that show no fingertip, one, or one of each hand, both candidates at one
\* location; the window check refuses a location at the press threshold only, where it
\* matters to an approach, to a press and to a drag.
MCViews ==
  LET shown == {o \in Observation : o.valid \/ o.z = 8}
      near == {o \in shown : o.valid /\ o.z < 81}
  IN  {{}} \cup {{o} : o \in shown} \cup
      {v \in kSubset(2, near) : \A a, b \in v : a.xy = b.xy /\ (a.hand = b.hand => a = b)}
=============================================================================
