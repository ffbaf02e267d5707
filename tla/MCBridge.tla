------------------------------- MODULE MCBridge -------------------------------
(* Bounded inputs for Bridge. *)
EXTENDS Bridge, FiniteSetsExt, SequencesExt

\* In contact range, and in front of the panel.
MCDepths == {0, 16}

\* Twice within the watchdog's 150 ms, and past it.
MCGaps == {75, 151}

\* No fingertip, or one at a location the window check accepts or refuses.
MCViews == {{}} \cup {{o} : o \in {p \in Observation : p.valid \/ p.z = 0}}

\* Any panels, at any revision.
MCSnapshots == [session : Sessions, live : LivePanels]

\* One frame, or two of which the first is dropped.
MCBatches == {<<v>> : v \in Views} \cup {<<{}, v>> : v \in Views}
=============================================================================
