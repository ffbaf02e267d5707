------------------------------ MODULE MCPoseGate ------------------------------
(* Bounded inputs for PoseGate. *)
EXTENDS PoseGate

\* Numbers are modulo 8.  A run from 6 wraps, and delayed it is newer than a run from 2.
MCStarts == {2, 6}

\* A clock that stands still between two samples, and one that moves.
MCTicks == {0, 1}

\* Two steps reach the timeout, one reaches the printing interval.
MCGaps == {100}
===============================================================================
