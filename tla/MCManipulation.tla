---------------------------- MODULE MCManipulation ----------------------------
(* Bounded inputs for Manipulation. *)
EXTENDS Manipulation

\* A command 500 ms old is still accepted by the adapter, while the bridge, which counts from
\* before the file was written, has just given it up.
MCGaps == {500}
MCLags == {1}
=============================================================================
