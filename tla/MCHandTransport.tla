--------------------------- MODULE MCHandTransport ---------------------------
(* Bounded inputs for HandTransport. *)
EXTENDS HandTransport

MCSenders == 1..2

\* One step is within the 150 ms, two are not, whether age, delay or both.
MCGaps == {100}
MCAges == {0}
=============================================================================
