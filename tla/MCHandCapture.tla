----------------------------- MODULE MCHandCapture -----------------------------
(* Bounded inputs for HandCapture. *)
EXTENDS HandCapture

On == [enabled |-> TRUE, hands |-> TRUE, show |-> TRUE]

\* Each switch off.
MCSettings == {On, [On EXCEPT !.enabled = FALSE], [On EXCEPT !.hands = FALSE, !.show = FALSE]}

\* The best and the worst latency whose image is still fresh.
MCLatencies == {0, 150}

\* Once is fresh, twice is not.
MCGaps == {149}
=============================================================================
