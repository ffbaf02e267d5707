------------------------------- MODULE PoseGate -------------------------------
(***************************************************************************)
(* The diagnostic pose channel: runs of the replay tool that share one     *)
(* pairing (tools/replay-tool/replay.py), UDP, and the viewer              *)
(* (tools/packet-viewer/receive.py) around the PoseGate of                 *)
(* shared/protocol/pose_packet.py.                                         *)
(*                                                                         *)
(* A packet that was sent may arrive at any time, more than once or never. *)
(* A datagram that is refused for its length, its tag or its fields, its   *)
(* processing age included, costs the viewer an iteration and changes      *)
(* nothing else: Refuse stands for it.  Runs follow one another, each may  *)
(* be killed before its last packet.                                       *)
(***************************************************************************)
EXTENDS Integers, FiniteSets

CONSTANTS Modulus,   \* sequence numbers, 2^32 in the code
          Frames,    \* TRACKING samples of one run, before its PAUSED
          MaxRuns,   \* bound on the runs
          Starts,    \* --start-sequence
          Ticks,     \* how far the sender's clock moves between two samples
          Timeout,   \* freshness_timeout, at most 150 ms
          Gaps,      \* milliseconds that pass in one step
          Batch,     \* datagrams drained in one pass, 256 in the code
          None

ASSUME ModulusAssumption == Modulus \in Nat \ {0} /\ Modulus % 2 = 0
ASSUME RunAssumption == Frames \in Nat /\ Frames >= 2 /\ MaxRuns \in Nat /\ Frames < Modulus \div 2
ASSUME InputAssumption == Starts \subseteq 0..(Modulus - 1) /\ Ticks \subseteq Nat
ASSUME TimeAssumption == Timeout \in 1..150 /\ Gaps \subseteq Nat /\ Batch \in Nat \ {0}

PrintGap == 100 \* current - last_print >= 0.1

VARIABLES
  run, index,      \* the run of the sender, the next sample of it
  first,           \* history: start_sequence of each run
  clock, stamped,  \* the sender's monotonic clock, last_stamp
  network,         \* packets sent
  latest, tracking, age, \* PoseGate; age is the time since last_received_ns
  pc, drained, changed, previous, \* run_receiver: place, datagrams of this pass, its locals
  printed,         \* time since last_print
  told, lost       \* the last pose or loss emitted, losses emitted

senderVars == <<run, index, first, clock, stamped, network>>
gateVars == <<latest, tracking, age>>
emitted == <<printed, told, lost>>
viewerVars == <<pc, drained, changed, previous, emitted>>
vars == <<senderVars, gateVars, viewerVars>>

Capped(x, bound) == IF x < bound THEN x ELSE bound
Later(x, y) == IF x < y THEN y ELSE x

Init ==
  /\ run = 0 /\ index = 0 /\ first = [r \in 1..MaxRuns |-> None]
  /\ clock = 1 /\ stamped = 0 /\ network = {}
  /\ latest = None /\ tracking = FALSE /\ age = 0
  /\ pc = "top" /\ drained = 0 /\ changed = FALSE /\ previous = FALSE
  /\ printed = PrintGap /\ told = "nothing" /\ lost = 0

-----------------------------------------------------------------------------
(* The sender.  A new process starts after the clock has passed every stamp *)
(* of the one before: a stamp runs ahead of a coarse clock by nanoseconds.  *)

StartRun(start) ==
  /\ run < MaxRuns
  /\ run' = run + 1 /\ index' = 0
  /\ first' = [first EXCEPT ![run + 1] = start]
  /\ clock' = Later(clock, stamped) + 1
  /\ stamped' = 0
  /\ UNCHANGED <<network, gateVars, viewerVars>>

Stamp(time, last) == Later(time, last + 1)

Number(start, i) == (start + i) % Modulus

\* One sample: TRACKING, or PAUSED after the last one.
SendSample(tick) ==
  /\ run > 0 /\ index <= Frames
  /\ clock' = clock + tick
  /\ stamped' = Stamp(clock + tick, stamped)
  /\ network' = network \cup
       {[run |-> run, index |-> index, tracking |-> index < Frames,
         sequence |-> Number(first[run], index), stamp |-> stamped']}
  /\ index' = index + 1
  /\ UNCHANGED <<run, first, gateVars, viewerVars>>

-----------------------------------------------------------------------------
(* PoseGate. *)

\* Mutant: a comparison that forgets the wrap.
NewerUnwrapped(sequence, before) == sequence > before

\* Mutant: the same number again is as good as a newer one.
NewerOrSame(sequence, before) == (sequence - before) % Modulus < Modulus \div 2

\* sequence_is_newer: exactly half the range is ambiguous, and refused.
Newer(sequence, before) ==
  LET delta == (sequence - before) % Modulus IN 0 < delta /\ delta < Modulus \div 2

\* Mutant: the number alone decides.
AcceptableByNumber(p, before) == before # None => Newer(p.sequence, before.sequence)

\* What accept requires of an authentic packet of the session.
Acceptable(p, before) ==
  before # None => Newer(p.sequence, before.sequence) /\ p.stamp > before.stamp

Expired == tracking /\ age >= Timeout

Lose ==
  /\ tracking' = FALSE
  /\ told' = "lost" /\ lost' = lost + 1

\* gate.expire() and the event its result calls for
Expire ==
  /\ IF Expired THEN Lose ELSE UNCHANGED <<tracking, told, lost>>
  /\ UNCHANGED <<senderVars, latest, age, printed>>

-----------------------------------------------------------------------------
(* The viewer's loop. *)

At(here, there) == pc = here /\ pc' = there

\* No stop event, not yet the end of the duration: wait for a datagram or the next deadline.
Poll ==
  /\ At("top", "selected")
  /\ UNCHANGED <<senderVars, gateVars, drained, changed, previous, emitted>>

Select(ready) ==
  /\ At("selected", IF ready THEN "drain" ELSE "drained")
  /\ Expire
  /\ drained' = 0 /\ changed' = FALSE /\ previous' = tracking'

\* Mutant: a datagram refreshes the watchdog before it is checked.
RefuseRefreshing ==
  /\ At("drain", "drain") /\ drained < Batch
  /\ drained' = drained + 1 /\ age' = 0
  /\ UNCHANGED <<senderVars, latest, tracking, changed, previous, emitted>>

\* One datagram that the socket or the gate refuses.
Refuse ==
  /\ At("drain", "drain") /\ drained < Batch
  /\ drained' = drained + 1
  /\ UNCHANGED <<senderVars, gateVars, changed, previous, emitted>>

\* Mutant: what was tracked is looked up once for the whole batch.
AcceptStale(p) ==
  /\ At("drain", "drain") /\ drained < Batch
  /\ Acceptable(p, latest)
  /\ latest' = p /\ tracking' = p.tracking /\ age' = 0
  /\ drained' = drained + 1 /\ changed' = TRUE
  /\ IF ~p.tracking /\ previous
       THEN told' = "lost" /\ lost' = lost + 1
       ELSE UNCHANGED <<told, lost>>
  /\ UNCHANGED <<senderVars, printed, previous>>

Accept(p) ==
  /\ At("drain", "drain") /\ drained < Batch
  /\ Acceptable(p, latest)
  /\ latest' = p /\ tracking' = p.tracking /\ age' = 0
  /\ drained' = drained + 1 /\ changed' = TRUE
  /\ IF ~p.tracking /\ previous
       THEN told' = "lost" /\ lost' = lost + 1
       ELSE UNCHANGED <<told, lost>>
  /\ previous' = tracking'
  /\ UNCHANGED <<senderVars, printed>>

\* The socket is empty, or the pass has drained its share.
Drained ==
  /\ At("drain", "drained")
  /\ UNCHANGED <<senderVars, gateVars, drained, changed, previous, emitted>>

ExpireAgain ==
  /\ At("drained", "print")
  /\ Expire
  /\ UNCHANGED <<drained, changed, previous>>

\* Mutant: the state of the packet is shown, not the state of the gate.
ShownAsReceived == IF latest # None /\ latest.tracking THEN "tracking" ELSE "paused"

\* The state that a pose is shown with.
Shown == IF tracking THEN "tracking" ELSE "paused"

Report ==
  /\ At("print", "top")
  /\ IF changed /\ (~tracking \/ printed >= PrintGap)
       THEN told' = Shown /\ printed' = 0
       ELSE UNCHANGED <<told, printed>>
  /\ UNCHANGED <<senderVars, gateVars, drained, changed, previous, lost>>

\* The stop event, or the end of the duration.
Stop ==
  /\ At("top", "stopped")
  /\ IF tracking THEN Lose ELSE UNCHANGED <<tracking, told, lost>>
  /\ UNCHANGED <<senderVars, latest, age, drained, changed, previous, printed>>

\* Ctrl-C, or an error of the socket other than an oversized datagram.
Fail ==
  /\ pc \notin {"stopped", "failed"}
  /\ pc' = "failed"
  /\ UNCHANGED <<senderVars, gateVars, drained, changed, previous, emitted>>

\* Time passes for the viewer.
Elapse(gap) ==
  /\ age' = Capped(age + gap, Timeout)
  /\ printed' = Capped(printed + gap, PrintGap)
  /\ UNCHANGED <<senderVars, latest, tracking, pc, drained, changed, previous, told, lost>>

Loop ==
  \/ Poll \/ Refuse \/ Drained \/ ExpireAgain \/ Report
  \/ \E ready \in BOOLEAN : Select(ready)
  \/ \E p \in network : Accept(p)

Next ==
  \/ \E start \in Starts : StartRun(start)
  \/ \E tick \in Ticks : SendSample(tick)
  \/ Loop \/ Stop \/ Fail
  \/ \E gap \in Gaps : Elapse(gap)

Spec == Init /\ [][Next]_vars

\* The viewer's thread is scheduled and its clock runs; nothing is asked of sender or network.
FairSpec ==
  /\ Spec
  /\ WF_<<pc, drained>>(Loop)
  /\ \A gap \in Gaps : WF_vars(Elapse(gap))

-----------------------------------------------------------------------------
Packet ==
  [run : 1..MaxRuns, index : 0..Frames, tracking : BOOLEAN,
   sequence : 0..(Modulus - 1), stamp : Nat]

\* The fields of both programs.
\* Besides the types: the viewer never stands at a pose shown as tracking when tracking has
\* ended (receive.py:83-90), not even one that expired between its arrival and its line.
TypeOK ==
  /\ run \in 0..MaxRuns /\ index \in 0..(Frames + 1)
  /\ first \in [1..MaxRuns -> Starts \cup {None}]
  /\ clock \in Nat /\ stamped \in Nat
  /\ network \subseteq Packet
  /\ latest \in Packet \cup {None} /\ tracking \in BOOLEAN /\ age \in 0..Timeout
  /\ pc \in {"top", "selected", "drain", "drained", "print", "stopped", "failed"}
  /\ drained \in 0..Batch /\ changed \in BOOLEAN /\ previous \in BOOLEAN
  /\ printed \in 0..PrintGap /\ told \in {"nothing", "tracking", "paused", "lost"}
  /\ lost \in Nat
  /\ told = "tracking" => tracking

\* Poses are accepted in the order they were taken, across the wrap of the sequence numbers
\* and across a restart of the sender with any start sequence (pose_packet.py:163-167): a
\* packet of the run before, delayed, may have the newer number.
AcceptedInOrder ==
  [][latest # None /\ latest' # latest =>
       \/ latest'.run > latest.run
       \/ latest'.run = latest.run /\ latest'.index > latest.index]_vars

\* Within a run no later pose is refused, whatever was lost between and wherever the numbers
\* wrap: the two checks of the gate never turn against the sender's own order, a clock that
\* did not move between two samples included (pose_packet.py:128-131, replay.py:46-47).
LaterIsAcceptable ==
  \A p \in network :
    latest # None /\ p.run = latest.run /\ p.index > latest.index => Acceptable(p, latest)

\* After the PAUSED that ends a run, the same replay started again with the same pairing is
\* not taken for its continuation ("a sender restart must create a fresh key and session",
\* pose_packet.py:138).
RestartRefused ==
  [][latest # None /\ latest' # latest /\ ~latest.tracking
       => first[latest'.run] # first[latest.run]]_vars

\* Every end of tracking is reported, once, when it happens and never otherwise: by time, by
\* the sender, within one batch, or by the end of the viewer (receive.py:54-56, 80-84, 102).
EveryLossReported == [][tracking /\ ~tracking' <=> lost' # lost]_vars

\* Tracking ends when the sender falls silent, however many datagrams of others, repeated or
\* late ones are refused meanwhile: they neither keep the watchdog from running (receive.py:59)
\* nor from expiring.  Only a viewer that fails leaves it so.
TrackingEnds == []<>(~tracking \/ pc = "failed")

=============================================================================
