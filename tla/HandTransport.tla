---------------------------- MODULE HandTransport ----------------------------
(***************************************************************************)
(* Hand packets from the phone to the bridge: the HandSender instances of  *)
(* one pairing (android-client/.../xr/HandSender.java), the threads that   *)
(* use them (XrController.java), UDP, and the Receiver of the bridge       *)
(* (windows-bridge/phonexr_bridge/protocol.py).                            *)
(*                                                                         *)
(* A packet that was sent may arrive at any time, more than once or never. *)
(* The phone's process may die at any step, and the phone may reboot,      *)
(* which restarts its clock.  A pairing ends with the bridge's process, so *)
(* the bridge does not restart here.                                       *)
(***************************************************************************)
EXTENDS Integers, Sequences, FiniteSets

CONSTANTS Block,       \* numbers reserved at a time, 1024 in the code
          MaxNumber,   \* the last number, Long.MAX_VALUE in the code
          Senders,     \* 1..n: HandSender instances, in the order of their creation
          Ages,        \* milliseconds from capture to onHands
          Gaps,        \* milliseconds that pass in one step
          MaxTime,     \* bound on the bridge's clock
          MaxPackets,  \* bound on packets sent
          None

ASSUME BlockAssumption == Block \in Nat \ {0} /\ MaxNumber \in Nat
ASSUME SendersAssumption == Senders \subseteq Nat \ {0}
ASSUME TimeAssumption == Ages \subseteq Nat /\ Gaps \subseteq Nat /\ MaxTime \in Nat
ASSUME PacketsAssumption == MaxPackets \in Nat
ASSUME NoneAssumption == None \notin Int

MaxAge == 150 \* age<=150, and offset - baseline + age > 150

VARIABLES
  uptime, now,   \* elapsedRealtime of the phone, monotonic clock of the bridge
  stored,        \* xr-counters: the first number not reserved
  sender,        \* the instances
  current,       \* XrController.sender, or None
  closing,       \* the instance the UI thread closes, or None
  network,       \* packets sent
  sequence, lastSent, offset, \* the Receiver
  heard          \* history: the packets accepted, with the delay of each

phoneVars == <<uptime, stored, sender, current, closing>>
receiverVars == <<sequence, lastSent, offset, heard>>
vars == <<phoneVars, network, now, receiverVars>>

Unborn == [state |-> "unborn", next |-> 0, limit |-> 0, pending |-> None, item |-> None,
           closed |-> FALSE]
Least(a, b) == IF a < b THEN a ELSE b

Init ==
  /\ uptime = 0 /\ now = 0 /\ stored = 0
  /\ sender = [s \in Senders |-> Unborn]
  /\ current = None /\ closing = None
  /\ network = {}
  /\ sequence = -1 /\ lastSent = -1 /\ offset = None /\ heard = <<>>

\* An observation without hands; nobody looks at the time of its capture.
Empty == [hands |-> FALSE, capture |-> 0]
Elsewhere == UNCHANGED <<network, now, receiverVars>>

-----------------------------------------------------------------------------
(* The UI thread.                                                          *)

\* A new instance, from the settings or from the stored pairing.  If the pairing cannot be
\* saved the instance is closed again, otherwise the one it replaces is.
Pair(s, saved) ==
  /\ closing = None
  /\ sender[s].state = "unborn" /\ \A r \in Senders : r < s => sender[r].state # "unborn"
  /\ sender' = [sender EXCEPT ![s].state = "live"]
  /\ current' = IF saved THEN s ELSE current
  /\ LET unwanted == IF saved THEN current ELSE s
     IN  closing' = IF unwanted = None THEN None ELSE [of |-> unwanted, emptied |-> FALSE]
  /\ UNCHANGED <<uptime, stored>> /\ Elsewhere

\* close(): the last observation is an empty one, then no more are taken.
CloseEmpties ==
  /\ closing # None /\ ~closing.emptied
  /\ closing' = [closing EXCEPT !.emptied = TRUE]
  /\ sender' = [sender EXCEPT ![closing.of].pending = Empty]
  /\ UNCHANGED <<uptime, stored, current>> /\ Elsewhere

CloseFlags ==
  /\ closing # None /\ closing.emptied
  /\ closing' = None
  /\ sender' = [sender EXCEPT ![closing.of].closed = TRUE]
  /\ UNCHANGED <<uptime, stored, current>> /\ Elsewhere

Pause ==
  /\ closing = None /\ current # None /\ ~sender[current].closed
  /\ sender' = [sender EXCEPT ![current].pending = Empty]
  /\ UNCHANGED <<uptime, stored, current, closing>> /\ Elsewhere

-----------------------------------------------------------------------------
(* The tracker's callback: onHands and send.                               *)

\* The callback holds the current instance, or the one just replaced.
Held(s) ==
  \/ s = current
  \/ closing # None /\ closing.of = s /\ current # None /\ s < current

\* The test of closed and the write are two steps in the code; a write that comes after the
\* flag is one that comes before a later flag here, which no worker can tell apart.
Send(s, observation) ==
  /\ sender[s].state = "live" /\ Held(s) /\ ~sender[s].closed
  /\ sender' = [sender EXCEPT ![s].pending = observation]
  /\ UNCHANGED <<uptime, stored, current, closing>> /\ Elsewhere

-----------------------------------------------------------------------------
(* The worker of an instance.                                              *)

WorkerStep(s) ==
  sender[s].state = "live" /\ UNCHANGED <<uptime, current, closing, now, receiverVars>>

\* Mutant: the age is not looked at.
StampedUnchecked(observation) ==
  [sent |-> uptime, age |-> uptime - observation.capture]

\* The newest observation is taken; one that is too old becomes an empty one.  What a packet
\* holds matters here only through its age, 0 for an empty one.
Stamped(observation) ==
  LET age == uptime - observation.capture
  IN  [sent |-> uptime,
       age |-> IF observation.hands /\ 0 <= age /\ age <= MaxAge THEN age ELSE 0]

Stamp(s) ==
  /\ WorkerStep(s)
  /\ sender[s].item = None /\ sender[s].pending # None
  /\ sender' = [sender EXCEPT ![s].pending = None, ![s].item = Stamped(sender[s].pending)]
  /\ UNCHANGED <<stored, network>>

\* Mutant: the block is used and not stored.
ReserveUnstored(s) ==
  /\ WorkerStep(s)
  /\ sender[s].item # None /\ sender[s].next = sender[s].limit
  /\ stored <= MaxNumber - Block
  /\ sender' = [sender EXCEPT ![s].next = stored, ![s].limit = stored + Block]
  /\ UNCHANGED <<stored, network>>

\* sequence(): numbers are used only after the block they are from is stored.
Reserve(s) ==
  /\ WorkerStep(s)
  /\ sender[s].item # None /\ sender[s].next = sender[s].limit
  /\ stored <= MaxNumber - Block
  /\ stored' = stored + Block
  /\ sender' = [sender EXCEPT ![s].next = stored, ![s].limit = stored']
  /\ UNCHANGED network

Packet(s) ==
  [seq |-> sender[s].next, sent |-> sender[s].item.sent, age |-> sender[s].item.age,
   from |-> s, at |-> now - (uptime - sender[s].item.sent)]

Emit(s) ==
  /\ WorkerStep(s)
  /\ sender[s].item # None /\ sender[s].next # sender[s].limit
  /\ Cardinality(network) < MaxPackets
  /\ network' = network \cup {Packet(s)}
  /\ sender' = [sender EXCEPT ![s].next = @ + 1, ![s].item = None]
  /\ UNCHANGED stored

Ended == [Unborn EXCEPT !.state = "ended", !.closed = TRUE]

\* An exception: the numbers are used up, or storing or sending failed.
Fail(s) ==
  /\ WorkerStep(s)
  /\ sender[s].item # None
  /\ sender' = [sender EXCEPT ![s] = Ended]
  /\ UNCHANGED <<stored, network>>

End(s) ==
  /\ WorkerStep(s)
  /\ sender[s].closed /\ sender[s].pending = None /\ sender[s].item = None
  /\ sender' = [sender EXCEPT ![s] = Ended]
  /\ UNCHANGED <<stored, network>>

-----------------------------------------------------------------------------
\* The process dies; what it stored and what it sent stays.
Die(reboot) ==
  /\ sender' = [s \in Senders |-> IF sender[s].state = "live" THEN Ended
                                  ELSE sender[s]]
  /\ current' = None /\ closing' = None
  /\ uptime' = IF reboot THEN 0 ELSE uptime
  /\ UNCHANGED stored /\ Elsewhere

Elapse(d) ==
  /\ now + d <= MaxTime
  /\ now' = now + d /\ uptime' = uptime + d
  /\ UNCHANGED <<stored, sender, current, closing, network, receiverVars>>

-----------------------------------------------------------------------------
(* The bridge: decode.                                                     *)

\* Mutant: the estimate follows the last packet.
BaselineLatest(p) == now - p.sent

Baseline(p) == IF offset = None THEN now - p.sent ELSE Least(now - p.sent, offset)

\* Mutant: the time of sending is not compared.
AcceptsAnyTime(p) ==
  p.seq > sequence /\ now - p.sent - Baseline(p) + p.age <= MaxAge

Accepts(p) ==
  /\ p.seq > sequence
  /\ p.sent >= lastSent
  /\ now - p.sent - Baseline(p) + p.age <= MaxAge

\* A packet that is not accepted changes nothing.
Receive(p) ==
  /\ Accepts(p)
  /\ sequence' = p.seq /\ lastSent' = p.sent /\ offset' = Baseline(p)
  /\ heard' = Append(heard, [packet |-> p, delay |-> now - p.at])
  /\ UNCHANGED <<phoneVars, network, now>>

Next ==
  \/ \E s \in Senders :
       \/ \E saved \in BOOLEAN : Pair(s, saved)
       \/ Stamp(s) \/ Reserve(s) \/ Emit(s) \/ Fail(s) \/ End(s)
       \/ Send(s, Empty)
       \/ \E age \in Ages : age <= uptime /\ Send(s, [hands |-> TRUE, capture |-> uptime - age])
  \/ CloseEmpties \/ CloseFlags \/ Pause
  \/ \E reboot \in BOOLEAN : Die(reboot)
  \/ \E d \in Gaps : Elapse(d)
  \/ \E p \in network : Receive(p)

Spec == Init /\ [][Next]_vars

-----------------------------------------------------------------------------
Numbers == 0..MaxNumber
Times == 0..MaxTime

Observation == [hands : BOOLEAN, capture : Times]
Item == [sent : Times, age : 0..MaxAge]
Sender == [state : {"unborn", "live", "ended"}, next : Numbers, limit : Numbers,
           pending : Observation \cup {None}, item : Item \cup {None}, closed : BOOLEAN]
PacketType ==
  [seq : Numbers, sent : Times, age : 0..MaxAge, from : Senders, at : Times]

\* The fields of both programs.
TypeOK ==
  /\ uptime \in Times /\ now \in Times /\ stored \in Numbers
  /\ sender \in [Senders -> Sender]
  /\ current \in Senders \cup {None}
  /\ closing \in [of : Senders, emptied : BOOLEAN] \cup {None}
  /\ network \subseteq PacketType
  /\ sequence \in Numbers \cup {-1} /\ lastSent \in Times \cup {-1}
  /\ offset \in -MaxTime..MaxTime \cup {None}
  /\ heard \in Seq([packet : PacketType, delay : Times])

\* No number is used twice for one pairing, by two instances at the same time or after any
\* restart (docs/HAND_PROTOCOL.md:17, HandSender.java:66-74): the receiver would take the
\* second packet for a replay.
NumbersAreUnique == \A p, q \in network : p.seq = q.seq => p = q

\* What the bridge accepts was sent in that order and not twice, whichever instance sent it
\* and whatever the network and the phone's clock did in between (protocol.py:31-36).
HeardInOrder ==
  \A i, j \in DOMAIN heard :
    i < j => /\ heard[i].packet # heard[j].packet
             /\ heard[i].packet.at <= heard[j].packet.at

\* Hands are accepted only if their age and the time they travelled exceed the time of every
\* packet heard before, the fastest included, by at most 150 ms: the estimate from two
\* unrelated clocks is on the safe side, a reboot of the phone included (protocol.py:37-40,
\* docs/HAND_PROTOCOL.md:21).
HeardFresh ==
  \A i \in DOMAIN heard :
    \A j \in 1..i : heard[i].delay + heard[i].packet.age - heard[j].delay <= MaxAge
=============================================================================
