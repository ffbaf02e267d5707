-------------------------- MODULE HandTransportProofs --------------------------
(***************************************************************************)
(* The safety invariants of HandTransport, for any number of instances,    *)
(* block size, age and clock bound.                                        *)
(*                                                                         *)
(* Uniqueness rests on the blocks: those of two instances have no number   *)
(* in common, and no packet has a number that is still in a block.  Order  *)
(* and freshness rest on Boot, the bridge's time at which the phone that   *)
(* sent a packet was started: it never decreases along the numbers, since  *)
(* a reboot ends every instance and with it every block reserved before.   *)
(***************************************************************************)
EXTENDS HandTransport, TLAPS

Boot(p) == p.at - p.sent

\* The conjuncts of TypeOK, by owner; an observation being sent is not from the future.
PhoneTypes ==
  /\ uptime \in Times /\ now \in Times /\ stored \in Numbers
  /\ current \in Senders \cup {None}
  /\ closing \in [of : Senders, emptied : BOOLEAN] \cup {None}
  /\ uptime <= now
SenderTypes == sender \in [Senders -> Sender]
WireTypes == network \subseteq PacketType
ReceiverTypes ==
  /\ sequence \in Numbers \cup {-1} /\ lastSent \in Times \cup {-1}
  /\ offset \in -MaxTime..MaxTime \cup {None}
  /\ heard \in Seq([packet : PacketType, delay : Times])

\* Only a live instance has an item or a block.
Items ==
  \A s \in Senders :
    /\ sender[s].item # None => sender[s].item.sent <= uptime
    /\ sender[s].state # "live" =>
         sender[s].item = None /\ sender[s].next = 0 /\ sender[s].limit = 0

Blocks ==
  /\ \A s \in Senders : sender[s].next <= sender[s].limit /\ sender[s].limit <= stored
  /\ \A r, s \in Senders :
       r # s => sender[r].limit <= sender[s].next \/ sender[s].limit <= sender[r].next

\* What a packet's number and times say while the phone goes on.
Sent ==
  \A p \in network :
    /\ p.seq < stored
    /\ p.sent <= p.at /\ p.at <= now
    /\ Boot(p) <= now - uptime
    /\ \A s \in Senders :
         /\ p.seq < sender[s].next \/ sender[s].limit <= p.seq
         /\ sender[s].next < sender[s].limit /\ sender[s].next <= p.seq =>
              Boot(p) = now - uptime

BootsInOrder == \A p, q \in network : p.seq < q.seq => Boot(p) <= Boot(q)

Heard ==
  \A i \in DOMAIN heard :
    LET p == heard[i].packet
    IN  /\ p \in network
        /\ p.seq <= sequence /\ p.sent <= lastSent
        /\ offset # None /\ offset <= heard[i].delay + Boot(p)

\* In the order of the numbers, no start of the phone is earlier than the one before.
HeardPairs ==
  \A i, j \in DOMAIN heard :
    i < j => /\ heard[i].packet.seq < heard[j].packet.seq
             /\ heard[i].packet.sent <= heard[j].packet.sent

HeardDelays ==
  \A i \in DOMAIN heard :
    \A j \in 1..i :
      (heard[i].delay + Boot(heard[i].packet)) + heard[i].packet.age
        <= (heard[j].delay + Boot(heard[j].packet)) + MaxAge

Phone == PhoneTypes /\ SenderTypes /\ Items
Wire == WireTypes /\ Blocks /\ Sent /\ NumbersAreUnique /\ BootsInOrder
Bridge == ReceiverTypes /\ Heard /\ HeardPairs /\ HeardDelays
IInv == Phone /\ Wire /\ Bridge

-----------------------------------------------------------------------------
\* The invariant contains the types.
LEMMA TypesOfIInv == IInv => TypeOK
BY DEF IInv, Phone, Wire, Bridge, PhoneTypes, SenderTypes, WireTypes, ReceiverTypes, TypeOK

\* It holds initially.
LEMMA InitInv == Init => IInv
<1>. SUFFICES ASSUME Init PROVE IInv
  OBVIOUS
<1>. USE DEF Init
<1>1. Phone
  <2>1. Unborn \in Sender
    BY BlockAssumption DEF Unborn, Sender, Numbers
  <2>2. SenderTypes
    BY <2>1 DEF SenderTypes
  <2>3. Items
    BY DEF Items, Unborn
  <2>4. PhoneTypes
    BY TimeAssumption, BlockAssumption DEF PhoneTypes, Times, Numbers
  <2>. QED  BY <2>2, <2>3, <2>4 DEF Phone
<1>2. Wire
  BY DEF Wire, WireTypes, Blocks, Sent, NumbersAreUnique, BootsInOrder, Unborn
<1>3. Bridge
  BY DEF Bridge, ReceiverTypes, Heard, HeardPairs, HeardDelays
<1>. QED  BY <1>1, <1>2, <1>3 DEF IInv

-----------------------------------------------------------------------------
(* The phone's steps that neither reserve, send nor end anything.          *)

\* Steps that leave the numbers of every instance alone.
KeepsNumbers ==
  /\ \A s \in Senders : sender'[s].next = sender[s].next /\ sender'[s].limit = sender[s].limit
  /\ UNCHANGED <<uptime, stored>> /\ Elsewhere

\* A step that keeps the numbers disturbs neither the packets nor the bridge.
LEMMA KeepsNumbersInv == ASSUME IInv, KeepsNumbers PROVE Wire' /\ Bridge'
<1>1. Wire'
  BY DEF IInv, Wire, KeepsNumbers, Elsewhere, WireTypes, Blocks, Sent, NumbersAreUnique,
         BootsInOrder, Boot
<1>2. Bridge'
  BY DEF IInv, Bridge, KeepsNumbers, Elsewhere, receiverVars, ReceiverTypes, Heard, HeardPairs,
         HeardDelays, Boot
<1>. QED  BY <1>1, <1>2

\* The observation that there are no hands.
LEMMA ObservationTypes == ASSUME IInv PROVE Empty \in Observation
BY TimeAssumption DEF Empty, Observation, Times

\* A step of the UI thread preserves it.
LEMMA UiInv ==
  ASSUME IInv,
         \/ \E s \in Senders, saved \in BOOLEAN : Pair(s, saved)
         \/ CloseEmpties \/ CloseFlags \/ Pause
  PROVE  IInv'
<1>. USE DEF IInv, Phone, PhoneTypes, SenderTypes, Items, KeepsNumbers, Sender
<1>1. CASE \E s \in Senders, saved \in BOOLEAN : Pair(s, saved)
  <2>. PICK s \in Senders, saved \in BOOLEAN : Pair(s, saved)
    BY <1>1
  <2>1. PhoneTypes'
    BY DEF Pair, Elsewhere
  <2>2. SenderTypes' /\ Items'
    BY DEF Pair
  <2>3. KeepsNumbers
    BY DEF Pair
  <2>. QED  BY <2>1, <2>2, <2>3, KeepsNumbersInv
<1>2. CASE CloseEmpties
  <2>1. PhoneTypes'
    BY <1>2 DEF CloseEmpties, Elsewhere
  <2>2. SenderTypes' /\ Items'
    BY <1>2, ObservationTypes DEF CloseEmpties
  <2>3. KeepsNumbers
    BY <1>2 DEF CloseEmpties
  <2>. QED  BY <2>1, <2>2, <2>3, KeepsNumbersInv
<1>3. CASE CloseFlags
  <2>1. PhoneTypes'
    BY <1>3 DEF CloseFlags, Elsewhere
  <2>2. SenderTypes' /\ Items'
    <3>1. closing.of \in Senders /\ sender[closing.of] \in Sender
      BY <1>3 DEF CloseFlags
    <3>2. [sender[closing.of] EXCEPT !.closed = TRUE] \in Sender
      BY <3>1
    <3>3. sender' = [sender EXCEPT ![closing.of] = [sender[closing.of] EXCEPT !.closed = TRUE]]
      BY <1>3 DEF CloseFlags
    <3>. HIDE DEF Sender
    <3>4. SenderTypes'
      BY <3>1, <3>2, <3>3
    <3>5. Items'
      BY <1>3, <3>1, <3>3 DEF CloseFlags
    <3>. QED  BY <3>4, <3>5
  <2>3. KeepsNumbers
    BY <1>3 DEF CloseFlags
  <2>. QED  BY <2>1, <2>2, <2>3, KeepsNumbersInv
<1>4. CASE Pause
  <2>1. PhoneTypes'
    BY <1>4 DEF Pause, Elsewhere
  <2>2. SenderTypes' /\ Items'
    BY <1>4, ObservationTypes DEF Pause
  <2>3. KeepsNumbers
    BY <1>4 DEF Pause
  <2>. QED  BY <2>1, <2>2, <2>3, KeepsNumbersInv
<1>. QED  BY <1>1, <1>2, <1>3, <1>4

\* The tracker's callback preserves it.
LEMMA SendInv ==
  ASSUME IInv, NEW s \in Senders, NEW observation \in Observation, Send(s, observation)
  PROVE  IInv'
<1>. USE DEF IInv, Phone, PhoneTypes, SenderTypes, Items, KeepsNumbers, Sender, Send
<1>1. PhoneTypes'
  BY DEF Elsewhere
<1>2. SenderTypes' /\ Items'
  OBVIOUS
<1>3. KeepsNumbers
  OBVIOUS
<1>. QED  BY <1>1, <1>2, <1>3, KeepsNumbersInv

-----------------------------------------------------------------------------
(* The workers.                                                            *)

\* What the bridge has is about packets that stay in the network.
LEMMA WorkerKeepsBridge ==
  ASSUME IInv, network \subseteq network', UNCHANGED <<now, receiverVars>>
  PROVE  Bridge'
BY DEF IInv, Bridge, receiverVars, ReceiverTypes, Heard, HeardPairs, HeardDelays, Boot

\* What the worker takes is stamped with the time.
LEMMA StampTypes ==
  ASSUME IInv, NEW observation \in Observation
  PROVE  Stamped(observation) \in Item /\ Stamped(observation).sent = uptime
BY DEF IInv, Phone, PhoneTypes, Stamped, Item, Observation, MaxAge, Times

\* One instance replaced by a record that keeps what is said of an instance by itself.
LEMMA Replaces ==
  ASSUME SenderTypes, NEW s \in Senders, NEW r \in Sender,
         sender' = [sender EXCEPT ![s] = r]
  PROVE  /\ SenderTypes'
         /\ sender'[s] = r
         /\ \A q \in Senders : q # s => sender'[q] = sender[q]
BY DEF SenderTypes

\* The worker takes what is pending.
LEMMA StampInv == ASSUME IInv, NEW s \in Senders, Stamp(s) PROVE IInv'
<1>. USE DEF IInv, Phone, PhoneTypes, Items, Stamp, WorkerStep
<1>. DEFINE item == Stamped(sender[s].pending)
            new == [sender[s] EXCEPT !.pending = None, !.item = item]
<1>1. sender[s] \in Sender /\ sender[s].pending \in Observation
  BY DEF SenderTypes, Sender
<1>2. item \in Item /\ item.sent = uptime
  BY <1>1, StampTypes
<1>. HIDE DEF item
<1>3. /\ new \in Sender /\ sender' = [sender EXCEPT ![s] = new]
      /\ new.item = item /\ new.state = "live"
      /\ new.next = sender[s].next /\ new.limit = sender[s].limit
  BY <1>1, <1>2 DEF Sender, SenderTypes, item
<1>. HIDE DEF new
<1>4. SenderTypes' /\ sender'[s] = new /\ \A q \in Senders : q # s => sender'[q] = sender[q]
  BY ZenonT(60), <1>3, Replaces
<1>5. PhoneTypes'
  OBVIOUS
<1>6. \A q \in Senders : sender'[q].next = sender[q].next /\ sender'[q].limit = sender[q].limit
  BY <1>3, <1>4
<1>7. uptime' <= uptime' /\ UNCHANGED <<uptime, now, stored, network>>
  BY DEF Times
<1>8. Items'
  <2>. HIDE DEF IInv, Phone, Stamp, WorkerStep
  <2>1. Items
    BY DEF IInv, Phone
  <2>. QED  BY <1>2, <1>3, <1>4, <1>7, <2>1
<1>9. Wire'
  <2>1. Wire
    OBVIOUS
  <2>. HIDE DEF IInv, Phone, PhoneTypes, Items, Stamp, WorkerStep
  <2>. USE <1>6, <1>7, <2>1 DEF Wire
  <2>2. WireTypes' /\ NumbersAreUnique' /\ BootsInOrder'
    BY DEF WireTypes, NumbersAreUnique, BootsInOrder, Boot
  <2>3. Blocks'
    BY DEF Blocks
  <2>4. Sent'
    BY DEF Sent, Boot
  <2>. QED  BY <2>2, <2>3, <2>4
<1>10. Bridge'
  BY WorkerKeepsBridge
<1>. QED  BY <1>4, <1>5, <1>8, <1>9, <1>10

\* A block is above everything that was sent and everything that is reserved.
LEMMA ReserveInv == ASSUME IInv, NEW s \in Senders, Reserve(s) PROVE IInv'
<1>. USE DEF IInv, Phone, PhoneTypes, Items, Reserve, WorkerStep
<1>. DEFINE new == [sender[s] EXCEPT !.next = stored, !.limit = stored + Block]
<1>1. /\ stored \in Numbers /\ stored + Block \in Numbers /\ stored' = stored + Block
      /\ stored < stored'
  BY BlockAssumption DEF Numbers
<1>2. /\ new \in Sender /\ sender' = [sender EXCEPT ![s] = new]
      /\ new.item = sender[s].item /\ new.state = "live"
      /\ new.next = stored /\ new.limit = stored'
  BY <1>1 DEF Sender, SenderTypes
<1>. HIDE DEF new
<1>3. SenderTypes' /\ sender'[s] = new /\ \A q \in Senders : q # s => sender'[q] = sender[q]
  BY ZenonT(60), <1>2, Replaces
<1>4. PhoneTypes'
  BY <1>1
<1>5. Items'
  BY ZenonT(60), <1>2, <1>3
<1>6. Wire'
  <2>1. WireTypes' /\ NumbersAreUnique' /\ BootsInOrder'
    BY DEF Wire, WireTypes, NumbersAreUnique, BootsInOrder, Boot
  <2>2. /\ \A q \in Senders : sender[q].next \in Nat /\ sender[q].limit \in Nat
        /\ stored \in Nat /\ stored' \in Nat
    BY <1>1 DEF SenderTypes, Sender, Numbers
  <2>3. \A q \in network : q.seq \in Nat
    BY DEF Wire, WireTypes, PacketType, Numbers
  <2>4. Blocks /\ Sent /\ UNCHANGED <<uptime, now, network>>
    BY DEF Wire
  <2>. HIDE DEF IInv, Phone, PhoneTypes, Items, Reserve, WorkerStep
  <2>5. Blocks'
    BY <1>1, <1>2, <1>3, <2>2, <2>4 DEF Blocks
  <2>6. Sent'
    BY <1>1, <1>2, <1>3, <2>2, <2>3, <2>4 DEF Sent, Boot
  <2>. QED  BY <2>1, <2>5, <2>6 DEF Wire
<1>7. Bridge'
  BY WorkerKeepsBridge
<1>. QED  BY <1>3, <1>4, <1>5, <1>6, <1>7

\* A packet takes the least number of its instance's block, and is sent in the phone's last run.
LEMMA EmitInv == ASSUME IInv, NEW s \in Senders, Emit(s) PROVE IInv'
<1>. USE DEF IInv, Phone, PhoneTypes, Items, Emit, WorkerStep
<1>. DEFINE new == [sender[s] EXCEPT !.next = @ + 1, !.item = None]
            p == Packet(s)
<1>1. \A q \in Senders : /\ sender[q].next \in Nat /\ sender[q].limit \in Nat
                         /\ sender[q].next <= sender[q].limit /\ sender[q].limit <= stored
  BY DEF Wire, Blocks, SenderTypes, Sender, Numbers
<1>2. /\ sender[s] \in Sender /\ sender[s].item \in Item
      /\ sender[s].next < sender[s].limit /\ sender[s].next + 1 \in Numbers
  BY <1>1 DEF SenderTypes, Sender, Numbers
<1>3. /\ new \in Sender /\ sender' = [sender EXCEPT ![s] = new]
      /\ new.item = None /\ new.state = "live"
      /\ new.next = sender[s].next + 1 /\ new.limit = sender[s].limit
  BY <1>2 DEF Sender, SenderTypes
<1>. HIDE DEF new
<1>4. SenderTypes' /\ sender'[s] = new /\ \A q \in Senders : q # s => sender'[q] = sender[q]
  BY <1>3, Replaces
<1>5. PhoneTypes'
  OBVIOUS
<1>6. Items'
  BY ZenonT(60), <1>3, <1>4
<1>7. /\ p.seq = sender[s].next /\ p.sent = sender[s].item.sent /\ p.age = sender[s].item.age
      /\ p.from = s /\ p.at = now - (uptime - sender[s].item.sent)
      /\ p = [seq |-> p.seq, sent |-> p.sent, age |-> p.age, from |-> p.from, at |-> p.at]
  BY DEF Packet
<1>8. /\ p.seq \in Numbers /\ p.sent \in Times /\ p.age \in 0..MaxAge /\ p.sent <= uptime
  BY <1>2, <1>7 DEF Item, Sender
<1>9. network' = network \cup {p} /\ now' = now /\ uptime' = uptime /\ stored' = stored
  OBVIOUS
<1>. HIDE DEF p
<1>10. /\ p.at \in Times /\ p.sent <= p.at /\ p.at <= now /\ Boot(p) = now - uptime
  BY <1>7, <1>8, TimeAssumption DEF Boot, Times
<1>11. p \in PacketType
  BY <1>7, <1>8, <1>10 DEF PacketType
<1>12. \A q \in network : /\ q.seq \in Nat /\ Boot(q) \in Int /\ q.at \in Nat /\ q.sent \in Nat
  BY DEF Wire, WireTypes, PacketType, Boot, Times, Numbers
<1>13. Wire'
  <2>. USE <1>1
  <2>1. WireTypes'
    BY <1>9, <1>11 DEF Wire, WireTypes
  <2>10. Wire /\ now - uptime \in Int /\ stored \in Int
    BY DEF Times, Numbers
  <2>. HIDE DEF IInv, Phone, PhoneTypes, Items, Emit, WorkerStep
  <2>. USE <2>10
  <2>2. Blocks'
    BY <1>2, <1>3, <1>4, <1>9 DEF Wire, Blocks
  <2>3. ASSUME NEW q \in network
        PROVE  /\ q.seq < stored' /\ q.sent <= q.at /\ q.at <= now' /\ Boot(q) <= now' - uptime'
               /\ \A r \in Senders :
                    /\ q.seq < sender'[r].next \/ sender'[r].limit <= q.seq
                    /\ sender'[r].next < sender'[r].limit /\ sender'[r].next <= q.seq =>
                         Boot(q) = now' - uptime'
    BY <1>1, <1>3, <1>4, <1>9, <1>12 DEF Wire, Sent
  <2>4. /\ p.seq < stored' /\ p.sent <= p.at /\ p.at <= now' /\ Boot(p) <= now' - uptime'
        /\ Boot(p) = now' - uptime'
    BY <1>1, <1>2, <1>7, <1>9, <1>10 DEF Times, Numbers
  <2>5. \A r \in Senders : p.seq < sender'[r].next \/ sender'[r].limit <= p.seq
    BY <1>1, <1>2, <1>3, <1>4, <1>7 DEF Wire, Blocks
  <2>6. Sent'
    BY <1>9, <2>3, <2>4, <2>5 DEF Sent, Boot
  <2>7. \A q \in network : /\ q.seq # p.seq
                           /\ Boot(q) <= Boot(p)
                           /\ p.seq < q.seq => Boot(q) = Boot(p)
    BY <1>1, <1>2, <1>7, <1>10, <1>12 DEF Wire, Sent
  <2>8. NumbersAreUnique'
    BY <1>9, <2>7 DEF Wire, NumbersAreUnique
  <2>9. BootsInOrder'
    BY <1>8, <1>9, <1>10, <1>12, <2>7 DEF Wire, BootsInOrder, Boot, Times, Numbers
  <2>. QED  BY <2>1, <2>2, <2>6, <2>8, <2>9 DEF Wire
<1>14. Bridge'
  BY <1>9, WorkerKeepsBridge
<1>. QED  BY <1>4, <1>5, <1>6, <1>13, <1>14

\* An instance that ends takes its block with it.
LEMMA EndedTypes ==
  /\ Ended \in Sender
  /\ Ended.item = None /\ Ended.next = 0 /\ Ended.limit = 0
<1>1. Unborn \in Sender
  BY BlockAssumption DEF Unborn, Sender, Numbers
<1>2. Ended \in Sender
  BY <1>1 DEF Ended, Sender
<1>3. Ended.item = None /\ Ended.next = 0 /\ Ended.limit = 0
  BY DEF Ended, Unborn
<1>. QED  BY <1>2, <1>3

\* Blocks that vanish leave no trace in the network.
LEMMA EndsKeepWire ==
  ASSUME IInv,
         \A s \in Senders :
           \/ sender'[s].next = sender[s].next /\ sender'[s].limit = sender[s].limit
           \/ sender'[s].next = 0 /\ sender'[s].limit = 0,
         UNCHANGED <<stored, network, now, uptime>>
  PROVE  Wire'
<1>. USE DEF IInv, Wire, WireTypes, PacketType, Phone, PhoneTypes, SenderTypes, Sender, Numbers
<1>1. WireTypes' /\ NumbersAreUnique' /\ BootsInOrder'
  BY DEF NumbersAreUnique, BootsInOrder, Boot
<1>2. Blocks'
  BY DEF Blocks
<1>3. Sent'
  BY DEF Sent, Boot
<1>. QED  BY <1>1, <1>2, <1>3

\* So the end of an instance preserves the invariant.
LEMMA EndInv == ASSUME IInv, NEW s \in Senders, Fail(s) \/ End(s) PROVE IInv'
<1>. USE DEF IInv, Phone, PhoneTypes, SenderTypes, Items, Fail, End, WorkerStep
<1>1. PhoneTypes'
  OBVIOUS
<1>2. SenderTypes' /\ Items'
  BY EndedTypes
<1>3. Wire'
  BY EndedTypes, EndsKeepWire
<1>4. Bridge'
  BY WorkerKeepsBridge
<1>. QED  BY <1>1, <1>2, <1>3, <1>4

\* The process dies: no instance has a block any more, so a later run of the phone can only
\* use numbers that are not reserved yet.
LEMMA DieInv == ASSUME IInv, NEW reboot \in BOOLEAN, Die(reboot) PROVE IInv'
<1>1. PhoneTypes'
  <2>1. 0 \in Times /\ 0 <= now /\ uptime' \in {0, uptime}
    BY TimeAssumption DEF IInv, Phone, PhoneTypes, Times, Die
  <2>. QED  BY <2>1 DEF IInv, Phone, PhoneTypes, Die, Elsewhere
<1>2. \A s \in Senders : sender'[s] \in Sender /\ sender'[s].item = None
                         /\ sender'[s].next = 0 /\ sender'[s].limit = 0
  BY EndedTypes DEF IInv, Phone, SenderTypes, Items, Die
<1>3. SenderTypes' /\ Items'
  <2>1. sender' = [s \in Senders |-> sender'[s]]
    BY DEF Die
  <2>2. Items'
    BY <1>2 DEF Items
  <2>. QED  BY <1>2, <2>1, <2>2 DEF SenderTypes
<1>4. Wire'
  <2>. USE DEF IInv, Wire, Die, Elsewhere
  <2>1. WireTypes' /\ NumbersAreUnique' /\ BootsInOrder'
    BY DEF WireTypes, NumbersAreUnique, BootsInOrder, Boot
  <2>2. Blocks'
    BY <1>2 DEF Blocks, Phone, PhoneTypes, Numbers
  <2>3. now - uptime <= now' - uptime' /\ now' - uptime' \in Int /\ now - uptime \in Int
    BY DEF Phone, PhoneTypes, Times
  <2>4. \A q \in network : q.seq \in Nat /\ Boot(q) \in Int
    BY DEF WireTypes, PacketType, Numbers, Times, Boot
  <2>5. Sent /\ UNCHANGED <<now, network, stored>>
    OBVIOUS
  <2>. HIDE DEF IInv, Wire, Die, Elsewhere
  <2>6. Sent'
    BY <1>2, <2>3, <2>4, <2>5 DEF Sent, Boot
  <2>. QED  BY <2>1, <2>2, <2>6 DEF Wire
<1>5. Bridge'
  BY WorkerKeepsBridge DEF Die, Elsewhere
<1>. QED  BY <1>1, <1>3, <1>4, <1>5 DEF IInv, Phone

-----------------------------------------------------------------------------
(* Time and the bridge.                                                    *)

\* Time passes: what was sent stays as old as it was.
LEMMA ElapseInv == ASSUME IInv, NEW d \in Gaps, Elapse(d) PROVE IInv'
<1>1. /\ now \in Nat /\ uptime \in Nat /\ d \in Nat /\ uptime <= now
      /\ now' = now + d /\ uptime' = uptime + d /\ now' <= MaxTime /\ MaxTime \in Nat
      /\ UNCHANGED <<stored, sender, current, closing, network, receiverVars>>
  BY TimeAssumption DEF IInv, Phone, PhoneTypes, Times, Elapse
<1>2. PhoneTypes' /\ SenderTypes'
  BY <1>1 DEF IInv, Phone, PhoneTypes, SenderTypes, Times
<1>3. Items'
  <2>1. \A s \in Senders : sender[s].item # None => sender[s].item.sent \in Nat
    BY DEF IInv, Phone, SenderTypes, Sender, Item, Times
  <2>. QED  BY <1>1, <2>1 DEF IInv, Phone, Items
<1>4. Wire'
  <2>1. WireTypes' /\ Blocks' /\ NumbersAreUnique' /\ BootsInOrder'
    BY <1>1 DEF IInv, Wire, WireTypes, Blocks, NumbersAreUnique, BootsInOrder, Boot
  <2>2. now' - uptime' = now - uptime
    BY <1>1
  <2>3. \A q \in network : q.at \in Nat
    BY DEF IInv, Wire, WireTypes, PacketType, Times
  <2>4. Sent'
    BY <1>1, <2>2, <2>3 DEF IInv, Wire, Sent, Boot
  <2>. QED  BY <2>1, <2>4 DEF Wire
<1>5. Bridge'
  BY <1>1 DEF IInv, Bridge, receiverVars, ReceiverTypes, Heard, HeardPairs, HeardDelays, Boot
<1>. QED  BY <1>2, <1>3, <1>4, <1>5 DEF IInv, Phone

\* The estimate is the least of the offsets seen, so it never exceeds the one of a packet heard.
LEMMA BaselineTypes ==
  ASSUME IInv, NEW p \in network
  PROVE  /\ now - p.sent \in -MaxTime..MaxTime
         /\ Baseline(p) \in -MaxTime..MaxTime /\ Baseline(p) # None
         /\ Baseline(p) <= now - p.sent
         /\ offset # None => offset \in Int /\ Baseline(p) <= offset
<1>1. now \in 0..MaxTime /\ p.sent \in 0..MaxTime /\ MaxTime \in Nat
  BY TimeAssumption DEF IInv, Phone, PhoneTypes, Wire, WireTypes, PacketType, Times
<1>2. offset \in -MaxTime..MaxTime \cup {None}
  BY DEF IInv, Bridge, ReceiverTypes
<1>. QED  BY <1>1, <1>2, NoneAssumption DEF Baseline, Least

\* What is in a sequence is in its set.
LEMMA ElementOf == ASSUME NEW S, NEW seq \in Seq(S) PROVE \A i \in DOMAIN seq : seq[i] \in S
OBVIOUS

\* The fields of what was heard.
LEMMA HeardTypes ==
  ASSUME IInv, NEW i \in DOMAIN heard
  PROVE  /\ heard[i].packet.seq \in Nat /\ heard[i].packet.sent \in Nat
         /\ heard[i].packet.at \in Nat /\ heard[i].packet.age \in Nat
         /\ heard[i].delay \in Nat /\ Boot(heard[i].packet) \in Int
<1>1. heard[i] \in [packet : PacketType, delay : Times]
  BY ElementOf DEF IInv, Bridge, ReceiverTypes
<1>. QED  BY <1>1 DEF PacketType, Boot, Times, Numbers, MaxAge

\* What is accepted is above everything accepted before.
LEMMA ReceiveInv == ASSUME IInv, NEW p \in network, Receive(p) PROVE IInv'
<1>. DEFINE entry == [packet |-> p, delay |-> now - p.at]
            n == Len(heard) + 1
<1>1. /\ p \in PacketType /\ p.seq \in Nat /\ p.sent \in Nat /\ p.at \in Nat /\ p.age \in Nat
      /\ p.at <= now /\ now \in Nat /\ now <= MaxTime /\ MaxTime \in Nat
      /\ p.seq \in Numbers /\ p.sent \in Times
  BY TimeAssumption
  DEF IInv, Wire, WireTypes, Sent, Phone, PhoneTypes, PacketType, Times, Numbers, MaxAge
<1>2. /\ heard \in Seq([packet : PacketType, delay : Times])
      /\ sequence \in Int /\ lastSent \in Int
  BY DEF IInv, Bridge, ReceiverTypes, Numbers, Times
<1>3. /\ entry \in [packet : PacketType, delay : Times]
      /\ entry.packet = p /\ entry.delay = now - p.at /\ entry.delay + Boot(p) = now - p.sent
  BY <1>1 DEF Times, Boot
<1>4. heard' = Append(heard, entry)
  BY DEF Receive
<1>. HIDE DEF entry
<1>5. /\ heard' \in Seq([packet : PacketType, delay : Times])
      /\ DOMAIN heard = 1..Len(heard) /\ Len(heard) \in Nat
      /\ DOMAIN heard' = 1..n
      /\ heard'[n] = entry
      /\ \A i \in 1..Len(heard) : heard'[i] = heard[i]
  BY <1>2, <1>3, <1>4
<1>. DEFINE base == Baseline(p)
<1>6. /\ base \in Int /\ base \in -MaxTime..MaxTime /\ base # None /\ base <= now - p.sent
      /\ offset # None => offset \in Int /\ base <= offset
  BY BaselineTypes
<1>7. /\ now - p.sent - base + p.age <= MaxAge
      /\ offset' = base
  BY DEF Receive, Accepts
<1>. HIDE DEF base
<1>8. /\ p.seq > sequence /\ p.sent >= lastSent
      /\ (now - p.sent) + p.age <= base + MaxAge
      /\ sequence' = p.seq /\ lastSent' = p.sent
      /\ UNCHANGED <<phoneVars, network, now>>
  BY <1>1, <1>6, <1>7 DEF Receive, Accepts, MaxAge
<1>9. \A i \in 1..Len(heard) :
        /\ heard[i].packet \in network
        /\ heard[i].packet.seq \in Nat /\ heard[i].packet.sent \in Nat
        /\ heard[i].packet.age \in Nat /\ heard[i].delay \in Nat /\ Boot(heard[i].packet) \in Int
        /\ heard[i].packet.seq <= sequence /\ heard[i].packet.sent <= lastSent
        /\ offset # None /\ offset <= heard[i].delay + Boot(heard[i].packet)
  BY <1>5, HeardTypes DEF IInv, Bridge, Heard
<1>10. ASSUME NEW i \in 1..Len(heard)
       PROVE  /\ heard[i].packet.seq < p.seq /\ heard[i].packet.seq <= p.seq
              /\ heard[i].packet.sent <= p.sent
  <2>. DEFINE seq == heard[i].packet.seq
              sent == heard[i].packet.sent
  <2>1. seq \in Nat /\ sent \in Nat /\ seq <= sequence /\ sent <= lastSent
    BY <1>9
  <2>. HIDE DEF seq, sent
  <2>2. seq < p.seq /\ seq <= p.seq /\ sent <= p.sent
    BY SMTT(30), <1>1, <1>2, <1>8, <2>1
  <2>. QED  BY <2>2 DEF seq, sent
<1>11. Phone' /\ Wire'
  BY <1>8 DEF IInv, phoneVars, Phone, PhoneTypes, SenderTypes, Items, Wire, WireTypes, Blocks,
              Sent, NumbersAreUnique, BootsInOrder, Boot
<1>12. ReceiverTypes'
  BY <1>1, <1>5, <1>6, <1>7, <1>8 DEF ReceiverTypes
<1>13. \A i \in 1..Len(heard) : base <= heard[i].delay + Boot(heard[i].packet)
  BY <1>6, <1>9
<1>14. Heard'
  <2>1. \A i \in 1..Len(heard) : heard[i].packet.seq <= p.seq /\ heard[i].packet.sent <= p.sent
    BY <1>1, <1>10
  <2>2. network' = network /\ now' = now /\ p.seq <= p.seq /\ p.sent <= p.sent
    BY <1>1, <1>8
  <2>. QED  BY <1>3, <1>5, <1>6, <1>7, <1>8, <1>9, <1>13, <2>1, <2>2 DEF Heard, Boot
<1>15. HeardPairs'
  <2>1. HeardPairs
    BY DEF IInv, Bridge
  <2>. QED  BY <1>3, <1>5, <1>10, <2>1 DEF HeardPairs
<1>16. HeardDelays'
  <2>1. HeardDelays
    BY DEF IInv, Bridge
  <2>2. ASSUME NEW i \in 1..Len(heard)
        PROVE  (now - p.sent) + p.age <= (heard[i].delay + Boot(heard[i].packet)) + MaxAge
    <3>. DEFINE late == heard[i].delay + Boot(heard[i].packet)
    <3>1. late \in Int /\ base <= late
      BY <1>9, <1>13
    <3>. HIDE DEF late
    <3>2. (now - p.sent) + p.age <= late + MaxAge
      BY <1>1, <1>6, <1>8, <3>1 DEF MaxAge
    <3>. QED  BY <3>2 DEF late
  <2>3. (now - p.sent) + p.age <= (now - p.sent) + MaxAge
    BY <1>1 DEF PacketType, MaxAge
  <2>. QED  BY <1>3, <1>5, <2>1, <2>2, <2>3 DEF HeardDelays, Boot
<1>. QED  BY <1>11, <1>12, <1>14, <1>15, <1>16 DEF IInv, Bridge

-----------------------------------------------------------------------------
\* Every step preserves the invariant.
LEMMA NextInv == ASSUME IInv, [Next]_vars PROVE IInv'
<1>1. CASE UNCHANGED vars
  BY <1>1 DEF vars, phoneVars, receiverVars, IInv, Phone, Wire, Bridge, PhoneTypes, SenderTypes,
              WireTypes, ReceiverTypes, Items, Blocks, Sent, NumbersAreUnique, BootsInOrder,
              Heard, HeardPairs, HeardDelays, Boot
<1>2. ASSUME NEW s \in Senders, NEW saved \in BOOLEAN, Pair(s, saved) PROVE IInv'
  BY <1>2, UiInv
<1>3. CASE CloseEmpties \/ CloseFlags \/ Pause
  BY <1>3, UiInv
<1>4. ASSUME NEW s \in Senders, Stamp(s) \/ Reserve(s) \/ Emit(s) \/ Fail(s) \/ End(s) PROVE IInv'
  BY <1>4, StampInv, ReserveInv, EmitInv, EndInv
<1>5. ASSUME NEW s \in Senders, Send(s, Empty) PROVE IInv'
  BY <1>5, SendInv, ObservationTypes
<1>6. ASSUME NEW s \in Senders, NEW age \in Ages, age <= uptime,
             Send(s, [hands |-> TRUE, capture |-> uptime - age])
      PROVE  IInv'
  <2>1. uptime - age \in Times
    BY <1>6, TimeAssumption DEF IInv, Phone, PhoneTypes, Times
  <2>2. [hands |-> TRUE, capture |-> uptime - age] \in Observation
    BY <2>1 DEF Observation
  <2>. QED  BY <1>6, <2>2, SendInv
<1>7. CASE \E reboot \in BOOLEAN : Die(reboot)
  BY <1>7, DieInv
<1>8. CASE \E d \in Gaps : Elapse(d)
  BY <1>8, ElapseInv
<1>9. CASE \E p \in network : Receive(p)
  BY <1>9, ReceiveInv
<1>. QED  BY <1>1, <1>2, <1>3, <1>4, <1>5, <1>6, <1>7, <1>8, <1>9 DEF Next

-----------------------------------------------------------------------------
\* In every reachable state of the phone, the network and the bridge the invariant holds.
THEOREM TransportInv == Spec => []IInv
<1>1. Init => IInv
  BY InitInv
<1>2. IInv /\ [Next]_vars => IInv'
  BY NextInv
<1>. QED  BY <1>1, <1>2, PTL DEF Spec

\* The fields of the phone's senders, of the packets and of the Receiver have their types.
THEOREM TransportTypes == Spec => []TypeOK
<1>1. IInv => TypeOK
  BY TypesOfIInv
<1>. QED  BY <1>1, TransportInv, PTL

\* No number is used for two packets of a pairing, whatever instances run at the same time and
\* whenever the process or the phone restarts (HandSender.java:66-74).
THEOREM NumbersAreNeverReused == Spec => []NumbersAreUnique
<1>1. IInv => NumbersAreUnique
  BY DEF IInv, Wire
<1>. QED  BY <1>1, TransportInv, PTL

\* The bridge hears packets in the order in which they were sent, across reboots of the phone
\* (protocol.py:31-36).
THEOREM HearingIsOrdered == Spec => []HeardInOrder
<1>1. ASSUME IInv PROVE HeardInOrder
  <2>1. ASSUME NEW i \in DOMAIN heard, NEW j \in DOMAIN heard, i < j
        PROVE  /\ heard[i].packet # heard[j].packet
               /\ heard[i].packet.at <= heard[j].packet.at
    <3>. DEFINE p == heard[i].packet
                q == heard[j].packet
    <3>1. p \in network /\ q \in network /\ p.seq < q.seq /\ p.sent <= q.sent
      BY <1>1, <2>1 DEF IInv, Bridge, Heard, HeardPairs
    <3>. HIDE DEF p, q
    <3>2. /\ p.seq \in Nat /\ q.seq \in Nat /\ p.sent \in Nat /\ q.sent \in Nat
          /\ p.at \in Nat /\ q.at \in Nat
      BY <1>1, <3>1 DEF IInv, Wire, WireTypes, PacketType, Times, Numbers
    <3>3. Boot(p) <= Boot(q)
      BY <1>1, <3>1 DEF IInv, Wire, BootsInOrder
    <3>4. p # q /\ p.at <= q.at
      BY <3>1, <3>2, <3>3 DEF Boot
    <3>. QED  BY <3>4 DEF p, q
  <2>. QED  BY <2>1 DEF HeardInOrder
<1>. QED  BY <1>1, TransportInv, PTL

\* What the bridge accepts took at most 150 ms longer, its age included, than any packet heard
\* before or the same one, although the clocks are unrelated and the phone's may restart
\* (protocol.py:37-40).
THEOREM HearingIsFresh == Spec => []HeardFresh
<1>1. ASSUME IInv PROVE HeardFresh
  <2>1. ASSUME NEW i \in DOMAIN heard, NEW j \in 1..i
        PROVE  heard[i].delay + heard[i].packet.age - heard[j].delay <= MaxAge
    <3>1. /\ heard \in Seq([packet : PacketType, delay : Times])
          /\ i \in Nat /\ j \in DOMAIN heard /\ (j < i \/ j = i)
      BY <1>1, <2>1 DEF IInv, Bridge, ReceiverTypes
    <3>. DEFINE p == heard[i].packet
                q == heard[j].packet
                pd == heard[i].delay
                qd == heard[j].delay
    <3>3. pd \in Nat /\ qd \in Nat /\ p.age \in Nat /\ Boot(p) \in Int /\ Boot(q) \in Int
      BY <1>1, <2>1, <3>1, HeardTypes
    <3>4. /\ p \in network /\ q \in network
          /\ j < i => q.seq < p.seq
      BY <1>1, <2>1, <3>1 DEF IInv, Bridge, Heard, HeardPairs
    <3>5. (pd + Boot(p)) + p.age <= (qd + Boot(q)) + MaxAge
      BY <1>1, <2>1 DEF IInv, Bridge, HeardDelays
    <3>6. j = i => q = p
      OBVIOUS
    <3>. HIDE DEF p, q, pd, qd
    <3>7. Boot(q) <= Boot(p)
      BY <1>1, <3>1, <3>3, <3>4, <3>6 DEF IInv, Wire, BootsInOrder
    <3>8. pd + p.age - qd <= MaxAge
      BY <3>3, <3>5, <3>7 DEF MaxAge
    <3>. QED  BY <3>8 DEF p, pd, qd
  <2>. QED  BY <2>1 DEF HeardFresh
<1>. QED  BY <1>1, TransportInv, PTL
=============================================================================
