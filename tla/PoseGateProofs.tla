---------------------------- MODULE PoseGateProofs ----------------------------
(***************************************************************************)
(* The safety properties of PoseGate, for every even modulus, any number   *)
(* of runs, any length of a run below half the modulus and any clock.      *)
(*                                                                         *)
(* Order rests on the stamps: within a run they grow, and those of a run   *)
(* are below those of the next.  That a later pose of a run is acceptable, *)
(* and that a repeated run is not, rests on the distance of two sequence   *)
(* numbers modulo the wrap (Distance, DistanceBack).                       *)
(***************************************************************************)
EXTENDS PoseGate, TLAPS

\* What the sender has: a run that was started has its first number.
SenderTypes ==
  /\ run \in 0..MaxRuns /\ index \in 0..(Frames + 1)
  /\ first \in [1..MaxRuns -> Starts \cup {None}]
  /\ clock \in Nat /\ stamped \in Nat
  /\ \A r \in 1..MaxRuns : r <= run => first[r] \in Starts

\* What every packet says of its run and of its sample.
PacketsOfRuns ==
  /\ network \subseteq Packet
  /\ \A p \in network :
       /\ p.run <= run
       /\ p.run = run => p.index < index /\ p.stamp <= stamped
       /\ p.run < run => p.stamp < clock
       /\ p.tracking <=> p.index < Frames
       /\ p.sequence = Number(first[p.run], p.index)

\* The stamps order the packets as the sender does.
StampsInOrder ==
  \A p, q \in network :
    /\ p.run < q.run => p.stamp < q.stamp
    /\ p.run = q.run /\ p.index < q.index => p.stamp < q.stamp
    /\ p.run = q.run /\ p.index = q.index => p.stamp = q.stamp

ViewerCounts ==
  age \in 0..Timeout /\ drained \in 0..Batch /\ printed \in 0..PrintGap /\ lost \in Nat

\* What was told last, and the local that the next loss is told by.
Told ==
  /\ tracking \in BOOLEAN /\ changed \in BOOLEAN /\ previous \in BOOLEAN
  /\ pc \in {"top", "selected", "drain", "drained", "print", "stopped", "failed"}
  /\ told \in {"nothing", "tracking", "paused", "lost"}
  /\ told = "tracking" => tracking
  /\ pc = "drain" => previous = tracking

SenderInv == SenderTypes /\ PacketsOfRuns /\ StampsInOrder
GateInv == latest # None => latest \in network
ViewerInv == ViewerCounts /\ Told
IInv == SenderInv /\ GateInv /\ ViewerInv

-----------------------------------------------------------------------------
(* Numbers modulo the wrap.                                                *)

\* A multiple of the modulus is 0 or at least the modulus away from it.
LEMMA Multiples ==
  ASSUME NEW k \in Int
  PROVE  /\ k >= 1 => Modulus * k >= Modulus
         /\ k <= -1 => Modulus * k <= -Modulus
         /\ k = 0 => Modulus * k = 0
BY ModulusAssumption

\* A number is a multiple of the modulus and its remainder.
LEMMA Division ==
  ASSUME NEW x \in Int
  PROVE  /\ x % Modulus \in 0..(Modulus - 1)
         /\ \E q \in Int : x = Modulus * q + (x % Modulus)
<1>1. x = Modulus * (x \div Modulus) + (x % Modulus)
  BY ModulusAssumption
<1>2. x \div Modulus < 0 \/ x \div Modulus >= 0
  BY ModulusAssumption
<1>3. x \div Modulus \in Int
  BY <1>2, ModulusAssumption
<1>4. x % Modulus \in 0..(Modulus - 1)
  BY ModulusAssumption
<1>. QED  BY <1>1, <1>3, <1>4

\* There is no other remainder.
LEMMA Remainder ==
  ASSUME NEW x \in Int, NEW q \in Int, NEW r \in 0..(Modulus - 1), x = Modulus * q + r
  PROVE  x % Modulus = r
<1>1. PICK p \in Int : x = Modulus * p + (x % Modulus)
  BY Division
<1>. DEFINE s == x % Modulus
<1>2. s \in 0..(Modulus - 1) /\ x = Modulus * p + s
  BY <1>1, Division
<1>. HIDE DEF s
<1>3. Modulus * (p - q) = r - s
  BY <1>2, ModulusAssumption
<1>4. p - q \in Int /\ r - s < Modulus /\ r - s > -Modulus
  BY <1>2, ModulusAssumption
<1>5. p - q = 0
  BY <1>3, <1>4, Multiples, ModulusAssumption
<1>6. s = r
  BY <1>2, <1>3, <1>5, ModulusAssumption
<1>. QED  BY <1>6 DEF s

\* e steps after x, wherever the numbers wrap.
LEMMA Distance ==
  ASSUME NEW x \in Int, NEW e \in 0..(Modulus - 1)
  PROVE  (((x + e) % Modulus) - (x % Modulus)) % Modulus = e
<1>1. x + e \in Int
  BY ModulusAssumption
<1>. DEFINE n == x % Modulus
            m == (x + e) % Modulus
<1>2. n \in 0..(Modulus - 1) /\ m \in 0..(Modulus - 1) /\ \E a \in Int : x = Modulus * a + n
  BY Division, <1>1
<1>3. \E b \in Int : x + e = Modulus * b + m
  BY <1>1, Division
<1>. HIDE DEF n, m
<1>4. PICK a \in Int : x = Modulus * a + n
  BY <1>2
<1>5. PICK b \in Int : x + e = Modulus * b + m
  BY <1>3
<1>6. m - n = Modulus * (a - b) + e /\ a - b \in Int /\ m - n \in Int
  BY <1>2, <1>4, <1>5, ModulusAssumption
<1>7. (m - n) % Modulus = e
  BY <1>6, Remainder
<1>. QED  BY <1>7 DEF m, n

\* e steps before it, as many as are left to the wrap.
LEMMA DistanceBack ==
  ASSUME NEW x \in Int, NEW e \in 1..(Modulus - 1)
  PROVE  ((x % Modulus) - ((x + e) % Modulus)) % Modulus = Modulus - e
<1>1. x + e \in Int
  BY ModulusAssumption
<1>. DEFINE n == x % Modulus
            m == (x + e) % Modulus
<1>2. n \in 0..(Modulus - 1) /\ m \in 0..(Modulus - 1) /\ \E a \in Int : x = Modulus * a + n
  BY Division, <1>1
<1>3. \E b \in Int : x + e = Modulus * b + m
  BY <1>1, Division
<1>. HIDE DEF n, m
<1>4. PICK a \in Int : x = Modulus * a + n
  BY <1>2
<1>5. PICK b \in Int : x + e = Modulus * b + m
  BY <1>3
<1>6. /\ n - m = Modulus * (b - a - 1) + (Modulus - e)
      /\ b - a - 1 \in Int /\ n - m \in Int /\ Modulus - e \in 0..(Modulus - 1)
  BY <1>2, <1>4, <1>5, ModulusAssumption
<1>7. (n - m) % Modulus = Modulus - e
  BY <1>6, Remainder
<1>. QED  BY <1>7 DEF m, n

\* The modulus is even, and a run ends before half of it.
LEMMA HalfOfModulus ==
  /\ Modulus \div 2 \in Nat /\ 2 * (Modulus \div 2) = Modulus
  /\ Frames < Modulus \div 2 /\ Frames \in Nat
BY ModulusAssumption, RunAssumption

\* A later sample of the same numbering is newer; the same one or an earlier one is not.
LEMMA NewerWithin ==
  ASSUME NEW start \in Starts, NEW i \in 0..Frames, NEW j \in 0..Frames
  PROVE  Newer(Number(start, j), Number(start, i)) <=> i < j
<1>1. start \in Int /\ start + i \in Int /\ start + j \in Int
  BY InputAssumption, ModulusAssumption, HalfOfModulus
<1>. DEFINE delta == (Number(start, j) - Number(start, i)) % Modulus
<1>2. CASE i <= j
  <2>. DEFINE e == j - i
  <2>1. e \in 0..(Modulus - 1) /\ (start + i) + e = start + j /\ e < Modulus \div 2
        /\ (i < j <=> 0 < e)
    BY <1>1, <1>2, HalfOfModulus
  <2>. HIDE DEF e
  <2>2. delta = e
    BY <1>1, <2>1, Distance DEF Number
  <2>. QED  BY <2>1, <2>2, HalfOfModulus DEF Newer
<1>3. CASE j < i
  <2>. DEFINE e == i - j
  <2>1. e \in 1..(Modulus - 1) /\ (start + j) + e = start + i /\ ~(Modulus - e < Modulus \div 2)
    BY <1>1, <1>3, HalfOfModulus
  <2>. HIDE DEF e
  <2>2. delta = Modulus - e
    BY <1>1, <2>1, DistanceBack DEF Number
  <2>. QED  BY <1>3, <2>1, <2>2, HalfOfModulus DEF Newer
<1>. QED  BY <1>2, <1>3, HalfOfModulus

\* A number is below the modulus.
LEMMA NumberTypes ==
  ASSUME NEW start \in Starts, NEW i \in 0..(Frames + 1)
  PROVE  Number(start, i) \in 0..(Modulus - 1)
<1>1. start + i \in Int
  BY InputAssumption, ModulusAssumption, HalfOfModulus
<1>. QED  BY <1>1, Division DEF Number

-----------------------------------------------------------------------------
(* The invariant.                                                          *)

\* Nothing was sent, nothing accepted.
LEMMA InitInv == Init => IInv
<1>. SUFFICES ASSUME Init PROVE IInv
  OBVIOUS
<1>. USE DEF Init
<1>1. SenderInv
  BY RunAssumption DEF SenderInv, SenderTypes, PacketsOfRuns, StampsInOrder
<1>2. GateInv
  BY DEF GateInv
<1>3. ViewerCounts
  BY TimeAssumption DEF ViewerCounts, PrintGap
<1>4. Told
  BY DEF Told
<1>. QED  BY <1>1, <1>2, <1>3, <1>4 DEF IInv, ViewerInv

\* The viewer leaves the sender alone, and only takes packets that were sent.
LEMMA KeepsSender == ASSUME SenderInv, UNCHANGED senderVars PROVE SenderInv'
BY DEF SenderInv, senderVars, SenderTypes, PacketsOfRuns, StampsInOrder

\* The sender leaves the viewer alone, and no packet ever disappears.
LEMMA KeepsViewer ==
  ASSUME GateInv, ViewerInv, UNCHANGED <<gateVars, viewerVars>>, network \subseteq network'
  PROVE  GateInv' /\ ViewerInv'
BY DEF GateInv, ViewerInv, gateVars, viewerVars, emitted, ViewerCounts, Told

\* The fields of a packet, for arithmetic.
LEMMA PacketFields ==
  ASSUME SenderInv, NEW p \in network
  PROVE  /\ p \in Packet /\ p.run \in 1..MaxRuns /\ p.run \in Nat /\ p.run <= run
         /\ p.index \in 0..Frames /\ p.stamp \in Nat
BY RunAssumption DEF SenderInv, PacketsOfRuns, Packet

\* A new process stamps above every stamp sent before.
LEMMA StartRunInv == ASSUME IInv, NEW start \in Starts, StartRun(start) PROVE IInv'
<1>1. /\ run \in Nat /\ run < MaxRuns /\ run' = run + 1 /\ MaxRuns \in Nat /\ index' = 0
      /\ first' = [first EXCEPT ![run + 1] = start]
      /\ first \in [1..MaxRuns -> Starts \cup {None}]
      /\ clock \in Nat /\ stamped \in Nat /\ clock' = Later(clock, stamped) + 1 /\ stamped' = 0
      /\ network' = network
  BY RunAssumption DEF IInv, SenderInv, SenderTypes, StartRun
<1>2. clock' \in Nat /\ clock < clock' /\ stamped < clock'
  BY <1>1 DEF Later
<1>3. SenderTypes'
  <2>1. run' \in 0..MaxRuns /\ index' \in 0..(Frames + 1) /\ stamped' \in Nat
    BY <1>1, RunAssumption
  <2>2. first' \in [1..MaxRuns -> Starts \cup {None}]
    BY <1>1
  <2>3. ASSUME NEW r \in 1..MaxRuns, r <= run' PROVE first'[r] \in Starts
    BY <1>1, <2>3 DEF IInv, SenderInv, SenderTypes
  <2>. QED  BY <1>2, <2>1, <2>2, <2>3 DEF SenderTypes
<1>4. PacketsOfRuns'
  <2>1. ASSUME NEW p \in network
        PROVE  /\ p.run < run' /\ p.run <= run' /\ p.run # run' /\ p.stamp < clock'
               /\ first'[p.run] = first[p.run]
    <3>1. p.run \in 1..MaxRuns /\ p.run <= run /\ p.stamp \in Nat
      BY PacketFields DEF IInv
    <3>2. p.stamp <= stamped \/ p.stamp < clock
      BY <1>1, <3>1 DEF IInv, SenderInv, PacketsOfRuns
    <3>3. p.run < run' /\ p.run <= run' /\ p.run # run' /\ first'[p.run] = first[p.run]
      BY <1>1, <3>1
    <3>4. p.stamp < clock'
      BY <1>1, <1>2, <3>1, <3>2
    <3>. QED  BY <3>3, <3>4
  <2>. QED  BY <1>1, <2>1 DEF IInv, SenderInv, PacketsOfRuns, Number
<1>5. StampsInOrder'
  BY <1>1 DEF IInv, SenderInv, StampsInOrder
<1>6. GateInv' /\ ViewerInv'
  BY KeepsViewer DEF IInv, StartRun
<1>. QED  BY <1>3, <1>4, <1>5, <1>6 DEF IInv, SenderInv

\* A sample is stamped above the one before it and above every earlier run.
LEMMA SendSampleInv == ASSUME IInv, NEW tick \in Ticks, SendSample(tick) PROVE IInv'
<1>. DEFINE p == [run |-> run, index |-> index, tracking |-> index < Frames,
                  sequence |-> Number(first[run], index), stamp |-> stamped']
<1>1. /\ run \in 1..MaxRuns /\ index \in 0..Frames /\ index \in Nat /\ Frames \in Nat
      /\ index' = index + 1
      /\ clock \in Nat /\ stamped \in Nat /\ tick \in Nat /\ clock' = clock + tick
      /\ stamped' = Stamp(clock + tick, stamped)
      /\ network' = network \cup {p}
      /\ run' = run /\ first' = first
  BY RunAssumption, InputAssumption DEF IInv, SenderInv, SenderTypes, SendSample
<1>2. /\ clock' \in Nat /\ stamped' \in Nat
      /\ clock <= clock' /\ clock <= stamped' /\ stamped < stamped'
  BY <1>1 DEF Stamp, Later
<1>3. first[run] \in Starts
  BY <1>1 DEF IInv, SenderInv, SenderTypes
<1>4. SenderTypes'
  <2>1. index' \in 0..(Frames + 1)
    BY <1>1
  <2>. QED  BY <1>1, <1>2, <2>1 DEF IInv, SenderInv, SenderTypes
<1>5. /\ p.run = run /\ p.index = index /\ p.stamp = stamped' /\ (p.tracking <=> p.index < Frames)
      /\ p.sequence = Number(first[p.run], p.index)
  OBVIOUS
<1>6. p \in Packet
  <2>1. (index < Frames) \in BOOLEAN
    OBVIOUS
  <2>. QED  BY <1>1, <1>2, <1>3, <2>1, NumberTypes DEF Packet
<1>. HIDE DEF p
<1>7. PacketsOfRuns'
  <2>1. network' \subseteq Packet
    BY <1>1, <1>6 DEF IInv, SenderInv, PacketsOfRuns
  <2>2. ASSUME NEW q \in network
        PROVE  /\ q.run <= run'
               /\ q.run = run' => q.index < index' /\ q.stamp <= stamped'
               /\ q.run < run' => q.stamp < clock'
               /\ q.tracking <=> q.index < Frames
               /\ q.sequence = Number(first'[q.run], q.index)
    <3>1. q.index \in Nat /\ q.stamp \in Nat
      BY PacketFields DEF IInv
    <3>2. /\ q.run <= run
          /\ q.run = run => q.index < index /\ q.stamp <= stamped
          /\ q.run < run => q.stamp < clock
          /\ q.tracking <=> q.index < Frames
          /\ q.sequence = Number(first[q.run], q.index)
      BY DEF IInv, SenderInv, PacketsOfRuns
    <3>. QED  BY <1>1, <1>2, <3>1, <3>2
  <2>3. /\ p.run <= run' /\ p.index < index' /\ p.stamp <= stamped' /\ ~(p.run < run')
    BY <1>1, <1>2, <1>5
  <2>. QED  BY <1>1, <1>5, <2>1, <2>2, <2>3 DEF PacketsOfRuns
<1>8. StampsInOrder'
  <2>1. ASSUME NEW q \in network
        PROVE  /\ q.stamp < p.stamp
               /\ ~(p.run < q.run)
               /\ ~(p.run = q.run /\ p.index < q.index)
               /\ ~(p.run = q.run /\ p.index = q.index)
    <3>1. q.index \in Nat /\ q.stamp \in Nat /\ q.run \in Nat
      BY PacketFields DEF IInv
    <3>2. /\ q.run <= run
          /\ q.run = run => q.index < index /\ q.stamp <= stamped
          /\ q.run < run => q.stamp < clock
      BY DEF IInv, SenderInv, PacketsOfRuns
    <3>. QED  BY <1>1, <1>2, <1>5, <3>1, <3>2
  <2>2. ~(p.run < p.run) /\ ~(p.index < p.index)
    BY <1>1, <1>5
  <2>. QED  BY <1>1, <2>1, <2>2 DEF IInv, SenderInv, StampsInOrder
<1>9. GateInv' /\ ViewerInv'
  BY <1>1, KeepsViewer DEF IInv, SendSample
<1>. QED  BY <1>4, <1>7, <1>8, <1>9 DEF IInv, SenderInv

-----------------------------------------------------------------------------
(* The viewer.                                                             *)

\* An age stops at its bound.
LEMMA CappedTypes ==
  ASSUME NEW bound \in Nat, NEW x \in Nat
  PROVE  Capped(x, bound) \in 0..bound
BY DEF Capped

\* What the expiry, a part of two steps, does to the fields.
LEMMA ExpireTypes ==
  ASSUME IInv, Expire
  PROVE  /\ SenderInv' /\ GateInv'
         /\ tracking' \in BOOLEAN
         /\ told' \in {"nothing", "tracking", "paused", "lost"} /\ (told' = "tracking" => tracking')
         /\ lost' \in Nat /\ UNCHANGED <<age, printed>>
<1>1. SenderInv' /\ GateInv' /\ UNCHANGED <<age, printed>>
  BY KeepsSender DEF IInv, Expire, GateInv, senderVars
<1>2. lost' \in Nat
  BY DEF IInv, ViewerInv, ViewerCounts, Expire, Lose
<1>3. /\ tracking' \in BOOLEAN
      /\ told' \in {"nothing", "tracking", "paused", "lost"} /\ (told' = "tracking" => tracking')
  BY DEF IInv, ViewerInv, Told, Expire, Lose
<1>. QED  BY <1>1, <1>2, <1>3

\* A packet is told as a loss when the local says so, which it does exactly while tracking.
LEMMA AcceptInv == ASSUME IInv, NEW p \in network, Accept(p) PROVE IInv'
<1>1. p.tracking \in BOOLEAN
  BY DEF IInv, SenderInv, PacketsOfRuns, Packet
<1>2. SenderInv' /\ GateInv'
  BY KeepsSender DEF IInv, Accept, GateInv, senderVars
<1>3. ViewerCounts'
  BY TimeAssumption DEF IInv, ViewerInv, ViewerCounts, Accept, At
<1>4. Told'
  BY <1>1 DEF IInv, ViewerInv, Told, Accept, At
<1>. QED  BY <1>2, <1>3, <1>4 DEF IInv, ViewerInv

\* The steps of the viewer's loop.
LEMMA LoopInv == ASSUME IInv, Loop PROVE IInv'
<1>. USE DEF IInv, ViewerInv
<1>1. CASE Poll \/ Drained \/ Refuse
  <2>1. SenderInv' /\ GateInv'
    BY <1>1, KeepsSender DEF Poll, Drained, Refuse, GateInv, senderVars, gateVars
  <2>2. ViewerCounts'
    BY <1>1, TimeAssumption DEF Poll, Drained, Refuse, ViewerCounts, gateVars, emitted
  <2>3. Told'
    BY <1>1 DEF Poll, Drained, Refuse, At, Told, gateVars, emitted
  <2>. QED  BY <2>1, <2>2, <2>3
<1>2. CASE ExpireAgain
  <2>1. ViewerCounts'
    BY <1>2, ExpireTypes DEF ExpireAgain, ViewerCounts
  <2>2. Told'
    BY <1>2, ExpireTypes DEF ExpireAgain, At, Told
  <2>. QED  BY <1>2, <2>1, <2>2, ExpireTypes DEF ExpireAgain
<1>3. CASE Report
  <2>1. SenderInv' /\ GateInv'
    BY <1>3, KeepsSender DEF Report, GateInv, senderVars, gateVars
  <2>2. ViewerCounts'
    BY <1>3 DEF Report, ViewerCounts, gateVars, PrintGap
  <2>3. Told'
    BY <1>3 DEF Report, At, Told, Shown, gateVars
  <2>. QED  BY <2>1, <2>2, <2>3
<1>4. ASSUME NEW ready \in BOOLEAN, Select(ready) PROVE IInv'
  <2>1. ViewerCounts'
    BY <1>4, ExpireTypes, TimeAssumption DEF Select, ViewerCounts
  <2>2. Told'
    BY <1>4, ExpireTypes DEF Select, At, Told
  <2>. QED  BY <1>4, <2>1, <2>2, ExpireTypes DEF Select
<1>. QED  BY <1>1, <1>2, <1>3, <1>4, AcceptInv DEF Loop

\* Ctrl-C, an error on the socket, and time.
LEMMA OutsideInv ==
  ASSUME IInv, Stop \/ Fail \/ \E gap \in Gaps : Elapse(gap)
  PROVE  IInv'
<1>. USE DEF IInv, ViewerInv
<1>1. CASE Stop
  <2>1. SenderInv' /\ GateInv'
    BY <1>1, KeepsSender DEF Stop, GateInv, senderVars
  <2>2. ViewerCounts'
    BY <1>1 DEF Stop, Lose, ViewerCounts
  <2>3. Told'
    BY <1>1 DEF Stop, Lose, At, Told
  <2>. QED  BY <2>1, <2>2, <2>3
<1>2. CASE Fail
  <2>1. SenderInv' /\ GateInv'
    BY <1>2, KeepsSender DEF Fail, GateInv, senderVars, gateVars
  <2>2. ViewerCounts'
    BY <1>2 DEF Fail, ViewerCounts, gateVars, emitted
  <2>3. Told'
    BY <1>2 DEF Fail, Told, gateVars, emitted
  <2>. QED  BY <2>1, <2>2, <2>3
<1>3. ASSUME NEW gap \in Gaps, Elapse(gap) PROVE IInv'
  <2>1. SenderInv' /\ GateInv'
    BY <1>3, KeepsSender DEF Elapse, GateInv, senderVars
  <2>2. ViewerCounts'
    <3>1. age + gap \in Nat /\ printed + gap \in Nat /\ Timeout \in Nat /\ PrintGap \in Nat
      BY TimeAssumption DEF ViewerCounts, PrintGap
    <3>2. age' \in 0..Timeout /\ printed' \in 0..PrintGap
      BY <1>3, <3>1, CappedTypes DEF Elapse
    <3>. QED  BY <1>3, <3>2 DEF Elapse, ViewerCounts
  <2>3. Told'
    BY <1>3 DEF Elapse, Told
  <2>. QED  BY <2>1, <2>2, <2>3
<1>. QED  BY <1>1, <1>2, <1>3

\* Every step preserves the invariant.
LEMMA NextInv == ASSUME IInv, [Next]_vars PROVE IInv'
<1>1. CASE UNCHANGED vars
  BY <1>1, KeepsSender, KeepsViewer DEF IInv, vars, senderVars
<1>. QED  BY <1>1, StartRunInv, SendSampleInv, LoopInv, OutsideInv DEF Next

-----------------------------------------------------------------------------
\* In every reachable state of the sender, the network and the viewer the invariant holds.
THEOREM PoseInv == Spec => []IInv
<1>1. Init => IInv
  BY InitInv
<1>2. IInv /\ [Next]_vars => IInv'
  BY NextInv
<1>. QED  BY <1>1, <1>2, PTL DEF Spec

\* The fields have their types, and a pose told as tracking is tracked (receive.py:83-90).
THEOREM PoseTypes == Spec => []TypeOK
<1>1. IInv => TypeOK
  BY DEF IInv, SenderInv, SenderTypes, PacketsOfRuns, GateInv, ViewerInv, ViewerCounts, Told, TypeOK
<1>. QED  BY <1>1, PoseInv, PTL

\* Only the viewer changes what it has, by accepting a packet.
LEMMA OnlyAccept ==
  ASSUME Next, latest' # latest
  PROVE  \E p \in network : Accept(p)
BY DEF Next, StartRun, SendSample, Loop, Poll, Refuse, Drained, ExpireAgain, Expire, Report, Select,
       Stop, Fail, Elapse, gateVars

\* Poses are accepted in the order they were taken: the times of sending decide, across the
\* wrap of the numbers and across runs (pose_packet.py:163-167).
THEOREM AcceptedInSendingOrder == Spec => AcceptedInOrder
<1>1. ASSUME IInv, Next, latest # None, latest' # latest
      PROVE  \/ latest'.run > latest.run
             \/ latest'.run = latest.run /\ latest'.index > latest.index
  <2>1. PICK p \in network : Accept(p)
    BY <1>1, OnlyAccept
  <2>. DEFINE q == latest
  <2>2. latest' = p /\ q \in network /\ p.stamp > q.stamp
    BY <1>1, <2>1 DEF IInv, GateInv, Accept, Acceptable
  <2>. HIDE DEF q
  <2>3. /\ p.run \in Nat /\ q.run \in Nat /\ p.stamp \in Nat /\ q.stamp \in Nat
        /\ p.index \in Nat /\ q.index \in Nat
    BY <1>1, <2>2, PacketFields DEF IInv
  <2>4. /\ p.run < q.run => p.stamp < q.stamp
        /\ p.run = q.run /\ p.index < q.index => p.stamp < q.stamp
        /\ p.run = q.run /\ p.index = q.index => p.stamp = q.stamp
    BY <1>1, <2>2 DEF IInv, SenderInv, StampsInOrder
  <2>5. p.run > q.run \/ (p.run = q.run /\ p.index > q.index)
    BY <2>2, <2>3, <2>4
  <2>. QED  BY <2>2, <2>5 DEF q
<1>2. IInv /\ [Next]_vars => [latest # None /\ latest' # latest =>
                                \/ latest'.run > latest.run
                                \/ latest'.run = latest.run /\ latest'.index > latest.index]_vars
  BY <1>1
<1>. QED  BY <1>2, PoseInv, PTL DEF Spec, AcceptedInOrder

\* No later pose of a run is refused, wherever its numbers wrap and however coarse the clock
\* (pose_packet.py:128-131, replay.py:46-47).
THEOREM LaterPosesAreAcceptable == Spec => []LaterIsAcceptable
<1>1. ASSUME IInv, NEW p \in network, latest # None, p.run = latest.run, p.index > latest.index
      PROVE  Acceptable(p, latest)
  <2>. DEFINE q == latest
              start == first[p.run]
  <2>1. q \in network /\ p.run = q.run /\ p.index > q.index
    BY <1>1 DEF IInv, GateInv
  <2>. HIDE DEF q
  <2>2. /\ p.run \in 1..MaxRuns /\ p.run <= run /\ p.index \in 0..Frames /\ q.index \in 0..Frames
        /\ q.index < p.index
    BY <1>1, <2>1, PacketFields, RunAssumption DEF IInv
  <2>3. /\ start \in Starts
        /\ p.sequence = Number(start, p.index) /\ q.sequence = Number(start, q.index)
    BY <1>1, <2>1, <2>2 DEF IInv, SenderInv, SenderTypes, PacketsOfRuns
  <2>. HIDE DEF start
  <2>4. Newer(p.sequence, q.sequence)
    BY <2>2, <2>3, NewerWithin
  <2>5. p.stamp > q.stamp
    <3>1. q.stamp < p.stamp
      BY <1>1, <2>1, <2>2 DEF IInv, SenderInv, StampsInOrder
    <3>2. q.stamp \in Nat /\ p.stamp \in Nat
      BY <1>1, <2>1, PacketFields DEF IInv
    <3>. QED  BY <3>1, <3>2
  <2>. QED  BY <2>4, <2>5 DEF Acceptable, q
<1>2. IInv => LaterIsAcceptable
  BY <1>1 DEF LaterIsAcceptable
<1>. QED  BY <1>2, PoseInv, PTL

\* After the PAUSED of a run no packet of a run with the same numbers is accepted, of a run
\* started again least of all (pose_packet.py:138).
THEOREM RestartIsRefused == Spec => RestartRefused
<1>1. ASSUME IInv, Next, latest # None, latest' # latest, ~latest.tracking
      PROVE  first[latest'.run] # first[latest.run]
  <2>1. PICK p \in network : Accept(p)
    BY <1>1, OnlyAccept
  <2>. DEFINE q == latest
              start == first[p.run]
  <2>2. latest' = p /\ q \in network /\ ~q.tracking /\ Newer(p.sequence, q.sequence)
    BY <1>1, <2>1 DEF IInv, GateInv, Accept, Acceptable
  <2>. HIDE DEF q
  <2>3. /\ p.run \in 1..MaxRuns /\ p.run <= run /\ p.index \in 0..Frames /\ q.index \in 0..Frames
    BY <1>1, <2>2, PacketFields DEF IInv
  <2>4. q.index = Frames
    BY <1>1, <2>2, <2>3, RunAssumption DEF IInv, SenderInv, PacketsOfRuns
  <2>5. /\ start \in Starts
        /\ p.sequence = Number(start, p.index) /\ q.sequence = Number(first[q.run], q.index)
    BY <1>1, <2>2, <2>3 DEF IInv, SenderInv, SenderTypes, PacketsOfRuns
  <2>6. ASSUME first[q.run] = start PROVE FALSE
    <3>. HIDE DEF start
    <3>1. q.index < p.index
      BY <2>2, <2>3, <2>5, <2>6, NewerWithin
    <3>. QED  BY <2>3, <2>4, <3>1, RunAssumption
  <2>. QED  BY <2>2, <2>6 DEF q
<1>2. IInv /\ [Next]_vars => [latest # None /\ latest' # latest /\ ~latest.tracking
                                => first[latest'.run] # first[latest.run]]_vars
  BY <1>1
<1>. QED  BY <1>2, PoseInv, PTL DEF Spec, RestartRefused

\* Every end of tracking is counted once, when it happens (receive.py:54-56, 80-84, 102).
THEOREM LossesAreReported == Spec => EveryLossReported
<1>1. ASSUME IInv, Next PROVE tracking /\ ~tracking' <=> lost' # lost
  <2>1. lost \in Nat /\ tracking \in BOOLEAN /\ lost + 1 # lost
        /\ (pc = "drain" => previous = tracking)
    BY <1>1 DEF IInv, ViewerInv, ViewerCounts, Told
  <2>2. Expire => (tracking /\ ~tracking' <=> lost' # lost)
    BY <2>1 DEF Expire, Expired, Lose
  <2>3. CASE \E p \in network : Accept(p)
    <3>1. PICK p \in network : Accept(p)
      BY <2>3
    <3>2. p.tracking \in BOOLEAN
      BY <1>1 DEF IInv, SenderInv, PacketsOfRuns, Packet
    <3>. QED  BY <2>1, <3>1, <3>2 DEF Accept, At
  <2>4. CASE Stop
    BY <2>1, <2>4 DEF Stop, Lose
  <2>5. CASE ExpireAgain \/ \E ready \in BOOLEAN : Select(ready)
    BY <2>2, <2>5 DEF ExpireAgain, Select
  <2>6. CASE UNCHANGED <<tracking, lost>>
    BY <2>6
  <2>. QED
    BY <1>1, <2>3, <2>4, <2>5, <2>6
    DEF Next, StartRun, SendSample, Loop, Poll, Refuse, Drained, Report, Fail, Elapse, gateVars,
        viewerVars, emitted
<1>2. IInv /\ [Next]_vars => [tracking /\ ~tracking' <=> lost' # lost]_vars
  BY <1>1
<1>. QED  BY <1>2, PoseInv, PTL DEF Spec, EveryLossReported
=============================================================================
