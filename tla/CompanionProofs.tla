---------------------------- MODULE CompanionProofs ----------------------------
(***************************************************************************)
(* The safety invariants of Companion, for any bounds on what waits.       *)
(*                                                                         *)
(* What the window shows lags behind the process, so the invariant says    *)
(* what both will agree on: the last key that waits decides what was asked *)
(* for (Asked), the last line that waits says what the process does        *)
(* (Shown), and what is still to be cleaned up has its line waiting        *)
(* (Clean).                                                                *)
(***************************************************************************)
EXTENDS Companion, SequenceTheorems, TLAPS

\* Of the members of S in s the last is x, there is none, x is somewhere in s.
LastIs(s, S, x) == \E i \in DOMAIN s : s[i] = x /\ \A j \in DOMAIN s : i < j => s[j] \notin S
Without(s, S) == \A i \in DOMAIN s : s[i] \notin S
Has(s, x) == \E i \in DOMAIN s : s[i] = x

Keys == {"e", "d"}
Inputs == {"enabled", "disabled"}
Lines == {"pair", "enabled", "disabled", "refused", "end"}

Values ==
  /\ life \in {"none", "starting", "running", "ending", "dead"}
  /\ gui \in {"open", "polling", "dialog", "gone"}
  /\ clipboard \in {"code", "other"}
  /\ status \in {"none", "connecting", "paired", "enabled", "disabled", "copied", "broken",
                 "stopping", "stopped"}
Flags ==
  /\ enabled \in BOOLEAN /\ contact \in BOOLEAN /\ closing \in BOOLEAN /\ process \in BOOLEAN
  /\ pairing \in BOOLEAN /\ copied \in BOOLEAN /\ buttons \in BOOLEAN /\ asked \in BOOLEAN
  /\ leaving \in BOOLEAN /\ told \in BOOLEAN /\ locked \in BOOLEAN /\ reopened \in BOOLEAN
Queues ==
  /\ commands \in Seq({"e", "d", "q"})
  /\ Len(commands) <= MaxCommands + 1 /\ (gui # "gone" => Len(commands) <= MaxCommands)
  /\ events \in Seq(Lines)

\* A process, its lines and what is shown of it belong to the window's `process`.
OneProcess ==
  /\ Alive \/ events # <<>> \/ pairing \/ copied \/ buttons => process
  /\ events # <<>> => life \notin {"none", "starting"}
  /\ life \in {"none", "starting"} => ~enabled /\ ~contact

LinesInOrder ==
  \A i \in DOMAIN events :
    /\ events[i] = "end" => i = Len(events) /\ life = "dead"
    /\ events[i] = "refused" => life = "dead"
    /\ events[i] = "pair" => i = 1

Asked ==
  life \in {"starting", "running"} =>
    /\ Without(commands, Keys) => enabled = asked
    /\ \A key \in Keys : LastIs(commands, Keys, key) => asked = (key = "e")
    /\ status = "stopping" => Has(commands, "q")

Shown ==
  /\ status \in {"none", "broken", "stopped"} => ~Alive
  /\ life = "starting" => status # "enabled"
  /\ life = "running" /\ gui # "gone" =>
       /\ Without(events, Inputs) =>
            /\ status = "enabled" => enabled
            /\ status \in {"connecting", "paired", "disabled"} => ~enabled
            /\ Has(events, "pair") => ~enabled
       /\ \A line \in Inputs : LastIs(events, Inputs, line) => enabled = (line = "enabled")
       /\ buttons \/ Has(events, "pair") \/ Has(commands, "q")

Clean ==
  /\ clipboard = "code" => copied \/ locked
  /\ life = "dead" /\ contact =>
       told \/ Has(events, "refused") \/ (gui = "gone" /\ process)

IInv == Values /\ Flags /\ Queues /\ OneProcess /\ LinesInOrder /\ Asked /\ Shown /\ Clean

-----------------------------------------------------------------------------
(* Queues.                                                                 *)

\* One more at the end: it is the last of its kind.
LEMMA AppendOne ==
  ASSUME NEW A, NEW s \in Seq(A), NEW x \in A, NEW S
  PROVE  /\ Append(s, x) \in Seq(A) /\ Len(Append(s, x)) = Len(s) + 1
         /\ Without(Append(s, x), S) <=> Without(s, S) /\ x \notin S
         /\ \A y \in S : LastIs(Append(s, x), S, y) <=>
                           \/ x \in S /\ y = x
                           \/ x \notin S /\ LastIs(s, S, y)
         /\ \A y : Has(Append(s, x), y) <=> Has(s, y) \/ y = x
<1>. DEFINE t == Append(s, x)
            n == Len(s)
<1>1. /\ t \in Seq(A) /\ n \in Nat /\ Len(t) = n + 1
      /\ DOMAIN s = 1..n /\ DOMAIN t = 1..(n + 1)
      /\ t[n + 1] = x /\ \A i \in 1..n : t[i] = s[i]
  OBVIOUS
<1>. HIDE DEF t, n
<1>2. Without(t, S) <=> Without(s, S) /\ x \notin S
  BY <1>1 DEF Without
<1>3. ASSUME NEW y \in S
      PROVE  LastIs(t, S, y) <=> (x \in S /\ y = x) \/ (x \notin S /\ LastIs(s, S, y))
  <2>1. ASSUME x \in S PROVE LastIs(t, S, y) <=> y = x
    <3>1. ASSUME y = x PROVE LastIs(t, S, y)
      BY <1>1, <3>1 DEF LastIs
    <3>2. ASSUME LastIs(t, S, y) PROVE y = x
      <4>1. PICK i \in 1..(n + 1) : t[i] = y /\ \A j \in 1..(n + 1) : i < j => t[j] \notin S
        BY <1>1, <3>2 DEF LastIs
      <4>2. i = n + 1
        BY <1>1, <2>1, <4>1
      <4>. QED  BY <1>1, <4>1, <4>2
    <3>. QED  BY <3>1, <3>2
  <2>2. ASSUME x \notin S PROVE LastIs(t, S, y) <=> LastIs(s, S, y)
    <3>1. ASSUME LastIs(s, S, y) PROVE LastIs(t, S, y)
      BY <1>1, <2>2, <3>1 DEF LastIs
    <3>2. ASSUME LastIs(t, S, y) PROVE LastIs(s, S, y)
      <4>1. PICK i \in 1..(n + 1) : t[i] = y /\ \A j \in 1..(n + 1) : i < j => t[j] \notin S
        BY <1>1, <3>2 DEF LastIs
      <4>2. i \in 1..n
        BY <1>1, <2>2, <4>1
      <4>. QED  BY <1>1, <4>1, <4>2 DEF LastIs
    <3>. QED  BY <3>1, <3>2
  <2>. QED  BY <2>1, <2>2
<1>4. \A y : Has(t, y) <=> Has(s, y) \/ y = x
  BY <1>1 DEF Has
<1>. QED  BY <1>1, <1>2, <1>3, <1>4 DEF t, n

\* The first is taken.
LEMMA TakeOne ==
  ASSUME NEW A, NEW s \in Seq(A), s # <<>>, NEW S
  PROVE  /\ Head(s) \in A /\ Tail(s) \in Seq(A) /\ Len(Tail(s)) = Len(s) - 1
         /\ Without(s, S) <=> Without(Tail(s), S) /\ Head(s) \notin S
         /\ \A y \in S : LastIs(s, S, y) <=>
                           \/ LastIs(Tail(s), S, y)
                           \/ Head(s) = y /\ Without(Tail(s), S)
         /\ \A y : Has(s, y) <=> Has(Tail(s), y) \/ Head(s) = y
         /\ Head(s) = s[1] /\ \A i \in DOMAIN Tail(s) : i + 1 \in DOMAIN s /\ Tail(s)[i] = s[i + 1]
<1>. DEFINE t == Tail(s)
            n == Len(s)
<1>1. /\ t \in Seq(A) /\ n \in Nat /\ n >= 1 /\ Len(t) = n - 1 /\ Head(s) = s[1] /\ s[1] \in A
      /\ DOMAIN s = 1..n /\ DOMAIN t = 1..(n - 1)
      /\ \A i \in 1..(n - 1) : t[i] = s[i + 1]
  OBVIOUS
<1>. HIDE DEF t, n
<1>2. \A i \in 2..n : i - 1 \in 1..(n - 1) /\ s[i] = t[i - 1]
  BY <1>1
<1>3. \A i \in 1..n : i = 1 \/ i \in 2..n
  BY <1>1
<1>4. Without(s, S) <=> Without(t, S) /\ Head(s) \notin S
  <2>1. ASSUME Without(s, S) PROVE Without(t, S) /\ Head(s) \notin S
    BY <1>1, <2>1 DEF Without
  <2>2. ASSUME Without(t, S), Head(s) \notin S PROVE Without(s, S)
    BY <1>1, <1>2, <1>3, <2>2 DEF Without
  <2>. QED  BY <2>1, <2>2
<1>5. ASSUME NEW y \in S
      PROVE  LastIs(s, S, y) <=> LastIs(t, S, y) \/ (Head(s) = y /\ Without(t, S))
  <2>1. ASSUME LastIs(s, S, y) PROVE LastIs(t, S, y) \/ (Head(s) = y /\ Without(t, S))
    <3>1. PICK i \in 1..n : s[i] = y /\ \A j \in 1..n : i < j => s[j] \notin S
      BY <1>1, <2>1 DEF LastIs
    <3>2. CASE i = 1
      BY <1>1, <3>1, <3>2 DEF Without
    <3>3. CASE i \in 2..n
      <4>1. i - 1 \in 1..(n - 1) /\ t[i - 1] = y
        BY <1>2, <3>1, <3>3
      <4>2. ASSUME NEW j \in 1..(n - 1), i - 1 < j PROVE t[j] \notin S
        BY <1>1, <3>1, <4>2
      <4>. QED  BY <1>1, <4>1, <4>2 DEF LastIs
    <3>. QED  BY <1>3, <3>2, <3>3
  <2>2. ASSUME LastIs(t, S, y) PROVE LastIs(s, S, y)
    <3>1. PICK i \in 1..(n - 1) : t[i] = y /\ \A j \in 1..(n - 1) : i < j => t[j] \notin S
      BY <1>1, <2>2 DEF LastIs
    <3>2. i + 1 \in 1..n /\ s[i + 1] = y
      BY <1>1, <3>1
    <3>3. ASSUME NEW j \in 1..n, i + 1 < j PROVE s[j] \notin S
      <4>1. j \in 2..n /\ i < j - 1
        BY <1>1, <3>3
      <4>. QED  BY <1>2, <3>1, <4>1
    <3>. QED  BY <1>1, <3>2, <3>3 DEF LastIs
  <2>3. ASSUME Head(s) = y, Without(t, S) PROVE LastIs(s, S, y)
    <3>1. ASSUME NEW j \in 1..n, 1 < j PROVE s[j] \notin S
      <4>1. j \in 2..n
        BY <3>1
      <4>. QED  BY <1>1, <1>2, <2>3, <4>1 DEF Without
    <3>. QED  BY <1>1, <2>3, <3>1 DEF LastIs
  <2>. QED  BY <2>1, <2>2, <2>3
<1>6. \A y : Has(s, y) <=> Has(t, y) \/ Head(s) = y
  <2>1. ASSUME NEW y, Has(s, y) PROVE Has(t, y) \/ Head(s) = y
    BY <1>1, <1>2, <1>3, <2>1 DEF Has
  <2>2. ASSUME NEW y, Has(t, y) \/ Head(s) = y PROVE Has(s, y)
    BY <1>1, <2>2 DEF Has
  <2>. QED  BY <2>1, <2>2
<1>. QED  BY <1>1, <1>4, <1>5, <1>6 DEF t, n

\* Nothing waits in an empty queue.
LEMMA EmptyQueue ==
  ASSUME NEW S
  PROVE  Without(<<>>, S) /\ (\A y : ~LastIs(<<>>, S, y) /\ ~Has(<<>>, y))
BY DEF Without, LastIs, Has

\* What the process says, as appending.
LEMMA SayOne ==
  ASSUME NEW A, NEW s \in Seq(A), NEW x \in A
  PROVE  s \o <<x>> = Append(s, x)
BY AppendIsConcat

\* Two lines at once.
LEMMA SayTwo ==
  ASSUME NEW A, NEW s \in Seq(A), NEW x \in A, NEW y \in A
  PROVE  /\ s \o <<x, y>> \in Seq(A) /\ Len(s \o <<x, y>>) = Len(s) + 2
         /\ \A i \in DOMAIN s : (s \o <<x, y>>)[i] = s[i]
         /\ (s \o <<x, y>>)[Len(s) + 1] = x /\ (s \o <<x, y>>)[Len(s) + 2] = y
<1>1. <<x, y>> \in Seq(A) /\ Len(<<x, y>>) = 2 /\ <<x, y>>[1] = x /\ <<x, y>>[2] = y
  OBVIOUS
<1>. DEFINE t == <<x, y>>
<1>. HIDE DEF t
<1>2. t \in Seq(A) /\ Len(t) = 2 /\ t[1] = x /\ t[2] = y
  BY <1>1 DEF t
<1>. DEFINE u == s \o t
            n == Len(s)
<1>3. /\ u \in Seq(A) /\ Len(u) = n + Len(t)
      /\ \A i \in 1..(n + Len(t)) : u[i] = IF i <= n THEN s[i] ELSE t[i - n]
  BY <1>2, ConcatProperties, Zenon
<1>4. n \in Nat /\ DOMAIN s = 1..n
  OBVIOUS
<1>. HIDE DEF u, n
<1>5. Len(u) = n + 2 /\ u[n + 1] = x /\ u[n + 2] = y /\ \A i \in DOMAIN s : u[i] = s[i]
  BY <1>2, <1>3, <1>4
<1>. QED  BY <1>3, <1>5 DEF t, u, n

-----------------------------------------------------------------------------
(* The invariant.                                                          *)

\* At first there is no process.
LEMMA InitInv == Init => IInv
<1>. SUFFICES ASSUME Init PROVE IInv
  OBVIOUS
<1>. USE EmptyQueue DEF Init
<1>1. Values
  BY DEF Values
<1>2. Flags
  BY DEF Flags
<1>3. Queues
  BY BoundAssumption DEF Queues
<1>4. OneProcess /\ LinesInOrder
  BY DEF OneProcess, LinesInOrder, Alive
<1>5. Asked /\ Shown /\ Clean
  BY DEF Asked, Shown, Clean, Alive
<1>. QED  BY <1>1, <1>2, <1>3, <1>4, <1>5 DEF IInv

\* What the process does: one line at most, until it ends.
LEMMA SaysOne ==
  ASSUME IInv, NEW x \in Lines, Say(<<x>>), gui' = gui
  PROVE  /\ events' \in Seq(Lines)
         /\ gui = "gone" => events' = <<>>
         /\ gui # "gone" =>
              /\ events' # <<>>
              /\ Len(events') = Len(events) + 1
              /\ events'[Len(events')] = x
              /\ \A i \in DOMAIN events' : \/ i \in DOMAIN events /\ events'[i] = events[i]
                                           \/ i = Len(events') /\ i = Len(events) + 1
              /\ Without(events', Inputs) <=> Without(events, Inputs) /\ x \notin Inputs
              /\ \A y \in Inputs : LastIs(events', Inputs, y) <=>
                                      \/ x \in Inputs /\ y = x
                                      \/ x \notin Inputs /\ LastIs(events, Inputs, y)
              /\ \A y : Has(events', y) <=> Has(events, y) \/ y = x
<1>1. events \in Seq(Lines)
  BY DEF IInv, Queues
<1>2. CASE gui = "gone"
  BY <1>2 DEF Say
<1>3. CASE gui # "gone"
  <2>1. events' = Append(events, x)
    BY <1>1, <1>3, SayOne DEF Say
  <2>. HIDE DEF Lines, Inputs
  <2>2. /\ events' \in Seq(Lines) /\ Len(events') = Len(events) + 1
        /\ Without(events', Inputs) <=> Without(events, Inputs) /\ x \notin Inputs
        /\ \A y \in Inputs : LastIs(events', Inputs, y) <=>
                                      \/ x \in Inputs /\ y = x
                                      \/ x \notin Inputs /\ LastIs(events, Inputs, y)
        /\ \A y : Has(events', y) <=> Has(events, y) \/ y = x
    BY <1>1, <2>1, AppendOne
  <2>3. /\ events' # <<>>
        /\ events'[Len(events')] = x
        /\ \A i \in DOMAIN events' : \/ i \in DOMAIN events /\ events'[i] = events[i]
                                     \/ i = Len(events') /\ i = Len(events) + 1
    <3>. DEFINE n == Len(events)
                t == events'
    <3>1. /\ n \in Nat /\ DOMAIN events = 1..n /\ DOMAIN t = 1..(n + 1) /\ Len(t) = n + 1
          /\ t[n + 1] = x /\ \A i \in 1..n : t[i] = events[i]
      BY <1>1, <2>1
    <3>2. t # <<>>
      BY <1>1, <2>1, AppendProperties
    <3>. HIDE DEF n, t
    <3>3. /\ t[Len(t)] = x
          /\ \A i \in DOMAIN t : \/ i \in DOMAIN events /\ t[i] = events[i]
                                 \/ i = Len(t) /\ i = n + 1
      BY <3>1
    <3>. QED  BY <3>2, <3>3 DEF n, t
  <2>. QED  BY <1>3, <2>2, <2>3
<1>. QED  BY <1>2, <1>3

-----------------------------------------------------------------------------
(* The process.                                                            *)

\* Before a process says anything, nothing waits.
LEMMA SilentStart == ASSUME IInv, life \in {"none", "starting"} PROVE events = <<>>
BY DEF IInv, OneProcess

\* The pairing line is the first.
LEMMA AnnounceInv == ASSUME IInv, Announce PROVE IInv'
<1>. USE DEF Announce, Unseen, userVars
<1>1. /\ life = "starting" /\ life' = "running" /\ gui' = gui /\ "pair" \in Lines
      /\ events = <<>> /\ "pair" \notin Inputs /\ Say(<<"pair">>) /\ ~enabled
  BY SilentStart DEF Lines, Inputs, IInv, OneProcess
<1>2. Values' /\ Flags'
  BY DEF IInv, Values, Flags
<1>3. Queues'
  BY <1>1, SaysOne DEF IInv, Queues
<1>4. OneProcess'
  BY <1>1 DEF IInv, OneProcess, Alive
<1>5. LinesInOrder'
  <2>1. \A i \in DOMAIN events' : i = 1 /\ events'[i] = "pair"
    BY <1>1 DEF Say
  <2>. QED  BY <2>1 DEF LinesInOrder
<1>6. Asked'
  BY <1>1 DEF IInv, Asked
<1>7. Shown'
  <2>1. gui # "gone" => Has(events', "pair") /\ \A y \in Inputs : ~LastIs(events', Inputs, y)
    BY <1>1, SaysOne, EmptyQueue
  <2>. QED  BY <1>1, <2>1 DEF IInv, Shown, Alive
<1>8. Clean'
  BY <1>1 DEF IInv, Clean
<1>. QED  BY <1>2, <1>3, <1>4, <1>5, <1>6, <1>7, <1>8 DEF IInv

\* A process that fails to start says that it ends, and no more.
LEMMA FailToStartInv == ASSUME IInv, FailToStart PROVE IInv'
<1>. USE DEF FailToStart, Unseen, userVars
<1>1. /\ life = "starting" /\ life' = "dead" /\ gui' = gui /\ "end" \in Lines
      /\ events = <<>> /\ Say(<<"end">>) /\ ~contact /\ process
  BY SilentStart DEF Lines, IInv, OneProcess, Alive
<1>2. Values' /\ Flags'
  BY DEF IInv, Values, Flags
<1>3. Queues'
  BY <1>1, SaysOne DEF IInv, Queues
<1>4. OneProcess'
  BY <1>1 DEF IInv, OneProcess, Alive
<1>5. LinesInOrder'
  <2>1. \A i \in DOMAIN events' : i = 1 /\ events'[i] = "end" /\ i = Len(events')
    BY <1>1 DEF Say
  <2>. QED  BY <1>1, <2>1 DEF LinesInOrder
<1>6. Asked' /\ Shown' /\ Clean'
  BY <1>1 DEF IInv, Asked, Shown, Clean, Alive
<1>. QED  BY <1>2, <1>3, <1>4, <1>5, <1>6 DEF IInv

\* The line that a key causes says what the process does from then on.
LEMMA ObeyInv == ASSUME IInv, ChildObeys PROVE IInv'
<1>. DEFINE x == IF enabled' THEN "enabled" ELSE "disabled"
<1>. USE DEF ChildObeys, Obey, Unseen, userVars
<1>1. /\ life = "running" /\ life' = "running" /\ gui' = gui
      /\ x \in Lines /\ x \in Inputs /\ x # "end" /\ x # "refused" /\ x # "pair" /\ Say(<<x>>)
      /\ process /\ process' = process
  BY DEF Lines, Inputs, IInv, OneProcess, Alive
<1>2. /\ commands \in Seq({"e", "d", "q"}) /\ commands # <<>> /\ commands' = Tail(commands)
      /\ Head(commands) \in Keys
  BY DEF IInv, Queues, Keys
<1>3. /\ commands' \in Seq({"e", "d", "q"}) /\ Len(commands') = Len(commands) - 1
      /\ \A y \in Keys : LastIs(commands, Keys, y) <=>
                           \/ LastIs(commands', Keys, y)
                           \/ Head(commands) = y /\ Without(commands', Keys)
      /\ Has(commands, "q") <=> Has(commands', "q") \/ Head(commands) = "q"
  <2>. HIDE DEF Keys
  <2>. QED  BY <1>2, TakeOne
<1>4. Has(commands, "q") <=> Has(commands', "q")
  BY <1>2, <1>3 DEF Keys
<1>5. Values' /\ Flags'
  <2>1. Values'
    BY DEF IInv, Values
  <2>2. Flags'
    BY ZenonT(60) DEF IInv, Flags
  <2>. QED  BY <2>1, <2>2
<1>6. Queues'
  <2>1. Len(commands) \in Nat
    BY <1>2
  <2>. HIDE DEF x
  <2>. QED  BY <1>1, <1>3, <2>1, SaysOne, BoundAssumption DEF IInv, Queues
<1>7. OneProcess'
  BY <1>1 DEF IInv, OneProcess, Alive
<1>. HIDE DEF x
<1>8. LinesInOrder'
  <2>1. CASE gui = "gone"
    BY <1>1, <2>1, SaysOne DEF LinesInOrder
  <2>2. CASE gui # "gone"
    <3>1. \A i \in DOMAIN events : events[i] # "end"
      BY <1>1 DEF IInv, LinesInOrder
    <3>. QED  BY <1>1, <2>2, <3>1, SaysOne DEF IInv, LinesInOrder
  <2>. QED  BY <2>1, <2>2
<1>9. Asked'
  <2>1. enabled' = (Head(commands) = "e") /\ asked' = asked
    OBVIOUS
  <2>2. Without(commands', Keys) => LastIs(commands, Keys, Head(commands))
    BY <1>2, <1>3
  <2>3. Without(commands', Keys) => enabled' = asked'
    BY <1>1, <1>2, <2>1, <2>2 DEF IInv, Asked
  <2>. QED  BY <1>1, <1>3, <1>4, <2>1, <2>3 DEF IInv, Asked
<1>10. Shown'
  <2>1. gui # "gone" => /\ ~Without(events', Inputs)
                        /\ \A y \in Inputs : LastIs(events', Inputs, y) <=> y = x
                        /\ \A y : Has(events', y) <=> Has(events, y) \/ y = x
    BY <1>1, SaysOne
  <2>2. enabled' = (x = "enabled")
    BY DEF IInv, Flags, x
  <2>. QED  BY <1>1, <1>4, <2>1, <2>2 DEF IInv, Shown, Alive
<1>11. Clean'
  BY <1>1 DEF IInv, Clean
<1>. QED  BY <1>5, <1>6, <1>7, <1>8, <1>9, <1>10, <1>11 DEF IInv

\* The process leaves its loop, or a contact comes or goes.
LEMMA ActsInv == ASSUME IInv, ChildActs PROVE IInv'
<1>. USE DEF ChildActs, Unseen, userVars
<1>1. CASE Leave
  <2>1. life = "running" /\ life' = "ending"
    BY <1>1 DEF Leave
  <2>2. Values' /\ Flags'
    <3>1. Values'
      BY <1>1 DEF Leave, IInv, Values
    <3>2. Flags'
      BY <1>1, ZenonT(60) DEF Leave, IInv, Flags
    <3>. QED  BY <3>1, <3>2
  <2>3. Queues'
    <3>1. /\ commands \in Seq({"e", "d", "q"}) /\ Len(commands) \in Nat
          /\ commands # <<>> => /\ Tail(commands) \in Seq({"e", "d", "q"})
                                /\ Len(Tail(commands)) = Len(commands) - 1
      BY TakeOne DEF IInv, Queues
    <3>2. /\ commands' \in Seq({"e", "d", "q"})
          /\ Len(commands') = Len(commands) \/ Len(commands') = Len(commands) - 1
      BY <1>1, <3>1 DEF Leave
    <3>. QED  BY <3>1, <3>2, BoundAssumption DEF IInv, Queues
  <2>4. OneProcess' /\ LinesInOrder'
    BY <1>1, <2>1 DEF Leave, IInv, OneProcess, LinesInOrder, Alive
  <2>5. Asked' /\ Shown' /\ Clean'
    BY <2>1 DEF IInv, Asked, Shown, Clean, Alive
  <2>. QED  BY <2>2, <2>3, <2>4, <2>5 DEF IInv
<1>2. CASE Touch \/ Lift
  <2>1. Values' /\ Flags' /\ Queues'
    <3>1. Values' /\ Queues'
      BY <1>2 DEF Touch, Lift, IInv, Values, Queues
    <3>2. Flags'
      BY <1>2, ZenonT(60) DEF Touch, Lift, IInv, Flags
    <3>. QED  BY <3>1, <3>2
  <2>2. OneProcess' /\ LinesInOrder'
    BY <1>2 DEF Touch, Lift, IInv, OneProcess, LinesInOrder, Alive
  <2>3. Asked' /\ Shown' /\ Clean'
    BY <1>2 DEF Touch, Lift, IInv, Asked, Shown, Clean, Alive
  <2>. QED  BY <2>1, <2>2, <2>3 DEF IInv
<1>. QED  BY <1>1, <1>2

\* The last lines: a contact that could not be lifted is reported before the end.
LEMMA EndsInv == ASSUME IInv, ChildEnds PROVE IInv'
<1>. USE DEF ChildEnds, EndProcess, Unseen, userVars
<1>1. /\ life = "ending" /\ life' = "dead" /\ process /\ process' /\ gui' = gui
      /\ events \in Seq(Lines) /\ "end" \in Lines /\ "refused" \in Lines
  BY DEF IInv, OneProcess, Alive, Queues, Lines
<1>2. Values' /\ Flags'
  <2>1. Values'
    BY DEF IInv, Values
  <2>2. Flags'
    BY ZenonT(60) DEF IInv, Flags
  <2>. QED  BY <2>1, <2>2
<1>3. OneProcess'
  BY <1>1 DEF IInv, OneProcess, Alive
<1>4. Asked' /\ Shown'
  BY <1>1 DEF IInv, Asked, Shown, Alive
<1>5. CASE contact' /\ gui # "gone"
  <2>1. events' = events \o <<"refused", "end">>
    BY <1>5 DEF Say
  <2>2. /\ events' \in Seq(Lines) /\ Len(events') = Len(events) + 2
        /\ \A i \in DOMAIN events : events'[i] = events[i]
        /\ events'[Len(events) + 1] = "refused" /\ events'[Len(events) + 2] = "end"
    <3>. HIDE DEF Lines
    <3>. QED  BY <1>1, <2>1, SayTwo
  <2>3. /\ Len(events) \in Nat /\ DOMAIN events = 1..Len(events)
        /\ DOMAIN events' = 1..(Len(events) + 2)
    BY <1>1, <2>2
  <2>4. Queues'
    BY <2>2 DEF IInv, Queues
  <2>5. LinesInOrder'
    BY <1>1, <2>2, <2>3 DEF IInv, LinesInOrder
  <2>6. Clean'
    <3>1. Len(events) + 1 \in DOMAIN events'
      BY <2>3
    <3>2. Has(events', "refused")
      BY <2>2, <3>1 DEF Has
    <3>. QED  BY <3>2 DEF IInv, Clean
  <2>. QED  BY <1>2, <1>3, <1>4, <2>4, <2>5, <2>6 DEF IInv
<1>6. CASE ~contact' /\ gui # "gone"
  <2>1. Say(<<"end">>)
    BY <1>6
  <2>2. Queues'
    BY <1>1, <2>1, SaysOne DEF IInv, Queues
  <2>3. LinesInOrder'
    BY <1>1, <1>6, <2>1, SaysOne DEF IInv, LinesInOrder
  <2>4. Clean'
    BY <1>6 DEF IInv, Clean
  <2>. QED  BY <1>2, <1>3, <1>4, <2>2, <2>3, <2>4 DEF IInv
<1>7. CASE gui = "gone"
  <2>1. events' = <<>> /\ gui' = "gone"
    BY <1>7 DEF Say
  <2>2. Queues' /\ LinesInOrder' /\ Clean'
    BY <1>1, <2>1 DEF IInv, Queues, LinesInOrder, Clean
  <2>. QED  BY <1>2, <1>3, <1>4, <2>2 DEF IInv
<1>. QED  BY <1>5, <1>6, <1>7

-----------------------------------------------------------------------------
(* The window.                                                             *)

\* A key waits behind the others; without a process it goes nowhere.
LEMMA Passes ==
  ASSUME IInv, NEW key \in {"e", "d", "q"}, Pass(key)
  PROVE  /\ commands' \in Seq({"e", "d", "q"}) /\ Len(commands') <= MaxCommands + 1
         /\ gui # "gone" => Len(commands') <= MaxCommands
         /\ UNCHANGED <<enabled, contact, life>>
         /\ ~Alive => commands' = commands
         /\ Alive =>
              /\ Without(commands', Keys) <=> Without(commands, Keys) /\ key \notin Keys
              /\ \A y \in Keys : LastIs(commands', Keys, y) <=>
                                   \/ key \in Keys /\ y = key
                                   \/ key \notin Keys /\ LastIs(commands, Keys, y)
              /\ Has(commands', "q") <=> Has(commands, "q") \/ key = "q"
<1>1. commands \in Seq({"e", "d", "q"}) /\ Len(commands) \in Nat
  BY DEF IInv, Queues
<1>2. CASE Alive
  <2>1. commands' = Append(commands, key) /\ Len(commands) < MaxCommands
    BY <1>2 DEF Pass
  <2>. HIDE DEF Keys
  <2>2. /\ commands' \in Seq({"e", "d", "q"}) /\ Len(commands') = Len(commands) + 1
        /\ Without(commands', Keys) <=> Without(commands, Keys) /\ key \notin Keys
        /\ \A y \in Keys : LastIs(commands', Keys, y) <=>
                                   \/ key \in Keys /\ y = key
                                   \/ key \notin Keys /\ LastIs(commands, Keys, y)
        /\ Has(commands', "q") <=> Has(commands, "q") \/ key = "q"
    BY <1>1, <2>1, AppendOne
  <2>3. Len(commands') <= MaxCommands /\ Len(commands') <= MaxCommands + 1
    BY <1>1, <2>1, <2>2, BoundAssumption
  <2>. QED  BY <1>2, <2>2, <2>3 DEF Pass
<1>3. CASE ~Alive
  BY <1>1, <1>3 DEF Pass, IInv, Queues
<1>. QED  BY <1>2, <1>3

\* What is cleared, unless Windows keeps the window from it.
LEMMA ClearsSecret ==
  ASSUME IInv, ClearSecret
  PROVE  /\ ~pairing' /\ pairing' \in BOOLEAN /\ ~copied' /\ copied' \in BOOLEAN
         /\ clipboard' \in {"code", "other"} /\ locked' \in BOOLEAN
         /\ clipboard' = "code" => locked'
BY DEF IInv, Values, Flags, Clean, ClearSecret

\* The window takes a line: the first, so a pairing line is the only one of its kind, and the
\* end leaves nothing behind.
LEMMA Handles ==
  ASSUME IInv, NEW line, Handle(line)
  PROVE  /\ line \in Lines /\ events' \in Seq(Lines) /\ process
         /\ LinesInOrder'
         /\ line = "end" => events' = <<>> /\ life = "dead" /\ ~Has(events', "refused")
         /\ ~Has(events', "pair")
         /\ Without(events, Inputs) <=> Without(events', Inputs) /\ line \notin Inputs
         /\ \A y \in Inputs : LastIs(events, Inputs, y) <=>
                                \/ LastIs(events', Inputs, y)
                                \/ line = y /\ Without(events', Inputs)
         /\ \A y : Has(events, y) <=> Has(events', y) \/ line = y
<1>1. events \in Seq(Lines) /\ events # <<>> /\ line = Head(events) /\ events' = Tail(events)
  BY DEF IInv, Queues, Handle
<1>2. /\ line \in Lines /\ events' \in Seq(Lines) /\ Len(events') = Len(events) - 1
      /\ Without(events, Inputs) <=> Without(events', Inputs) /\ line \notin Inputs
      /\ \A y \in Inputs : LastIs(events, Inputs, y) <=>
                                \/ LastIs(events', Inputs, y)
                                \/ line = y /\ Without(events', Inputs)
      /\ \A y : Has(events, y) <=> Has(events', y) \/ line = y
      /\ line = events[1]
      /\ \A i \in DOMAIN events' : i + 1 \in DOMAIN events /\ events'[i] = events[i + 1]
  <2>. HIDE DEF Lines, Inputs
  <2>. QED  BY <1>1, TakeOne
<1>3. /\ Len(events) \in Nat /\ Len(events) >= 1 /\ DOMAIN events = 1..Len(events)
      /\ DOMAIN events' = 1..Len(events')
  BY <1>1, <1>2
<1>4. process /\ life' = life
  BY <1>1 DEF IInv, OneProcess, Handle, processVars
<1>5. \A i \in DOMAIN events' :
        /\ events'[i] # "pair"
        /\ events'[i] = "end" => i = Len(events') /\ life = "dead"
        /\ events'[i] = "refused" => life = "dead"
  <2>1. ASSUME NEW i \in DOMAIN events'
        PROVE  i \in Nat /\ i >= 1 /\ i + 1 \in DOMAIN events /\ events'[i] = events[i + 1]
    BY <1>2, <1>3
  <2>2. ASSUME NEW i \in DOMAIN events', events'[i] = "pair" PROVE FALSE
    <3>1. i + 1 = 1
      BY <2>1, <2>2 DEF IInv, LinesInOrder
    <3>. QED  BY <2>1, <2>2, <3>1
  <2>3. ASSUME NEW i \in DOMAIN events', events'[i] = "end"
        PROVE  i = Len(events') /\ life = "dead"
    <3>1. i + 1 = Len(events) /\ life = "dead"
      BY <2>1, <2>3 DEF IInv, LinesInOrder
    <3>. QED  BY <1>2, <1>3, <2>1, <2>3, <3>1
  <2>4. ASSUME NEW i \in DOMAIN events', events'[i] = "refused" PROVE life = "dead"
    BY <2>1, <2>4 DEF IInv, LinesInOrder
  <2>. QED  BY <2>2, <2>3, <2>4
<1>6. LinesInOrder' /\ ~Has(events', "pair")
  BY <1>4, <1>5 DEF LinesInOrder, Has
<1>7. ASSUME line = "end" PROVE events' = <<>> /\ life = "dead" /\ ~Has(events', "refused")
  <2>1. 1 = Len(events) /\ life = "dead"
    <3>1. 1 \in DOMAIN events /\ events[1] = "end"
      BY <1>2, <1>3, <1>7
    <3>. QED  BY <3>1 DEF IInv, LinesInOrder
  <2>2. Len(events') = 0
    <3>1. Len(events') = Len(events) - 1
      BY <1>2
    <3>. QED  BY <2>1, <3>1
  <2>3. events' = <<>>
    BY <1>2, <2>2, EmptySeq
  <2>. QED  BY <2>1, <2>3, EmptyQueue
<1>. QED  BY <1>2, <1>4, <1>6, <1>7

\* With the end nothing of the process is left on the window.
LEMMA HandleEndInv == ASSUME IInv, HandleEnd PROVE IInv'
<1>. USE DEF HandleEnd
<1>1. /\ Handle("end") /\ events' = <<>> /\ life = "dead" /\ ~Has(events', "refused")
      /\ LinesInOrder' /\ gui # "gone" /\ ~Has(events, "refused")
  BY Handles DEF Handle
<1>2. /\ ~pairing' /\ pairing' \in BOOLEAN /\ ~copied' /\ copied' \in BOOLEAN
      /\ clipboard' \in {"code", "other"} /\ locked' \in BOOLEAN
      /\ clipboard' = "code" => locked'
  BY ClearsSecret
<1>3. UNCHANGED <<commands, enabled, contact, life, closing, asked, leaving, reopened, told>>
  BY <1>1 DEF Handle, processVars
<1>4. Values'
  BY <1>2, <1>3 DEF IInv, Values
<1>5. Flags'
  BY <1>2, <1>3 DEF IInv, Flags
<1>6. Queues'
  BY <1>1, <1>3 DEF IInv, Queues
<1>7. OneProcess'
  BY <1>1, <1>2, <1>3 DEF IInv, OneProcess, Alive
<1>8. Asked' /\ Shown' /\ Clean'
  BY <1>1, <1>2, <1>3 DEF IInv, Asked, Shown, Clean, Alive
<1>. QED  BY <1>1, <1>4, <1>5, <1>6, <1>7, <1>8 DEF IInv

\* The pairing line allows the buttons.
LEMMA HandlePairingInv == ASSUME IInv, HandlePairing PROVE IInv'
<1>. USE DEF HandlePairing
<1>1. /\ Handle("pair") /\ events' \in Seq(Lines) /\ process /\ gui # "gone" /\ LinesInOrder'
      /\ ~Has(events', "pair") /\ Has(events, "pair")
      /\ Has(events, "refused") <=> Has(events', "refused")
      /\ events # <<>>
      /\ Without(events, Inputs) <=> Without(events', Inputs)
      /\ \A y \in Inputs : LastIs(events, Inputs, y) <=> LastIs(events', Inputs, y)
  BY Handles DEF Handle, Inputs
<1>2. UNCHANGED <<commands, enabled, contact, life, closing, asked, leaving, reopened>>
  BY <1>1 DEF Handle, processVars
<1>3. Values'
  BY <1>2 DEF IInv, Values
<1>4. Flags'
  BY <1>2 DEF IInv, Flags
<1>5. Queues'
  BY <1>1, <1>2 DEF IInv, Queues
<1>6. OneProcess' /\ life \notin {"none", "starting"}
  BY <1>1, <1>2 DEF IInv, OneProcess, Alive
<1>7. Asked'
  BY <1>1, <1>2, <1>6 DEF IInv, Asked
<1>8. Shown'
  BY <1>1, <1>2, <1>6 DEF IInv, Shown, Alive
<1>9. Clean'
  BY <1>1, <1>2 DEF IInv, Clean
<1>. QED  BY <1>1, <1>3, <1>4, <1>5, <1>6, <1>7, <1>8, <1>9 DEF IInv

\* The window shows the line it takes, which is what the process does if no other waits.
LEMMA HandleInputInv == ASSUME IInv, HandleInput PROVE IInv'
<1>. USE DEF HandleInput
<1>1. PICK line \in Inputs : Handle(line) /\ status' = line
  BY DEF Inputs
<1>2. /\ events' \in Seq(Lines) /\ process /\ gui # "gone" /\ LinesInOrder'
      /\ ~Has(events', "pair") /\ events # <<>> /\ line # "pair" /\ line # "refused"
      /\ \A y : Has(events, y) <=> Has(events', y) \/ line = y
      /\ ~Without(events, Inputs)
      /\ \A y \in Inputs : LastIs(events, Inputs, y) <=>
                                \/ LastIs(events', Inputs, y)
                                \/ line = y /\ Without(events', Inputs)
  BY <1>1, Handles DEF Handle, Inputs
<1>3. UNCHANGED <<commands, enabled, contact, life, closing, asked, leaving, reopened>>
  BY <1>1 DEF Handle, processVars
<1>4. Values'
  BY <1>1, <1>3 DEF IInv, Values, Inputs
<1>5. Flags'
  BY <1>3 DEF IInv, Flags
<1>6. Queues'
  BY <1>2, <1>3 DEF IInv, Queues
<1>7. OneProcess' /\ life \notin {"none", "starting"}
  BY <1>2, <1>3 DEF IInv, OneProcess, Alive
<1>8. Asked'
  BY <1>1, <1>3, <1>7 DEF IInv, Asked, Inputs
<1>9. Shown'
  <2>1. line \in {"enabled", "disabled"}
    BY <1>1 DEF Inputs
  <2>2. life = "running" /\ Without(events', Inputs) => enabled = (line = "enabled")
    BY <1>1, <1>2 DEF IInv, Shown
  <2>. QED  BY <1>1, <1>2, <1>3, <1>7, <2>1, <2>2 DEF IInv, Shown, Alive
<1>10. Clean'
  BY <1>2, <1>3 DEF IInv, Clean
<1>. QED  BY <1>2, <1>4, <1>5, <1>6, <1>7, <1>8, <1>9, <1>10 DEF IInv

\* Only a dead process has refused.
LEMMA HandleRefusalInv == ASSUME IInv, HandleRefusal PROVE IInv'
<1>. USE DEF HandleRefusal
<1>1. /\ Handle("refused") /\ events' \in Seq(Lines) /\ process /\ LinesInOrder' /\ events # <<>>
      /\ life = "dead"
  <2>1. Handle("refused") /\ Has(events, "refused")
    BY Handles
  <2>2. life = "dead"
    BY <2>1 DEF IInv, LinesInOrder, Has
  <2>. QED  BY <2>1, <2>2, Handles DEF Handle
<1>2. UNCHANGED <<commands, enabled, contact, life, closing, asked, leaving, reopened>>
  BY <1>1 DEF Handle, processVars
<1>3. Values'
  BY <1>2 DEF IInv, Values
<1>4. Flags'
  BY <1>2 DEF IInv, Flags
<1>5. Queues'
  BY <1>1, <1>2 DEF IInv, Queues, Handle
<1>6. OneProcess'
  BY <1>1, <1>2 DEF IInv, OneProcess, Alive
<1>7. Asked' /\ Shown' /\ Clean'
  BY <1>1, <1>2 DEF IInv, Asked, Shown, Clean, Alive
<1>. QED  BY <1>1, <1>3, <1>4, <1>5, <1>6, <1>7 DEF IInv

\* A new process has nothing waiting, and nothing is asked of it.
LEMMA StartInv == ASSUME IInv, Start PROVE IInv'
<1>. USE DEF Start
<1>1. /\ ~pairing' /\ pairing' \in BOOLEAN /\ ~copied' /\ copied' \in BOOLEAN
      /\ clipboard' \in {"code", "other"} /\ locked' \in BOOLEAN
      /\ clipboard' = "code" => locked'
  BY ClearsSecret
<1>2. /\ events = <<>> /\ events' = <<>> /\ commands' = <<>>
      /\ ~process /\ life' = "starting" /\ ~enabled'
      /\ ~contact' /\ ~asked' /\ status' = "connecting" /\ gui' = gui /\ process'
  BY DEF IInv, OneProcess
<1>3. Values'
  BY <1>1 DEF IInv, Values
<1>4. Flags'
  BY <1>1 DEF IInv, Flags
<1>5. Queues'
  BY <1>2, BoundAssumption DEF Queues
<1>6. OneProcess' /\ LinesInOrder'
  BY <1>2 DEF OneProcess, LinesInOrder
<1>7. Asked'
  BY <1>2, EmptyQueue DEF IInv, Flags, Asked
<1>8. Shown' /\ Clean'
  BY <1>1, <1>2 DEF Shown, Clean
<1>. QED  BY <1>3, <1>4, <1>5, <1>6, <1>7, <1>8 DEF IInv

\* The key that is pressed decides what was asked for.
LEMMA PressInv == ASSUME IInv, NEW key \in Keys, Press(key) PROVE IInv'
<1>. USE DEF Press
<1>1. key \in {"e", "d", "q"} /\ Pass(key) /\ key # "q" /\ process
  BY DEF Keys, IInv, OneProcess
<1>2. Values'
  BY <1>1 DEF IInv, Values, Pass
<1>3. Flags'
  BY <1>1 DEF IInv, Flags, Pass
<1>4. Queues'
  BY <1>1, Passes DEF IInv, Queues
<1>5. OneProcess' /\ LinesInOrder'
  BY <1>1 DEF IInv, OneProcess, LinesInOrder, Alive, Pass
<1>6. /\ UNCHANGED <<life, enabled, contact, gui, events, buttons, told>>
      /\ UNCHANGED <<process, copied, clipboard, locked>>
  BY <1>1 DEF Pass
<1>7. CASE Alive
  <2>1. /\ ~Without(commands', Keys) /\ status' = status
        /\ \A y \in Keys : LastIs(commands', Keys, y) <=> y = key
        /\ Has(commands', "q") <=> Has(commands, "q")
    BY <1>1, <1>7, Passes
  <2>2. asked' = (key = "e")
    OBVIOUS
  <2>3. Asked'
    BY <1>6, <2>1, <2>2 DEF IInv, Asked
  <2>4. Shown' /\ Clean'
    BY <1>6, <2>1 DEF IInv, Shown, Clean, Alive
  <2>. QED  BY <1>2, <1>3, <1>4, <1>5, <2>3, <2>4 DEF IInv
<1>8. CASE ~Alive
  <2>1. commands' = commands
    BY <1>1, <1>8, Passes
  <2>2. Asked' /\ Shown' /\ Clean'
    BY <1>6, <1>8, <2>1 DEF IInv, Asked, Shown, Clean, Alive
  <2>. QED  BY <1>2, <1>3, <1>4, <1>5, <2>2 DEF IInv
<1>. QED  BY <1>7, <1>8

\* The key "q" changes neither which input key is last nor that one waits.
LEMMA StopInv == ASSUME IInv, Stop \/ Close PROVE IInv'
<1>. USE DEF Stop, Close, StopConnection
<1>1. /\ Pass("q") /\ ClearSecret /\ "q" \in {"e", "d", "q"} /\ "q" \notin Keys
      /\ buttons' = FALSE /\ status' = "stopping"
      /\ UNCHANGED <<life, enabled, contact, gui, events, told, process, asked>>
  BY DEF Pass, Keys
<1>2. /\ ~pairing' /\ pairing' \in BOOLEAN /\ ~copied' /\ copied' \in BOOLEAN
      /\ clipboard' \in {"code", "other"} /\ locked' \in BOOLEAN
      /\ clipboard' = "code" => locked'
  BY <1>1, ClearsSecret
<1>3. Values'
  BY <1>1, <1>2 DEF IInv, Values
<1>4. Flags'
  <2>1. closing' \in BOOLEAN /\ leaving' \in BOOLEAN /\ reopened' \in BOOLEAN
    BY DEF IInv, Flags, Alive
  <2>. QED  BY <1>1, <1>2, <2>1 DEF IInv, Flags
<1>5. Queues'
  BY <1>1, Passes DEF IInv, Queues
<1>6. OneProcess' /\ LinesInOrder'
  BY <1>1, <1>2 DEF IInv, OneProcess, LinesInOrder, Alive
<1>7. /\ Alive => /\ Without(commands', Keys) <=> Without(commands, Keys)
                  /\ \A y \in Keys : LastIs(commands', Keys, y) <=> LastIs(commands, Keys, y)
                  /\ Has(commands', "q")
      /\ ~Alive => commands' = commands
  BY <1>1, Passes
<1>8. Asked'
  BY <1>1, <1>7 DEF IInv, Asked, Alive
<1>9. Shown'
  BY <1>1, <1>7 DEF IInv, Shown, Alive
<1>10. Clean'
  BY <1>1, <1>2 DEF IInv, Clean
<1>. QED  BY <1>3, <1>4, <1>5, <1>6, <1>8, <1>9, <1>10 DEF IInv

\* Copying the pairing code changes the clipboard and what the window notes of it.
LEMMA CopyInv == ASSUME IInv, Copy PROVE IInv'
<1>. USE DEF Copy, processVars, userVars
<1>1. Values'
  BY DEF IInv, Values
<1>2. Flags'
  BY ZenonT(60) DEF IInv, Flags
<1>3. Queues' /\ OneProcess' /\ LinesInOrder'
  BY DEF IInv, Queues, OneProcess, LinesInOrder, Alive
<1>4. Asked' /\ Shown' /\ Clean'
  BY DEF IInv, Asked, Shown, Clean, Alive
<1>. QED  BY <1>1, <1>2, <1>3, <1>4 DEF IInv

\* Dismissing the error box and the end of a call of the timer change where the window is;
\* the clipboard is also others'.
LEMMA IdleInv == ASSUME IInv, Dismiss \/ PollEnds \/ OtherCopies \/ UNCHANGED vars PROVE IInv'
<1>1. /\ UNCHANGED <<processVars, closing, process, events, pairing, copied, buttons>>
      /\ UNCHANGED <<status, userVars>>
      /\ clipboard' = clipboard \/ clipboard' = "other"
      /\ \/ gui' = gui /\ gui' \in {"open", "polling", "dialog", "gone"}
         \/ gui # "gone" /\ gui' \in {"open", "polling"}
         \/ gui # "gone" /\ gui' = "gone" /\ ~process /\ events = <<>>
  BY DEF IInv, Values, Dismiss, PollEnds, OtherCopies, vars, guiVars
<1>. USE <1>1 DEF processVars, userVars
<1>2. Values'
  BY DEF IInv, Values
<1>3. Flags'
  BY DEF IInv, Flags
<1>4. Queues'
  BY DEF IInv, Queues
<1>5. OneProcess' /\ LinesInOrder' /\ Asked'
  BY DEF IInv, OneProcess, LinesInOrder, Asked, Alive
<1>6. Shown'
  BY DEF IInv, Shown, Alive
<1>7. Clean'
  BY EmptyQueue DEF IInv, Clean
<1>. QED  BY <1>2, <1>3, <1>4, <1>5, <1>6, <1>7 DEF IInv

\* Without the window its lines are lost and the process is told to quit.
LEMMA WindowDiesInv == ASSUME IInv, WindowDies PROVE IInv'
<1>. USE DEF WindowDies
<1>1. commands \in Seq({"e", "d", "q"}) /\ "q" \in {"e", "d", "q"} /\ "q" \notin Keys
      /\ Len(commands) \in Nat /\ Len(commands) <= MaxCommands
  BY DEF IInv, Queues, Keys
<1>2. Values'
  BY DEF IInv, Values
<1>3. Flags'
  BY DEF IInv, Flags, Alive
<1>4. Queues'
  <2>1. commands' \in Seq({"e", "d", "q"}) /\ Len(commands') <= MaxCommands + 1
    BY <1>1, AppendOne, BoundAssumption
  <2>. QED  BY <2>1 DEF Queues
<1>5. OneProcess' /\ LinesInOrder'
  BY DEF IInv, OneProcess, LinesInOrder, Alive
<1>6. Asked'
  <2>1. Alive => /\ Without(commands', Keys) <=> Without(commands, Keys)
                 /\ \A y \in Keys : LastIs(commands', Keys, y) <=> LastIs(commands, Keys, y)
                 /\ Has(commands', "q")
    <3>. HIDE DEF Keys
    <3>. QED  BY <1>1, AppendOne
  <2>. QED  BY <2>1 DEF IInv, Asked, Alive
<1>7. Shown'
  BY DEF IInv, Shown, Alive
<1>8. Clean'
  <2>1. Has(events, "refused") => process
    BY EmptyQueue DEF IInv, OneProcess
  <2>. QED  BY <2>1 DEF IInv, Clean
<1>. QED  BY <1>2, <1>3, <1>4, <1>5, <1>6, <1>7, <1>8 DEF IInv

\* Every step preserves the invariant.
LEMMA NextInv == ASSUME IInv, [Next]_vars PROVE IInv'
<1>1. CASE Child
  BY <1>1, AnnounceInv, FailToStartInv, ObeyInv, ActsInv, EndsInv DEF Child
<1>2. CASE Poll
  BY <1>2, HandleEndInv, HandlePairingInv, HandleInputInv, HandleRefusalInv, IdleInv DEF Poll
<1>3. CASE User
  BY <1>3, StartInv, StopInv, CopyInv, IdleInv, PressInv DEF User, Keys
<1>. QED  BY <1>1, <1>2, <1>3, WindowDiesInv, IdleInv DEF Next, Over

-----------------------------------------------------------------------------
\* In every reachable state of the window and its processes the invariant holds.
THEOREM CompanionInv == Spec => []IInv
<1>1. Init => IInv
  BY InitInv
<1>2. IInv /\ [Next]_vars => IInv'
  BY NextInv
<1>. QED  BY <1>1, <1>2, PTL DEF Spec

\* The fields of the window have their types, and an end is the last line of its process.
THEOREM CompanionTypes == Spec => []TypeOK
<1>1. IInv => TypeOK
  BY DEF IInv, Values, Flags, Queues, Lines, LinesInOrder, TypeOK
<1>. QED  BY <1>1, CompanionInv, PTL

\* Once everything has arrived, the window says of input what the process does and the user
\* asked for, in whatever order keys and lines crossed (setup_ui.py:78-91, 168-175).
THEOREM WindowTellsInput == Spec => []InputIsAsShown
<1>1. ASSUME IInv PROVE InputIsAsShown
  <2>1. ASSUME gui = "open", life = "running", commands = <<>>, events = <<>>
        PROVE  /\ enabled = asked
               /\ status = "enabled" => enabled
               /\ status \in {"connecting", "paired", "disabled", "broken", "stopping", "stopped"}
                    => ~enabled
               /\ buttons
    BY <1>1, <2>1, EmptyQueue DEF IInv, Asked, Shown, Alive
  <2>. QED  BY <2>1 DEF InputIsAsShown
<1>. QED  BY <1>1, CompanionInv, PTL

\* Without a process nothing of it is left on the window, no secret stays on the clipboard that
\* could be cleared, and a contact that could not be lifted was reported
\* (setup_ui.py:67-76, 159-177).
THEOREM EndsAreClean == Spec => []EndIsClean
<1>1. ASSUME IInv PROVE EndIsClean
  <2>1. ASSUME ~process PROVE /\ ~pairing /\ ~copied /\ ~buttons
                              /\ clipboard = "code" => locked
                              /\ contact => told
    <3>1. ~pairing /\ ~copied /\ ~buttons /\ ~Alive /\ events = <<>>
      BY <1>1, <2>1 DEF IInv, OneProcess
    <3>2. ~Has(events, "refused")
      BY <3>1, EmptyQueue
    <3>3. life \in {"none", "dead"}
      BY <1>1, <3>1 DEF IInv, Values, Alive
    <3>. QED  BY <1>1, <2>1, <3>1, <3>2, <3>3 DEF IInv, OneProcess, Clean
  <2>. QED  BY <2>1 DEF EndIsClean
<1>. QED  BY <1>1, CompanionInv, PTL
=============================================================================
