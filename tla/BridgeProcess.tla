---------------------------- MODULE BridgeProcess ----------------------------
(***************************************************************************)
(* What whoever starts a bridge may rely on.  It knows nothing of hands,   *)
(* panels or passes of the loop: keys go in, input is enabled or not, a    *)
(* contact is down or not, and the process runs, is ending or is dead.     *)
(* Module Bridge implements it; module Companion is built upon it.         *)
(***************************************************************************)
EXTENDS Naturals, Sequences

CONSTANT MaxCommands \* bound on the keys that wait

VARIABLES commands, \* keys the process has not taken, oldest first
          enabled,  \* input may be injected
          contact,  \* Windows holds a contact of the process
          life      \* running, ending or dead

processVars == <<commands, enabled, contact, life>>

PInit == commands = <<>> /\ enabled = FALSE /\ contact = FALSE /\ life = "running"

Key(key) ==
  /\ Len(commands) < MaxCommands
  /\ commands' = Append(commands, key)
  /\ UNCHANGED <<enabled, contact, life>>

\* Input changes only on request, in the order of the keys.  A contact is lifted with it,
\* or stays for now when Windows refuses.
Obey ==
  /\ life = "running"
  /\ commands # <<>> /\ Head(commands) \in {"e", "d"}
  /\ commands' = Tail(commands)
  /\ enabled' = (Head(commands) = "e")
  /\ contact' \in {contact, FALSE}
  /\ UNCHANGED life

\* The key "q", or an exception, which may come while a contact is being made.
Leave ==
  /\ life = "running" /\ life' = "ending"
  /\ \/ UNCHANGED commands
     \/ commands # <<>> /\ Head(commands) = "q" /\ commands' = Tail(commands)
  /\ enabled' = FALSE
  /\ contact' \in {contact, contact \/ enabled}

Touch ==
  /\ life = "running" /\ enabled
  /\ contact' = TRUE
  /\ UNCHANGED <<commands, enabled, life>>

Lift ==
  /\ life # "dead"
  /\ contact' = FALSE
  /\ UNCHANGED <<commands, enabled, life>>

\* The last attempt to lift belongs to the step that ends the process.
EndProcess ==
  /\ life = "ending" /\ life' = "dead"
  /\ contact' \in {contact, FALSE}
  /\ UNCHANGED <<commands, enabled>>

PNext ==
  \/ Obey \/ Leave \/ Touch \/ Lift \/ EndProcess
  \/ \E key \in {"e", "d", "q"} : Key(key)

PSpec == PInit /\ [][PNext]_processVars

\* A "q" that waits ends the process, whatever waits before it.
Quits ==
  life = "running" /\ (\E i \in DOMAIN commands : commands[i] = "q") ~> life = "dead"
=============================================================================
