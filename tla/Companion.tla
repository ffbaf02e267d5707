------------------------------ MODULE Companion ------------------------------
(***************************************************************************)
(* windows-bridge/phonexr_bridge/setup_ui.py: the window that starts one   *)
(* bridge at a time, sends it keys through its standard input and shows    *)
(* what it prints.  A thread of the window queues every line and, when the *)
(* process is over, an end; the window's timer handles what is queued.     *)
(*                                                                         *)
(* The process itself is module BridgeProcess, which module Bridge         *)
(* implements.  `commands` stands for the pipe, the thread that reads it   *)
(* and the loop's queue, `events` for the other pipe, the thread that      *)
(* reads that and the window's queue: all of them keep the order.          *)
(***************************************************************************)
EXTENDS BridgeProcess

CONSTANT MaxEvents \* bound on the lines that wait when a button is pressed

ASSUME BoundAssumption == MaxCommands \in Nat /\ MaxEvents \in Nat

VARIABLES gui,       \* open, polling (in the timer), dialog (in its error box) or gone
          closing,   \* the window was asked to close
          process,   \* process is not None
          events,    \* queue.SimpleQueue
          pairing,   \* a pairing code is shown
          copied,    \* ... and the window has put it on the clipboard
          clipboard, \* a pairing code, or something else
          buttons,   \* Enable and Disable can be pressed
          status,    \* what the window says about the connection
          asked,     \* history: the input last asked for
          leaving,   \* history: this process was asked to end
          told,      \* history: the error box of a refused release came up
          locked,    \* history: Windows once kept the window from its clipboard
          reopened   \* history: a connection was started after closing

userVars == <<asked, leaving, told, locked, reopened>>
guiVars == <<gui, closing, process, events, pairing, copied, clipboard, buttons, status>>
vars == <<processVars, guiVars, userVars>>

Alive == life \in {"starting", "running", "ending"}

Init ==
  /\ commands = <<>> /\ enabled = FALSE /\ contact = FALSE /\ life = "none"
  /\ gui = "open" /\ closing = FALSE /\ process = FALSE /\ events = <<>>
  /\ pairing = FALSE /\ copied = FALSE /\ clipboard = "other"
  /\ buttons = FALSE /\ status = "none"
  /\ asked = FALSE /\ leaving = FALSE /\ told = FALSE /\ locked = FALSE /\ reopened = FALSE

-----------------------------------------------------------------------------
(* The process, as the window sees it.                                     *)

\* Lines on their way to the window; without it nobody reads them.
Say(lines) == events' = IF gui = "gone" THEN <<>> ELSE events \o lines

Unseen == UNCHANGED <<gui, closing, process, pairing, copied, clipboard, buttons, status, userVars>>

Announce ==
  /\ life = "starting" /\ life' = "running"
  /\ Say(<<"pair">>)
  /\ UNCHANGED <<commands, enabled, contact>> /\ Unseen

\* The address is in use, a package is missing, ...
FailToStart ==
  /\ life = "starting" /\ life' = "dead"
  /\ Say(<<"end">>)
  /\ UNCHANGED <<commands, enabled, contact>> /\ Unseen

ChildObeys ==
  /\ Obey
  /\ Say(<<IF enabled' THEN "enabled" ELSE "disabled">>)
  /\ Unseen

ChildActs == (Leave \/ Touch \/ Lift) /\ UNCHANGED events /\ Unseen

\* The key "q", as ChildActs includes it.
ChildQuits == Leave /\ commands' # commands /\ UNCHANGED events /\ Unseen

\* Mutant: what could not be lifted is reported after the end of the output.
ChildEndsEarly ==
  /\ EndProcess
  /\ Say(IF contact' THEN <<"end", "refused">> ELSE <<"end">>)
  /\ Unseen

ChildEnds ==
  /\ EndProcess
  /\ Say(IF contact' THEN <<"refused", "end">> ELSE <<"end">>)
  /\ Unseen

-----------------------------------------------------------------------------
(* What the window does.                                                   *)

\* The clipboard is only cleared of the code this window put there.
ClearSecret ==
  /\ pairing' = FALSE /\ copied' = FALSE
  /\ IF copied /\ clipboard = "code"
       THEN \/ clipboard' = "other" /\ UNCHANGED locked
            \/ clipboard' = clipboard /\ locked' = TRUE \* TclError
       ELSE UNCHANGED <<clipboard, locked>>

Pass(key) ==
  /\ IF Alive THEN Len(commands) < MaxCommands /\ commands' = Append(commands, key)
              ELSE UNCHANGED commands
  /\ UNCHANGED <<enabled, contact, life>>

Start ==
  /\ gui = "open" /\ ~process
  /\ process' = TRUE
  /\ life' = "starting" /\ commands' = <<>> /\ enabled' = FALSE /\ contact' = FALSE
  /\ ClearSecret
  /\ status' = "connecting"
  /\ asked' = FALSE /\ leaving' = FALSE /\ told' = FALSE /\ reopened' = (reopened \/ closing)
  /\ UNCHANGED <<gui, closing, events, buttons>>

\* The buttons Enable ("e") and Disable ("d").
Press(key) ==
  /\ gui = "open" /\ buttons /\ Len(events) < MaxEvents
  /\ Pass(key)
  /\ asked' = (key = "e")
  /\ status' \in IF Alive THEN {status} ELSE {status, "broken"}
  /\ UNCHANGED <<gui, closing, process, events, pairing, copied, clipboard, buttons>>
  /\ UNCHANGED <<leaving, told, locked, reopened>>

StopConnection ==
  /\ gui = "open"
  /\ Pass("q")
  /\ leaving' = (leaving \/ Alive)
  /\ ClearSecret
  /\ buttons' = FALSE /\ status' = "stopping"
  /\ UNCHANGED <<gui, process, events, asked, told, reopened>>

Stop == StopConnection /\ UNCHANGED closing

Close == StopConnection /\ closing' = TRUE

Copy ==
  /\ gui = "open" /\ pairing
  /\ \/ clipboard' = "code" /\ copied' = TRUE /\ status' = "copied"
     \/ clipboard' = "other" /\ UNCHANGED <<copied, status>> \* cleared, then TclError
  /\ UNCHANGED <<processVars, gui, closing, process, events, pairing, buttons>>
  /\ UNCHANGED userVars

-----------------------------------------------------------------------------
(* The timer.  One call handles what is queued, and what arrives meanwhile. *)

Handle(line) ==
  /\ gui \in {"open", "polling"}
  /\ events # <<>> /\ Head(events) = line /\ events' = Tail(events)
  /\ UNCHANGED <<processVars, closing, asked, leaving, reopened>>

\* Mutant: the end of the process leaves its pairing code on the window.
HandleEndShowing ==
  /\ Handle("end") /\ gui' = "polling"
  /\ process' = FALSE
  /\ buttons' = FALSE /\ status' = "stopped"
  /\ UNCHANGED <<pairing, copied, clipboard, locked, told>>

HandleEnd ==
  /\ Handle("end") /\ gui' = "polling"
  /\ process' = FALSE
  /\ ClearSecret
  /\ buttons' = FALSE /\ status' = "stopped"
  /\ UNCHANGED told

HandlePairing ==
  /\ Handle("pair") /\ gui' = "polling"
  /\ pairing' = TRUE /\ buttons' = TRUE /\ status' = "paired"
  /\ UNCHANGED <<process, copied, clipboard, told, locked>>

\* Mutant: only the line that says enabled is recognised.
HandleEnabled ==
  /\ \E line \in {"enabled", "disabled"} :
       /\ Handle(line)
       /\ status' = IF line = "enabled" THEN line ELSE status
  /\ gui' = "polling"
  /\ UNCHANGED <<process, pairing, copied, clipboard, buttons, told, locked>>

HandleInput ==
  /\ \E line \in {"enabled", "disabled"} : Handle(line) /\ status' = line
  /\ gui' = "polling"
  /\ UNCHANGED <<process, pairing, copied, clipboard, buttons, told, locked>>

\* The error box keeps the timer from going on.
HandleRefusal ==
  /\ Handle("refused") /\ gui' = "dialog"
  /\ told' = TRUE
  /\ UNCHANGED <<process, pairing, copied, clipboard, buttons, status, locked>>

Dismiss ==
  /\ gui = "dialog" /\ gui' = "polling"
  /\ UNCHANGED <<processVars, closing, process, events, pairing, copied, clipboard, buttons>>
  /\ UNCHANGED <<status, userVars>>

PollEnds ==
  /\ gui \in {"open", "polling"} /\ events = <<>>
  /\ gui' = IF closing /\ ~process THEN "gone" ELSE "open"
  /\ UNCHANGED <<processVars, closing, process, events, pairing, copied, clipboard, buttons>>
  /\ UNCHANGED <<status, userVars>>

-----------------------------------------------------------------------------
(* What nobody asked for.                                                  *)

\* Mutant: the end of the pipe says nothing to the bridge.
WindowDiesUnheard ==
  /\ gui # "gone" /\ gui' = "gone"
  /\ events' = <<>>
  /\ leaving' = (leaving \/ Alive)
  /\ UNCHANGED <<processVars, closing, process, pairing, copied, clipboard, buttons, status>>
  /\ UNCHANGED <<asked, told, locked, reopened>>

\* The window's process ends in any other way.  The thread that reads the pipe queues "q".
WindowDies ==
  /\ gui # "gone" /\ gui' = "gone"
  /\ events' = <<>>
  /\ commands' = IF Alive THEN Append(commands, "q") ELSE commands
  /\ leaving' = (leaving \/ Alive)
  /\ UNCHANGED <<enabled, contact, life>>
  /\ UNCHANGED <<closing, process, pairing, copied, clipboard, buttons, status>>
  /\ UNCHANGED <<asked, told, locked, reopened>>

OtherCopies ==
  /\ clipboard' = "other"
  /\ UNCHANGED <<processVars, gui, closing, process, events, pairing, copied, buttons, status>>
  /\ UNCHANGED userVars

\* Nothing is left to do.
Over == gui = "gone" /\ ~Alive /\ UNCHANGED vars

Child == Announce \/ FailToStart \/ ChildObeys \/ ChildActs \/ ChildEnds

Poll == HandleEnd \/ HandlePairing \/ HandleInput \/ HandleRefusal \/ PollEnds

User == Start \/ Stop \/ Close \/ Copy \/ Dismiss \/ \E key \in {"e", "d"} : Press(key)

Next == Child \/ Poll \/ User \/ WindowDies \/ OtherCopies \/ Over

Spec == Init /\ [][Next]_vars

\* A process that starts gets somewhere, a running one takes its keys and an ending one ends
\* (module Bridge: Quits and its fairness); Tk calls the timer.  Nothing is assumed of users.
Fairness ==
  /\ WF_vars(Announce \/ FailToStart)
  /\ WF_vars(ChildObeys \/ ChildQuits)
  /\ WF_vars(ChildEnds)
  /\ WF_vars(Poll)

FairSpec == Spec /\ Fairness

-----------------------------------------------------------------------------
TypeOK ==
  /\ commands \in Seq({"e", "d", "q"}) /\ Len(commands) <= MaxCommands + 1
  /\ enabled \in BOOLEAN /\ contact \in BOOLEAN
  /\ life \in {"none", "starting", "running", "ending", "dead"}
  /\ gui \in {"open", "polling", "dialog", "gone"}
  /\ closing \in BOOLEAN /\ process \in BOOLEAN /\ pairing \in BOOLEAN /\ copied \in BOOLEAN
  /\ events \in Seq({"pair", "enabled", "disabled", "refused", "end"})
  /\ \A i \in DOMAIN events : events[i] = "end" => i = Len(events) /\ life = "dead"
  /\ clipboard \in {"code", "other"} /\ buttons \in BOOLEAN
  /\ status \in {"none", "connecting", "paired", "enabled", "disabled", "copied", "broken",
                 "stopping", "stopped"}
  /\ asked \in BOOLEAN /\ leaving \in BOOLEAN /\ told \in BOOLEAN /\ locked \in BOOLEAN
  /\ reopened \in BOOLEAN

\* Whenever everything on its way has arrived, input is what the user asked for last, the
\* window does not say otherwise, and Disable can be pressed (setup_ui.py:78-91, 168-175).
InputIsAsShown ==
  gui = "open" /\ life = "running" /\ commands = <<>> /\ events = <<>> =>
    /\ enabled = asked
    /\ status = "enabled" => enabled
    /\ status \in {"connecting", "paired", "disabled", "broken", "stopping", "stopped"} => ~enabled
    /\ buttons

\* Without a process there is no pairing code on the window, none on the clipboard unless
\* Windows kept the window from it, no button that would send a key to nobody, and a contact
\* that could not be lifted has been reported (setup_ui.py:67-76, 159-177).  This holds in
\* whichever order Stop, the pairing line, a failure and the end come.
EndIsClean ==
  ~process =>
    /\ ~pairing /\ ~copied /\ ~buttons
    /\ clipboard = "code" => locked
    /\ contact => told

\* Stop, closing the window and the window's own death end the process, whatever was pressed
\* before and however far it has come; and a window that was asked to close goes, unless its
\* user starts another connection before the timer or leaves the error box open
\* (setup_ui.py:179-188, __main__.py:42-50).
EndsWhenAsked ==
  /\ leaving ~> life = "dead"
  /\ closing ~> gui \in {"gone", "dialog"} \/ reopened
=============================================================================
