---------------------------- MODULE TouchContract ----------------------------
(***************************************************************************)
(* What the input bridge promises the operating system about its single    *)
(* synthetic touch contact, seen only from the injection calls it makes:   *)
(* DOWN, then UPDATEs, then UP at the location of the last accepted call.  *)
(* Once an UP was attempted nothing but UP is tried until one is accepted. *)
(* ContactEngine implements this specification.                            *)
(***************************************************************************)
EXTENDS Sequences

CONSTANTS XY,     \* screen locations
          None    \* no contact

VARIABLES contact,  \* where the operating system holds the contact, or None
          lifting,  \* an UP was refused and none has been accepted since
          calls     \* the injection calls of the last step, in order

vars == <<contact, lifting, calls>>

Call(phase, xy, ok) == [phase |-> phase, xy |-> xy, ok |-> ok]

Init == contact = None /\ lifting = FALSE /\ calls = <<>>

\* Nothing is injected.
Rest == calls' = <<>> /\ UNCHANGED <<contact, lifting>>

Press(xy, ok) ==
  /\ contact = None
  /\ calls' = <<Call("down", xy, ok)>>
  /\ contact' = IF ok THEN xy ELSE None
  /\ UNCHANGED lifting

Move(xy) ==
  /\ contact # None /\ ~lifting
  /\ calls' = <<Call("update", xy, TRUE)>>
  /\ contact' = xy
  /\ UNCHANGED lifting

\* An UP, at the location the contact has, after the calls in prefix.
Lift(prefix, ok) ==
  /\ contact # None
  /\ calls' = prefix \o <<Call("up", contact, ok)>>
  /\ contact' = IF ok THEN None ELSE contact
  /\ lifting' = ~ok

\* A refused UPDATE gives the contact up in the same step.
MoveRefused(xy, ok) == ~lifting /\ Lift(<<Call("update", xy, FALSE)>>, ok)

Next ==
  \/ Rest
  \/ \E xy \in XY, ok \in BOOLEAN : Press(xy, ok) \/ MoveRefused(xy, ok)
  \/ \E xy \in XY : Move(xy)
  \/ \E ok \in BOOLEAN : Lift(<<>>, ok)

Spec == Init /\ [][Next]_vars
=============================================================================
