----------------------------- MODULE MCCompanion -----------------------------
(* Companion at a small bound; it has no other parameter. *)
EXTENDS Companion
=============================================================================
