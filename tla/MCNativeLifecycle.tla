-------------------------- MODULE MCNativeLifecycle --------------------------
(* NativeLifecycle at a small bound; it has no other parameter. *)
EXTENDS NativeLifecycle
=============================================================================
