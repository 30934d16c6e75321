---------------------------- MODULE MCLifecycle -----------------------------
(* Two sessions, so that one is lost and found again, and two messages.       *)
EXTENDS Lifecycle
=============================================================================
