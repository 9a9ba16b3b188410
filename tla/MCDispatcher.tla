---------------------------- MODULE MCDispatcher ----------------------------
(* Three requests of any kind, two sessions, pauses in scripts and in handlers. *)
EXTENDS Dispatcher
=============================================================================
