---------------------------- MODULE MCEventStore ----------------------------
(* Small instance of EventStore: three writers share two connections. *)
EXTENDS EventStore
=============================================================================
