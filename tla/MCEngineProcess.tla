-------------------------- MODULE MCEngineProcess --------------------------
(* The engine's process over its restarts; the bounds are in the cfgs.     *)
EXTENDS EngineProcess
=============================================================================
