------------------------------ MODULE MCStartup ------------------------------
(* Every environment of Startup, two refusals. *)
EXTENDS Startup
=============================================================================
