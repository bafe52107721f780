-------------------------- MODULE MCCommandEngine --------------------------
(* An instance of CommandEngine for TLC. *)
EXTENDS CommandEngine
=============================================================================
