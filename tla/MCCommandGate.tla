--------------------------- MODULE MCCommandGate ---------------------------
(* An instance of CommandGate for TLC. *)
EXTENDS CommandGate
=============================================================================
