------------------------- MODULE MCDrainableWorker -------------------------
(* An instance of DrainableWorker for TLC. *)
EXTENDS DrainableWorker
=============================================================================
