------------------------ MODULE MCEventDistribution ------------------------
(* Instances of EventDistribution for TLC. *)
EXTENDS EventDistribution
=============================================================================
