------------------------ MODULE MCDesktopSupervisor ------------------------
(* DesktopSupervisor on a small instance.                                  *)
EXTENDS DesktopSupervisor
=============================================================================
