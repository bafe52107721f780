------------------------- MODULE MCDeliverySession -------------------------
(* DeliverySession on small instances.                                     *)
EXTENDS DeliverySession
=============================================================================
