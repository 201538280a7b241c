------------------------ MODULE MCBootstrapDelivery ------------------------
(* The instance of BootstrapDelivery that TLC checks. *)
EXTENDS BootstrapDelivery
=============================================================================
