--------------------------- MODULE MCOutboundDelivery ---------------------------
(* OutboundDelivery on a small instance: see the .cfg files.               *)
EXTENDS OutboundDelivery
================================================================================
