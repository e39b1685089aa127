--------------------------- MODULE MCEmailDelivery --------------------------
(* EmailDelivery on small instances.                                       *)
EXTENDS EmailDelivery

CONSTANTS j1, n1, n2
=============================================================================
