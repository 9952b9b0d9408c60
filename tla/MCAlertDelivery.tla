--------------------------- MODULE MCAlertDelivery ---------------------------
(* Instances of AlertDelivery for TLC.                                     *)
EXTENDS AlertDelivery, TLC
=============================================================================
