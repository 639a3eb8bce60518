------------------------ MODULE MCBroadcastDelivery ------------------------
(* Instances of BroadcastDelivery for TLC. *)
EXTENDS BroadcastDelivery, TLC

CONSTANTS c1, c2, p1, p2   \* model values: two Contacts, two plan jobs
=============================================================================
