------------------------------ MODULE MCOutbox ------------------------------
(* Three Events, one of which an Erasure may purge, one group every binary  *)
(* knows and one that only the newest one registers.                        *)
EXTENDS Outbox
=============================================================================
