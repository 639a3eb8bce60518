-------------------------- MODULE MCEventConsumers --------------------------
(* Two Events that name the Contact, one kept and one deleted by an Erasure, *)
(* and two endpoints that both take part in every Event.                     *)
EXTENDS EventConsumers
=============================================================================
