--------------------------- MODULE MCOutboundSend ---------------------------
(* Instance of OutboundSend for TLC. *)
EXTENDS OutboundSend

CONSTANTS b1, a1, a2   \* model values: a key, two callers

\* Of the three kinds a broadcast recipient's key has every step the others have.
KindBroadcast == [k \in Keys |-> "broadcast"]
=============================================================================
