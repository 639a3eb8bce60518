---------------------------- MODULE MCBroadcasts ----------------------------
(* Instances of Broadcasts for TLC. *)
EXTENDS Broadcasts, TLC

CONSTANTS r1, r2, r3   \* model values: API requests

Callers == Permutations(Requests)
=============================================================================
