----------------------------- MODULE MCSendLimit -----------------------------
(* Two senders on hosts a tick apart; a bucket holds two messages, a tick   *)
(* refills the first bucket in full and half of the second.                 *)
EXTENDS SendLimit
CONSTANTS second, day, p1, p2
MCAhead == [p \in Senders |-> IF p = p1 THEN 0 ELSE 1]
MCRate == [b \in Buckets |-> IF b = second THEN 2 ELSE 1]
MCToken == [c \in Limits |-> Unit \div c]
=============================================================================
