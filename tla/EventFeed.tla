------------------------------ MODULE EventFeed ------------------------------
(***************************************************************************)
(* What the outbox promises its consumer groups, and nothing of how: every *)
(* group gets every published Event, at least once, in one order common to *)
(* all, unless the Event is withdrawn.  An Event takes its place in that   *)
(* order when its transaction first writes and is published when it        *)
(* commits, so a late commit must not land behind a group.                 *)
(***************************************************************************)
EXTENDS Naturals

CONSTANTS
  MaxEvents,   \* Events are named by their place in the order
  Groups       \* consumer groups

VARIABLES
  published,   \* Events whose transaction committed
  done,        \* done[g]: Events group g has dealt with
  withdrawn    \* Events an Erasure removed

feed == <<published, done, withdrawn>>

Events == 1 .. MaxEvents

Init ==
  /\ published = {} /\ withdrawn = {}
  /\ done = [g \in Groups |-> {}]

Publish(e) ==
  /\ e \notin published
  /\ \A g \in Groups : \A f \in done[g] : f < e
  /\ published' = published \cup {e}
  /\ UNCHANGED <<done, withdrawn>>

\* A group deals with an Event once it has dealt with those before it.
Handle(g, e) ==
  /\ e \in published
  /\ \A f \in published : f < e => f \in done[g] \cup withdrawn
  /\ done' = [done EXCEPT ![g] = @ \cup {e}]
  /\ UNCHANGED <<published, withdrawn>>

Withdraw(S) ==
  /\ S \subseteq published
  /\ withdrawn' = withdrawn \cup S
  /\ UNCHANGED <<published, done>>

Next ==
  \/ \E e \in Events : Publish(e) \/ \E g \in Groups : Handle(g, e)
  \/ \E S \in SUBSET Events : Withdraw(S)

Spec == Init /\ [][Next]_feed
=============================================================================
