---------------------------- MODULE EventsProofs ----------------------------
(***************************************************************************)
(* The outbox keeps what a group has still to read and gives every group   *)
(* all binaries know the feed EventFeed describes, for any number of       *)
(* Events and any groups; and two of the consumers behind it, persist and  *)
(* webhooks, do their work in full and leave an Erasure nothing to miss.   *)
(*                                                                         *)
(* The invariant behind the outbox says what a cursor stands for: every    *)
(* Event up to it is decided, committed or rolled back, so that none can   *)
(* appear there later, and the committed ones are handled or purged.  A    *)
(* delivery under way stands for the same, one Event further.  The one     *)
(* behind the consumers (ConsumersInv) follows an Erasure: what its first  *)
(* statements did not see is in motion until it commits.                   *)
(***************************************************************************)
EXTENDS EventConsumers, TLAPS

Decided(e) == tx[e] \in {"committed", "aborted"}

\* Nothing is left, or can appear, for g to do up to place n.
Behind(g, n) ==
  \A e \in Events : e <= n => Decided(e) /\ (e \in Committed => e \in handled[g] \cup purged)

TxInv ==
  /\ \A e \in Events : tx[e] = "open" => e \in rows
  /\ \A e, f \in Events : f < e /\ tx[e] # "none" => tx[f] # "none"
  /\ Committed \subseteq rows \cup pruned \cup purged
  /\ purged \subseteq Committed /\ purged \cap rows = {}

DeliveryInv(g) ==
  delivery[g] # Idle =>
    /\ cursor[g] # NoCursor /\ cursor[g] < delivery[g].event
    /\ delivery[g].event \in Committed
    /\ Behind(g, delivery[g].event - 1)
    /\ delivery[g].pc = "handled" => delivery[g].event \in handled[g]

HandledInv(g) ==
  /\ \A f \in handled[g] : \A e \in Events : e <= f => Decided(e)
  /\ pruned \subseteq handled[g]

PruneInv(g) ==
  /\ prune.pc # "idle" => g \in prune.knows
  /\ prune.pc = "delete" => prune.bound <= cursor[g]

GroupInv(g) ==
  Behind(g, cursor[g]) /\ DeliveryInv(g) /\ HandledInv(g) /\ PruneInv(g)

IInv == BusTypeOK /\ TxInv /\ \A g \in Known : GroupInv(g)

-----------------------------------------------------------------------------

\* What no step takes back.
Frame ==
  /\ \A e \in Events : Decided(e) => tx'[e] = tx[e]
  /\ \A g \in Known : handled[g] \subseteq handled'[g]
  /\ purged \subseteq purged'

LEMMA TypeStep == ASSUME BusTypeOK, BusNext PROVE BusTypeOK'
<1> USE EventsAssumption, KnownAssumption, PersonalAssumption
    DEF BusTypeOK, Events, NoCursor, Idle, NoPrune, Committed
<1>1. ASSUME NEW e \in Events, Publish(e) PROVE BusTypeOK'
  BY <1>1 DEF Publish
<1>2. ASSUME NEW e \in Events, Commit(e) PROVE BusTypeOK'
  BY <1>2 DEF Commit
<1>3. ASSUME NEW e \in Events, Rollback(e) PROVE BusTypeOK'
  BY <1>3 DEF Rollback
<1>4. CASE Age
  BY <1>4 DEF Age
<1>5. ASSUME NEW g \in Groups, Subscribe(g) PROVE BusTypeOK'
  BY <1>5 DEF Subscribe
<1>6. ASSUME NEW g \in Groups, Ack(g) PROVE BusTypeOK'
  BY <1>6 DEF Ack
<1>7. ASSUME NEW g \in Groups, Crash(g) PROVE BusTypeOK'
  BY <1>7 DEF Crash
<1>8. ASSUME NEW g \in Groups, NEW e \in Events, Deliver(g, e) PROVE BusTypeOK'
  BY <1>8 DEF Deliver
<1>9. ASSUME NEW g \in Groups, NEW e \in Events, Complete(g, e) PROVE BusTypeOK'
  BY <1>9 DEF Complete, Handling
<1>10. ASSUME NEW R \in SUBSET Groups, PruneRetire(R) PROVE BusTypeOK'
  BY <1>10 DEF PruneRetire
<1>11. CASE PruneRead
  <2> DEFINE cursors == {cursor[g] : g \in prune.knows}
  <2>1. UNCHANGED <<tx, rows, aged, cursor, delivery, handled, pruned, purged>>
    BY <1>11 DEF PruneRead
  <2>2. CASE prune' = NoPrune
    BY <2>1, <2>2
  <2>3. ASSUME NEW c \in cursors, NoCursor \notin cursors,
               prune' = [prune EXCEPT !.pc = "delete", !.bound = c]
        PROVE  BusTypeOK'
    <3>1. c \in 0 .. MaxEvents
      BY <2>3
    <3>2. QED
      BY <2>1, <2>3, <3>1
  <2>4. QED
    BY <1>11, <2>2, <2>3 DEF PruneRead
<1>12. CASE PruneDelete
  <2>1. UNCHANGED <<tx, aged, cursor, delivery, handled, purged>>
    BY <1>12 DEF PruneDelete
  <2>2. prune' = NoPrune \/ prune' = prune
    BY <1>12 DEF PruneDelete
  <2>3. rows' \subseteq rows /\ pruned' \subseteq pruned \cup rows
    BY <1>12 DEF PruneDelete
  <2>4. QED
    BY <2>1, <2>2, <2>3
<1>13. ASSUME NEW S \in SUBSET Personal, Purge(S) PROVE BusTypeOK'
  BY <1>13 DEF Purge
<1>14. QED
  BY <1>1, <1>2, <1>3, <1>4, <1>5, <1>6, <1>7, <1>8, <1>9, <1>10, <1>11, <1>12, <1>13 DEF BusNext

LEMMA FrameStep == ASSUME BusTypeOK, BusNext PROVE Frame
<1> USE KnownAssumption DEF BusTypeOK, Frame, Decided
<1>1. ASSUME NEW e \in Events, Publish(e) \/ Commit(e) \/ Rollback(e) PROVE Frame
  BY <1>1 DEF Publish, Commit, Rollback
<1>2. ASSUME NEW g \in Groups, NEW e \in Events, Complete(g, e) PROVE Frame
  BY <1>2 DEF Complete
<1>3. ASSUME UNCHANGED <<tx, handled>>, purged \subseteq purged' PROVE Frame
  BY <1>3
<1>4. ASSUME NEW g \in Groups, Subscribe(g) \/ Ack(g) \/ Crash(g) \/ \E e \in Events : Deliver(g, e)
      PROVE Frame
  BY <1>4, <1>3 DEF Subscribe, Ack, Crash, Deliver
<1>5. CASE Age \/ PruneRetire(Known) \/ PruneRetire(Groups) \/ PruneRead \/ PruneDelete
  BY <1>5, <1>3 DEF Age, PruneRetire, PruneRead, PruneDelete
<1>6. ASSUME NEW S \in SUBSET Personal, Purge(S) PROVE Frame
  BY <1>6, <1>3 DEF Purge
<1>7. QED
  BY <1>1, <1>2, <1>4, <1>5, <1>6 DEF BusNext

LEMMA BehindStays ==
  ASSUME Frame, NEW g \in Known, NEW n, Behind(g, n)
  PROVE  Behind(g, n)'
  BY DEF Frame, Behind, Decided, Committed

-----------------------------------------------------------------------------
(* The transactions and their rows                                         *)

LEMMA TxStep == ASSUME BusTypeOK, TxInv, BusNext PROVE TxInv'
<1> USE KnownAssumption DEF BusTypeOK, TxInv, Events, Committed
<1>1. ASSUME NEW e \in Events, Publish(e) PROVE TxInv'
  BY <1>1 DEF Publish
<1>2. ASSUME NEW e \in Events, Commit(e) PROVE TxInv'
  BY <1>2 DEF Commit
<1>3. ASSUME NEW e \in Events, Rollback(e) PROVE TxInv'
  BY <1>3 DEF Rollback
<1>4. ASSUME UNCHANGED <<tx, rows, pruned, purged>> PROVE TxInv'
  BY <1>4
<1>5. ASSUME NEW g \in Groups,
             Subscribe(g) \/ Ack(g) \/ Crash(g) \/ \E e \in Events : Deliver(g, e) \/ Complete(g, e)
      PROVE  TxInv'
  BY <1>5, <1>4 DEF Subscribe, Ack, Crash, Deliver, Complete
<1>6. CASE Age \/ PruneRetire(Known) \/ PruneRetire(Groups) \/ PruneRead
  BY <1>6, <1>4 DEF Age, PruneRetire, PruneRead
<1>7. CASE PruneDelete
  <2>1. UNCHANGED <<tx, purged>>
    BY <1>7 DEF PruneDelete
  <2>2. \/ UNCHANGED <<rows, pruned>>
        \/ \E e \in Committed \cap rows : rows' = rows \ {e} /\ pruned' = pruned \cup {e}
    BY <1>7 DEF PruneDelete
  <2>3. QED
    BY <2>1, <2>2
<1>8. ASSUME NEW S \in SUBSET Personal, Purge(S) PROVE TxInv'
  BY <1>8 DEF Purge
<1>9. QED
  BY <1>1, <1>2, <1>3, <1>5, <1>6, <1>7, <1>8 DEF BusNext

-----------------------------------------------------------------------------
(* One group                                                               *)

\* A step that neither moves the cursor of g nor touches its delivery, its
\* history or the prunes leaves g what it was.
LEMMA GroupStays ==
  ASSUME Frame, NEW g \in Known, GroupInv(g), cursor'[g] = cursor[g], delivery'[g] = delivery[g],
         handled'[g] = handled[g], UNCHANGED <<prune, pruned>>, BusTypeOK, BusTypeOK'
  PROVE  GroupInv(g)'
<1>1. Behind(g, cursor[g])'
  BY BehindStays DEF GroupInv, Behind, Frame, Decided, Committed
<1>2. DeliveryInv(g)'
  BY BehindStays DEF GroupInv, DeliveryInv, Behind, Frame, Decided, Committed
<1>3. HandledInv(g)'
  BY DEF GroupInv, HandledInv, Frame, Decided
<1>4. PruneInv(g)'
  BY DEF GroupInv, PruneInv
<1>5. QED
  BY <1>1, <1>2, <1>3, <1>4 DEF GroupInv

\* A group that subscribes has nothing behind it.
LEMMA SubscribeStep ==
  ASSUME IInv, Frame, BusTypeOK', NEW g \in Known, Subscribe(g)
  PROVE  GroupInv(g)'
<1> USE KnownAssumption, EventsAssumption DEF IInv, GroupInv, Subscribe
<1>1. cursor'[g] = 0 /\ cursor[g] = -1 /\ delivery[g] = Idle
  BY DEF BusTypeOK, DeliveryInv, NoCursor
<1>2. Behind(g, cursor[g])'
  BY <1>1 DEF Behind, Events
<1>3. DeliveryInv(g)'
  BY <1>1 DEF DeliveryInv
<1>4. HandledInv(g)'
  BY DEF HandledInv, Decided
<1>5. PruneInv(g)'
  BY <1>1 DEF PruneInv, BusTypeOK
<1>6. QED
  BY <1>2, <1>3, <1>4, <1>5

\* What g reads next is the first Event after its cursor that it can find.
LEMMA DeliverStep ==
  ASSUME IInv, Frame, BusTypeOK', NEW g \in Known, NEW e \in Events, Deliver(g, e)
  PROVE  GroupInv(g)'
<1> USE KnownAssumption DEF IInv, GroupInv, Deliver
<1>1. /\ delivery'[g] = [event |-> e, pc |-> "handling"]
      /\ cursor[g] # NoCursor /\ e > cursor[g] /\ e \in Committed
  BY DEF BusTypeOK, Readable
<1>2. ASSUME NEW f \in Events, f <= e - 1
      PROVE  Decided(f) /\ (f \in Committed => f \in handled[g] \cup purged)
  <2>1. f < e /\ f \in Int /\ e \in Int /\ cursor[g] \in Int
    BY <1>2 DEF Events, BusTypeOK, NoCursor
  <2>2. Decided(f)
    BY <2>1, <1>1 DEF TxInv, Decided, Readable, Committed, BusTypeOK
  <2>3. CASE f <= cursor[g]
    BY <2>3, <2>2 DEF Behind
  <2>4. CASE f > cursor[g] /\ f \in Committed
    <3>1. f \notin rows
      BY <2>1, <2>4, <1>1 DEF Readable, Events
    <3>2. QED
      BY <2>2, <2>4, <3>1 DEF TxInv, HandledInv
  <2>5. QED
    BY <2>1, <2>2, <2>3, <2>4
<1>3. Behind(g, e - 1)
  BY <1>2 DEF Behind
<1>4. DeliveryInv(g)'
  BY <1>1, <1>3 DEF DeliveryInv, Behind, Decided, Committed
<1>5. Behind(g, cursor[g])' /\ HandledInv(g)' /\ PruneInv(g)'
  BY DEF Behind, HandledInv, PruneInv, Decided, Committed
<1>6. QED
  BY <1>4, <1>5

LEMMA CompleteStep ==
  ASSUME IInv, Frame, BusTypeOK', NEW g \in Known, NEW e \in Events, Complete(g, e)
  PROVE  GroupInv(g)'
<1> USE KnownAssumption DEF IInv, GroupInv, Complete
<1>1. delivery[g] # Idle /\ delivery[g].event = e
  BY DEF Handling, Idle
<1>2. /\ handled'[g] = handled[g] \cup {e}
      /\ delivery'[g].event = e /\ UNCHANGED <<tx, cursor, prune, pruned, purged>>
  BY <1>1 DEF BusTypeOK
<1>3. Behind(g, cursor[g])'
  BY <1>2 DEF Behind, Decided, Committed
<1>4. DeliveryInv(g)'
  BY <1>1, <1>2 DEF DeliveryInv, Behind, Decided, Committed
<1>5. HandledInv(g)'
  <2>1. ASSUME NEW f \in Events, f <= e PROVE Decided(f)
    BY <1>1, <2>1 DEF DeliveryInv, Behind, Decided, Committed, Events
  <2>2. QED
    BY <1>2, <2>1 DEF HandledInv, Decided
<1>6. PruneInv(g)'
  BY <1>2 DEF PruneInv
<1>7. QED
  BY <1>3, <1>4, <1>5, <1>6

\* An acknowledgement moves the cursor over an Event that was handled.
LEMMA AckStep ==
  ASSUME IInv, Frame, BusTypeOK', NEW g \in Known, Ack(g)
  PROVE  GroupInv(g)'
<1> USE KnownAssumption DEF IInv, GroupInv, Ack
<1> DEFINE d == delivery[g].event
<1>1. /\ delivery[g] # Idle /\ cursor'[g] = d /\ delivery'[g] = Idle
      /\ UNCHANGED <<tx, prune, handled, pruned, purged>>
  BY DEF BusTypeOK, Idle
<1>2. d \in Committed /\ d \in handled[g] /\ cursor[g] < d /\ Behind(g, d - 1)
  BY <1>1 DEF DeliveryInv
<1>3. Behind(g, cursor[g])'
  <2>1. ASSUME NEW f \in Events, f <= d
        PROVE  Decided(f) /\ (f \in Committed => f \in handled[g] \cup purged)
    <3> HIDE DEF d
    <3>1. CASE f = d
      <4>1. tx[f] = "committed" /\ f \in handled[g]
        BY <1>2, <3>1 DEF Committed
      <4>2. QED
        BY <4>1 DEF Decided
    <3>2. CASE f <= d - 1
      BY <1>2, <3>2 DEF Behind
    <3>3. f \in Int /\ d \in Int
      BY <1>2 DEF Events, Committed
    <3>4. QED
      BY <2>1, <3>1, <3>2, <3>3
  <2>2. QED
    BY <1>1, <2>1 DEF Behind, Decided, Committed
<1>4. DeliveryInv(g)'
  BY <1>1 DEF DeliveryInv
<1>5. HandledInv(g)'
  BY <1>1 DEF HandledInv, Decided
<1>6. PruneInv(g)'
  <2>1. cursor[g] \in Int /\ d \in Int /\ prune.bound \in Int
    BY DEF BusTypeOK, NoCursor
  <2>2. QED
    BY <1>1, <1>2, <2>1 DEF PruneInv
<1>7. QED
  BY <1>3, <1>4, <1>5, <1>6

LEMMA CrashStep ==
  ASSUME IInv, Frame, BusTypeOK', NEW g \in Known, Crash(g)
  PROVE  GroupInv(g)'
<1> USE KnownAssumption DEF IInv, GroupInv, Crash
<1>1. delivery'[g] = Idle
  BY DEF BusTypeOK
<1>2. QED
  BY <1>1 DEF Behind, DeliveryInv, HandledInv, PruneInv, Decided, Committed

\* A binary that registers g leaves its cursor alone.
LEMMA RetireStep ==
  ASSUME IInv, Frame, BusTypeOK', NEW g \in Known, NEW R \in SUBSET Groups, g \in R, PruneRetire(R)
  PROVE  GroupInv(g)'
<1> USE KnownAssumption DEF IInv, GroupInv, PruneRetire
<1>1. cursor'[g] = cursor[g] /\ prune'.pc = "read" /\ prune'.knows = R
  BY DEF BusTypeOK
<1>2. QED
  BY <1>1 DEF Behind, DeliveryInv, HandledInv, PruneInv, Decided, Committed

LEMMA PruneReadStep ==
  ASSUME IInv, Frame, BusTypeOK', NEW g \in Known, PruneRead
  PROVE  GroupInv(g)'
<1> USE KnownAssumption DEF IInv, GroupInv
<1>1. UNCHANGED <<tx, rows, aged, cursor, delivery, handled, pruned, purged>>
  BY DEF PruneRead
<1>2. PruneInv(g)'
  <2> DEFINE cursors == {cursor[h] : h \in prune.knows}
  <2>1. prune.pc = "read" /\ cursor[g] \in cursors
    BY DEF PruneRead, PruneInv
  <2>2. CASE prune' = NoPrune
    BY <2>2 DEF PruneInv, NoPrune
  <2>3. ASSUME NEW c \in cursors, \A d \in cursors : c <= d,
               prune' = [prune EXCEPT !.pc = "delete", !.bound = c]
        PROVE  PruneInv(g)'
    BY <1>1, <2>1, <2>3 DEF PruneInv, BusTypeOK
  <2>4. QED
    BY <2>2, <2>3 DEF PruneRead
<1>3. QED
  BY <1>1, <1>2 DEF Behind, DeliveryInv, HandledInv, Decided, Committed

\* What is deleted lies below the cursor of g: it was handled.
LEMMA PruneDeleteStep ==
  ASSUME IInv, Frame, BusTypeOK', NEW g \in Known, PruneDelete
  PROVE  GroupInv(g)'
<1> USE KnownAssumption DEF IInv, GroupInv
<1>1. UNCHANGED <<tx, aged, cursor, delivery, handled, purged>>
  BY DEF PruneDelete
<1>2. PruneInv(g)'
  BY <1>1 DEF PruneDelete, PruneInv, NoPrune
<1>3. ASSUME NEW e \in Committed \cap rows, e < prune.bound, prune.pc = "delete"
      PROVE  e \in handled[g]
  <2>1. e \in Events /\ e \in Int /\ prune.bound \in Int /\ cursor[g] \in Int
    BY <1>3 DEF BusTypeOK, NoCursor, Events, Committed
  <2>2. e <= cursor[g]
    BY <1>3, <2>1 DEF PruneInv
  <2>3. QED
    BY <1>3, <2>1, <2>2 DEF Behind, TxInv
<1>4. pruned' \subseteq handled[g]
  BY <1>3 DEF PruneDelete, HandledInv
<1>5. QED
  BY <1>1, <1>2, <1>4 DEF Behind, DeliveryInv, HandledInv, Decided, Committed

LEMMA GroupStep == ASSUME IInv, BusNext, NEW g \in Known PROVE GroupInv(g)'
<1> USE KnownAssumption
<1>1. BusTypeOK /\ BusTypeOK' /\ Frame /\ GroupInv(g)
  BY TypeStep, FrameStep DEF IInv
<1>2. ASSUME NEW h \in Groups, h # g, NEW e \in Events,
             Deliver(h, e) \/ Complete(h, e)
      PROVE  GroupInv(g)'
  <2>1. cursor'[g] = cursor[g] /\ delivery'[g] = delivery[g] /\ handled'[g] = handled[g]
        /\ UNCHANGED <<prune, pruned>>
    BY <1>1, <1>2 DEF Deliver, Complete, BusTypeOK
  <2>2. QED
    BY <1>1, <2>1, GroupStays
<1>3. ASSUME NEW h \in Groups, h # g, Subscribe(h) \/ Ack(h) \/ Crash(h)
      PROVE  GroupInv(g)'
  <2>1. cursor'[g] = cursor[g] /\ delivery'[g] = delivery[g] /\ handled'[g] = handled[g]
        /\ UNCHANGED <<prune, pruned>>
    BY <1>1, <1>3 DEF Subscribe, Ack, Crash, BusTypeOK
  <2>2. QED
    BY <1>1, <2>1, GroupStays
<1>4. CASE Subscribe(g)
  BY <1>1, <1>4, SubscribeStep
<1>5. CASE Ack(g)
  BY <1>1, <1>5, AckStep
<1>6. CASE Crash(g)
  BY <1>1, <1>6, CrashStep
<1>7. ASSUME NEW e \in Events, Deliver(g, e) PROVE GroupInv(g)'
  BY <1>1, <1>7, DeliverStep
<1>8. ASSUME NEW e \in Events, Complete(g, e) PROVE GroupInv(g)'
  BY <1>1, <1>8, CompleteStep
<1>9. ASSUME NEW e \in Events, Publish(e) \/ Commit(e) \/ Rollback(e) PROVE GroupInv(g)'
  BY <1>1, <1>9, GroupStays DEF Publish, Commit, Rollback
<1>10. CASE Age
  BY <1>1, <1>10, GroupStays DEF Age
<1>11. CASE PruneRetire(Known) \/ PruneRetire(Groups)
  BY <1>1, <1>11, RetireStep
<1>12. CASE PruneRead
  BY <1>1, <1>12, PruneReadStep
<1>13. CASE PruneDelete
  BY <1>1, <1>13, PruneDeleteStep
<1>14. ASSUME NEW S \in SUBSET Personal, Purge(S) PROVE GroupInv(g)'
  BY <1>1, <1>14, GroupStays DEF Purge
<1>15. QED
  BY <1>2, <1>3, <1>4, <1>5, <1>6, <1>7, <1>8, <1>9, <1>10, <1>11, <1>12, <1>13, <1>14 DEF BusNext

LEMMA Initially == BusInit => IInv
<1> SUFFICES ASSUME BusInit PROVE IInv
  OBVIOUS
<1> USE EventsAssumption, KnownAssumption DEF BusInit
<1>1. BusTypeOK
  BY DEF BusTypeOK, Events, NoCursor, Idle, NoPrune
<1>2. TxInv
  BY DEF TxInv, Committed
<1>3. ASSUME NEW g \in Known PROVE GroupInv(g)
  BY DEF GroupInv, Behind, DeliveryInv, HandledInv, PruneInv, NoPrune, NoCursor, Events
<1>4. QED
  BY <1>1, <1>2, <1>3 DEF IInv

LEMMA Inductive == IInv /\ [BusNext]_bus => IInv'
<1>1. ASSUME IInv, BusNext PROVE IInv'
  BY <1>1, TypeStep, TxStep, GroupStep DEF IInv
<1>2. ASSUME IInv, UNCHANGED bus PROVE IInv'
  BY <1>2 DEF bus, IInv, BusTypeOK, TxInv, GroupInv, Behind, DeliveryInv, HandledInv, PruneInv,
              Decided, Committed
<1>3. QED
  BY <1>1, <1>2

LEMMA Invariance == BusSpec => []IInv
  BY Initially, Inductive, PTL DEF BusSpec

-----------------------------------------------------------------------------

\* The job that empties the outbox takes no Event from a group that has not
\* handled it (PruneOutbox, events/prune.go), however many Events, groups,
\* crashes and binaries there are: what it deletes is below a cursor.
THEOREM PrunedWasRead == BusSpec => []NothingPrunedUnread
<1>1. IInv => NothingPrunedUnread
  BY DEF IInv, GroupInv, HandledInv, NothingPrunedUnread
<1>2. QED
  BY <1>1, Invariance, PTL

-----------------------------------------------------------------------------
(* The feed                                                                *)

LEMMA FeedInitially == BusInit => Feed!Init
  BY KnownAssumption DEF BusInit, Feed!Init, Committed

\* A commit publishes: no group has dealt with anything from there on.
LEMMA FeedPublishes ==
  ASSUME IInv, NEW e \in Events, Commit(e)
  PROVE  Feed!Publish(e)
<1> USE DEF IInv, Commit
<1>1. Committed' = Committed \cup {e} /\ e \notin Committed
  BY DEF Committed, BusTypeOK
<1>2. ASSUME NEW g \in Known, NEW f \in handled[g] PROVE f < e
  <2>1. f \in Int /\ e \in Int /\ ~Decided(e)
    BY <1>2, KnownAssumption DEF BusTypeOK, Events, Decided
  <2>2. QED
    BY <2>1, <1>2 DEF GroupInv, HandledInv
<1>3. UNCHANGED <<[g \in Known |-> handled[g]], purged>>
  OBVIOUS
<1>4. QED
  BY <1>1, <1>2, <1>3 DEF Feed!Publish

\* A handler that completes deals with the Event in its place.
LEMMA FeedHandles ==
  ASSUME IInv, NEW g \in Known, NEW e \in Events, Complete(g, e)
  PROVE  Feed!Handle(g, e)
<1> USE KnownAssumption DEF IInv, Complete
<1>1. delivery[g] # Idle /\ delivery[g].event = e
  BY DEF Handling, Idle
<1>2. e \in Committed /\ Behind(g, e - 1)
  BY <1>1 DEF GroupInv, DeliveryInv
<1>3. ASSUME NEW f \in Committed, f < e PROVE f \in handled[g] \cup purged
  BY <1>2, <1>3 DEF Behind, Events, Committed
<1>4. [h \in Known |-> handled[h]]' = [[h \in Known |-> handled[h]] EXCEPT ![g] = @ \cup {e}]
  BY DEF BusTypeOK
<1>5. UNCHANGED <<Committed, purged>>
  BY DEF Committed
<1>6. QED
  BY <1>2, <1>3, <1>4, <1>5 DEF Feed!Handle

LEMMA FeedStep == IInv /\ [BusNext]_bus => [Feed!Next]_(Feed!feed)
<1> SUFFICES ASSUME IInv, [BusNext]_bus PROVE [Feed!Next]_(Feed!feed)
  OBVIOUS
<1> USE KnownAssumption DEF IInv
<1>1. Feed!Events = Events
  BY DEF Events, Feed!Events
<1>2. ASSUME UNCHANGED <<tx, handled, purged>> PROVE UNCHANGED Feed!feed
  BY <1>2 DEF Feed!feed, Committed
<1>3. ASSUME NEW e \in Events, Publish(e) \/ Rollback(e) PROVE UNCHANGED Feed!feed
  BY <1>3 DEF Publish, Rollback, Feed!feed, Committed, BusTypeOK
<1>4. ASSUME NEW e \in Events, Commit(e) PROVE Feed!Next
  BY <1>1, <1>4, FeedPublishes DEF Feed!Next
<1>5. ASSUME NEW g \in Known, NEW e \in Events, Complete(g, e) PROVE Feed!Next
  BY <1>1, <1>5, FeedHandles DEF Feed!Next
<1>6. ASSUME NEW g \in Groups, g \notin Known, NEW e \in Events, Complete(g, e) PROVE UNCHANGED Feed!feed
  BY <1>6 DEF Complete, Feed!feed, Committed, BusTypeOK
<1>7. ASSUME NEW S \in SUBSET Personal, Purge(S) PROVE Feed!Next
  <2>1. S \in SUBSET Feed!Events /\ Feed!Withdraw(S)
    BY <1>1, <1>7, PersonalAssumption DEF Purge, Feed!Withdraw, Committed, Events
  <2>2. QED
    BY <2>1 DEF Feed!Next
<1>8. ASSUME NEW g \in Groups, Subscribe(g) \/ Ack(g) \/ Crash(g) \/ \E e \in Events : Deliver(g, e)
      PROVE UNCHANGED Feed!feed
  BY <1>2, <1>8 DEF Subscribe, Ack, Crash, Deliver
<1>9. CASE Age \/ PruneRetire(Known) \/ PruneRetire(Groups) \/ PruneRead \/ PruneDelete
  BY <1>2, <1>9 DEF Age, PruneRetire, PruneRead, PruneDelete
<1>10. CASE UNCHANGED bus
  BY <1>2, <1>10 DEF bus
<1>11. QED
  BY <1>3, <1>4, <1>5, <1>6, <1>7, <1>8, <1>9, <1>10 DEF BusNext

\* The outbox implements the feed: every group all binaries know deals with
\* the committed Events in one order, whatever commits late, is redelivered,
\* pruned or purged (events/bus.go, events/subscriber.go, events/prune.go).
THEOREM OutboxIsAFeed == BusSpec => FeedSpec
  BY FeedInitially, FeedStep, Invariance, PTL DEF BusSpec, FeedSpec, Feed!Spec

-----------------------------------------------------------------------------
(* The consumers and the Erasure                                           *)

\* A kept Event that was counted is still in the log, so that it is found there
\* when it is delivered again.
CountInv == \A e \in Kept : ticks[e] <= 1 /\ (ticks[e] = 1 => log[e] # "absent")

\* Between its list and its end, Dispatch owes the Event to the endpoints listed.
DispatchInv ==
  /\ dispatching => enabled \subseteq listed \cup reached[delivery["webhooks"].event]
  /\ DispatchedInFull

\* What the statements of the Erasure so far do not delete is in motion.
LateInv ==
  erasure.pc # "none" =>
    /\ \A g \in Groups : delivery[g].event \in Personal => delivery[g].event \in late
    /\ \A e \in Personal, p \in Endpoints : hook[e][p] # "none" => e \in late
    /\ \A e \in Personal \cap rows : e \in late \/ (~Over /\ e \in erasure.outbox)
    /\ erasure.pc # "queues" =>
         \A e \in Personal : log[e] = "linked" => e \in late \/ (~Over /\ e \in erasure.log)

\* A row belongs to a transaction that was not rolled back.
RowsInv == \A e \in rows : tx[e] \in {"open", "committed"}

ConsumersInv == TypeOK /\ RowsInv /\ CountInv /\ DispatchInv /\ LateInv

\* The consumers are consumers of the outbox, and the Erasure is one that
\* purges it: no step of theirs touches it in another way.
LEMMA BusIsUsed == ASSUME TypeOK, [Next]_vars PROVE [BusNext]_bus
<1> USE ConsumersAssumption
<1>1. ASSUME NEW e \in Events, Publish(e) \/ Commit(e) \/ Rollback(e) PROVE BusNext
  BY <1>1 DEF BusNext
<1>2. ASSUME NEW g \in Groups, Subscribe(g) \/ Ack(g) \/ Crash(g) \/ \E e \in Events : Deliver(g, e)
      PROVE  BusNext
  BY <1>2 DEF BusNext
<1>3. ASSUME NEW g \in Groups, NEW e \in Events, Complete(g, e) PROVE BusNext
  BY <1>3 DEF BusNext
<1>4. CASE BusStep
  BY <1>1, <1>2, <1>4 DEF BusStep
<1>5. CASE PersistStep
  BY <1>3, <1>5 DEF PersistStep, Persist, PersistFails
<1>6. CASE WebhookStep
  BY <1>3, <1>6 DEF WebhookStep, ListEndpoints, Dispatched, DispatchFails, InsertHook, StartHook,
                    EndHook, RetryHook
<1>7. ASSUME NEW g \in Groups, Die(g) PROVE BusNext
  BY <1>2, <1>7 DEF Die
<1>8. ASSUME NEW p \in Endpoints, Disable(p) PROVE UNCHANGED bus
  BY <1>8 DEF Disable
<1>9. CASE PurgeQueues \/ EraseEvents
  BY <1>9 DEF PurgeQueues, EraseEvents
<1>10. CASE EraseCommit
  <2>1. Purge(erasure.outbox \cap rows)
    BY <1>10 DEF EraseCommit
  <2>2. erasure.outbox \cap rows \in SUBSET Personal
    BY <2>1 DEF Purge
  <2>3. QED
    BY <2>1, <2>2 DEF BusNext
<1>11. CASE UNCHANGED vars
  BY <1>11 DEF vars
<1>12. QED
  BY <1>4, <1>5, <1>6, <1>7, <1>8, <1>9, <1>10, <1>11 DEF Next

LEMMA BusTypeStays == ASSUME TypeOK, [Next]_vars PROVE BusTypeOK'
<1>1. [BusNext]_bus /\ BusTypeOK
  BY BusIsUsed DEF TypeOK
<1>2. ASSUME UNCHANGED bus PROVE BusTypeOK'
  BY <1>1, <1>2 DEF bus, BusTypeOK
<1>3. QED
  BY <1>1, <1>2, TypeStep

\* The delivery of webhooks to the webhooks group, as Dispatch sees it.
Dispatching == dispatching \in {FALSE, delivery["webhooks"].pc = "handling"}

EffectsOK ==
  /\ log \in [Events -> {"absent", "linked", "bare"}]
  /\ ticks \in [Events -> Nat]
  /\ listed \subseteq Endpoints
  /\ enabled \subseteq Endpoints
  /\ hook \in [Events -> [Endpoints -> {"none", "queued", "running"}]]
  /\ reached \in [Events -> SUBSET Endpoints]
  /\ erasure \in [pc : {"none", "queues", "events", "over"}, outbox : SUBSET Events, log : SUBSET Events]
  /\ faults \in 0 .. MaxFaults

LEMMA TypeParts == TypeOK <=> BusTypeOK /\ Dispatching /\ EffectsOK /\ late \subseteq Personal
  BY Zenon DEF TypeOK, Dispatching, EffectsOK

LEMMA EffectsStay == ASSUME TypeOK, [Next]_vars PROVE EffectsOK'
<1> USE FaultsAssumption DEF EffectsOK
<1>1. EffectsOK
  BY TypeParts
<1>2. ASSUME UNCHANGED <<effects, enabled, erasure, faults>> PROVE EffectsOK'
  BY <1>1, <1>2 DEF effects
<1>3. Fault => faults' \in 0 .. MaxFaults
  BY <1>1 DEF Fault
<1>4. ASSUME NEW e \in Events, Insert(e) PROVE log' \in [Events -> {"absent", "linked", "bare"}]
  BY <1>1, <1>4 DEF Insert, Row
<1>5. ASSUME PersistStep, UNCHANGED <<enabled, erasure>> PROVE EffectsOK'
  <2>1. PICK e \in Events : Persist(e) \/ PersistFails(e)
    BY <1>5 DEF PersistStep
  <2>2. Insert(e) /\ UNCHANGED <<listed, hook, reached, enabled, erasure>>
    BY <1>5, <2>1 DEF Persist, PersistFails
  <2>3. ticks' \in [Events -> Nat] /\ faults' \in 0 .. MaxFaults
    BY <1>1, <1>3, <2>1 DEF Persist, PersistFails
  <2>4. QED
    BY <1>1, <1>4, <2>2, <2>3
<1>6. ASSUME NEW e \in Events, NEW p \in Endpoints, NEW to \in {"none", "queued", "running"},
             hook' = [hook EXCEPT ![e][p] = to]
      PROVE  hook' \in [Events -> [Endpoints -> {"none", "queued", "running"}]]
  BY <1>1, <1>6
<1>7. ASSUME NEW e \in Events, NEW p \in Endpoints,
             hook' = [hook EXCEPT ![e][p] = IF @ = "none" THEN "queued" ELSE @],
             reached' = [reached EXCEPT ![e] = @ \cup {p}]
      PROVE  /\ hook' \in [Events -> [Endpoints -> {"none", "queued", "running"}]]
             /\ reached' \in [Events -> SUBSET Endpoints]
  <2>1. hook[e][p] \in {"none", "queued", "running"}
    BY <1>1
  <2>2. QED
    BY <1>1, <1>7, <2>1
<1>8. ASSUME WebhookStep, UNCHANGED <<enabled, erasure>> PROVE EffectsOK'
  <2>1. PICK e \in Events :
          \/ ListEndpoints(e) \/ Dispatched(e) \/ DispatchFails(e)
          \/ \E p \in Endpoints : InsertHook(e, p) \/ StartHook(e, p) \/ EndHook(e, p) \/ RetryHook(e, p)
    BY <1>8 DEF WebhookStep
  <2>2. UNCHANGED <<log, ticks, enabled, erasure>>
    BY <1>8, <2>1 DEF ListEndpoints, Dispatched, DispatchFails, InsertHook, StartHook, EndHook, RetryHook
  <2>3. CASE ListEndpoints(e) \/ Dispatched(e)
    BY <1>1, <2>2, <2>3 DEF ListEndpoints, Dispatched
  <2>4. CASE DispatchFails(e)
    <3>1. listed' = {} /\ faults' \in 0 .. MaxFaults
      BY <1>3, <2>4 DEF DispatchFails
    <3>2. CASE UNCHANGED <<hook, reached>>
      BY <1>1, <2>2, <3>1, <3>2
    <3>3. CASE ~UNCHANGED <<hook, reached>>
      <4>1. PICK p \in listed :
              /\ hook' = [hook EXCEPT ![e][p] = IF @ = "none" THEN "queued" ELSE @]
              /\ reached' = [reached EXCEPT ![e] = @ \cup {p}]
        BY <2>4, <3>3 DEF DispatchFails
      <4>2. p \in Endpoints
        BY <1>1
      <4>3. QED
        BY <1>1, <1>7, <2>2, <3>1, <4>1, <4>2
    <3>4. QED
      BY <3>2, <3>3
  <2>5. ASSUME NEW p \in Endpoints, InsertHook(e, p) PROVE EffectsOK'
    BY <1>1, <1>7, <2>2, <2>5 DEF InsertHook
  <2>6. ASSUME NEW p \in Endpoints, StartHook(e, p) \/ EndHook(e, p) \/ RetryHook(e, p) PROVE EffectsOK'
    BY <1>1, <1>3, <1>6, <2>2, <2>6 DEF StartHook, EndHook, RetryHook
  <2>7. QED
    BY <2>1, <2>3, <2>4, <2>5, <2>6
<1>9. ASSUME NEW g \in Groups, Die(g), UNCHANGED <<enabled, erasure>> PROVE EffectsOK'
  BY <1>1, <1>3, <1>9 DEF Die
<1>10. ASSUME NEW p \in Endpoints, Disable(p) PROVE EffectsOK'
  BY <1>1, <1>10 DEF Disable, effects
<1>11. CASE PurgeQueues
  <2>1. Committed \cap rows \cap Personal \in SUBSET Events
    BY DEF Committed
  <2>2. erasure' = [erasure EXCEPT !.pc = "queues", !.outbox = Committed \cap rows \cap Personal]
    BY <1>11 DEF PurgeQueues
  <2>3. erasure' \in [pc : {"none", "queues", "events", "over"}, outbox : SUBSET Events, log : SUBSET Events]
    BY <1>1, <2>1, <2>2
  <2>4. hook' \in [Events -> [Endpoints -> {"none", "queued", "running"}]]
    BY <1>1, <1>11 DEF PurgeQueues
  <2>5. QED
    BY <1>1, <1>11, <2>3, <2>4 DEF PurgeQueues
<1>12. CASE EraseEvents
  BY <1>1, <1>12 DEF EraseEvents, effects
<1>13. CASE EraseCommit
  <2>1. log' \in [Events -> {"absent", "linked", "bare"}]
    BY <1>1, <1>13 DEF EraseCommit
  <2>2. erasure' \in [pc : {"none", "queues", "events", "over"}, outbox : SUBSET Events, log : SUBSET Events]
    BY <1>13 DEF EraseCommit, NotErased
  <2>3. QED
    BY <1>1, <1>13, <2>1, <2>2 DEF EraseCommit
<1>14. CASE UNCHANGED vars
  BY <1>2, <1>14 DEF vars
<1>15. QED
  BY <1>2, <1>5, <1>8, <1>9, <1>10, <1>11, <1>12, <1>13, <1>14 DEF Next

LEMMA DispatchingParts ==
  Dispatching <=> dispatching \in BOOLEAN /\ (dispatching => delivery["webhooks"].pc = "handling")
<1>1. CASE delivery["webhooks"].pc = "handling"
  BY <1>1 DEF Dispatching
<1>2. CASE delivery["webhooks"].pc # "handling"
  BY <1>2 DEF Dispatching
<1>3. QED
  BY <1>1, <1>2

\* Dispatch is under way only while the delivery is handled.
LEMMA DispatchingStays == ASSUME TypeOK, [Next]_vars PROVE Dispatching'
<1> USE ConsumersAssumption
<1>1. Dispatching /\ BusTypeOK
  BY TypeParts
<1>2. dispatching \in BOOLEAN /\ (dispatching => delivery["webhooks"].pc = "handling")
  BY <1>1, DispatchingParts
<1>3. ASSUME dispatching' = FALSE PROVE Dispatching'
  BY <1>3 DEF Dispatching
<1>4. ASSUME dispatching' = dispatching, delivery'["webhooks"] = delivery["webhooks"] PROVE Dispatching'
  BY <1>1, <1>4 DEF Dispatching
<1>5. ASSUME dispatching' = dispatching, delivery["webhooks"].pc # "handling" PROVE Dispatching'
  BY <1>2, <1>3, <1>5
<1>6. ASSUME dispatching' = dispatching, NEW g \in Groups, g # "webhooks", NEW d,
             delivery' = [delivery EXCEPT ![g] = d]
      PROVE  Dispatching'
  BY <1>1, <1>4, <1>6 DEF BusTypeOK
<1>7. CASE BusStep /\ UNCHANGED <<effects, enabled, erasure, faults>>
  <2>1. dispatching' = dispatching
    BY <1>7 DEF effects
  <2>2. ASSUME NEW e \in Events, Publish(e) \/ Commit(e) \/ Rollback(e) PROVE Dispatching'
    BY <1>4, <2>1, <2>2 DEF Publish, Commit, Rollback
  <2>3. ASSUME NEW g \in Groups, Subscribe(g) PROVE Dispatching'
    BY <1>4, <2>1, <2>3 DEF Subscribe
  <2>4. ASSUME NEW g \in Groups, Ack(g) PROVE Dispatching'
    <3>1. delivery[g].pc = "handled" /\ delivery' = [delivery EXCEPT ![g] = Idle]
      BY <2>4 DEF Ack
    <3>2. QED
      BY <1>5, <1>6, <2>1, <3>1
  <2>5. ASSUME NEW g \in Groups, NEW e \in Events, Deliver(g, e) PROVE Dispatching'
    <3>1. delivery[g] = Idle /\ delivery' = [delivery EXCEPT ![g] = [event |-> e, pc |-> "handling"]]
      BY <2>5 DEF Deliver
    <3>2. CASE g = "webhooks"
      <4>1. delivery["webhooks"].pc # "handling"
        BY <3>1, <3>2 DEF Idle
      <4>2. QED
        BY <1>5, <2>1, <4>1
    <3>3. CASE g # "webhooks"
      BY <1>6, <2>1, <3>1, <3>3
    <3>4. QED
      BY <3>2, <3>3
  <2>6. QED
    BY <1>7, <2>2, <2>3, <2>4, <2>5 DEF BusStep
<1>8. CASE PersistStep
  <2>1. ASSUME NEW e \in Events, Persist(e) PROVE Dispatching'
    <3>1. dispatching' = dispatching
      BY <2>1 DEF Persist
    <3>2. Complete("persist", e)
      BY <2>1 DEF Persist
    <3>3. delivery'["webhooks"] = delivery["webhooks"]
      BY <1>1, <3>2 DEF Complete, BusTypeOK
    <3>4. QED
      BY <1>4, <3>1, <3>3
  <2>2. ASSUME NEW e \in Events, PersistFails(e) PROVE Dispatching'
    BY <1>4, <2>2 DEF PersistFails, bus
  <2>3. QED
    BY <1>8, <2>1, <2>2 DEF PersistStep
<1>9. CASE WebhookStep
  <2>1. ASSUME NEW e \in Events, ListEndpoints(e) PROVE Dispatching'
    <3>1. dispatching' = TRUE /\ delivery' = delivery /\ delivery["webhooks"].pc = "handling"
      BY <2>1 DEF ListEndpoints, bus, Handling
    <3>2. delivery'["webhooks"].pc = "handling"
      BY <3>1
    <3>3. QED
      BY <3>1, <3>2 DEF Dispatching
  <2>2. ASSUME NEW e \in Events, Dispatched(e) \/ DispatchFails(e) PROVE Dispatching'
    BY <1>3, <2>2 DEF Dispatched, DispatchFails
  <2>3. ASSUME NEW e \in Events, NEW p \in Endpoints,
               InsertHook(e, p) \/ StartHook(e, p) \/ EndHook(e, p) \/ RetryHook(e, p)
        PROVE  Dispatching'
    BY <1>4, <2>3 DEF InsertHook, StartHook, EndHook, RetryHook, bus
  <2>4. QED
    BY <1>9, <2>1, <2>2, <2>3 DEF WebhookStep
<1>10. ASSUME NEW g \in Groups, Die(g) PROVE Dispatching'
  <2>1. CASE g = "webhooks"
    BY <1>3, <1>10, <2>1 DEF Die
  <2>2. CASE g # "webhooks"
    BY <1>6, <1>10, <2>2 DEF Die, Crash
  <2>3. QED
    BY <2>1, <2>2
<1>11. ASSUME NEW p \in Endpoints, Disable(p) PROVE Dispatching'
  BY <1>4, <1>11 DEF Disable, bus, effects
<1>12. CASE PurgeQueues \/ EraseEvents \/ EraseCommit
  BY <1>4, <1>12 DEF PurgeQueues, EraseEvents, EraseCommit, Purge, bus, effects
<1>13. CASE UNCHANGED vars
  BY <1>4, <1>13 DEF vars, bus, effects
<1>14. QED
  BY <1>7, <1>8, <1>9, <1>10, <1>11, <1>12, <1>13 DEF Next

LEMMA ConsumersTypeStep == ASSUME TypeOK, [Next]_vars PROVE TypeOK'
<1>1. BusTypeOK' /\ Dispatching' /\ EffectsOK'
  BY BusTypeStays, DispatchingStays, EffectsStay
<1>2. late' \subseteq Personal
  BY TypeParts DEF Next, Track, InMotion, vars
<1>3. TypeOK' <=> BusTypeOK' /\ Dispatching' /\ EffectsOK' /\ late' \subseteq Personal'
  BY Zenon DEF TypeOK, Dispatching, EffectsOK
<1>4. QED
  BY <1>1, <1>2, <1>3, Zenon

-----------------------------------------------------------------------------

LEMMA RowsStep == ASSUME TypeOK, RowsInv, [Next]_vars PROVE RowsInv'
<1> USE DEF TypeOK, BusTypeOK, RowsInv
<1>1. [BusNext]_bus
  BY BusIsUsed
<1>2. ASSUME NEW e \in Events, Publish(e) \/ Commit(e) \/ Rollback(e) PROVE RowsInv'
  BY <1>2 DEF Publish, Commit, Rollback
<1>3. ASSUME tx' = tx, rows' \subseteq rows PROVE RowsInv'
  BY <1>3
<1>4. ASSUME NEW g \in Groups, Subscribe(g) \/ Ack(g) \/ Crash(g) PROVE RowsInv'
  BY <1>3, <1>4 DEF Subscribe, Ack, Crash
<1>5. ASSUME NEW g \in Groups, NEW e \in Events, Deliver(g, e) \/ Complete(g, e) PROVE RowsInv'
  BY <1>3, <1>5 DEF Deliver, Complete
<1>6. CASE Age \/ PruneRetire(Known) \/ PruneRetire(Groups) \/ PruneRead \/ PruneDelete
  BY <1>3, <1>6 DEF Age, PruneRetire, PruneRead, PruneDelete
<1>7. ASSUME NEW S \in SUBSET Personal, Purge(S) PROVE RowsInv'
  BY <1>3, <1>7 DEF Purge
<1>8. CASE UNCHANGED bus
  BY <1>3, <1>8 DEF bus
<1>9. QED
  BY <1>1, <1>2, <1>4, <1>5, <1>6, <1>7, <1>8 DEF BusNext

\* Only a first insert is counted, and no step takes a kept row away.
LEMMA CountStep == ASSUME TypeOK, CountInv, [Next]_vars PROVE CountInv'
<1> USE KeptAssumption DEF CountInv
<1>1. EffectsOK /\ EffectsOK' /\ Kept \subseteq Events
  BY TypeParts, EffectsStay DEF Events
<1>2. ASSUME UNCHANGED <<log, ticks>> PROVE CountInv'
  BY <1>2
<1>3. ASSUME NEW e \in Events, Insert(e)
      PROVE  /\ log'[e] # "absent"
             /\ \A f \in Events : log[f] # "absent" => log'[f] # "absent"
  BY <1>1, <1>3 DEF Insert, Row, EffectsOK
<1>4. ASSUME NEW e \in Events, Persist(e) PROVE CountInv'
  <2>1. ASSUME NEW f \in Kept PROVE ticks'[f] <= 1 /\ (ticks'[f] = 1 => log'[f] # "absent")
    <3>1. Insert(e) /\ f \in Events /\ ticks[f] \in Nat
      BY <1>1, <1>4 DEF Persist, EffectsOK
    <3>2. CASE f = e /\ log[e] = "absent"
      <4>1. ticks[f] = 0 /\ ticks'[f] = ticks[f] + 1
        BY <1>1, <1>4, <3>1, <3>2 DEF Persist, EffectsOK
      <4>2. QED
        BY <1>3, <3>1, <3>2, <4>1
    <3>3. CASE ~(f = e /\ log[e] = "absent")
      <4>1. ticks'[f] = ticks[f]
        BY <1>1, <1>4, <3>1, <3>3 DEF Persist, EffectsOK
      <4>2. QED
        BY <1>3, <3>1, <4>1
    <3>4. QED
      BY <3>2, <3>3
  <2>2. QED
    BY <2>1
<1>5. ASSUME NEW e \in Events, PersistFails(e) PROVE CountInv'
  BY <1>1, <1>3, <1>5 DEF PersistFails
<1>6. CASE BusStep /\ UNCHANGED <<effects, enabled, erasure, faults>>
  BY <1>2, <1>6 DEF effects
<1>7. CASE PersistStep
  BY <1>4, <1>5, <1>7 DEF PersistStep
<1>8. CASE WebhookStep
  BY <1>2, <1>8 DEF WebhookStep, ListEndpoints, Dispatched, DispatchFails, InsertHook, StartHook,
                    EndHook, RetryHook
<1>9. ASSUME NEW g \in Groups, Die(g) PROVE CountInv'
  BY <1>2, <1>9 DEF Die
<1>10. ASSUME NEW p \in Endpoints, Disable(p) PROVE CountInv'
  BY <1>2, <1>10 DEF Disable, effects
<1>11. CASE PurgeQueues \/ EraseEvents
  BY <1>2, <1>11 DEF PurgeQueues, EraseEvents, effects
<1>12. CASE EraseCommit
  BY <1>1, <1>12 DEF EraseCommit
<1>13. CASE UNCHANGED vars
  BY <1>2, <1>13 DEF vars, effects
<1>14. QED
  BY <1>6, <1>7, <1>8, <1>9, <1>10, <1>11, <1>12, <1>13 DEF Next

\* Dispatch works off its list, and every way out of it but the last drops both
\* the list and the debt: the next delivery starts over.
LEMMA DispatchStep == ASSUME TypeOK, DispatchInv, [Next]_vars PROVE DispatchInv'
<1> USE ConsumersAssumption DEF DispatchInv, DispatchedInFull
<1>1. BusTypeOK /\ EffectsOK /\ dispatching \in BOOLEAN
  BY TypeParts, DispatchingParts
<1>2. dispatching => delivery["webhooks"].pc = "handling"
  BY TypeParts, DispatchingParts
<1>3. ASSUME enabled' \subseteq enabled, reached' = reached, handled'["webhooks"] = handled["webhooks"],
             dispatching' => /\ dispatching /\ listed' = listed
                             /\ delivery'["webhooks"].event = delivery["webhooks"].event
      PROVE  DispatchInv'
  BY <1>3
<1>4. CASE BusStep /\ UNCHANGED <<effects, enabled, erasure, faults>>
  <2>1. UNCHANGED <<enabled, reached, dispatching, listed>>
    BY <1>4 DEF effects
  <2>2. handled' = handled
    BY <1>4 DEF BusStep, Publish, Commit, Rollback, Subscribe, Ack, Deliver
  <2>3. ASSUME NEW e \in Events, Publish(e) \/ Commit(e) \/ Rollback(e) PROVE delivery' = delivery
    BY <2>3 DEF Publish, Commit, Rollback
  <2>4. ASSUME NEW g \in Groups, Subscribe(g) PROVE delivery' = delivery
    BY <2>4 DEF Subscribe
  <2>5. ASSUME NEW g \in Groups, Ack(g), dispatching PROVE delivery'["webhooks"] = delivery["webhooks"]
    <3>1. g # "webhooks"
      BY <1>2, <2>5 DEF Ack
    <3>2. QED
      BY <1>1, <2>5, <3>1 DEF Ack, BusTypeOK
  <2>6. ASSUME NEW g \in Groups, NEW e \in Events, Deliver(g, e), dispatching
        PROVE  delivery'["webhooks"] = delivery["webhooks"]
    <3>1. g # "webhooks"
      BY <1>2, <2>6 DEF Deliver, Idle
    <3>2. QED
      BY <1>1, <2>6, <3>1 DEF Deliver, BusTypeOK
  <2>7. dispatching => delivery'["webhooks"] = delivery["webhooks"]
    BY <1>4, <2>3, <2>4, <2>5, <2>6 DEF BusStep
  <2>8. QED
    BY <1>3, <2>1, <2>2, <2>7
<1>5. ASSUME PersistStep, UNCHANGED <<enabled, erasure>> PROVE DispatchInv'
  <2>1. ASSUME NEW e \in Events, Persist(e) PROVE DispatchInv'
    <3>1. Complete("persist", e) /\ UNCHANGED <<enabled, reached, dispatching, listed>>
      BY <1>5, <2>1 DEF Persist
    <3>2. /\ delivery'["webhooks"] = delivery["webhooks"]
          /\ handled'["webhooks"] = handled["webhooks"]
      BY <1>1, <3>1 DEF Complete, BusTypeOK
    <3>3. QED
      BY <1>3, <3>1, <3>2
  <2>2. ASSUME NEW e \in Events, PersistFails(e) PROVE DispatchInv'
    BY <1>3, <1>5, <2>2 DEF PersistFails, bus
  <2>3. QED
    BY <1>5, <2>1, <2>2 DEF PersistStep
<1>6. ASSUME NEW e \in Events, ListEndpoints(e), UNCHANGED enabled PROVE DispatchInv'
  BY <1>6 DEF ListEndpoints, bus
<1>7. ASSUME NEW e \in Events, Dispatched(e), UNCHANGED enabled PROVE DispatchInv'
  <2>1. delivery["webhooks"].event = e /\ dispatching' = FALSE /\ reached' = reached
    BY <1>7 DEF Dispatched, Complete, Handling
  <2>2. enabled \subseteq reached[e]
    BY <1>7, <2>1 DEF Dispatched
  <2>3. handled'["webhooks"] = handled["webhooks"] \cup {e}
    BY <1>1, <1>7 DEF Dispatched, Complete, BusTypeOK
  <2>4. QED
    BY <1>7, <2>1, <2>2, <2>3
<1>8. ASSUME NEW e \in Events, NEW p, reached' = [reached EXCEPT ![e] = @ \cup {p}]
      PROVE  reached'[e] = reached[e] \cup {p} /\ \A f \in Events : reached[f] \subseteq reached'[f]
  BY <1>1, <1>8 DEF EffectsOK
<1>9. ASSUME NEW e \in Events, DispatchFails(e), UNCHANGED enabled PROVE DispatchInv'
  <2>1. dispatching' = FALSE /\ handled' = handled
    BY <1>9 DEF DispatchFails, bus
  <2>2. \A f \in Events : reached[f] \subseteq reached'[f]
    BY <1>8, <1>9 DEF DispatchFails
  <2>3. handled["webhooks"] \subseteq Events
    BY <1>1 DEF BusTypeOK
  <2>4. QED
    BY <1>9, <2>1, <2>2, <2>3
<1>10. ASSUME NEW e \in Events, NEW p \in Endpoints, InsertHook(e, p), UNCHANGED enabled PROVE DispatchInv'
  <2>1. /\ delivery["webhooks"].event = e /\ dispatching /\ dispatching' = dispatching
        /\ delivery' = delivery /\ handled' = handled /\ listed' = listed \ {p}
    BY <1>10 DEF InsertHook, Handling, bus
  <2>2. reached'[e] = reached[e] \cup {p} /\ \A f \in Events : reached[f] \subseteq reached'[f]
    BY <1>8, <1>10 DEF InsertHook
  <2>3. enabled' \subseteq listed' \cup reached'[delivery'["webhooks"].event]
    BY <1>10, <2>1, <2>2
  <2>4. handled["webhooks"] \subseteq Events
    BY <1>1 DEF BusTypeOK
  <2>5. QED
    BY <1>10, <2>1, <2>2, <2>3, <2>4
<1>11. ASSUME NEW e \in Events, NEW p \in Endpoints, StartHook(e, p) \/ EndHook(e, p) \/ RetryHook(e, p),
              UNCHANGED enabled
       PROVE  DispatchInv'
  BY <1>3, <1>11 DEF StartHook, EndHook, RetryHook, bus
<1>12. ASSUME WebhookStep, UNCHANGED <<enabled, erasure>> PROVE DispatchInv'
  BY <1>6, <1>7, <1>9, <1>10, <1>11, <1>12 DEF WebhookStep
<1>13. ASSUME NEW g \in Groups, Die(g), UNCHANGED enabled PROVE DispatchInv'
  <2>1. Crash(g) /\ reached' = reached /\ handled' = handled
    BY <1>13 DEF Die, Crash
  <2>2. CASE g = "webhooks"
    BY <1>3, <1>13, <2>1, <2>2 DEF Die
  <2>3. CASE g # "webhooks"
    <3>1. delivery'["webhooks"] = delivery["webhooks"]
      BY <1>1, <2>1, <2>3 DEF Crash, BusTypeOK
    <3>2. QED
      BY <1>3, <1>13, <2>1, <2>3, <3>1 DEF Die
  <2>4. QED
    BY <2>2, <2>3
<1>14. ASSUME NEW p \in Endpoints, Disable(p) PROVE DispatchInv'
  BY <1>3, <1>14 DEF Disable, bus, effects
<1>15. CASE PurgeQueues \/ EraseEvents \/ EraseCommit
  BY <1>3, <1>15 DEF PurgeQueues, EraseEvents, EraseCommit, Purge, bus, effects
<1>16. CASE UNCHANGED vars
  BY <1>3, <1>16 DEF vars, bus, effects
<1>17. QED
  BY <1>4, <1>5, <1>12, <1>13, <1>14, <1>15, <1>16 DEF Next

-----------------------------------------------------------------------------
(* Where a trace of an Event can come from.                                *)

\* The Erasure moves by its three statements alone.
LEMMA ErasureMoves ==
  ASSUME [Next]_vars PROVE erasure' = erasure \/ PurgeQueues \/ EraseEvents \/ EraseCommit
  BY DEF Next, Disable, effects, vars

\* A row is new only if its transaction is, and after the Erasure no new Event
\* names the Contact.
LEMMA RowsMove ==
  ASSUME TypeOK, [Next]_vars, NEW e \in rows', e \notin rows
  PROVE  e \in Events /\ tx'[e] = "open" /\ (e \in Personal => ~Over)
<1> USE DEF TypeOK, BusTypeOK
<1>1. ASSUME NEW f \in Events, (f \in Personal => ~Over) /\ Publish(f)
      PROVE  e \in Events /\ tx'[e] = "open" /\ (e \in Personal => ~Over)
  BY <1>1 DEF Publish
<1>2. CASE BusStep
  BY <1>1, <1>2 DEF BusStep, Commit, Rollback, Subscribe, Ack, Deliver
<1>3. CASE PersistStep
  BY <1>3 DEF PersistStep, Persist, PersistFails, Complete, bus
<1>4. CASE WebhookStep
  BY <1>4 DEF WebhookStep, ListEndpoints, Dispatched, DispatchFails, InsertHook, StartHook, EndHook,
              RetryHook, Complete, bus
<1>5. CASE UNCHANGED vars \/ \E p \in Endpoints : Disable(p)
  BY <1>5 DEF vars, Disable, bus
<1>6. CASE PurgeQueues \/ EraseEvents \/ EraseCommit \/ \E g \in Groups : Die(g)
  BY <1>6 DEF PurgeQueues, EraseEvents, EraseCommit, Purge, Die, Crash, bus
<1>7. QED
  BY <1>2, <1>3, <1>4, <1>5, <1>6 DEF Next

\* A group gets hold of an Event through its row alone.
LEMMA DeliveriesMove ==
  ASSUME TypeOK, [Next]_vars, NEW g \in Groups
  PROVE  \/ delivery'[g].event = delivery[g].event
         \/ delivery'[g].event = 0
         \/ delivery'[g].event \in rows
<1> DEFINE Goal == \/ delivery'[g].event = delivery[g].event
                   \/ delivery'[g].event = 0
                   \/ delivery'[g].event \in rows
<1> USE DEF TypeOK, BusTypeOK
<1>1. [BusNext]_bus
  BY BusIsUsed
<1>2. ASSUME NEW h \in Groups, NEW e \in Events, Complete(h, e) PROVE Goal
  BY <1>2 DEF Complete
<1>3. ASSUME NEW h \in Groups, NEW e \in Events, Deliver(h, e) PROVE Goal
  <2>1. e \in rows
    BY <1>3 DEF Deliver, Readable
  <2>2. QED
    BY <1>3, <2>1 DEF Deliver
<1>4. ASSUME NEW h \in Groups, Ack(h) \/ Crash(h) \/ Subscribe(h) PROVE Goal
  BY <1>4 DEF Ack, Crash, Subscribe, Idle
<1>5. ASSUME NEW e \in Events, Publish(e) \/ Commit(e) \/ Rollback(e) PROVE Goal
  BY <1>5 DEF Publish, Commit, Rollback
<1>6. CASE Age \/ PruneRetire(Known) \/ PruneRetire(Groups) \/ PruneRead \/ PruneDelete
  BY <1>6 DEF Age, PruneRetire, PruneRead, PruneDelete
<1>7. ASSUME NEW S \in SUBSET Personal, Purge(S) PROVE Goal
  BY <1>7 DEF Purge
<1>8. CASE UNCHANGED bus
  BY <1>8 DEF bus
<1>9. QED
  BY <1>1, <1>2, <1>3, <1>4, <1>5, <1>6, <1>7, <1>8 DEF BusNext

\* A delivery job comes from an earlier one or from the Event in the group's
\* hands.
LEMMA HooksMove ==
  ASSUME TypeOK, [Next]_vars, NEW e \in Events, NEW p \in Endpoints, hook'[e][p] # "none"
  PROVE  hook[e][p] # "none" \/ delivery["webhooks"].event = e
<1> DEFINE Goal == hook[e][p] # "none" \/ delivery["webhooks"].event = e
<1>1. EffectsOK
  BY TypeParts
<1>2. ASSUME NEW f \in Events, NEW q \in Endpoints, hook[f][q] # "none",
             NEW to \in {"none", "queued", "running"}, hook' = [hook EXCEPT ![f][q] = to]
      PROVE  Goal
  BY <1>1, <1>2 DEF EffectsOK
<1>3. ASSUME NEW f \in Events, NEW q \in Endpoints, Handling("webhooks", f),
             hook' = [hook EXCEPT ![f][q] = IF @ = "none" THEN "queued" ELSE @]
      PROVE  Goal
  <2>1. CASE f = e
    BY <1>3, <2>1 DEF Handling
  <2>2. CASE f # e
    BY <1>1, <1>3, <2>2 DEF EffectsOK
  <2>3. QED
    BY <2>1, <2>2
<1>4. CASE hook' = hook
  BY <1>4
<1>5. CASE BusStep /\ UNCHANGED <<effects, enabled, erasure, faults>>
  BY <1>4, <1>5 DEF effects
<1>6. CASE PersistStep
  BY <1>4, <1>6 DEF PersistStep, Persist, PersistFails
<1>7. ASSUME NEW f \in Events, ListEndpoints(f) \/ Dispatched(f) PROVE Goal
  BY <1>4, <1>7 DEF ListEndpoints, Dispatched
<1>8. ASSUME NEW f \in Events, DispatchFails(f) PROVE Goal
  <2>1. \/ hook' = hook
        \/ \E q \in listed : hook' = [hook EXCEPT ![f][q] = IF @ = "none" THEN "queued" ELSE @]
    BY <1>8 DEF DispatchFails
  <2>2. Handling("webhooks", f) /\ listed \subseteq Endpoints
    BY <1>1, <1>8 DEF DispatchFails, EffectsOK
  <2>3. QED
    BY <1>3, <1>4, <2>1, <2>2
<1>9. ASSUME NEW f \in Events, NEW q \in Endpoints, InsertHook(f, q) PROVE Goal
  BY <1>3, <1>9 DEF InsertHook
<1>10. ASSUME NEW f \in Events, NEW q \in Endpoints, StartHook(f, q) \/ EndHook(f, q) \/ RetryHook(f, q)
       PROVE  Goal
  BY <1>2, <1>10 DEF StartHook, EndHook, RetryHook
<1>11. CASE WebhookStep
  BY <1>7, <1>8, <1>9, <1>10, <1>11 DEF WebhookStep
<1>12. CASE PurgeQueues
  BY <1>1, <1>12 DEF PurgeQueues, EffectsOK
<1>13. CASE EraseEvents \/ EraseCommit
  BY <1>4, <1>13 DEF EraseEvents, EraseCommit, effects
<1>14. CASE (\E q \in Endpoints : Disable(q)) \/ (\E g \in Groups : Die(g)) \/ UNCHANGED vars
  BY <1>4, <1>14 DEF Disable, Die, vars, effects
<1>15. QED
  BY <1>5, <1>6, <1>11, <1>12, <1>13, <1>14 DEF Next

\* A log entry that names the Contact is one persist has just written, and an
\* Erasure that commits leaves none of those it found.
LEMMA LogMoves ==
  ASSUME TypeOK, [Next]_vars, NEW e \in Events, log'[e] = "linked"
  PROVE  /\ log[e] = "linked" \/ delivery["persist"].event = e
         /\ EraseCommit => e \notin erasure.log
<1> DEFINE Goal == log[e] = "linked" \/ delivery["persist"].event = e
<1>1. EffectsOK
  BY TypeParts
<1>2. ASSUME log' = log PROVE Goal
  BY <1>2
<1>3. ASSUME BusStep, UNCHANGED <<effects, enabled, erasure, faults>> PROVE Goal
  BY <1>2, <1>3 DEF effects
<1>4. ASSUME NEW f \in Events, Persist(f) \/ PersistFails(f) PROVE Goal
  <2>1. Insert(f) /\ Handling("persist", f)
    BY <1>4 DEF Persist, PersistFails, Complete
  <2>2. QED
    BY <1>1, <2>1 DEF Insert, Handling, EffectsOK
<1>5. ASSUME WebhookStep PROVE Goal
  BY <1>2, <1>5 DEF WebhookStep, ListEndpoints, Dispatched, DispatchFails, InsertHook, StartHook,
                    EndHook, RetryHook
<1>6. ASSUME \/ PurgeQueues \/ EraseEvents \/ UNCHANGED vars
             \/ \E q \in Endpoints : Disable(q)
             \/ \E g \in Groups : Die(g)
      PROVE  Goal
  BY <1>2, <1>6 DEF PurgeQueues, EraseEvents, Disable, Die, vars, effects
<1>7. EraseCommit => Goal /\ e \notin erasure.log
  BY <1>1 DEF EraseCommit, EffectsOK
<1>8. QED
  BY <1>3, <1>4, <1>5, <1>6, <1>7 DEF Next, PersistStep


-----------------------------------------------------------------------------

\* Before the Erasure is over, everything in motion is noted; after it nothing
\* is noted, but nothing new names the Contact either.
LEMMA LateStep == ASSUME TypeOK, RowsInv, LateInv, [Next]_vars PROVE LateInv'
<1> USE ConsumersAssumption, PersonalAssumption
<1>1. CASE UNCHANGED vars
  BY <1>1 DEF vars, bus, effects, LateInv, Over
<1>2. ASSUME Next, erasure'.pc # "none" PROVE LateInv'
  <2> USE <1>2
  <2>1. BusTypeOK /\ EffectsOK /\ Personal \subseteq Events
    BY TypeParts DEF Events
  <2>2. late \subseteq late' /\ (~Over => InMotion' \subseteq late')
    BY DEF Next, Track
  <2>3. \/ erasure' = erasure /\ erasure.pc # "none"
        \/ PurgeQueues \/ EraseEvents \/ EraseCommit
    BY ErasureMoves
  <2>4. erasure.pc = "none" => PurgeQueues
    BY <2>3 DEF EraseEvents, EraseCommit
  <2>5. Over => erasure' = erasure
    BY <2>3 DEF Over, PurgeQueues, EraseEvents, EraseCommit
  <2>6. ASSUME NEW g \in Groups, delivery'[g].event \in Personal PROVE delivery'[g].event \in late'
    <3>1. CASE ~Over
      BY <2>2, <2>6, <3>1 DEF InMotion
    <3>2. CASE Over
      <4>1. CASE delivery'[g].event = delivery[g].event
        BY <2>2, <2>6, <3>2, <4>1 DEF LateInv, Over
      <4>2. CASE delivery'[g].event \in rows
        BY <2>2, <2>6, <3>2, <4>2 DEF LateInv, Over
      <4>3. QED
        BY <2>6, <4>1, <4>2, DeliveriesMove
    <3>3. QED
      BY <3>1, <3>2
  <2>7. ASSUME NEW e \in Personal, NEW p \in Endpoints, hook'[e][p] # "none" PROVE e \in late'
    <3>1. CASE erasure.pc = "none"
      <4>1. hook'[e][p] = "running"
        BY <2>1, <2>4, <2>7, <3>1 DEF PurgeQueues, EffectsOK
      <4>2. e \in InMotion'
        BY <4>1 DEF InMotion
      <4>3. QED
        BY <2>2, <3>1, <4>2 DEF Over
    <3>2. CASE erasure.pc # "none"
      BY <2>1, <2>2, <2>7, <3>2, HooksMove DEF LateInv
    <3>3. QED
      BY <3>1, <3>2
  <2>8. ASSUME NEW e \in Personal \cap rows' PROVE e \in late' \/ (~Over' /\ e \in erasure'.outbox)
    <3>1. CASE e \notin rows
      <4>1. tx'[e] = "open" /\ ~Over
        BY <2>8, <3>1, RowsMove
      <4>2. e \in InMotion'
        BY <2>8, <4>1 DEF InMotion
      <4>3. QED
        BY <2>2, <4>1, <4>2
    <3>2. CASE e \in rows /\ PurgeQueues
      <4>1. tx' = tx /\ e \in Events /\ ~Over
        BY <2>1, <2>8, <3>2 DEF PurgeQueues, bus, Over
      <4>2. CASE tx[e] = "open"
        BY <2>2, <2>8, <4>1, <4>2 DEF InMotion
      <4>3. CASE tx[e] = "committed"
        <5>1. e \in Committed \cap rows \cap Personal
          BY <2>8, <3>2, <4>1, <4>3 DEF Committed
        <5>2. erasure'.outbox = Committed \cap rows \cap Personal /\ erasure'.pc = "queues"
          BY <2>1, <3>2 DEF PurgeQueues, EffectsOK
        <5>3. QED
          BY <5>1, <5>2 DEF Over
      <4>4. QED
        BY <3>2, <4>2, <4>3 DEF RowsInv
    <3>3. CASE e \in rows /\ ~PurgeQueues
      <4>1. e \in late \/ (~Over /\ e \in erasure.outbox)
        BY <2>4, <2>8, <3>3 DEF LateInv
      <4>2. CASE EraseCommit
        BY <2>2, <2>8, <4>1, <4>2 DEF EraseCommit, Purge
      <4>3. CASE EraseEvents
        BY <2>1, <2>2, <4>1, <4>3 DEF EraseEvents, EffectsOK, Over
      <4>4. QED
        BY <2>2, <2>3, <3>3, <4>1, <4>2, <4>3 DEF Over
    <3>4. QED
      BY <3>1, <3>2, <3>3
  <2>9. ASSUME NEW e \in Personal, log'[e] = "linked", erasure'.pc # "queues"
        PROVE  e \in late' \/ (~Over' /\ e \in erasure'.log)
    <3>1. CASE EraseEvents
      <4>1. log'[e] = log[e] /\ erasure'.pc = "events" /\ erasure'.log = {f \in Events : log[f] = "linked"}
        BY <2>1, <3>1 DEF EraseEvents, effects, EffectsOK
      <4>2. QED
        BY <2>1, <2>9, <4>1 DEF Over
    <3>2. CASE ~EraseEvents
      <4>1. erasure.pc \notin {"none", "queues"} /\ ~PurgeQueues
        BY <2>1, <2>3, <2>9, <3>2 DEF PurgeQueues, EraseCommit, EffectsOK
      <4>2. log[e] = "linked" \/ delivery["persist"].event = e
        BY <2>1, <2>9, LogMoves
      <4>3. e \in late \/ (~Over /\ e \in erasure.log)
        BY <4>1, <4>2 DEF LateInv
      <4>4. EraseCommit => e \notin erasure.log
        BY <2>1, <2>9, LogMoves
      <4>5. QED
        BY <2>2, <2>3, <3>2, <4>1, <4>3, <4>4 DEF Over
    <3>3. QED
      BY <3>1, <3>2
  <2>10. QED
    BY <2>6, <2>7, <2>8, <2>9 DEF LateInv
<1>3. QED
  BY <1>1, <1>2 DEF LateInv

LEMMA ConsumersStart == Init => ConsumersInv
<1> SUFFICES ASSUME Init PROVE ConsumersInv
  OBVIOUS
<1> USE EventsAssumption, FaultsAssumption, ConsumersAssumption, KeptAssumption DEF Init
<1>1. BusTypeOK /\ rows = {} /\ handled["webhooks"] = {}
  BY Initially DEF IInv, BusInit
<1>2. Dispatching
  BY DEF Dispatching
<1>3. EffectsOK /\ late \subseteq Personal
  BY DEF EffectsOK, NotErased
<1>4. TypeOK
  BY <1>1, <1>2, <1>3, TypeParts
<1>5. CountInv
  BY DEF CountInv, Events
<1>6. DispatchInv
  BY <1>1 DEF DispatchInv, DispatchedInFull
<1>7. LateInv /\ RowsInv
  BY <1>1 DEF LateInv, RowsInv, NotErased
<1>8. QED
  BY <1>4, <1>5, <1>6, <1>7 DEF ConsumersInv

LEMMA ConsumersStay == ConsumersInv /\ [Next]_vars => ConsumersInv'
  BY ConsumersTypeStep, RowsStep, CountStep, DispatchStep, LateStep DEF ConsumersInv

LEMMA ConsumersInvariance == Spec => []ConsumersInv
  BY ConsumersStart, ConsumersStay, PTL DEF Spec

-----------------------------------------------------------------------------

\* The state of the outbox, of the two consumers and of the Erasure keeps its
\* types; Dispatch (jobs/dispatch.go) holds a list only in mid-delivery.
THEOREM TypeCorrect == Spec => []TypeOK
<1>1. ConsumersInv => TypeOK
  BY DEF ConsumersInv
<1>2. QED
  BY <1>1, ConsumersInvariance, PTL

\* The consumers read the outbox as its model says a group does, and the
\* Erasure purges it as that model says (events/bus.go, erasure/inflight.go):
\* whatever is proved of the outbox holds with them behind it.
THEOREM ConsumersReadTheOutbox == Spec => BusSpec
<1>1. ConsumersInv /\ [Next]_vars => [BusNext]_bus
  BY BusIsUsed DEF ConsumersInv
<1>2. Init => BusInit
  BY DEF Init
<1>3. QED
  BY <1>1, <1>2, ConsumersInvariance, PTL DEF Spec, BusSpec

\* However many Events, endpoints and failures there are, what still names the
\* Contact after its Erasure was uncommitted, in a consumer's hands or in a
\* delivery under way while the Erasure ran (erasure/inflight.go).
THEOREM OnlyLateEventsStay == Spec => []OnlyLateEventsName
<1>1. ConsumersInv => OnlyLateEventsName
  <2> SUFFICES ASSUME ConsumersInv, Over, NEW e \in Personal,
                      e \in rows \/ log[e] = "linked" \/ \E p \in Endpoints : hook[e][p] # "none"
               PROVE  e \in late
    BY DEF OnlyLateEventsName
  <2>1. erasure.pc \notin {"none", "queues"}
    BY DEF Over
  <2>2. QED
    BY <2>1 DEF ConsumersInv, LateInv
<1>2. QED
  BY <1>1, ConsumersInvariance, PTL

\* The webhooks group acknowledges an Event only after every endpoint that has
\* been enabled all along has its job, whatever failed or died in between
\* (jobs/dispatch.go, events/subscriber.go).
THEOREM DispatchIsInFull == Spec => []DispatchedInFull
<1>1. ConsumersInv => DispatchedInFull
  BY DEF ConsumersInv, DispatchInv
<1>2. QED
  BY <1>1, ConsumersInvariance, PTL

\* However often an Event that is kept is delivered, and whatever an Erasure
\* rewrites in between, its outcome counts once (events/persist.go).
THEOREM OutcomesCountOnce == Spec => []CountedOnce
<1>1. ConsumersInv => CountedOnce
  BY DEF ConsumersInv, CountInv, CountedOnce
<1>2. QED
  BY <1>1, ConsumersInvariance, PTL
=============================================================================
