------------------------------- MODULE Outbox -------------------------------
(***************************************************************************)
(* The outbox of domain Events (internal/events): producers insert an      *)
(* Event in the transaction of the change it announces, every consumer     *)
(* group reads the committed rows in order behind a cursor of its own, and *)
(* a periodic job prunes what every registered group has read.             *)
(*                                                                         *)
(* An Event is named by its place, the (transaction_id, offset) its row is *)
(* sorted by; one Event per transaction.  Binaries of two versions run     *)
(* side by side during a deploy: the old ones know only the groups Known.  *)
(* The reader is watermill-sql, of which the code relies on this much: one *)
(* delivery at a time per group, under the lock of its offsets row; only   *)
(* rows no open transaction can precede; no progress without an ack.       *)
(***************************************************************************)
EXTENDS Integers

CONSTANTS
  MaxEvents,   \* bound: Events published in a run
  Groups,      \* consumer groups of the newest binary (ConsumerGroups)
  Known,       \* those the older binary registers as well
  Personal     \* Events that name the Contact an Erasure removes

ASSUME EventsAssumption == MaxEvents \in Nat
ASSUME KnownAssumption == Known \subseteq Groups
ASSUME PersonalAssumption == Personal \subseteq 1 .. MaxEvents

VARIABLES
  tx,          \* tx[e]: the transaction that publishes Event e
  rows,        \* Events whose outbox row exists
  aged,        \* rows up to this one are older than the prune's floor
  cursor,      \* cursor[g]: the last Event g acknowledged, NoCursor: no row
  delivery,    \* delivery[g]: the Event in g's hands and how far it has come
  prune,       \* the prune job: statement, groups it knows, lowest cursor
  handled,     \* history: handled[g]: Events g's handler has completed
  pruned,      \* history: Events a prune deleted
  purged       \* history: Events an Erasure deleted

bus == <<tx, rows, aged, cursor, delivery, prune, handled, pruned, purged>>

Events == 1 .. MaxEvents
NoCursor == -1
Idle == [event |-> 0, pc |-> "idle"]
NoPrune == [pc |-> "idle", knows |-> {}, bound |-> 0]

Committed == {e \in Events : tx[e] = "committed"}

BusTypeOK ==
  /\ tx \in [Events -> {"none", "open", "committed", "aborted"}]
  /\ rows \subseteq Events /\ aged \in 0 .. MaxEvents
  /\ cursor \in [Groups -> {NoCursor} \cup 0 .. MaxEvents]
  /\ delivery \in [Groups -> [event : 0 .. MaxEvents, pc : {"idle", "handling", "handled"}]]
  /\ prune \in [pc : {"idle", "read", "delete"}, knows : SUBSET Groups, bound : 0 .. MaxEvents]
  /\ handled \in [Groups -> SUBSET Events]
  /\ pruned \subseteq Events /\ purged \subseteq Events

\* A fresh schema: no group has an offsets row yet.
BusInit ==
  /\ tx = [e \in Events |-> "none"]
  /\ rows = {} /\ aged = 0
  /\ cursor = [g \in Groups |-> NoCursor]
  /\ delivery = [g \in Groups |-> Idle]
  /\ prune = NoPrune
  /\ handled = [g \in Groups |-> {}]
  /\ pruned = {} /\ purged = {}

-----------------------------------------------------------------------------
(* Producers: WithinTx with one Publish.                                   *)

Publish(e) ==
  /\ tx[e] = "none" /\ \A f \in Events : f < e => tx[f] # "none"
  /\ tx' = [tx EXCEPT ![e] = "open"]
  /\ rows' = rows \cup {e}
  /\ UNCHANGED <<aged, cursor, delivery, prune, handled, pruned, purged>>

Commit(e) ==
  /\ tx[e] = "open"
  /\ tx' = [tx EXCEPT ![e] = "committed"]
  /\ UNCHANGED <<rows, aged, cursor, delivery, prune, handled, pruned, purged>>

\* fn failed or panicked, or the commit did: the row goes with the change.
Rollback(e) ==
  /\ tx[e] = "open"
  /\ tx' = [tx EXCEPT ![e] = "aborted"]
  /\ rows' = rows \ {e}
  /\ UNCHANGED <<aged, cursor, delivery, prune, handled, pruned, purged>>

Age ==
  /\ aged < MaxEvents /\ tx[aged + 1] # "none"
  /\ aged' = aged + 1
  /\ UNCHANGED <<tx, rows, cursor, delivery, prune, handled, pruned, purged>>

-----------------------------------------------------------------------------
(* Consumers: NewSubscriber, one delivery at a time.                       *)

\* A server that starts makes sure its groups have an offsets row.
Subscribe(g) ==
  /\ cursor[g] = NoCursor
  /\ cursor' = [cursor EXCEPT ![g] = 0]
  /\ UNCHANGED <<tx, rows, aged, delivery, prune, handled, pruned, purged>>

\* Rows behind the cursor that no open transaction can precede.
Readable(g) ==
  {e \in Committed \cap rows : e > cursor[g] /\ \A f \in Events : f < e => tx[f] # "open"}

\* Mutant of Deliver: Events that are behind an open transaction are read.
DeliverAhead(g, e) ==
  /\ cursor[g] # NoCursor /\ delivery[g] = Idle
  /\ e \in Committed \cap rows /\ e > cursor[g]
  /\ \A f \in Committed \cap rows : f > cursor[g] => e <= f
  /\ delivery' = [delivery EXCEPT ![g] = [event |-> e, pc |-> "handling"]]
  /\ UNCHANGED <<tx, rows, aged, cursor, prune, handled, pruned, purged>>

Deliver(g, e) ==
  /\ cursor[g] # NoCursor /\ delivery[g] = Idle
  /\ e \in Readable(g) /\ \A f \in Readable(g) : e <= f
  /\ delivery' = [delivery EXCEPT ![g] = [event |-> e, pc |-> "handling"]]
  /\ UNCHANGED <<tx, rows, aged, cursor, prune, handled, pruned, purged>>

Handling(g, e) == delivery[g] = [event |-> e, pc |-> "handling"]

\* The handler returned nil.  On an error it is called again with the message
\* it has: NewRouter has no retry limit.
Complete(g, e) ==
  /\ Handling(g, e)
  /\ delivery' = [delivery EXCEPT ![g].pc = "handled"]
  /\ handled' = [handled EXCEPT ![g] = @ \cup {e}]
  /\ UNCHANGED <<tx, rows, aged, cursor, prune, pruned, purged>>

Ack(g) ==
  /\ delivery[g].pc = "handled"
  /\ cursor' = [cursor EXCEPT ![g] = delivery[g].event]
  /\ delivery' = [delivery EXCEPT ![g] = Idle]
  /\ UNCHANGED <<tx, rows, aged, prune, handled, pruned, purged>>

\* The server dies: the message is delivered again from the cursor.
Crash(g) ==
  /\ delivery[g] # Idle
  /\ delivery' = [delivery EXCEPT ![g] = Idle]
  /\ UNCHANGED <<tx, rows, aged, cursor, prune, handled, pruned, purged>>

-----------------------------------------------------------------------------
(* PruneOutbox, by a server of the old or the new version.                 *)

\* Mutant of PruneRetire: the known groups are the retired ones.
PruneRetireKnown(registered) ==
  /\ prune.pc = "idle"
  /\ \A g \in registered : delivery[g] = Idle
  /\ cursor' = [g \in Groups |-> IF g \in registered THEN NoCursor ELSE cursor[g]]
  /\ prune' = [pc |-> "read", knows |-> registered, bound |-> 0]
  /\ UNCHANGED <<tx, rows, aged, delivery, handled, pruned, purged>>

\* First the offsets rows of groups this binary does not register; the lock
\* of a delivery under way is waited for.
PruneRetire(registered) ==
  /\ prune.pc = "idle"
  /\ \A g \in Groups \ registered : delivery[g] = Idle
  /\ cursor' = [g \in Groups |-> IF g \in registered THEN cursor[g] ELSE NoCursor]
  /\ prune' = [pc |-> "read", knows |-> registered, bound |-> 0]
  /\ UNCHANGED <<tx, rows, aged, delivery, handled, pruned, purged>>

\* Mutant of PruneRead: a group without a cursor does not stop the prune.
PruneReadPartial ==
  /\ prune.pc = "read"
  /\ LET present == {cursor[g] : g \in prune.knows} \ {NoCursor} IN
       IF present = {} THEN prune' = NoPrune
       ELSE \E c \in present :
              /\ \A d \in present : c <= d
              /\ prune' = [prune EXCEPT !.pc = "delete", !.bound = c]
  /\ UNCHANGED <<tx, rows, aged, cursor, delivery, handled, pruned, purged>>

\* Then the lowest cursor; a group that has none calls the run off.
PruneRead ==
  /\ prune.pc = "read"
  /\ LET cursors == {cursor[g] : g \in prune.knows} IN
       IF NoCursor \in cursors \/ cursors = {} THEN prune' = NoPrune
       ELSE \E c \in cursors :
              /\ \A d \in cursors : c <= d
              /\ prune' = [prune EXCEPT !.pc = "delete", !.bound = c]
  /\ UNCHANGED <<tx, rows, aged, cursor, delivery, handled, pruned, purged>>

\* Then, a batch at a time, the rows strictly below it that are old enough.
PruneDelete ==
  /\ prune.pc = "delete"
  /\ LET doomed == {e \in Committed \cap rows : e < prune.bound /\ e <= aged} IN
       IF doomed = {} THEN prune' = NoPrune /\ UNCHANGED <<rows, pruned>>
       ELSE \E e \in doomed :
              /\ \A f \in doomed : e <= f
              /\ rows' = rows \ {e} /\ pruned' = pruned \cup {e}
              /\ UNCHANGED prune
  /\ UNCHANGED <<tx, aged, cursor, delivery, handled, purged>>

\* PurgeOutbox: an Erasure deletes the committed rows that name its Contact.
Purge(S) ==
  /\ S \subseteq Committed \cap Personal
  /\ rows' = rows \ S
  /\ purged' = purged \cup S
  /\ UNCHANGED <<tx, aged, cursor, delivery, prune, handled, pruned>>

-----------------------------------------------------------------------------

BusNext ==
  \/ \E e \in Events : Publish(e) \/ Commit(e) \/ Rollback(e)
  \/ Age
  \/ \E g \in Groups :
       Subscribe(g) \/ Ack(g) \/ Crash(g) \/ \E e \in Events : Deliver(g, e) \/ Complete(g, e)
  \/ PruneRetire(Known) \/ PruneRetire(Groups) \/ PruneRead \/ PruneDelete
  \/ \E S \in SUBSET Personal : Purge(S)

BusSpec == BusInit /\ [][BusNext]_bus

\* A transaction ends, a server that is down comes back and subscribes its
\* groups, the reader delivers and acknowledges, a handler succeeds in the
\* end.  That no server dies for ever in mid-delivery is what SF says.
Fairness ==
  /\ \A e \in Events : WF_bus(Commit(e) \/ Rollback(e))
  /\ \A g \in Known :
       /\ WF_bus(Subscribe(g))
       /\ WF_bus(\E e \in Events : Deliver(g, e))
       /\ SF_bus(\E e \in Events : Complete(g, e))
       /\ SF_bus(Ack(g))

FairSpec == BusSpec /\ Fairness

-----------------------------------------------------------------------------
(* Properties.                                                             *)

\* Nothing a group still has to read is pruned, if every binary that prunes
\* registers that group: cursors read before the deletes are no higher after.
NothingPrunedUnread ==
  \A g \in Known : pruned \subseteq handled[g]

\* Every group known to all binaries gets the feed the outbox is there for:
\* each committed Event, in order, whatever is pruned, purged or redelivered.
Feed == INSTANCE EventFeed WITH
          Groups <- Known,
          published <- Committed,
          done <- [g \in Known |-> handled[g]],
          withdrawn <- purged
FeedSpec == Feed!Spec

\* Every committed Event is dealt with by every group all binaries know, or
\* purged: no other Event, prune, deploy or crash keeps it from its group.
EveryEventHandled ==
  \A e \in Events, g \in Known : e \in Committed ~> e \in handled[g] \cup purged
=============================================================================
