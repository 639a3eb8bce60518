--------------------------- MODULE EventConsumers ---------------------------
(***************************************************************************)
(* Two of the consumers behind the outbox and the Erasure that runs beside *)
(* them: "persist" writes the engagement log (events.Persist), "webhooks"  *)
(* queues one delivery job per enabled endpoint (jobs.Dispatch), and an    *)
(* Erasure purges outbox, queue and log in one transaction.                *)
(*                                                                         *)
(* A handler that fails has kept the effect of the statements before the   *)
(* one that failed.  The prune is left to Outbox: it deletes only what     *)
(* both groups are done with.                                              *)
(***************************************************************************)
EXTENDS Outbox

CONSTANTS
  Endpoints,   \* webhook endpoints that match every Event
  Kept,        \* system Events: anonymized where others are deleted
  MaxFaults    \* bound: failed handler calls, crashes, failed deliveries

ASSUME ConsumersAssumption == {"persist", "webhooks"} \subseteq Groups
ASSUME KeptAssumption == Kept \subseteq 1 .. MaxEvents
ASSUME FaultsAssumption == MaxFaults \in Nat

VARIABLES
  log,         \* log[e]: the events row with the source_id of e
  ticks,       \* ticks[e]: how often the outcome e reports was counted
  listed,      \* endpoints Dispatch listed and has still to enqueue
  dispatching, \* whether Dispatch has listed them
  enabled,     \* endpoints that are enabled
  hook,        \* hook[e][p]: the delivery jobs of e to endpoint p
  reached,     \* history: reached[e]: endpoints a job of e was queued for
  erasure,     \* progress of the Erasure and what it will delete
  late,        \* history: Events that were in motion while it ran
  faults

effects == <<log, ticks, listed, dispatching, hook, reached>>
vars == <<bus, effects, enabled, erasure, late, faults>>

NotErased == [pc |-> "none", outbox |-> {}, log |-> {}]
Over == erasure.pc = "over"

TypeOK ==
  /\ BusTypeOK
  /\ log \in [Events -> {"absent", "linked", "bare"}]
  /\ ticks \in [Events -> Nat]
  /\ listed \subseteq Endpoints
  /\ dispatching \in {FALSE, delivery["webhooks"].pc = "handling"}
  /\ enabled \subseteq Endpoints
  /\ hook \in [Events -> [Endpoints -> {"none", "queued", "running"}]]
  /\ reached \in [Events -> SUBSET Endpoints]
  /\ erasure \in [pc : {"none", "queues", "events", "over"}, outbox : SUBSET Events, log : SUBSET Events]
  /\ late \subseteq Personal /\ faults \in 0 .. MaxFaults

Init ==
  /\ BusInit
  /\ log = [e \in Events |-> "absent"] /\ ticks = [e \in Events |-> 0]
  /\ listed = {} /\ dispatching = FALSE
  /\ enabled = Endpoints
  /\ hook = [e \in Events |-> [p \in Endpoints |-> "none"]]
  /\ reached = [e \in Events |-> {}]
  /\ erasure = NotErased /\ late = {} /\ faults = 0

Fault == faults < MaxFaults /\ faults' = faults + 1

-----------------------------------------------------------------------------
(* persist                                                                 *)

Row(e) == IF e \in Personal THEN "linked" ELSE "bare"

\* Insert or ignore on the source_id.  It waits while an Erasure that has not
\* committed deletes or rewrites that row.
Insert(e) ==
  /\ e \notin erasure.log
  /\ log' = IF log[e] = "absent" THEN [log EXCEPT ![e] = Row(e)] ELSE log

\* Mutant of Persist: a skipped insert is not told from a first one.
PersistCountsAll(e) ==
  /\ Insert(e)
  /\ ticks' = [ticks EXCEPT ![e] = @ + 1]
  /\ Complete("persist", e)
  /\ UNCHANGED <<listed, dispatching, hook, reached, faults>>

\* Only a first insert counts.
Persist(e) ==
  /\ Insert(e)
  /\ ticks' = IF log[e] = "absent" THEN [ticks EXCEPT ![e] = @ + 1] ELSE ticks
  /\ Complete("persist", e)
  /\ UNCHANGED <<listed, dispatching, hook, reached, faults>>

\* The insert commits and its reply, or the server, is lost.
PersistFails(e) ==
  /\ Handling("persist", e) /\ Fault
  /\ Insert(e)
  /\ UNCHANGED <<bus, ticks, listed, dispatching, hook, reached>>

-----------------------------------------------------------------------------
(* webhooks: webhooksConsumer, then Dispatch                               *)

\* Mutant of ListEndpoints: Dispatch goes on in the background.
ListInBackground(e) ==
  /\ ~dispatching /\ Complete("webhooks", e)
  /\ listed' = enabled /\ dispatching' = TRUE
  /\ UNCHANGED <<log, ticks, hook, reached, faults>>

ListEndpoints(e) ==
  /\ Handling("webhooks", e) /\ ~dispatching
  /\ listed' = enabled /\ dispatching' = TRUE
  /\ UNCHANGED <<bus, log, ticks, hook, reached, faults>>

\* river.Insert: a job of its own; a second one of the same delivery is told
\* by its id at the endpoint and is one with it here.
InsertHook(e, p) ==
  /\ Handling("webhooks", e) /\ dispatching /\ p \in listed
  /\ listed' = listed \ {p}
  /\ hook' = [hook EXCEPT ![e][p] = IF @ = "none" THEN "queued" ELSE @]
  /\ reached' = [reached EXCEPT ![e] = @ \cup {p}]
  /\ UNCHANGED <<bus, log, ticks, dispatching, faults>>

Dispatched(e) ==
  /\ dispatching /\ listed = {}
  /\ Complete("webhooks", e)
  /\ dispatching' = FALSE
  /\ UNCHANGED <<log, ticks, listed, hook, reached, faults>>

\* Mutant of DispatchFails: the error is logged and the message acknowledged.
DispatchSwallows(e) ==
  /\ dispatching /\ Fault
  /\ listed' = {} /\ dispatching' = FALSE
  /\ Complete("webhooks", e)
  /\ UNCHANGED <<log, ticks, hook, reached>>

\* A query or an insert fails, the insert perhaps after it committed.
DispatchFails(e) ==
  /\ Handling("webhooks", e) /\ dispatching /\ Fault
  /\ listed' = {} /\ dispatching' = FALSE
  /\ \/ UNCHANGED <<hook, reached>>
     \/ \E p \in listed :
          /\ hook' = [hook EXCEPT ![e][p] = IF @ = "none" THEN "queued" ELSE @]
          /\ reached' = [reached EXCEPT ![e] = @ \cup {p}]
  /\ UNCHANGED <<bus, log, ticks>>

\* Any group's server dies; Dispatch starts over with the next delivery.
Die(g) ==
  /\ Crash(g) /\ Fault
  /\ IF g = "webhooks" THEN listed' = {} /\ dispatching' = FALSE
     ELSE UNCHANGED <<listed, dispatching>>
  /\ UNCHANGED <<log, ticks, hook, reached>>

-----------------------------------------------------------------------------
(* DeliverWebhookWorker                                                    *)

StartHook(e, p) ==
  /\ hook[e][p] = "queued"
  /\ hook' = [hook EXCEPT ![e][p] = "running"]
  /\ UNCHANGED <<bus, log, ticks, listed, dispatching, reached, faults>>

\* Sent, or dropped because the endpoint is disabled by now.
EndHook(e, p) ==
  /\ hook[e][p] = "running"
  /\ hook' = [hook EXCEPT ![e][p] = "none"]
  /\ UNCHANGED <<bus, log, ticks, listed, dispatching, reached, faults>>

RetryHook(e, p) ==
  /\ hook[e][p] = "running" /\ p \in enabled /\ Fault
  /\ hook' = [hook EXCEPT ![e][p] = "queued"]
  /\ UNCHANGED <<bus, log, ticks, listed, dispatching, reached>>

Disable(p) ==
  /\ p \in enabled
  /\ enabled' = enabled \ {p}
  /\ UNCHANGED <<bus, effects, erasure, faults>>

-----------------------------------------------------------------------------
(* Erase: its deletes take effect when it commits.                         *)

\* Mutant of PurgeQueues: queued deliveries are not purged.
PurgeOutboxOnly ==
  /\ erasure.pc = "none"
  /\ erasure' = [erasure EXCEPT !.pc = "queues", !.outbox = Committed \cap rows \cap Personal]
  /\ UNCHANGED <<bus, effects, enabled, faults>>

\* cancelInFlight: committed outbox rows and queued deliveries; a delivery
\* that is running is left to finish.  Nobody starts a job it has locked.
PurgeQueues ==
  /\ erasure.pc = "none"
  /\ erasure' = [erasure EXCEPT !.pc = "queues", !.outbox = Committed \cap rows \cap Personal]
  /\ hook' = [e \in Events |-> [p \in Endpoints |->
                IF e \in Personal /\ hook[e][p] = "queued" THEN "none" ELSE hook[e][p]]]
  /\ UNCHANGED <<bus, log, ticks, listed, dispatching, reached, enabled, faults>>

EraseEvents ==
  /\ erasure.pc = "queues"
  /\ erasure' = [erasure EXCEPT !.pc = "events", !.log = {e \in Events : log[e] = "linked"}]
  /\ UNCHANGED <<bus, effects, enabled, faults>>

EraseCommit ==
  /\ erasure.pc = "events"
  /\ Purge(erasure.outbox \cap rows)
  /\ log' = [e \in Events |-> IF e \notin erasure.log THEN log[e]
                              ELSE IF e \in Kept THEN "bare" ELSE "absent"]
  /\ erasure' = [NotErased EXCEPT !.pc = "over"]
  /\ UNCHANGED <<ticks, listed, dispatching, hook, reached, enabled, faults>>

-----------------------------------------------------------------------------

\* Events that name the Contact and that no delete of the Erasure can see:
\* uncommitted, in a consumer's hands, or in a delivery under way.
InMotion ==
  {e \in Personal :
     \/ tx[e] = "open"
     \/ \E g \in Groups : delivery[g].event = e
     \/ \E p \in Endpoints : hook[e][p] = "running"}

Track == late' = IF erasure'.pc = "none" \/ Over THEN late ELSE late \cup InMotion'

\* After the Erasure its Contact is gone, and no new Event names it.
BusStep ==
  \/ \E e \in Events :
       \/ (e \in Personal => ~Over) /\ Publish(e)
       \/ Commit(e) \/ Rollback(e)
  \/ \E g \in Groups : Subscribe(g) \/ Ack(g) \/ \E e \in Events : Deliver(g, e)

PersistStep == \E e \in Events : Persist(e) \/ PersistFails(e)

WebhookStep ==
  \E e \in Events :
    \/ ListEndpoints(e) \/ Dispatched(e) \/ DispatchFails(e)
    \/ \E p \in Endpoints : InsertHook(e, p) \/ StartHook(e, p) \/ EndHook(e, p) \/ RetryHook(e, p)

Next ==
  /\ \/ BusStep /\ UNCHANGED <<effects, enabled, erasure, faults>>
     \/ PersistStep /\ UNCHANGED <<enabled, erasure>>
     \/ WebhookStep /\ UNCHANGED <<enabled, erasure>>
     \/ (\E g \in Groups : Die(g)) /\ UNCHANGED <<enabled, erasure>>
     \/ \E p \in Endpoints : Disable(p)
     \/ PurgeQueues \/ EraseEvents \/ EraseCommit
  /\ Track

Spec == Init /\ [][Next]_vars

-----------------------------------------------------------------------------
(* Properties.                                                             *)

\* After an Erasure only an Event that was in motion while it ran can leave a
\* row, a delivery or a log entry that names the Contact.
OnlyLateEventsName ==
  Over => \A e \in Personal :
            \/ e \in rows \/ log[e] = "linked" \/ \E p \in Endpoints : hook[e][p] # "none"
            => e \in late

\* An Event the webhooks group is done with went to every endpoint that has
\* been enabled all along, whatever failed on the way.
DispatchedInFull ==
  \A e \in handled["webhooks"] : enabled \subseteq reached[e]

\* Delivered again (a second notification under the same DedupKey is that
\* too), anonymized in between: an outcome that is kept counts once at most.
CountedOnce == \A e \in Kept : ticks[e] <= 1
=============================================================================
