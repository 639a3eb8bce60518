# Verification of sphericon's delivery core

TLA+ models, model-checking runs and machine-checked proofs for the part of this
repository that decides **who gets which email, how often, and what is recorded about it**:
the Outbound send, the delivery of a Broadcast, the lifecycle of a Broadcast, the Enrollments
of an Automation, the outbox of domain Events with its consumers, and what stands between a
message and its recipient: consent, the send rate limit, the verification of Sending domains.
Paths below are relative to `src/`.

- [The system](#the-system): inventory, interactions, what is hard, what must hold
- [The modules](#the-modules): how state and actions correspond to the code
- [The runs](#the-runs): what each one checks and shows, bounds, fairness
- [The proofs](#the-proofs)
- [What the models found](#what-the-models-found)
- [What is left](#what-is-left): not modelled, only model-checked, the plan

## The system

One Go server keeps its state in Postgres (READ COMMITTED; ent for the schema, a generated
*scoped client* that confines every statement to a Workspace) and runs background work on
River, a job queue in the same database. There are many processes and no locks shared between
them: everything concurrent is settled by conditional UPDATEs and unique indexes. River is
at-least-once: a job whose worker fails, dies or is cut off is run again from its start, up to
a number of attempts (recipients 3, webhooks 10, the rest 25); a *snooze* spends no attempt.

| Component (where) | State it keeps | Operations | Talks to |
|---|---|---|---|
| Outbound send (`internal/outbound`) | `outbound_messages`: one row per idempotency key: status, claim time, destination | Send, MarkFailed | eligibility, send rate limit, provider, Events |
| Broadcast lifecycle (`internal/broadcasts`) | `broadcasts.status`, `scheduled_at`, content | Create, Update, SetAudience, Send, Schedule, Unschedule, Delete | queue |
| Broadcast delivery (`internal/jobs/broadcast.go`, `finalize.go`) | `broadcast_recipients`, the counters and `sent_at` of the Broadcast | plan job, recipient job, Finalize | Outbound send, queue |
| Automations (`internal/automations`, `internal/jobs/automation.go`) | `automation_runs`: status, current step, resume time | trigger job, step job, Exit, Activate, Update, Delete | Outbound send, Tags, queue |
| Erasure (`internal/erasure`) | none of its own | one transaction over every table that knows the Contact | all of the above |
| Events (`internal/events`) | outbox, one cursor per consumer group, the Event log | WithinTx, Publish, Persist, prune, purge | every writer; five consumers |
| Webhooks (`internal/webhooks`, `jobs/webhook.go`) | endpoints, delivery jobs | Dispatch, delivery job | Events, queue |
| Eligibility, Consent (`internal/eligibility`, `internal/consent`) | Suppressions, Unsubscribes, Confirmations | Check; RecordConfirmation, RecordUnsubscribe | Outbound send, Automations, Broadcasts |
| Send rate limit (`internal/sendlimit`) | two token buckets per Integration | Reserve, Spend | Outbound send |
| Sending domains (`internal/sendingdomains`) | key, selector, verdict | Update, verify job | Outbound send |
| Suspension, Accounts and second factor, OAuth server, Contacts and visitors | their tables | see `PROJECT.json` | |

How they interact: an API request changes a Broadcast and enqueues a *plan* job; the plan
inserts a row per recipient and enqueues a *recipient* job per row; each recipient job makes
one Outbound send and writes the outcome into its row; the last one finalizes the Broadcast.
An Event reaches the automations consumer, which enqueues a *trigger* job; it creates
Enrollments and enqueues *step* jobs; each step job executes one step, an email step by an
Outbound send, and enqueues the next. An Erasure may commit between any two of these
statements, and any of these jobs may be run twice or cut short.

What is hard, and what therefore must hold:

- **Outbound send.** Two callers of one key, a claim that outlives its lease while the
  provider is still working, a lost reply, a crash holding a claim. A message is sent at most
  once unless a claim was outlived or a reply lost; the record agrees with the provider and
  with the Event log; what a caller was told stays true; every key is decided in the end.
- **Broadcast delivery.** A plan that runs again, rows and jobs that come apart, the last
  recipient against an Erasure, a last attempt that dies. No recipient is forgotten or settled
  wrongly; a Broadcast is called sent only when everybody is settled, and gets there.
- **Broadcast lifecycle.** A claim and its enqueue are two steps, the due check and the plan
  are two more. What goes out is what was approved; a scheduled Broadcast has its job.
- **Automations.** Advancing a run and enqueuing its next step are two steps, as are enrolling
  and enqueuing the first one. Exactly one job walks an Enrollment, it skips nothing, waits
  its waits, and ends.
- **Events.** A transaction that commits after a later one, a group that reads behind a prune,
  a deploy in which an old binary prunes for groups it does not know, redelivery. Every group
  sees every committed Event in one order, and nothing it has still to read is pruned.
- **Consumers.** A second delivery, some of an Event's webhooks enqueued when one fails, an
  Event on its way while its Contact is erased. An outcome counts once, no endpoint is left
  out, only an Event already in motion outlives an Erasure.
- **Consent.** A link posted twice, at once or again after an error; an opt-out from everything
  against a confirmation. An opt-out takes effect once and in full; older consent does not
  survive it.
- **Send rate limit.** Two senders on hosts whose clocks differ take from two buckets in one
  UPDATE, some of them below zero. No window spends more than a bucket and its refill.
- **Sending domains.** A DNS verdict is stored by whoever asked for it, however long ago. A
  verified domain was found under its current selector; in the end it agrees with DNS.

`PROJECT.json` lists every component with its status, and 40 hazards at the lines where they
bite with the properties that cover them.

## The modules

| Module | Models |
|---|---|
| `SendLedger` | What Send promises the surfaces: per key, a status that is decided once, with its Event |
| `OutboundSend`, `OutboundSendProofs` | The detailed Send, statement by statement; implements `SendLedger` |
| `BroadcastDelivery`, `BroadcastDeliveryProofs` | Plan jobs, recipient jobs, Finalize and the Erasure of recipients |
| `Broadcasts`, `BroadcastsProofs` | The API requests on a Broadcast and the plan jobs they enqueue |
| `AutomationRuns`, `AutomationRunsProofs` | Trigger jobs, step jobs, Exit, authoring and Erasure for one Contact |
| `EventFeed` | What the outbox promises a consumer group: every published Event, in one order |
| `Outbox` | Transactions, outbox rows, cursors, delivery and the prune; implements `EventFeed` |
| `EventConsumers` | The persist and webhooks consumers on top of `Outbox`, beside an Erasure |
| `EventsProofs` | Theorems about `Outbox` and `EventConsumers` |
| `Consent`, `ConsentProofs` | Opt-outs and confirmations of one address |
| `SendLimit`, `SendLimitProofs` | The two token buckets of one Integration |
| `SendingDomains`, `SendingDomainsProofs` | The DKIM verification of one Sending domain |
| `MC…` | Model values, small definitions and symmetry sets for TLC |

A statement of the database is one action. A transaction is one action where nothing it reads
can change before it commits, and several where it can (the Erasure in `BroadcastDelivery`).
Two consecutive reads are one action when a change between them has the same effect as one
before or after both. Every process (a caller of Send, a job, an API request) has a program
counter named after the statement it is about to execute. A failed statement, a lost reply and
a crash are actions of their own, bounded by `MaxFaults`; after one, a job goes back to the
queue and starts again from what the database says. Variables marked *history* in the modules
record a fact about the past for the properties and are read by no action.

**`OutboundSend`** (`internal/outbound/claim.go`, `outbound.go`). `row[k]` is the record of key
`k` with status, claim time and whether it still names the destination; `claim[a]` what caller
`a` remembers of its claim; `pc[a]` its statement. `Begin … RecordSent` are the statements of
Send in source order: find, contact check, gate, `Stamp`, reference check, INSERT (its loser goes
to `Refind`), `TakeOver` and its read-back `Adopt`, eligibility `Check`, `Reserve`, the provider
call (`Accept`, `LoseReply`, `Refuse`), the recording transaction. `Stamp` is the caller reading
its own clock (`claimTime()`, the lease check of a claim it found): the token is fixed there, and
the statement that writes it may be executed any time later, over its lease already. `Drop`,
`Release` and `Finish` are the ways a claim is given up. The lease is `Lease` ticks of `now`. The
provider is external: it accepts or refuses, and its reply may be lost. Rendering, tracking and
headers are left out; `Unrenderable` names the keys whose message cannot be rendered. An Erasure is
two steps where its order matters: `EraseScan`, its UPDATE that clears the address from the
Contact's messages and finds none, and its commit `Erase`; a row that UPDATE did find is locked
until the commit. `stalled` records that a lease passed between the clock a take-over read and the
end of its read-back; `crossed` the keys an INSERT was under way for beside the Erasure.

**`BroadcastDelivery`** (`internal/jobs/broadcast.go`, `hold.go`, `broadcasts/finalize.go`,
`erasure/inflight.go`). `row[c]` is Contact `c`'s recipient row, `message[c]` the Outbound
message as the surface sees it (what `SendLedger` allows of it: claimed, dropped, decided once,
replayed afterwards; `UsesTheLedger` proves that it is no more than that), `job` the recipient
jobs, numbered per Contact, `plan` the plan jobs, `erasure[c]` how far the Erasure of `c` has come.
`Leftovers` are plan jobs of an earlier schedule that are due as well, because the Broadcast was
scheduled again for the same time: two plans then run side by side. A plan hands its recipients to
the queue `ChunkSize` jobs at a time (`recipientInsertChunk`), in any order, and may fail between
two chunks, or after one whose commit it did not hear of, to start again from the beginning. The
insert of the rows, chunked alike, is one pass: it inserts what is missing, so a plan that dies
between two of its chunks differs only in rows that its retry completes. A template that does not
render fails the Broadcast and the plan, which is tried again to the same end. A recipient job may
be taken over from a worker that only seemed dead (`JobTakeOver`); its budget is one beyond
`MaxFaults`. Where the code ignores the error of a write, so does the model: a Contact that lost its
address ends the job whether or not its row was written (`JobNoEmail`, `broadcast.go:376`), the
hold and giving up are best effort. `dropped` records the recipients a job of whose ended that way,
or was cut short in its last try.

**`Broadcasts`** (`internal/broadcasts/broadcasts.go`, `jobs/worker.go` EnqueueBroadcast,
`jobs/broadcast.go` BroadcastDue). `request[r]` is the API call in progress; `Claim`,
`ReadBack`, `Enqueue`, `Revert` are the statements of Send and Schedule. `Unrenderable` are the
versions of the content a plan fails on. A delivery under way is one step here (`Deliver`), with
`BroadcastDelivery` for its detail: it settles the Broadcast, or ends without having settled it,
which `unsettled` records. `Finalize` returns without a word where it sees a recipient pending
(`finalize.go:34`), and nobody looks again; this module does not assume that it never happens, and
leaves it to the other to say when it does (`dropped`, and findings 1 and 8).

**`AutomationRuns`** (`internal/automations/enrollment.go`, `jobs/automation.go`,
`consent/unsubscribe.go`, `erasure/inflight.go`). `run[a]` is the Contact's row in Automation
`a`; `trigger[t]` a trigger job with the Automations still to do and the runs it has created;
`job[j]` a step job in one of finitely many places of the queue, with the step it read. Time is
relative: `left` counts down to `resume_at`, `delay` to a job's `scheduled_at`; a wait, a hold
and a Deferral all take one tick. `log[a]` is what the steps did; for an email it is also the
record by which Outbound send replays its Outcome. One Contact is modelled: Contacts share
nothing but the definition.

**`Outbox`** (`internal/events/bus.go`, `subscriber.go`, `prune.go`, `purge.go`). An Event is
its place in the order of (transaction_id, offset). `tx[e]` is the transaction that publishes
it, `rows` the outbox rows, `cursor[g]` the last Event group `g` acknowledged, `delivery[g]`
the one it has in hand. `PruneRetire`, `PruneRead` and `PruneDelete` are the three statements
of a prune, by a binary that registers all groups or only the `Known` ones of the release
before. The SQL reader is a library; the module says which of its guarantees it relies on.
**`EventConsumers`** extends it: `Persist` writes `log[e]` and counts, `ListEndpoints` and the
enqueues after it are Dispatch, `hook[e][p]` the delivery jobs, `PurgeQueues`, `EraseEvents`,
`EraseCommit` the Erasure's statements.

**`Consent`** (`internal/consent/unsubscribe.go`, `confirm.go`, `intake.go`). `req[r]` is one
request: its statement and what it has staged. A transaction reads what is committed, its own
writes appear when it commits, and an insert waits for whoever holds the same key in its unique
index (`Holding`); `Check`, `Insert`, one of `DropConfirmation`, `ExitRun` and `Bump`, and
`Commit` are the statements of RecordUnsubscribe. A Broadcast may be deleted and the Contact
erased between any two.

**`SendLimit`** (`internal/sendlimit/sendlimit.go`, `effective.go`). `fill[b]` is what bucket
`b` holds, in fixed point; `refilledAt` is the row's, `Ahead[p]` how far the clock of sender
`p`'s host is ahead. `Take`, `Ensure`, `TakeAgain` are the UPDATE, the INSERT of a missing row
and the second UPDATE. `since` and `spent` are the window of an observer, who may begin one at
any time (`Observe`).

**`SendingDomains`** (`internal/jobs/sending_domain.go`, `internal/sendingdomains`). `check[c]`
is a job: queued, with the row it read, with what DNS said, or about to alert. `zone` is the
set of selectors DNS answers for; the owner edits it and the selector at any time.

## The runs

`outbound_send` takes two to three minutes on two workers, the others about a minute or less.
`CHECK_DEADLOCK FALSE` is set where the
system really stops: all jobs have ended, no request is made any more, the clock or the number
of edits is at its bound.

| Run | Instance | What it shows |
|---|---|---|
| `outbound_send` | one recipient's key, two callers, lease 1, clock to 4, two faults, fair | types; the record agrees with the Event log and with the provider; at most one acceptance unless a claim was outlived or a reply lost; answers are final; after an Erasure only an INSERT that was under way beside it leaves the address on a message; a live claim is left alone; one caller at a time passes the fence unless a take-over stalled for a lease; the rows implement `SendLedger`; the key is decided, or its Contact is gone |
| `broadcast_erasure` | two Contacts, both may be erased, one plan, chunks of one, two attempts, two faults | types; a Broadcast planned once settles only in full; a pending recipient has somebody to settle it, unless a job ended with its row unwritten |
| `broadcast_retry` | one plan that may run again, or a second one that is due as well; chunks of one, a Contact joining in between, one fault, fair | a row says Sent or Skipped only as the Outbound message does; a Broadcast that renders ends sent with nobody pending, unless a job ended with its writes undone |
| `broadcast_row_blocks` | one plan, one Erasure, no fault | **violation**, see below |
| `broadcasts` | two requests at a time, two schedules, three jobs, one edit, to content that does not render, two faults, fair | a scheduled Broadcast has a job bound to its schedule; a sending one has work behind it unless a delivery ended without settling it; what is sent is what was approved; sending ends, with the same exception |
| `automation_runs` | two Events, one Automation with three definitions, four places, two faults | types; an active Enrollment has a job; one job at a time; no step is skipped; waits are waited out; only a late insert outlives an Erasure |
| `automation_live` | one Event, one fault, fair | every Enrollment that is not stranded ends |
| `outbox` | three Events, one of them personal, one group both binaries know and one only the new one has, fair | nothing a group every binary knows has still to read is pruned; the outbox implements `EventFeed`; every committed Event is handled or purged |
| `event_consumers` | two Events, two endpoints, one fault, one Erasure | types; only an Event in motion outlives the Erasure; every endpoint is served before an Event is acknowledged; an outcome counts once |
| `consent` | two opt-out requests, one confirmation, one fault, fair | types; an opt-out takes effect once and in full; stale consent stays gone; a refusal is recorded |
| `send_limit` | two senders a tick apart, two buckets, ceilings that come and go, clock to 2 | no window that ends with a marketing send spends more than a bucket and its refill |
| `sending_domains` | two checks, two selectors, four edits, one fault, fair | a verified domain was found under its current selector, unless a verdict came late; it ends up agreeing with DNS |

**Why the bounds are enough.** Every hazard listed is a race of two actors on one row, so two
callers, plans, Events or requests suffice, with a third where two could meet in the middle of
a third one's statements (three plan jobs in `broadcasts`, a confirmation beside two opt-outs
in `consent`). Two recipients are the least for which "the last one" means something, in either
order and against an Erasure. Two faults allow a fault in the recovery from a fault; where
faults do not compound (`event_consumers`, `consent`, `sending_domains`) one is enough. The
clock reaches past a second lease. `MaxAttempts = 2` has a try that is not the last and one
that is; the attempts of step jobs and plan jobs are not counted, since faults stay far below
River's 25. Chunks of one put every recipient into a chunk of its own, with a gap between the two
for a failure, a second plan or an Erasure; one job per recipient (`MaxJobs`) is what one plan hands
over (in `broadcast_erasure` a plan therefore fails before its first chunk only), two are what a
plan that runs again, or two plans, hand over (`broadcast_retry`). A
leftover plan that is due counts as the run's one fault, since the two do not compound.
Four places in the queue hold a chain of step jobs forked once with both branches between
insert and completion. The definitions put a wait and a Tag before an email; `<<>>` lets an
edit end a run at any step. Three Events have one that commits late, one before it and one to
be pruned. A bucket of two and refills of two and one a tick have a send that empties a bucket,
one that waits and one that goes below zero. Four edits move a selector, publish, withdraw and
move it back. The mutants in `PROJECT.json` confirm that each property can fail within these
bounds; and the safety properties of all the modules are proved for every bound there is, so
that only liveness rests on the instances.

**Fairness.** Weak fairness of every process's next statement: River keeps running jobs that
are due and retries those that failed, a call under way goes on, a database transaction ends.
Weak fairness of the clock. Strong fairness where the code retries against a condition that
comes and goes: a key is tried again (`outbound_send`), a send that is held or deferred is
decided in the end (`automation_live`: a hold is lifted, a bucket refills), a consumer that
crashes now and then does complete and acknowledge an Event (`outbox`: its handler succeeds in
the end and no server dies for ever in mid-delivery). Weak fairness of `Unfreeze` in
`OutboundSend`: a suspension or freeze is lifted in the end. In `consent` a person or mailbox
provider that saw an error posts the link again; in `sending_domains` the periodic recheck
runs. Nothing is assumed of users beyond that, of Erasures, of faults, or of anyone editing an
Automation or a DNS zone.

**Exceptions in properties.** Several properties hold only but for a named exception. Each is a
history variable set by exactly one kind of event: `outlived` (a claim's lease ran out during
the provider call, or its reply was lost), `dropped` (recipients a job of
whose ended with its writes undone: cut short in its last attempt, or through an ignored error),
`unsettled` (a delivery that ended without settling its Broadcast),
`strayed` (a plan acting on a Broadcast that was no longer due), `abandoned` (a request cut
short between claim and enqueue), `lost` (a run whose next job was given up), `retried` (a step
job retried after it advanced its run), `late` (an INSERT or an Event under way when its Contact
was erased), `stalled` (a lease passed between the clock a take-over read and the end of its
read-back), `crossed` (in `OutboundSend`, an INSERT under way beside the Erasure of its Contact; in
`Consent`, a confirmation under way beside or after an opt-out from everything; in
`SendingDomains`, a verdict on an older selector written after the owner moved it). The property
says the exception is the only way; where a document denies the exception, see "What the models
found".

## The proofs

TLAPS checks thirty-seven theorems: every safety property a passing run checks, for any sets of
keys, callers, recipients, plans, requests, Automations, groups, endpoints, senders and checks,
any lease and clock, and any number of Events, jobs, tries, edits and faults. The assumptions
are those the modules state of their constants, and no others: bounds are naturals, a lease and
the number of tries positive; every key has a kind; an audience is finite; an older binary
registers no group the newer one does not; the persist and webhooks consumers are groups; one
definition of an Automation is the longest (the server caps the body that carries it);
schedules are positive times; opt-outs and confirmations are different requests; refills and
tokens are naturals.

| Theorem | Module | States |
|---|---|---|
| `TypeCorrect` | `OutboundSendProofs` | `TypeOK` |
| `EventsMatchRecords` | `OutboundSendProofs` | `EventIffSent` |
| `ImplementsLedger` | `OutboundSendProofs` | `LedgerSpec`: every step is a `SendLedger` step or a stutter |
| `AtMostOnce` | `OutboundSendProofs` | `AtMostOnceUnlessOutlived` |
| `RecordsAreTrue` | `OutboundSendProofs` | `RecordMatchesProvider` |
| `AnswersAreRecorded` | `OutboundSendProofs` | `AnswerIsRecorded` |
| `ErasureClearsAddresses` | `OutboundSendProofs` | `OnlyCrossingsKeepAddress` |
| `LiveClaimsAreProtected` | `OutboundSendProofs` | the action property `LiveClaimProtected` |
| `OneHolderAtATime` | `OutboundSendProofs` | `OneHolderUnlessStalled` |
| `TypeCorrect` | `BroadcastDeliveryProofs` | `TypeOK` |
| `RowsAreTrue` | `BroadcastDeliveryProofs` | `RowsAreBacked` |
| `NobodyIsForgotten` | `BroadcastDeliveryProofs` | `PendingHasWork` |
| `SettledOnlyInFull` | `BroadcastDeliveryProofs` | `SettledInFull` |
| `UsesTheLedger` | `BroadcastDeliveryProofs` | every step is a `SendLedger` step of one recipient's key, or none |
| `TypeCorrect` | `BroadcastsProofs` | `TypeOK` |
| `ScheduledHasItsJob` | `BroadcastsProofs` | `ScheduledHasJob` |
| `SendingIsWorkedOn` | `BroadcastsProofs` | `SendingHasWork` |
| `ApprovedIsSent` | `BroadcastsProofs` | `SendsWhatWasApproved` |
| `TypeCorrect` | `AutomationRunsProofs` | `TypeOK` |
| `ChainIsUnbroken` | `AutomationRunsProofs` | `ActiveIsWalked` |
| `OneWalkerAtATime` | `AutomationRunsProofs` | `OneWalker` |
| `StepsAreTaken` | `AutomationRunsProofs` | `NoStepSkipped` |
| `OnlyLateRunsStay` | `AutomationRunsProofs` | `OnlyLateRunsOutlive` |
| `WaitsAreKept` | `AutomationRunsProofs` | the action property `WaitsAreWaited` |
| `PrunedWasRead` | `EventsProofs` | `NothingPrunedUnread` |
| `OutboxIsAFeed` | `EventsProofs` | `FeedSpec`: every step is an `EventFeed` step or a stutter |
| `TypeCorrect` | `EventsProofs` | `TypeOK` of `EventConsumers` |
| `ConsumersReadTheOutbox` | `EventsProofs` | `BusSpec`: every step of the consumers is one of `Outbox`, or leaves it alone |
| `OnlyLateEventsStay` | `EventsProofs` | `OnlyLateEventsName` |
| `DispatchIsInFull` | `EventsProofs` | `DispatchedInFull` |
| `OutcomesCountOnce` | `EventsProofs` | `CountedOnce` |
| `TypeCorrect` | `ConsentProofs` | `TypeOK` |
| `OptOutsInFull` | `ConsentProofs` | `OptOutInFull` |
| `StaleConsentGone` | `ConsentProofs` | `StaleConsentStaysGone` |
| `TypeCorrect` | `SendLimitProofs` | `TypeOK` |
| `RateIsKept` | `SendLimitProofs` | `WithinRate` |
| `VerifiedIsCurrent` | `SendingDomainsProofs` | `VerdictIsCurrent` |

**Outbound send.** `TypeOK` is inductive by itself and the base of the rest. *At most one
acceptance* is not: nothing in it says why a second caller cannot be at the provider. The
strengthening `FenceInv` says of a key that was not outlived: at most one caller is past the
claim, and it still holds the row (`Sole`); and an accepted message is recorded, or its row is
still claimed and whoever may hold that claim is about to record it (`Owed`). `Backed` adds for
every key that what is recorded, or about to be, was accepted. *One holder* needs the claim
tokens of two callers of a key to differ (`TokenInv`). A token is stamped before the statement that
writes it, so it may be written late, its lease over already; what saves
the fence is that a token a caller held before the row moved on is over its lease (`PastClaim`), and
that a prompt take-over's is not (`PromptAdopt`). A take-over that stalls for a lease anywhere from
its clock to its read-back can return the token of whoever took over meanwhile, and `OneHolder`
without that hypothesis is false. *An Erasure clears the address*: past its commit the reference
check refuses the Contact, so only a caller already past that check can still insert (`Clear`). The
refinement rests on `EventIffSent`.

**Broadcast delivery.** The steps of a job, of a plan and of an Erasure are first summed up by
what they do to the rest (`JobEffect`, `PlanEffect`, and a lemma per statement of the Erasure);
each part of the invariant is then kept by each kind of step. *Rows* need what a job carries from
the answer it got to the row it writes (`Carries`): an Outcome that is recorded, and stays so. *A
pending recipient has work* names who: a plan that will read the row or holds it among those it
read (`Covers`), or a job that has not passed it (`Works`); `PendingHasWork` alone is not
inductive, since it counts plans and jobs that no longer care. That no row exists, and no plan gets
past its start, where the template does not render (`RenderInv`) closes the one way a plan ends
early; a recipient a job leaves unwritten is `dropped` from then on. *Settled
in full* is about counts taken statements ago. Once nobody is pending, only a plan can make a
recipient, and only an Erasure can take one away; so a tally that added up stays within the
number of Contacts gone since (`InFull`), wherever it is held. A Broadcast planned once has one plan
under way, and nothing has happened before that plan inserts (`OnceInv`), which is why no insert
can follow a count. The Erasure counts inside its own transaction: it holds the Broadcast alone,
and its own row, so that what it counted is still there when it commits (`EraseInv`).
`UsesTheLedger` closes the gap between this module and `OutboundSend`: the claims, take-overs,
drops and decisions its jobs make of a message are those `SendLedger` allows, with no step that
decides a message twice or takes a decision back.

**Broadcast lifecycle.** The properties say that somebody is at work; what a step keeps is who.
`ScheduledInv` asks for a request, or a job that has not begun to deliver, bound to the present
schedule (a job that delivers belongs to an earlier claim and brings nothing), `SendingInv` for
one the present schedule does not supersede, while every delivery so far has settled.
`ApprovedInv` covers failed Broadcasts too, since a
plan that is retried takes one back to sending.

**Automations.** `NoStepSkipped` and `OneWalker` hold together or not at all. `ReadIsTrue` says
that what a job read of its run is behind the run or on the way to it: every step before the one
it read took effect, and its own before it is advanced; so a job of a forked chain that comes late
finds nothing to skip. `Alone` is `OneWalker` without its cardinalities. `Unnamed` says that nobody
holds a run that is not there yet, which an enrollment relies on; `WaitIsKept` that while a run
waits its job sleeps at least as long, the step behind the action property; `LateInserts` that
after the Erasure only the INSERTs under way are left.

**Outbox.** What has to be said is what a cursor stands for: every Event up to it is decided,
committed or rolled back, so that none can appear there later, and the committed ones are
handled or purged (`Behind`). It holds because a group reads only what no open transaction can
precede. A delivery under way stands for the same one Event further, and a prune's bound, once
read, stays at or below every cursor of the groups all binaries know. `EventFeed` follows: a
group's step to *handled* is its next Event, and an Event commits behind no group.

**Consumers.** `EventConsumers` has every step of `Outbox` for its own; that it takes no other with
the outbox's variables is a theorem (`ConsumersReadTheOutbox`), so what is proved of the outbox
holds with the consumers and the Erasure in place. `ConsumersInv` adds what each of them has in
hand: an outcome counted is in the log and is found there again (`CountInv`); between its list
and its end Dispatch has reached, or still has listed, every endpoint enabled all along
(`DispatchInv`); and for each statement of the Erasure, what those before it left standing is in
motion, or is on the list the next one deletes (`LateInv`).

**Consent.** `OptOutInFull` is about committed rows; what makes it inductive is what the open
transactions have seen (`OptInv`): whoever is past its insert holds the key alone (`Alone`) and
its source has no row yet, only the Broadcast's own link counts for it, and a request about to
commit for the Automation will end an Enrollment that is active (`Sound`). Stale consent needs
two facts besides (`GoneInv`): an opt-out about to commit deletes the Confirmation there is
unless one crossed it, and a confirmation under way beside such an opt-out is known to cross it.

**Send rate limit.** `WithinRate` speaks of the moment of a grant. What every step keeps is a
balance: `fill + spent <= Unit + Rate * (refilledAt - since)`. It holds because `refilled_at`
never moves back, so that no time is paid for twice by hosts whose clocks differ.

**Sending domains.** `VerdictIsCurrent` is inductive on top of the types.

**Only model-checked:** liveness (`Settles`, `EndsSent`, `SendingEnds`, `EnrollmentEnds`,
`EveryEventHandled`, `RefusalRecorded`, `VerdictSettles`), as fairness and ENABLED are out of the
prover's reach; and the violation `NoRowBlocksForever`, which needs an instance, not a proof. The
inductive invariants were model-checked on the runs' instances before they were proved.

## What the models found

Disagreements between the code and what its documents say. The first has a run of its own. Those
named after a definition are stated at the end of their modules; TLC finds each when it is put
into the configuration named, in place of its properties.

1. **A row nobody settles** (`broadcast_row_blocks`). The scoped client checks a Contact and
   inserts its row in two statements, without a foreign key. An Erasure in between leaves a
   pending row for nobody, and the Broadcast stays in sending. `jobs/broadcast.go:271-272`.
2. `DraftNeverSends` (`Broadcasts.cfg`). A plan job checks that it is due and then writes
   `sending` unconditionally. An Unschedule between the two answers "draft" to the user, and the
   Broadcast is sent. `broadcasts.go:84-85` says the job "finds a draft and does nothing".
3. `AutomationRuns!NeverStranded` (`AutomationRunsLive.cfg`). An Enrollment commits before its
   first step job is inserted; the retry finds it and inserts nothing, and a Contact is enrolled
   once ever. `GLOSSARY.md:259-260`, `docs/design/domain-events.md:137-138`.
4. `OneAlertPerLoss` (`SendingDomains.cfg`). The flip is computed from the row as read before the
   lookup: the Verify button beside the periodic recheck alerts twice, and a worker that dies
   after the write alerts never. `jobs/sending_domain.go:133-134` says exactly once.
5. `SentNeverReverts` (`Broadcasts.cfg`). `revert` writes draft by id: when the queue took
   the job and answered with an error, a Broadcast that was sent becomes a draft again.
6. `Broadcasts!NeverStranded` (`Broadcasts.cfg`). A request that ends between its claim and its
   enqueue leaves the Broadcast in sending with no job; `broadcasts.go:48-50` says never.
7. `SettledOnce` (`BroadcastRetry.cfg`). A plan retried after it enqueued its jobs takes a sent
   Broadcast back to sending, and `sent_at` is set again (`finalize.go:14-16`).
8. `TotalCountsRows` and `NothingPendingSettles` (`BroadcastRowBlocks.cfg`). An Erasure against
   the plan leaves a total that counts a deleted row (`inflight.go:67-68`); against the last
   recipient it leaves a Broadcast in sending with nothing pending (`inflight.go:17-18`).
9. `CountersSelfHeal` (`BroadcastErasure.cfg` with no Contact erasable). A row rewritten by a
   last attempt after the Broadcast settled is not counted again (`finalize.go:16-17`).
10. `NeverSendsTwice`, `OneHolder`, `ErasedLeavesNoAddress` (`OutboundSend.cfg`). A lease that
    runs out during the provider call sends twice, as the lease's own comment accepts;
    `ent/schema/outbound_message.go` says never. A send record inserted after its Contact was
    erased keeps the address (ADR 0021).
11. A wait step is skipped when its job is retried after it advanced the run
    (`jobs/automation.go:119`; `docs/guide/sending.md:40`): the exception in `WaitsAreWaited`.
12. RecordUnsubscribe "records even if the contact was deleted between send and click"
    (`consent/unsubscribe.go:18-21`), but the scoped create refuses a Contact that is gone, with
    an error `settled` passes on; and the link of a deleted Broadcast fails for ever on its
    counter (`unsubscribe.go:71-75`). Hence `~contact \/ ~broadcast` in `RefusalRecorded`.
13. A confirmation whose transaction crosses an opt-out from everything survives it: the
    exception `crossed` in `StaleConsentStaysGone`.
14. `docs/design/domain-events.md` promises retries with backoff and a dead letter for poison
    messages; NewRouter has no such middleware, and a handler that never succeeds stops its
    group (`subscriber.go:216`). During a deploy the old binary's prune deletes the cursor of a
    group only the new one registers, against `subscriber.go:62-64`: hence `Known`.
15. `waitFor` in `sendlimit.go` says a retry after exactly the reported wait succeeds; it does
    not where `refilled_at` is ahead of the caller's clock. waitFor itself is not modelled.

## What is left

**Not modelled.** Accounts and the second factor, the OAuth server, Contacts and visitors: each
of their operations is a conditional update, or a create settled by a unique index, of one row,
and delivery does not depend on them. Suspension likewise; its effect is an action of
`OutboundSend`. Read models, message rendering, provider adapters, request limits in memory,
wiring and the frontend keep no state that two actors contend for. Most of the 329 000
implementation lines are generated (the ent client, the ogen servers and clients), handlers that
decode a request and call one module, and queries: what is modelled is a small share of the lines
and most of the statements whose order matters. Of the parts that are modelled, `PROJECT.json`
says what is left out of each (which lists make an address eligible; the audit and suppression
consumers; `waitFor`; validation).

**Next**, most important first:

1. An abstract Broadcast (draft, scheduled, sending, sent) that both `Broadcasts` and
   `BroadcastDelivery` implement where no exception applies, so that `Deliver` of the former is
   proved to stand for the latter.
2. `AutomationRuns` over `SendLedger`, as `BroadcastDelivery` is: its email step decides a message
   in one step, which has first to be split into the claim and the decision.
3. The attempt windows and one-time codes of the second factor; the rotation of refresh tokens.
