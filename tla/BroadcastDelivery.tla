-------------------------- MODULE BroadcastDelivery --------------------------
(***************************************************************************)
(* Delivery of one Broadcast (internal/jobs/broadcast.go): plan jobs fan   *)
(* its audience out into recipient rows and one job per recipient, each    *)
(* recipient job sends through Outbound send and writes the Outcome on its *)
(* row, and whoever finds no recipient pending settles the Broadcast.  An  *)
(* Erasure (internal/erasure) removes a Contact meanwhile, in one          *)
(* transaction whose writes others see, and wait for, when it commits.     *)
(*                                                                         *)
(* Every process is a job attempt or an Erasure, and every step one of its *)
(* database statements.  Outbound send is used through what it promises    *)
(* (SendLedger): message[c] is the record under the recipient's key.  A    *)
(* recipient row is named by its Contact: the index (broadcast, contact)   *)
(* is unique.                                                              *)
(***************************************************************************)
EXTENDS Integers, FiniteSets

CONSTANTS
  Contacts,      \* Contacts that may belong to the audience
  Latecomers,    \* those that join it only later
  Erasable,      \* those an Erasure may remove
  Plans,         \* plan jobs in the queue
  Leftovers,     \* those of an earlier schedule, due as well if it was the same
  ChunkSize,     \* recipient jobs in one InsertMany (recipientInsertChunk)
  MaxJobs,       \* bound: jobs handed to the queue for one recipient
  MaxAttempts,   \* tries of a recipient job (recipientMaxAttempts)
  MaxFaults      \* bound: errors, crashes, holds, Deferrals and due leftovers

ASSUME ContactsAssumption == IsFiniteSet(Contacts)
ASSUME LatecomersAssumption == Latecomers \subseteq Contacts
ASSUME ErasableAssumption == Erasable \subseteq Contacts
ASSUME PlansAssumption == IsFiniteSet(Plans) /\ Leftovers \subseteq Plans
ASSUME LimitsAssumption ==
  /\ ChunkSize \in Nat \ {0} /\ MaxJobs \in Nat \ {0}
  /\ MaxAttempts \in Nat \ {0} /\ MaxFaults \in Nat

VARIABLES
  status,      \* the Broadcast's status
  hold,        \* it shows a hold_reason
  total,       \* its recipients_total
  counts,      \* its sent_count, failed_count and skipped_count
  renders,     \* the template renders
  audience,    \* Contacts the audience query matches
  existing,    \* Contacts not erased
  row,         \* row[c]: the recipient row of Contact c
  message,     \* message[c]: the Outbound message under c's key
  holder,      \* holder[c]: which of c's jobs holds the claim that
               \*   message[c] carries, 0: none
  plan,        \* plan[p]: the plan job p
  job,         \* job[<<c, n>>]: the n-th job handed to the queue for c
  erasure,     \* erasure[c]: the Erasure of Contact c
  faults,      \* faults so far
  plannings,   \* history: how often a plan moved the Broadcast to sending
  settlings,   \* history: how often the Broadcast was moved to sent
  dropped      \* history: recipients one of whose jobs ended with the
               \*   writes it owed undone

broadcast == <<status, hold, total, counts>>
people == <<renders, audience, existing>>
outbound == <<message, holder>>
history == <<plannings, settlings, dropped>>
vars == <<broadcast, people, row, outbound, plan, job, erasure, faults, history>>

Decided == {"sent", "failed", "skipped"}
NoTally == [s \in Decided |-> 0]
Jobs == Contacts \X (1 .. MaxJobs)
NoJob == [pc |-> "none", attempt |-> 0, answer |-> "none", tally |-> NoTally]

TypeOK ==
  /\ status \in {"scheduled", "sending", "sent", "failed"}
  /\ hold \in BOOLEAN /\ total \in Int /\ counts \in [Decided -> Nat]
  /\ renders \in BOOLEAN /\ audience \subseteq Contacts /\ existing \subseteq Contacts
  /\ row \in [Contacts -> Decided \cup {"absent", "pending"}]
  /\ message \in [Contacts -> Decided \cup {"none", "pending"}]
  /\ holder \in [Contacts -> 0 .. MaxJobs]
  /\ plan \in [Plans -> [pc : {"queued", "claim", "audience", "verify", "insert", "reread",
                                "total", "enqueue", "count", "settle", "ended"},
                         ids : SUBSET Contacts, tally : [Decided -> Nat]]]
  /\ job \in [Jobs -> [pc : {"none", "queued", "lookup", "send", "provider", "lift", "park",
                             "write", "giveup", "mark", "count", "settle", "ended"},
                       attempt : 0 .. MaxAttempts, answer : Decided \cup {"none"},
                       tally : [Decided -> Nat]]]
  /\ erasure \in [Contacts -> [pc : {"idle", "delete", "shrink", "count", "commit", "done"},
                               unsent : BOOLEAN, ready : BOOLEAN, tally : [Decided -> Nat]]]
  /\ faults \in 0 .. MaxFaults + 1
  /\ plannings \in Nat /\ settlings \in Nat /\ dropped \subseteq Contacts

Init ==
  /\ status \in {"scheduled", "sending"}
  /\ hold = FALSE /\ total = 0 /\ counts = NoTally
  /\ renders \in BOOLEAN /\ audience = Contacts \ Latecomers /\ existing = Contacts
  /\ row = [c \in Contacts |-> "absent"]
  /\ message = [c \in Contacts |-> "none"]
  /\ holder = [c \in Contacts |-> 0]
  /\ \E due \in SUBSET Leftovers :
       /\ Cardinality(due) <= MaxFaults /\ faults = Cardinality(due)
       /\ plan = [p \in Plans |-> [pc |-> IF p \in Leftovers \ due THEN "ended" ELSE "queued",
                                   ids |-> {}, tally |-> NoTally]]
  /\ job = [j \in Jobs |-> NoJob]
  /\ erasure = [c \in Contacts |-> [pc |-> "idle", unsent |-> FALSE, ready |-> FALSE,
                                    tally |-> NoTally]]
  /\ plannings = 0 /\ settlings = 0 /\ dropped = {}

Fault == faults < MaxFaults /\ faults' = faults + 1
Stall == faults <= MaxFaults /\ faults' = faults + 1   \* one beyond the faults

-----------------------------------------------------------------------------
(* The transaction of an Erasure locks the rows it has written.            *)

BroadcastLocked == \E c \in Contacts : erasure[c].pc \in {"count", "commit"} /\ erasure[c].unsent
RowLocked(c) == erasure[c].pc \in {"shrink", "count", "commit"} /\ erasure[c].unsent

\* broadcasts.Finalize, first statement: the recipients counted by status.
Tally(rows) == [s \in Decided |-> Cardinality({c \in Contacts : rows[c] = s})]

\* Mutant of NonePending: a recipient whose job sleeps on a retry is not counted,
\* as in the backlog a deferred job waits behind.
NoneAwake(rows) ==
  \A c \in Contacts : rows[c] = "pending" =>
    \E j \in Jobs : j[1] = c /\ job[j].pc = "queued" /\ job[j].attempt > 0
NonePending(rows) == \A c \in Contacts : rows[c] # "pending"

\* broadcasts.Finalize, second statement: the conditional UPDATE.
Settle(tally) ==
  IF status = "sending"
    THEN /\ status' = "sent" /\ counts' = tally /\ hold' = FALSE
         /\ settlings' = settlings + 1 /\ UNCHANGED total
    ELSE UNCHANGED <<broadcast, settlings>>

-----------------------------------------------------------------------------
(* SendBroadcastWorker.Work and PlanBroadcast.                             *)

PlanAt(p, statement) == plan[p].pc = statement
PlanGoto(p, statement) == plan' = [plan EXCEPT ![p].pc = statement]

\* The source is on hold: the Broadcast says so and the plan is tried later.
PlanHeld(p) ==
  /\ PlanAt(p, "queued") /\ ~BroadcastLocked /\ Fault
  /\ hold' = TRUE
  /\ UNCHANGED <<status, total, counts, people, row, outbound, plan, job, erasure, history>>

\* Past the preflight; a template that does not render fails the Broadcast, and
\* the job with it: it is tried again, to the same end, until its tries are over
\* (of which there are more than faults, so that one of them writes the status).
PlanStart(p) ==
  /\ PlanAt(p, "queued") /\ ~BroadcastLocked
  /\ hold' = FALSE
  /\ \/ renders /\ PlanGoto(p, "claim") /\ UNCHANGED status
     \/ /\ ~renders /\ status' = "failed"
        /\ PlanGoto(p, "ended") \/ PlanGoto(p, "queued")
  /\ UNCHANGED <<total, counts, people, row, outbound, job, erasure, faults, history>>

PlanClaim(p) ==
  /\ PlanAt(p, "claim") /\ ~BroadcastLocked
  /\ status' = "sending" /\ plannings' = plannings + 1
  /\ PlanGoto(p, "audience")
  /\ UNCHANGED <<hold, total, counts, people, row, outbound, job, erasure, faults,
                 settlings, dropped>>

PlanAudience(p) ==
  /\ PlanAt(p, "audience")
  /\ LET ids == audience \cap existing IN
       plan' = [plan EXCEPT ![p].pc = IF ids = {} THEN "reread" ELSE "verify",
                            ![p].ids = ids]
  /\ UNCHANGED <<broadcast, people, row, outbound, job, erasure, faults, history>>

\* The scoped client checks that the Contacts exist, then inserts their rows.
PlanVerify(p) ==
  /\ PlanAt(p, "verify")
  /\ IF plan[p].ids \subseteq existing THEN PlanGoto(p, "insert")
     ELSE plan' = [plan EXCEPT ![p].pc = "queued", ![p].ids = {}]
  /\ UNCHANGED <<broadcast, people, row, outbound, job, erasure, faults, history>>

PlanInsert(p) ==
  /\ PlanAt(p, "insert") /\ \A c \in plan[p].ids : ~RowLocked(c)
  /\ row' = [c \in Contacts |->
               IF c \in plan[p].ids /\ row[c] = "absent" THEN "pending" ELSE row[c]]
  /\ PlanGoto(p, "reread")
  /\ UNCHANGED <<broadcast, people, outbound, job, erasure, faults, history>>

PlanReread(p) ==
  /\ PlanAt(p, "reread")
  /\ plan' = [plan EXCEPT ![p].pc = "total", ![p].ids = {c \in Contacts : row[c] # "absent"}]
  /\ UNCHANGED <<broadcast, people, row, outbound, job, erasure, faults, history>>

PlanTotal(p) ==
  /\ PlanAt(p, "total") /\ ~BroadcastLocked
  /\ total' = Cardinality(plan[p].ids)
  /\ PlanGoto(p, IF plan[p].ids = {} THEN "count" ELSE "enqueue")
  /\ UNCHANGED <<status, hold, counts, people, row, outbound, job, erasure, faults, history>>

\* Jobs handed to the queue for c so far.
Handed(c) == Cardinality({n \in 1 .. MaxJobs : job[<<c, n>>].pc # "none"})

\* Room for what every plan that has not ended may still hand over.
Room == \A c \in Contacts :
  Handed(c) + Cardinality({q \in Plans : ~PlanAt(q, "ended")}) <= MaxJobs

\* The recipients of the next InsertMany.
Chunks(ids) ==
  {chunk \in SUBSET ids : \/ Cardinality(chunk) = ChunkSize
                          \/ chunk = ids /\ Cardinality(ids) < ChunkSize}

\* InsertMany: one job for every recipient row of the chunk.
Enqueue(chunk) ==
  /\ \A c \in chunk : Handed(c) < MaxJobs
  /\ job' = [j \in Jobs |-> IF j[1] \in chunk /\ j[2] = Handed(j[1]) + 1
                              THEN [NoJob EXCEPT !.pc = "queued"] ELSE job[j]]

\* Pacing, and one chunk after the other; the plan ends with the last.
PlanEnqueue(p) ==
  /\ PlanAt(p, "enqueue")
  /\ \E chunk \in Chunks(plan[p].ids) :
       LET rest == plan[p].ids \ chunk IN
         /\ Enqueue(chunk)
         /\ plan' = [plan EXCEPT ![p].pc = IF rest = {} THEN "ended" ELSE "enqueue",
                                 ![p].ids = rest]
  /\ UNCHANGED <<broadcast, people, row, outbound, erasure, faults, history>>

\* InsertMany commits and the attempt fails all the same: the plan runs again.
PlanEnqueueLost(p) ==
  /\ PlanAt(p, "enqueue") /\ Fault
  /\ \E chunk \in Chunks(plan[p].ids) : Enqueue(chunk)
  /\ plan' = [plan EXCEPT ![p].pc = "queued", ![p].ids = {}]
  /\ Room'
  /\ UNCHANGED <<broadcast, people, row, outbound, erasure, history>>

\* A statement fails, or the process dies; the queue tries the plan again.  A
\* Segment that cannot be loaded fails the Broadcast first.
PlanFails(p) ==
  /\ plan[p].pc \notin {"queued", "ended"} /\ Fault
  /\ PlanAt(p, "enqueue") => Room
  /\ \/ UNCHANGED status
     \/ PlanAt(p, "audience") /\ ~BroadcastLocked /\ status' = "failed"
  /\ plan' = [plan EXCEPT ![p] = [pc |-> "queued", ids |-> {}, tally |-> NoTally]]
  /\ UNCHANGED <<hold, total, counts, people, row, outbound, job, erasure, history>>

\* An empty audience settles the Broadcast at once.
PlanCount(p) ==
  /\ PlanAt(p, "count")
  /\ plan' = [plan EXCEPT ![p].pc = IF NonePending(row) THEN "settle" ELSE "ended",
                          ![p].tally = IF NonePending(row) THEN Tally(row) ELSE @]
  /\ UNCHANGED <<broadcast, people, row, outbound, job, erasure, faults, history>>

PlanSettle(p) ==
  /\ PlanAt(p, "settle") /\ ~BroadcastLocked
  /\ Settle(plan[p].tally)
  /\ plan' = [plan EXCEPT ![p].pc = "ended", ![p].tally = NoTally]
  /\ UNCHANGED <<people, row, outbound, job, erasure, faults, plannings, dropped>>

-----------------------------------------------------------------------------
(* SendRecipientWorker.Work and SendToRecipient.                           *)

JobAt(j, statement) == job[j].pc = statement
JobGoto(j, statement) == job' = [job EXCEPT ![j].pc = statement]
Attempt(j) == job[j].attempt

\* A snooze gives the attempt back.
Snooze(j) == job' = [job EXCEPT ![j] = [NoJob EXCEPT !.pc = "queued", !.attempt = Attempt(j) - 1]]
Retry(j) == job' = [job EXCEPT ![j] = [NoJob EXCEPT !.pc = "queued", !.attempt = Attempt(j)]]
End(j) == job' = [job EXCEPT ![j] = [NoJob EXCEPT !.pc = "ended"]]

\* Mutant of LastTry: one try too many.
LastTryLate(j) == Attempt(j) > MaxAttempts
LastTry(j) == Attempt(j) >= MaxAttempts

\* SendToRecipient returned an error: the last try gives the recipient up.
Error(j) == IF LastTry(j) THEN job' = [job EXCEPT ![j].pc = "giveup", ![j].answer = "none"]
            ELSE Retry(j)

\* Mutant of JobLoad: a recipient decided by an earlier try ends the job.
LoadEndsDecided(j) ==
  /\ JobAt(j, "queued")
  /\ job' = [job EXCEPT ![j].attempt = @ + 1,
                        ![j].pc = IF row[j[1]] = "pending" THEN "lookup"
                                  ELSE IF row[j[1]] = "absent" THEN "count" ELSE "ended"]
  /\ UNCHANGED <<broadcast, people, row, outbound, plan, erasure, faults, history>>

JobLoad(j) ==
  /\ JobAt(j, "queued")
  /\ job' = [job EXCEPT ![j].attempt = @ + 1,
                        ![j].pc = IF row[j[1]] = "pending" THEN "lookup" ELSE "count"]
  /\ UNCHANGED <<broadcast, people, row, outbound, plan, erasure, faults, history>>

\* The Contact was erased: the job is done and the row is left as it is.
JobLookup(j) ==
  /\ JobAt(j, "lookup")
  /\ JobGoto(j, IF j[1] \in existing THEN "send" ELSE "count")
  /\ UNCHANGED <<broadcast, people, row, outbound, plan, erasure, faults, history>>

\* The Contact lost its address since the plan: the row is failed, and the job
\* is done whether or not that write went through.
JobNoEmail(j) ==
  /\ JobAt(j, "lookup") /\ j[1] \in existing /\ ~RowLocked(j[1])
  /\ \/ /\ row' = [row EXCEPT ![j[1]] = IF @ = "absent" THEN @ ELSE "failed"]
        /\ UNCHANGED <<faults, dropped>>
     \/ Fault /\ dropped' = dropped \cup {j[1]} /\ UNCHANGED row
  /\ JobGoto(j, "count")
  /\ UNCHANGED <<broadcast, people, outbound, plan, erasure, plannings, settlings>>

\* Send answers: "lift" before the row is written when the message left.
Answer(j, outcome) ==
  job' = [job EXCEPT ![j].pc = IF outcome = "sent" THEN "lift" ELSE "write",
                     ![j].answer = outcome]

Held(j) == holder[j[1]] = j[2] /\ message[j[1]] = "pending"
InFlight(c) == holder[c] # 0 /\ JobAt(<<c, holder[c]>>, "provider")

\* Mutant of JobSend: a replay reports success, whatever was recorded.
SendReplaysSent(j) ==
  /\ JobAt(j, "send")
  /\ LET c == j[1] IN
       \/ /\ message[c] \in Decided
          /\ Answer(j, "sent") /\ UNCHANGED outbound
       \/ /\ message[c] \notin Decided /\ c \notin existing
          /\ Answer(j, "skipped") /\ UNCHANGED outbound
       \/ /\ message[c] = "none" \/ (message[c] = "pending" /\ ~InFlight(c))
          /\ c \in existing
          /\ message' = [message EXCEPT ![c] = "pending"]
          /\ holder' = [holder EXCEPT ![c] = j[2]]
          /\ JobGoto(j, "provider")
  /\ UNCHANGED <<broadcast, people, row, plan, erasure, faults, history>>

\* Send, to its claim: replay, the erasure check, then claim or take over.
JobSend(j) ==
  /\ JobAt(j, "send")
  /\ LET c == j[1] IN
       \/ /\ message[c] \in Decided
          /\ Answer(j, message[c]) /\ UNCHANGED outbound
       \/ /\ message[c] \notin Decided /\ c \notin existing
          /\ Answer(j, "skipped") /\ UNCHANGED outbound
       \/ /\ message[c] = "none" \/ (message[c] = "pending" /\ ~InFlight(c))
          /\ c \in existing
          /\ message' = [message EXCEPT ![c] = "pending"]
          /\ holder' = [holder EXCEPT ![c] = j[2]]
          /\ JobGoto(j, "provider")
  /\ UNCHANGED <<broadcast, people, row, plan, erasure, faults, history>>

\* The attempt that holds the claim has stalled for longer than its lease.
JobTakeOver(j) ==
  /\ JobAt(j, "send") /\ message[j[1]] = "pending" /\ InFlight(j[1])
  /\ j[1] \in existing /\ Stall
  /\ holder' = [holder EXCEPT ![j[1]] = j[2]]
  /\ JobGoto(j, "provider")
  /\ UNCHANGED <<broadcast, people, row, message, plan, erasure, history>>

\* Another attempt holds a live claim.
JobInProgress(j) ==
  /\ JobAt(j, "send") /\ message[j[1]] = "pending" /\ InFlight(j[1])
  /\ j[1] \in existing
  /\ Snooze(j)
  /\ UNCHANGED <<broadcast, people, row, outbound, plan, erasure, faults, history>>

\* Send holds the message: before the claim, or as the provider refuses it.
JobHeld(j) ==
  /\ Fault
  /\ \/ JobAt(j, "send") /\ message[j[1]] \notin Decided /\ UNCHANGED message
     \/ /\ JobAt(j, "provider")
        /\ message' = [message EXCEPT ![j[1]] = IF Held(j) THEN "none" ELSE @]
  /\ JobGoto(j, "park")
  /\ UNCHANGED <<broadcast, people, row, holder, plan, erasure, history>>

JobPark(j) ==
  /\ JobAt(j, "park") /\ ~BroadcastLocked
  /\ hold' = TRUE
  /\ Snooze(j)
  /\ UNCHANGED <<status, total, counts, people, row, outbound, plan, erasure, faults, history>>

\* The send rate limit is spent: no hold, the job sleeps until it is its turn.
JobDeferred(j) ==
  /\ JobAt(j, "provider") /\ Fault
  /\ message' = [message EXCEPT ![j[1]] = IF Held(j) THEN "none" ELSE @]
  /\ Snooze(j)
  /\ UNCHANGED <<broadcast, people, row, holder, plan, erasure, history>>

\* The Outcome is recorded, if the claim is still this attempt's.
JobDecide(j) ==
  /\ JobAt(j, "provider")
  /\ IF Held(j)
       THEN \E outcome \in Decided :
              message' = [message EXCEPT ![j[1]] = outcome] /\ Answer(j, outcome)
       ELSE Snooze(j) /\ UNCHANGED message
  /\ UNCHANGED <<broadcast, people, row, holder, plan, erasure, faults, history>>

\* The provider fails, or the record of its acceptance may have committed.
JobSendFails(j) ==
  /\ JobAt(j, "provider") /\ Fault
  /\ \/ UNCHANGED message
     \/ /\ Held(j)
        /\ message' = [message EXCEPT ![j[1]] = "sent"]
  /\ Error(j)
  /\ UNCHANGED <<broadcast, people, row, holder, plan, erasure, history>>

\* A send went through: the hold, if any, has lifted.
JobLift(j) ==
  /\ JobAt(j, "lift") /\ ~BroadcastLocked
  /\ hold' = FALSE
  /\ JobGoto(j, "write")
  /\ UNCHANGED <<status, total, counts, people, row, outbound, plan, erasure, faults, history>>

Written(j) ==
  /\ row[j[1]] # "absent" /\ ~RowLocked(j[1])
  /\ row' = [row EXCEPT ![j[1]] = job[j].answer]

\* The Outcome lands on the row, whatever it was; a row gone is an error.
JobWrite(j) ==
  /\ JobAt(j, "write") /\ ~RowLocked(j[1])
  /\ IF row[j[1]] = "absent" THEN Error(j) /\ UNCHANGED row
     ELSE /\ Written(j)
          /\ job' = [job EXCEPT ![j].pc = "count", ![j].answer = "none"]
  /\ UNCHANGED <<broadcast, people, outbound, plan, erasure, faults, history>>

\* markRecipientFailed: MarkFailed fails the message if its claim was released
\* or is past its lease ...
JobGiveUp(j) ==
  /\ JobAt(j, "giveup")
  /\ \/ UNCHANGED message
     \/ /\ message[j[1]] = "pending" /\ row[j[1]] # "absent"
        /\ message' = [message EXCEPT ![j[1]] = "failed"]
  /\ JobGoto(j, "mark")
  /\ UNCHANGED <<broadcast, people, row, holder, plan, erasure, faults, history>>

\* ... and the row is failed, whatever it was.
JobMark(j) ==
  /\ JobAt(j, "mark") /\ ~RowLocked(j[1])
  /\ row' = [row EXCEPT ![j[1]] = IF @ = "absent" THEN @ ELSE "failed"]
  /\ JobGoto(j, "count")
  /\ UNCHANGED <<broadcast, people, outbound, plan, erasure, faults, history>>

JobCount(j) ==
  /\ JobAt(j, "count")
  /\ IF NonePending(row)
       THEN job' = [job EXCEPT ![j].pc = "settle", ![j].tally = Tally(row)]
       ELSE End(j)
  /\ UNCHANGED <<broadcast, people, row, outbound, plan, erasure, faults, history>>

JobSettle(j) ==
  /\ JobAt(j, "settle") /\ ~BroadcastLocked
  /\ Settle(job[j].tally)
  /\ End(j)
  /\ UNCHANGED <<people, row, outbound, plan, erasure, faults, plannings, dropped>>

\* Nothing is left of the job, and what it had still to write is not written.
Drop(j) == End(j) /\ dropped' = dropped \cup {j[1]}

\* A statement fails, the row's UPDATE perhaps after it committed.  The hold and
\* giving up are best effort.
JobFails(j) ==
  /\ Fault
  /\ \/ /\ JobAt(j, "queued") /\ UNCHANGED <<row, dropped>>
        /\ job' = [job EXCEPT ![j].attempt = @ + 1,
                              ![j].pc = IF Attempt(j) + 1 < MaxAttempts THEN "queued" ELSE "giveup"]
     \/ job[j].pc \in {"lookup", "send"} /\ Error(j) /\ UNCHANGED <<row, dropped>>
     \/ JobAt(j, "write") /\ Error(j) /\ (Written(j) \/ UNCHANGED row) /\ UNCHANGED dropped
     \/ JobAt(j, "park") /\ Snooze(j) /\ UNCHANGED <<row, dropped>>
     \/ JobAt(j, "lift") /\ JobGoto(j, "write") /\ UNCHANGED <<row, dropped>>
     \/ JobAt(j, "giveup") /\ JobGoto(j, "mark") /\ UNCHANGED <<row, dropped>>
     \/ JobAt(j, "mark") /\ JobGoto(j, "count") /\ dropped' = dropped \cup {j[1]} /\ UNCHANGED row
     \/ /\ job[j].pc \in {"count", "settle"} /\ UNCHANGED row
        /\ (LastTry(j) /\ Drop(j)) \/ (~LastTry(j) /\ Retry(j) /\ UNCHANGED dropped)
  /\ UNCHANGED <<broadcast, people, outbound, plan, erasure, plannings, settlings>>

\* The worker dies; the queue rescues the job if it has tries left.
JobCrash(j) ==
  /\ job[j].pc \notin {"none", "queued", "ended"} /\ Fault
  /\ (LastTry(j) /\ Drop(j)) \/ (~LastTry(j) /\ Retry(j) /\ UNCHANGED dropped)
  /\ UNCHANGED <<broadcast, people, row, outbound, plan, erasure, plannings, settlings>>

-----------------------------------------------------------------------------
(* Erasure: cancelInFlight, and the Contact, in one transaction.           *)

EraseRead(c) ==
  /\ c \in Erasable /\ erasure[c].pc = "idle"
  /\ erasure' = [erasure EXCEPT ![c].pc = "delete", ![c].unsent = row[c] = "pending"]
  /\ UNCHANGED <<broadcast, people, row, outbound, plan, job, faults, history>>

\* Mutant of EraseDelete: the purge names the Broadcast, not the recipient.
EraseDeleteAll(c) ==
  /\ erasure[c].pc = "delete"
  /\ job' = [j \in Jobs |-> IF erasure[c].unsent /\ JobAt(j, "queued")
                              THEN [NoJob EXCEPT !.pc = "ended"] ELSE job[j]]
  /\ erasure' = [erasure EXCEPT ![c].pc = IF erasure[c].unsent THEN "shrink" ELSE "commit"]
  /\ UNCHANGED <<broadcast, people, row, outbound, plan, faults, history>>

\* The Contact's recipient jobs that are not running, and its unsent row.
EraseDelete(c) ==
  /\ erasure[c].pc = "delete"
  /\ job' = [j \in Jobs |-> IF erasure[c].unsent /\ j[1] = c /\ JobAt(j, "queued")
                              THEN [NoJob EXCEPT !.pc = "ended"] ELSE job[j]]
  /\ erasure' = [erasure EXCEPT ![c].pc = IF erasure[c].unsent THEN "shrink" ELSE "commit"]
  /\ UNCHANGED <<broadcast, people, row, outbound, plan, faults, history>>

EraseShrink(c) ==
  /\ erasure[c].pc = "shrink" /\ ~BroadcastLocked
  /\ erasure' = [erasure EXCEPT ![c].pc = "count"]
  /\ UNCHANGED <<broadcast, people, row, outbound, plan, job, faults, history>>

\* Finalize inside the transaction: it sees its own deletion.
EraseCount(c) ==
  /\ erasure[c].pc = "count"
  /\ LET left == [row EXCEPT ![c] = "absent"] IN
       erasure' = [erasure EXCEPT ![c].pc = "commit", ![c].ready = NonePending(left),
                                  ![c].tally = IF NonePending(left) THEN Tally(left) ELSE NoTally]
  /\ UNCHANGED <<broadcast, people, row, outbound, plan, job, faults, history>>

\* Everything the transaction wrote appears at once.
EraseCommit(c) ==
  /\ erasure[c].pc = "commit"
  /\ existing' = existing \ {c}
  /\ row' = IF erasure[c].unsent THEN [row EXCEPT ![c] = "absent"] ELSE row
  /\ total' = IF erasure[c].unsent THEN total - 1 ELSE total
  /\ IF erasure[c].ready /\ status = "sending"
       THEN /\ status' = "sent" /\ counts' = erasure[c].tally /\ hold' = FALSE
            /\ settlings' = settlings + 1
       ELSE UNCHANGED <<status, counts, hold, settlings>>
  /\ erasure' = [erasure EXCEPT ![c] = [pc |-> "done", unsent |-> FALSE, ready |-> FALSE,
                                        tally |-> NoTally]]
  /\ UNCHANGED <<renders, audience, outbound, plan, job, faults, plannings, dropped>>

\* A Contact comes to match the audience.
Join(c) ==
  /\ c \in Latecomers \ audience
  /\ audience' = audience \cup {c}
  /\ UNCHANGED <<broadcast, renders, existing, row, outbound, plan, job, erasure, faults, history>>

PlanWork(p) ==
  \/ PlanStart(p) \/ PlanClaim(p) \/ PlanAudience(p) \/ PlanVerify(p) \/ PlanInsert(p)
  \/ PlanReread(p) \/ PlanTotal(p) \/ PlanEnqueue(p) \/ PlanCount(p) \/ PlanSettle(p)

JobWork(j) ==
  \/ JobLoad(j) \/ JobLookup(j) \/ JobSend(j) \/ JobInProgress(j) \/ JobPark(j)
  \/ JobDecide(j) \/ JobLift(j) \/ JobWrite(j) \/ JobGiveUp(j) \/ JobMark(j)
  \/ JobCount(j) \/ JobSettle(j)

Mishap ==
  \/ \E p \in Plans : PlanHeld(p) \/ PlanEnqueueLost(p) \/ PlanFails(p)
  \/ \E j \in Jobs : \/ JobNoEmail(j) \/ JobTakeOver(j) \/ JobHeld(j) \/ JobDeferred(j)
                    \/ JobSendFails(j) \/ JobFails(j) \/ JobCrash(j)

Erase(c) ==
  \/ EraseRead(c) \/ EraseDelete(c) \/ EraseShrink(c) \/ EraseCount(c) \/ EraseCommit(c)

Next ==
  \/ \E p \in Plans : PlanWork(p)
  \/ \E j \in Jobs : JobWork(j)
  \/ Mishap
  \/ \E c \in Contacts : Erase(c) \/ Join(c)

Spec == Init /\ [][Next]_vars

\* The queue works every job it holds, and retries it.
Fairness ==
  /\ \A p \in Plans : WF_vars(PlanWork(p))
  /\ \A j \in Jobs : WF_vars(JobWork(j))

FairSpec == Spec /\ Fairness

-----------------------------------------------------------------------------
(* Properties.                                                             *)

\* A row says Sent only for a message that is recorded Sent, whichever of the
\* recipient's jobs wrote it, and Skipped only for a message recorded Skipped
\* or a Contact that was erased.
RowsAreBacked ==
  \A c \in Contacts :
    /\ row[c] = "sent" => message[c] = "sent"
    /\ row[c] = "skipped" => message[c] = "skipped" \/ c \notin existing

\* A Broadcast planned once is not settled early: when it is sent no recipient
\* is pending, and its counters add up to its recipients and those erased.
Counted == counts["sent"] + counts["failed"] + counts["skipped"]
Recipients == {c \in Contacts : row[c] # "absent"}
SettledInFull ==
  status = "sent" /\ plannings <= 1 =>
    /\ NonePending(row)
    /\ Cardinality(Recipients) \in Counted - Cardinality(Contacts \ existing) .. Counted

PlansEnded == \A p \in Plans : PlanAt(p, "ended")
JobsOf(c) == {j \in Jobs : j[1] = c /\ job[j].pc \notin {"none", "ended"}}
AllEnded ==
  /\ PlansEnded /\ \A c \in Contacts : JobsOf(c) = {}
  /\ \A c \in Contacts : erasure[c].pc \in {"idle", "done"}

\* No recipient is forgotten: a pending one has a job, or a plan that will give
\* it one, or an Erasure about to remove it, unless a job of its own ended with
\* its row unwritten: cut short in its last try, or without a word where the
\* Contact had no address.
PendingHasWork ==
  \A c \in existing :
    row[c] = "pending" =>
      \/ c \in dropped
      \/ ~PlansEnded \/ JobsOf(c) # {}
      \/ erasure[c].pc \notin {"idle", "done"}

\* Every Broadcast that can be rendered is sent in the end and stays so, with no
\* recipient pending, however often it is planned, unless a job ended with its
\* writes undone.
EndsSent ==
  <>[](renders => dropped # {} \/ (status = "sent" /\ NonePending(row)))

-----------------------------------------------------------------------------
(* Promises of the documents that the code does not keep; the README says  *)
(* how each one is broken.                                                 *)

\* finalize.go: sent_at is set exactly once.
SettledOnce == settlings <= 1

\* inflight.go: recipients_total counts the Broadcast's recipient rows.
TotalCountsRows ==
  AllEnded /\ renders => total = Cardinality(Recipients)

\* finalize.go: the counters self-heal against any retry drift.
CountersSelfHeal == AllEnded /\ status = "sent" /\ existing = Contacts => counts = Tally(row)

\* inflight.go: a Broadcast left with nothing pending settles.
NothingPendingSettles == AllEnded /\ NonePending(row) => status # "sending"

\* broadcast.go: no row is created that could never send and would block
\* finalization forever.
NoRowBlocksForever == AllEnded /\ dropped = {} => NonePending(row)
=============================================================================
