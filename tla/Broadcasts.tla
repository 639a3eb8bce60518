----------------------------- MODULE Broadcasts -----------------------------
(***************************************************************************)
(* The send/schedule state machine of a Broadcast (internal/broadcasts)    *)
(* and the plan jobs it hands to the queue.  API requests and plan jobs    *)
(* are processes; a request claims the Broadcast, then enqueues its job,   *)
(* then perhaps reverts, each a statement of its own, and a plan job reads *)
(* whether it is due before it moves the Broadcast.  What a plan sets in   *)
(* motion is BroadcastDelivery; here it is one step, which settles the     *)
(* Broadcast or ends without having settled it.                            *)
(***************************************************************************)
EXTENDS Naturals, FiniteSets

CONSTANTS
  Requests,     \* concurrent API requests
  Times,        \* times a Broadcast may be scheduled for, 1 or later
  MaxTime,      \* bound: the clock stops here
  MaxJobs,      \* bound: plan jobs put in the queue
  MaxEdits,     \* bound: edits of the content
  Unrenderable, \* the versions of the content that do not render
  MaxFaults     \* bound: errors and crashes in a run

ASSUME TimesAssumption == Times \subseteq Nat \ {0}
ASSUME BoundsAssumption ==
  MaxTime \in Nat /\ MaxJobs \in Nat /\ MaxEdits \in Nat /\ MaxFaults \in Nat
ASSUME UnrenderableAssumption == Unrenderable \subseteq 0 .. MaxEdits

VARIABLES
  now,          \* the clock
  status,       \* the Broadcast's status, or "deleted"
  scheduledAt,  \* its scheduled_at, 0: none
  content,      \* the version of its content
  request,      \* request[r]: the API call r is in
  job,          \* job[n]: the n-th plan job put in the queue
  faults,       \* faults so far
  approved,     \* history: the content when it was last sent or scheduled
  strayed,      \* history: a plan set the status when no longer due
  abandoned,    \* history: a request ended between its claim and its job
  unsettled     \* history: a delivery ended without settling

row == <<status, scheduledAt, content>>
history == <<approved, strayed, abandoned, unsettled>>
vars == <<now, row, request, job, faults, history>>

Unsent == {"draft", "scheduled"}
Idle == [pc |-> "idle", at |-> 0]
NoJob == [pc |-> "none", at |-> 0]
JobIds == 1 .. MaxJobs

TypeOK ==
  /\ now \in 0 .. MaxTime
  /\ status \in Unsent \cup {"sending", "sent", "failed", "deleted"}
  /\ scheduledAt \in Times \cup {0} /\ content \in 0 .. MaxEdits
  /\ status = "draft" => scheduledAt = 0
  /\ status = "scheduled" => scheduledAt # 0
  /\ request \in [Requests -> [pc : {"idle", "read", "enqueue", "revert"}, at : Times \cup {0}]]
  /\ job \in [JobIds -> [pc : {"none", "queued", "plan", "deliver", "ended"}, at : Times \cup {0}]]
  /\ faults \in 0 .. MaxFaults
  /\ approved \in 0 .. MaxEdits /\ strayed \in BOOLEAN /\ abandoned \in BOOLEAN
  /\ unsettled \in BOOLEAN

Init ==
  /\ now = 0 /\ status = "draft" /\ scheduledAt = 0 /\ content = 0
  /\ request = [r \in Requests |-> Idle]
  /\ job = [n \in JobIds |-> NoJob]
  /\ faults = 0 /\ approved = 0 /\ strayed = FALSE /\ abandoned = FALSE
  /\ unsettled = FALSE

Fault == faults < MaxFaults /\ faults' = faults + 1

-----------------------------------------------------------------------------
(* Module: Send, Schedule, Unschedule, and the authoring of a draft.       *)

RequestAt(r, statement) == request[r].pc = statement
Respond(r) == request' = [request EXCEPT ![r] = Idle]

Claimable == status \in Unsent

\* Room in the queue for the job of one more request.
Room ==
  Cardinality({n \in JobIds : job[n] # NoJob})
    + Cardinality({r \in Requests : RequestAt(r, "read") \/ RequestAt(r, "enqueue")}) < MaxJobs

\* claim: the UPDATE matches a draft or scheduled Broadcast only; at is the new
\* schedule, 0 for Send.
Claim(r, at) ==
  /\ RequestAt(r, "idle") /\ Claimable /\ Room
  /\ status' = IF at = 0 THEN "sending" ELSE "scheduled"
  /\ scheduledAt' = at
  /\ approved' = content
  /\ request' = [request EXCEPT ![r] = [pc |-> "read", at |-> at]]
  /\ UNCHANGED <<now, content, job, faults, strayed, abandoned, unsettled>>

\* claim ends by reading the Broadcast back.
ReadBack(r) ==
  /\ RequestAt(r, "read")
  /\ IF status = "deleted" THEN Respond(r)
     ELSE request' = [request EXCEPT ![r].pc = "enqueue"]
  /\ UNCHANGED <<now, row, job, faults, history>>

\* Mutant of Put: the job runs as soon as possible, whatever the schedule.
PutNow(at) ==
  \E n \in JobIds :
    /\ job[n] = NoJob /\ \A m \in 1 .. n - 1 : job[m] # NoJob
    /\ job' = [job EXCEPT ![n] = [pc |-> "queued", at |-> 0]]

\* EnqueueBroadcast: a job for the schedule at, or for now when at is 0.
Put(at) ==
  \E n \in JobIds :
    /\ job[n] = NoJob /\ \A m \in 1 .. n - 1 : job[m] # NoJob
    /\ job' = [job EXCEPT ![n] = [pc |-> "queued", at |-> at]]

Enqueue(r) ==
  /\ RequestAt(r, "enqueue")
  /\ Put(request[r].at)
  /\ Respond(r)
  /\ UNCHANGED <<now, row, faults, history>>

\* Mutant of EnqueueFails: the error is returned and the claim stays.
EnqueueFailsQuietly(r) ==
  /\ RequestAt(r, "enqueue") /\ Fault
  /\ Respond(r)
  /\ UNCHANGED <<now, row, job, history>>

\* The queue refuses the job, or takes it and the answer is lost.
EnqueueFails(r) ==
  /\ RequestAt(r, "enqueue") /\ Fault
  /\ Put(request[r].at) \/ UNCHANGED job
  /\ request' = [request EXCEPT ![r].pc = "revert"]
  /\ UNCHANGED <<now, row, history>>

\* revert: to draft, whatever the Broadcast has become.
Revert(r) ==
  /\ RequestAt(r, "revert")
  /\ IF status = "deleted" THEN UNCHANGED <<status, scheduledAt>>
     ELSE status' = "draft" /\ scheduledAt' = 0
  /\ Respond(r)
  /\ UNCHANGED <<now, content, job, faults, history>>

\* The process dies, or the read-back or the revert fails: nothing is undone.
RequestFails(r) ==
  /\ ~RequestAt(r, "idle") /\ Fault
  /\ Respond(r)
  /\ abandoned' = TRUE
  /\ UNCHANGED <<now, row, job, approved, strayed, unsettled>>

Unschedule(r) ==
  /\ RequestAt(r, "idle") /\ status = "scheduled"
  /\ status' = "draft" /\ scheduledAt' = 0
  /\ UNCHANGED <<now, content, request, job, faults, history>>

\* Mutant of Edit: a scheduled Broadcast can be edited.
EditUnsent(r) ==
  /\ RequestAt(r, "idle") /\ status \in Unsent /\ content < MaxEdits
  /\ content' = content + 1
  /\ UNCHANGED <<now, status, scheduledAt, request, job, faults, history>>

\* Update and SetAudience: the UPDATE matches a draft only.
Edit(r) ==
  /\ RequestAt(r, "idle") /\ status = "draft" /\ content < MaxEdits
  /\ content' = content + 1
  /\ UNCHANGED <<now, status, scheduledAt, request, job, faults, history>>

\* DeleteDraft from the authoring surface, Delete in any status by a human.
Delete(r) ==
  /\ RequestAt(r, "idle") /\ status # "deleted"
  /\ status' = "deleted" /\ scheduledAt' = 0
  /\ UNCHANGED <<now, content, request, job, faults, history>>

-----------------------------------------------------------------------------
(* Plan jobs: SendBroadcastWorker.Work.                                    *)

JobAt(n, statement) == job[n].pc = statement
JobGoto(n, statement) == job' = [job EXCEPT ![n].pc = statement]

\* BroadcastDue: a draft is not due, and a delayed job only for its schedule.
Due(n) ==
  /\ status \notin {"draft", "deleted"}
  /\ job[n].at = 0 \/ job[n].at = scheduledAt

Fire(n) ==
  /\ JobAt(n, "queued") /\ job[n].at <= now
  /\ JobGoto(n, IF Due(n) THEN "plan" ELSE "ended")
  /\ UNCHANGED <<now, row, request, faults, history>>

Stray(n) == strayed' = (strayed \/ (status # "deleted" /\ ~Due(n)))

\* PlanBroadcast: the status, whatever it was.  Content that does not render fails
\* the Broadcast, and the job is tried again until its tries are over, of which
\* there are more than faults; a try whose write fails is a PlanFails.
Plan(n) ==
  /\ JobAt(n, "plan")
  /\ \/ status = "deleted" /\ JobGoto(n, "ended") /\ UNCHANGED status
     \/ /\ status # "deleted" /\ content \notin Unrenderable
        /\ status' = "sending" /\ JobGoto(n, "deliver")
     \/ /\ status # "deleted" /\ content \in Unrenderable
        /\ status' = "failed" /\ (JobGoto(n, "ended") \/ JobGoto(n, "queued"))
  /\ Stray(n)
  /\ UNCHANGED <<now, scheduledAt, content, request, faults, approved, abandoned, unsettled>>

\* The plan fails or is put off: the queue tries the job again.  A Segment that
\* cannot be loaded fails the Broadcast first.
PlanFails(n) ==
  /\ job[n].pc \in {"plan", "deliver"} /\ Fault
  /\ JobGoto(n, "queued")
  /\ \/ UNCHANGED <<status, strayed>>
     \/ JobAt(n, "deliver") /\ status # "deleted" /\ status' = "failed" /\ Stray(n)
  /\ UNCHANGED <<now, scheduledAt, content, request, approved, abandoned, unsettled>>

\* Mutant of Deliver: a Broadcast that is still sending is planned again.
DeliverAgain(n) ==
  /\ JobAt(n, "deliver")
  /\ JobGoto(n, IF status = "sending" THEN "queued" ELSE "ended")
  /\ UNCHANGED <<now, row, request, faults, history>>

\* Delivery ends.  Finalize moves a Broadcast that is sending to sent, or returns
\* without a word as it sees a recipient pending, or is cut short, and nothing
\* looks again: when that can be is BroadcastDelivery's to say (dropped,
\* NoRowBlocksForever, NothingPendingSettles).
Deliver(n) ==
  /\ JobAt(n, "deliver")
  /\ \/ /\ status' = IF status = "sending" THEN "sent" ELSE status
        /\ UNCHANGED unsettled
     \/ unsettled' = TRUE /\ UNCHANGED status
  /\ JobGoto(n, "ended")
  /\ UNCHANGED <<now, scheduledAt, content, request, faults, approved, strayed, abandoned>>

Tick ==
  /\ now < MaxTime /\ now' = now + 1
  /\ UNCHANGED <<row, request, job, faults, history>>

Continue(r) == ReadBack(r) \/ Enqueue(r) \/ Revert(r)
Work(n) == Fire(n) \/ Plan(n) \/ Deliver(n)

Next ==
  \/ \E r \in Requests :
       \/ \E at \in Times \cup {0} : Claim(r, at)
       \/ Continue(r) \/ EnqueueFails(r) \/ RequestFails(r)
       \/ Unschedule(r) \/ Edit(r) \/ Delete(r)
  \/ \E n \in JobIds : Work(n) \/ PlanFails(n)
  \/ Tick

Spec == Init /\ [][Next]_vars

\* A request under way goes on, the queue works its jobs and the clock moves.
Fairness ==
  /\ \A r \in Requests : WF_vars(Continue(r))
  /\ \A n \in JobIds : WF_vars(Work(n))
  /\ WF_vars(Tick)

FairSpec == Spec /\ Fairness

-----------------------------------------------------------------------------
(* Properties.                                                             *)

\* A request that will still enqueue a job for the schedule at, or revert.
Behind(at) == \E r \in Requests : ~RequestAt(r, "idle") /\ request[r].at = at
Live(n) == job[n].pc \in {"queued", "plan", "deliver"}

\* A scheduled Broadcast has a live job bound to exactly its schedule, however
\* often it was rescheduled and reverted, once the request that set it is done.
ScheduledHasJob ==
  status = "scheduled" /\ ~abandoned =>
    Behind(scheduledAt) \/ \E n \in JobIds : Live(n) /\ job[n].at = scheduledAt

\* Somebody will still move the Broadcast: a request under way or a live job.
HasWork == (\E r \in Requests : ~RequestAt(r, "idle")) \/ \E n \in JobIds : Live(n)

\* A Broadcast is stranded in sending only by a request that was cut short, by a
\* plan that a new claim or an Unschedule had superseded, or by a delivery that
\* ended without settling it.
SendingHasWork ==
  status = "sending" /\ ~abandoned /\ ~strayed /\ ~unsettled => HasWork

\* What is sent is what was last sent or scheduled, edited drafts included,
\* unless a superseded plan sent it.
SendsWhatWasApproved ==
  status \in {"scheduled", "sending", "sent"} /\ ~strayed => content = approved

\* Sending ends: in sent, failed, or back in draft, with the same exceptions.
SendingEnds ==
  status = "sending" ~> (status # "sending" \/ abandoned \/ strayed \/ unsettled)

-----------------------------------------------------------------------------
(* Promises of the documents that the code does not keep; the README says  *)
(* how each one is broken.                                                 *)

\* broadcasts.go: the delayed job stays queued; when it fires it finds a draft
\* and does nothing.  The code does not keep this: an Unschedule between the
\* due check and the write of "sending" is overwritten.
DraftNeverSends ==
  [][\A n \in JobIds : JobAt(n, "plan") /\ job'[n].pc = "deliver" => status # "draft"]_vars

\* broadcasts.go: status is never written after the enqueue, which would clobber
\* the row a send advanced to "sent".
SentNeverReverts == [][status = "sent" => status' # "draft"]_vars

\* broadcasts.go: never stranded in sending with no job behind it.
NeverStranded == status = "sending" => HasWork
=============================================================================
