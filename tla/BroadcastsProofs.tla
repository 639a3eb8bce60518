-------------------------- MODULE BroadcastsProofs --------------------------
(***************************************************************************)
(* What the lifecycle of a Broadcast keeps, for any number of requests,    *)
(* plan jobs, schedules, edits and failures.                               *)
(*                                                                         *)
(* The properties of Broadcasts say that somebody is at work; what a step  *)
(* keeps is who.  A scheduled Broadcast has its job before the plan of the *)
(* job ("deliver" is the work of an earlier claim), and a sending one has  *)
(* a job or a request that the current schedule does not supersede, until  *)
(* its delivery ends.                                                      *)
(***************************************************************************)
EXTENDS Broadcasts, TLAPS

\* Bound to the schedule the Broadcast has now, or to none.
Bound(at) == at = 0 \/ at = scheduledAt

Busy(r) == ~RequestAt(r, "idle")

\* Who moves a scheduled Broadcast on: a request that put it there, or a job
\* that has not begun to deliver.
ScheduledInv ==
  status = "scheduled" /\ ~abandoned =>
    \/ \E r \in Requests : Busy(r) /\ request[r].at = scheduledAt
    \/ \E n \in JobIds : job[n].pc \in {"queued", "plan"} /\ job[n].at = scheduledAt

\* Who moves a sending one on: nobody that a later schedule supersedes.
SendingInv ==
  status = "sending" /\ ~abandoned /\ ~strayed /\ ~unsettled =>
    \/ \E r \in Requests : Busy(r) /\ Bound(request[r].at)
    \/ \E n \in JobIds : Live(n) /\ Bound(job[n].at)

\* A Broadcast that has left the drafts keeps its content, failed ones too: a
\* plan that is retried takes them back to sending.
ApprovedInv ==
  status \notin {"draft", "deleted"} /\ ~strayed => content = approved

IInv == TypeOK /\ ScheduledInv /\ SendingInv /\ ApprovedInv

-----------------------------------------------------------------------------
(* Types                                                                   *)

LEMMA Times0 == Times \cup {0} \subseteq Nat
  BY TimesAssumption

RequestStates == [pc : {"idle", "read", "enqueue", "revert"}, at : Times \cup {0}]
JobStates == [pc : {"none", "queued", "plan", "deliver", "ended"}, at : Times \cup {0}]

LEMMA FaultOK == ASSUME TypeOK, Fault PROVE faults' \in 0 .. MaxFaults
  BY BoundsAssumption DEF TypeOK, Fault

LEMMA ClaimTypes == ASSUME TypeOK, NEW r \in Requests, NEW at \in Times \cup {0}, Claim(r, at) PROVE TypeOK'
<1>1. request' \in [Requests -> RequestStates]
  BY DEF TypeOK, Claim, RequestStates
<1>2. /\ status' \in Unsent \cup {"sending", "sent", "failed", "deleted"}
      /\ status' = "draft" => scheduledAt' = 0
      /\ status' = "scheduled" => scheduledAt' # 0
  BY DEF Claim, Unsent
<1>3. approved' \in 0 .. MaxEdits /\ scheduledAt' \in Times \cup {0}
  BY DEF TypeOK, Claim
<1>4. QED
  BY <1>1, <1>2, <1>3, Zenon DEF TypeOK, Claim, RequestStates

LEMMA RequestTypes ==
  ASSUME TypeOK, NEW r \in Requests,
         \/ ReadBack(r) \/ Enqueue(r) \/ EnqueueFails(r) \/ Revert(r) \/ RequestFails(r)
         \/ Unschedule(r) \/ Edit(r) \/ Delete(r)
  PROVE  TypeOK'
<1>a. ASSUME Respond(r) PROVE request' \in [Requests -> RequestStates]
  BY <1>a DEF TypeOK, Respond, Idle, RequestStates
<1>b. ASSUME NEW pc \in {"enqueue", "revert"}, request' = [request EXCEPT ![r].pc = pc]
      PROVE  request' \in [Requests -> RequestStates]
  BY <1>b DEF TypeOK, RequestStates
<1>c. ASSUME Put(request[r].at) PROVE job' \in [JobIds -> JobStates]
  <2>1. request[r].at \in Times \cup {0}
    BY DEF TypeOK
  <2>2. PICK n \in JobIds : job' = [job EXCEPT ![n] = [pc |-> "queued", at |-> request[r].at]]
    BY <1>c DEF Put
  <2>3. QED
    BY <2>1, <2>2 DEF TypeOK, JobStates
<1>1. CASE ReadBack(r)
  <2>1. request' \in [Requests -> RequestStates]
    BY <1>1, <1>a, <1>b DEF ReadBack
  <2>2. QED
    BY <1>1, <2>1, Zenon DEF TypeOK, ReadBack, row, history, RequestStates
<1>3. CASE Enqueue(r)
  BY <1>3, <1>a, <1>c, Zenon DEF TypeOK, Enqueue, row, history, RequestStates, JobStates
<1>4. CASE EnqueueFails(r)
  <2>1. request' \in [Requests -> RequestStates]
    BY <1>4, <1>b DEF EnqueueFails
  <2>2. job' \in [JobIds -> JobStates]
    BY <1>4, <1>c, Zenon DEF EnqueueFails, TypeOK, JobStates
  <2>3. faults' \in 0 .. MaxFaults
    BY <1>4, FaultOK, Zenon DEF EnqueueFails
  <2>4. QED
    BY <1>4, <2>1, <2>2, <2>3, Zenon DEF TypeOK, EnqueueFails, row, history, RequestStates, JobStates
<1>5. CASE Revert(r)
  <2>1. /\ status' \in Unsent \cup {"sending", "sent", "failed", "deleted"}
        /\ scheduledAt' \in Times \cup {0}
        /\ status' = "draft" => scheduledAt' = 0
        /\ status' = "scheduled" => scheduledAt' # 0
    BY <1>5 DEF Revert, TypeOK, Unsent
  <2>2. request' \in [Requests -> RequestStates]
    BY <1>5, <1>a DEF Revert
  <2>3. QED
    BY <1>5, <2>1, <2>2, Zenon DEF TypeOK, Revert, history, RequestStates
<1>6. CASE RequestFails(r)
  <2>1. faults' \in 0 .. MaxFaults
    BY <1>6, FaultOK, Zenon DEF RequestFails
  <2>2. QED
    BY <1>6, <1>a, <2>1, Zenon DEF TypeOK, RequestFails, row, RequestStates
<1>7. CASE Unschedule(r) \/ Delete(r)
  BY <1>7 DEF TypeOK, Unschedule, Delete, history, Unsent
<1>8. CASE Edit(r)
  <2>1. content' \in 0 .. MaxEdits
    BY <1>8, BoundsAssumption DEF TypeOK, Edit
  <2>2. QED
    BY <1>8, <2>1, Zenon DEF TypeOK, Edit, history
<1>9. QED
  BY <1>1, <1>3, <1>4, <1>5, <1>6, <1>7, <1>8

\* The new status of a job, when it is at one of the job's statements.
LEMMA JobTypes ==
  ASSUME TypeOK, NEW n \in JobIds, NEW pc \in {"none", "queued", "plan", "deliver", "ended"}, JobGoto(n, pc)
  PROVE  /\ job' \in [JobIds -> [pc : {"none", "queued", "plan", "deliver", "ended"}, at : Times \cup {0}]]
         /\ job'[n].pc = pc /\ job'[n].at = job[n].at
         /\ \A m \in JobIds : m # n => job'[m] = job[m]
  BY DEF TypeOK, JobGoto

LEMMA StrayTypes == ASSUME TypeOK, NEW n \in JobIds, Stray(n) PROVE strayed' \in BOOLEAN
  BY Zenon DEF Stray, TypeOK

LEMMA WorkTypes ==
  ASSUME TypeOK, NEW n \in JobIds, Work(n) \/ PlanFails(n)
  PROVE  TypeOK'
<1>1. CASE Fire(n)
  BY <1>1, JobTypes DEF TypeOK, Fire, row, history
<1>2. CASE Plan(n)
  BY <1>2, JobTypes, StrayTypes DEF TypeOK, Plan
<1>3. CASE Deliver(n)
  BY <1>3, JobTypes DEF TypeOK, Deliver, history
<1>4. CASE PlanFails(n)
  <2>1. strayed' \in BOOLEAN
    BY <1>4, StrayTypes DEF PlanFails, TypeOK
  <2>2. QED
    BY <1>4, <2>1, JobTypes, FaultOK DEF TypeOK, PlanFails
<1>5. QED
  BY <1>1, <1>2, <1>3, <1>4 DEF Work

LEMMA TypeStep == ASSUME TypeOK, [Next]_vars PROVE TypeOK'
<1>1. CASE Tick
  BY <1>1, BoundsAssumption DEF TypeOK, Tick, row, history
<1>2. CASE UNCHANGED vars
  BY <1>2 DEF TypeOK, vars, row, history
<1>3. QED
  BY <1>1, <1>2, ClaimTypes, RequestTypes, WorkTypes DEF Next, Continue

-----------------------------------------------------------------------------
(* Who is at work: the steps that hand it over                             *)

\* A statement of a request keeps the request's schedule while it is busy.
LEMMA RequestKept ==
  ASSUME TypeOK, NEW r \in Requests, NEW q \in Requests, Busy(q),
         \/ q # r /\ Respond(r)
         \/ \E pc \in {"enqueue", "revert"} : request' = [request EXCEPT ![r].pc = pc]
  PROVE  Busy(q)' /\ request'[q].at = request[q].at
  BY DEF TypeOK, Busy, RequestAt, Respond

\* Put makes a job for the schedule it is given and touches no other.
LEMMA PutMakes ==
  ASSUME TypeOK, NEW at, Put(at)
  PROVE  /\ \E n \in JobIds : job'[n] = [pc |-> "queued", at |-> at]
         /\ \A m \in JobIds : job[m] # NoJob => job'[m] = job[m]
<1>1. PICK n \in JobIds : job[n] = NoJob /\ job' = [job EXCEPT ![n] = [pc |-> "queued", at |-> at]]
  BY DEF Put
<1>2. QED
  BY <1>1 DEF TypeOK

LEMMA JobKept ==
  ASSUME TypeOK, NEW at, Put(at) \/ UNCHANGED job, NEW m \in JobIds, job[m].pc # "none"
  PROVE  job'[m] = job[m]
<1>1. job[m] # NoJob
  BY DEF NoJob
<1>2. CASE Put(at)
  BY <1>1, <1>2, PutMakes
<1>3. QED
  BY <1>2

LEMMA ScheduledStep == ASSUME TypeOK, ScheduledInv, [Next]_vars PROVE ScheduledInv'
<1> SUFFICES ASSUME status' = "scheduled", ~abandoned'
             PROVE  \/ \E r \in Requests : Busy(r)' /\ request'[r].at = scheduledAt'
                    \/ \E n \in JobIds : job'[n].pc \in {"queued", "plan"} /\ job'[n].at = scheduledAt'
  BY DEF ScheduledInv
<1>1. ASSUME NEW r \in Requests, NEW at \in Times \cup {0}, Claim(r, at)
      PROVE  Busy(r)' /\ request'[r].at = scheduledAt'
  BY <1>1 DEF Claim, TypeOK, Busy, RequestAt
<1>2. ASSUME NEW r \in Requests, ReadBack(r) \/ Enqueue(r) \/ EnqueueFails(r)
      PROVE  \/ \E q \in Requests : Busy(q)' /\ request'[q].at = scheduledAt'
             \/ \E n \in JobIds : job'[n].pc \in {"queued", "plan"} /\ job'[n].at = scheduledAt'
  <2>1. /\ status = "scheduled" /\ ~abandoned /\ scheduledAt' = scheduledAt
        /\ Put(request[r].at) \/ UNCHANGED job
    BY <1>2 DEF ReadBack, Enqueue, EnqueueFails, row, history
  <2>2. CASE \E m \in JobIds : job[m].pc \in {"queued", "plan"} /\ job[m].at = scheduledAt
    BY <2>1, <2>2, JobKept
  <2>3. ASSUME NEW q \in Requests, Busy(q), request[q].at = scheduledAt
        PROVE  \/ Busy(q)' /\ request'[q].at = scheduledAt'
               \/ \E n \in JobIds : job'[n].pc \in {"queued", "plan"} /\ job'[n].at = scheduledAt'
    <3>1. CASE ReadBack(r)
      BY <2>1, <2>3, <3>1, RequestKept DEF ReadBack
    <3>2. CASE EnqueueFails(r)
      BY <2>1, <2>3, <3>2, RequestKept DEF EnqueueFails
    <3>3. CASE Enqueue(r) /\ q # r
      BY <2>1, <2>3, <3>3, RequestKept DEF Enqueue
    <3>4. CASE Enqueue(r) /\ q = r
      <4>1. PICK n \in JobIds : job'[n] = [pc |-> "queued", at |-> request[r].at]
        BY <3>4, PutMakes DEF Enqueue
      <4>2. QED
        BY <2>1, <2>3, <3>4, <4>1
    <3>5. QED
      BY <1>2, <3>1, <3>2, <3>3, <3>4
  <2>4. QED
    BY <2>1, <2>2, <2>3 DEF ScheduledInv
<1>3. ASSUME NEW r \in Requests, Revert(r) \/ RequestFails(r) \/ Unschedule(r) \/ Delete(r) PROVE FALSE
  BY <1>3 DEF Revert, RequestFails, Unschedule, Delete
<1>4. ASSUME NEW n \in JobIds, Fire(n) \/ Plan(n) \/ PlanFails(n) \/ Deliver(n)
      PROVE  \/ \E q \in Requests : Busy(q)' /\ request'[q].at = scheduledAt'
             \/ \E m \in JobIds : job'[m].pc \in {"queued", "plan"} /\ job'[m].at = scheduledAt'
  <2>1. /\ status = "scheduled" /\ ~abandoned /\ scheduledAt' = scheduledAt /\ UNCHANGED request
        /\ ~Plan(n)
    BY <1>4 DEF Fire, Plan, PlanFails, Deliver, row, history
  <2>2. ASSUME NEW m \in JobIds, job[m].pc \in {"queued", "plan"}, job[m].at = scheduledAt
        PROVE  job'[m].pc \in {"queued", "plan"} /\ job'[m].at = scheduledAt'
    <3>1. CASE m # n
      BY <1>4, <2>1, <2>2, <3>1, JobTypes DEF Fire, PlanFails, Deliver
    <3>2. CASE m = n
      BY <1>4, <2>1, <2>2, <3>2, JobTypes DEF Fire, PlanFails, Deliver, Due, JobAt
    <3>3. QED
      BY <3>1, <3>2
  <2>3. QED
    BY <2>1, <2>2 DEF ScheduledInv, Busy, RequestAt
<1>5. CASE Tick \/ UNCHANGED vars \/ \E r \in Requests : Edit(r)
  BY <1>5 DEF ScheduledInv, Busy, RequestAt, Tick, Edit, vars, row, history
<1>6. QED
  BY <1>1, <1>2, <1>3, <1>4, <1>5, Zenon DEF Next, Continue, Work

LEMMA SendingStep == ASSUME TypeOK, SendingInv, [Next]_vars PROVE SendingInv'
<1> SUFFICES ASSUME status' = "sending", ~abandoned', ~strayed', ~unsettled'
             PROVE  \/ \E r \in Requests : Busy(r)' /\ Bound(request[r].at)'
                    \/ \E n \in JobIds : Live(n)' /\ Bound(job[n].at)'
  BY DEF SendingInv
<1>1. ASSUME NEW r \in Requests, NEW at \in Times \cup {0}, Claim(r, at)
      PROVE  Busy(r)' /\ Bound(request[r].at)'
  BY <1>1 DEF Claim, TypeOK, Busy, RequestAt, Bound
<1>2. ASSUME NEW r \in Requests, ReadBack(r) \/ Enqueue(r) \/ EnqueueFails(r)
      PROVE  \/ \E q \in Requests : Busy(q)' /\ Bound(request[q].at)'
             \/ \E n \in JobIds : Live(n)' /\ Bound(job[n].at)'
  <2>1. /\ status = "sending" /\ ~abandoned /\ ~strayed /\ ~unsettled /\ scheduledAt' = scheduledAt
        /\ Put(request[r].at) \/ UNCHANGED job
    BY <1>2 DEF ReadBack, Enqueue, EnqueueFails, row, history
  <2>2. CASE \E m \in JobIds : Live(m) /\ Bound(job[m].at)
    BY <2>1, <2>2, JobKept DEF Live, Bound
  <2>3. ASSUME NEW q \in Requests, Busy(q), Bound(request[q].at)
        PROVE  \/ Busy(q)' /\ Bound(request[q].at)'
               \/ \E n \in JobIds : Live(n)' /\ Bound(job[n].at)'
    <3>1. CASE ReadBack(r)
      BY <2>1, <2>3, <3>1, RequestKept DEF ReadBack, Bound
    <3>2. CASE EnqueueFails(r)
      BY <2>1, <2>3, <3>2, RequestKept DEF EnqueueFails, Bound
    <3>3. CASE Enqueue(r) /\ q # r
      BY <2>1, <2>3, <3>3, RequestKept DEF Enqueue, Bound
    <3>4. CASE Enqueue(r) /\ q = r
      <4>1. PICK n \in JobIds : job'[n] = [pc |-> "queued", at |-> request[r].at]
        BY <3>4, PutMakes DEF Enqueue
      <4>2. QED
        BY <2>1, <2>3, <3>4, <4>1 DEF Bound, Live
    <3>5. QED
      BY <1>2, <3>1, <3>2, <3>3, <3>4
  <2>4. QED
    BY <2>1, <2>2, <2>3 DEF SendingInv
<1>3. ASSUME NEW r \in Requests,
             Revert(r) \/ RequestFails(r) \/ Unschedule(r) \/ Edit(r) \/ Delete(r)
      PROVE  FALSE
  BY <1>3 DEF Revert, RequestFails, Unschedule, Edit, Delete
<1>4. ASSUME NEW n \in JobIds, Plan(n)
      PROVE  Live(n)' /\ Bound(job[n].at)'
  <2>1. Due(n) /\ JobGoto(n, "deliver") /\ scheduledAt' = scheduledAt
    BY <1>4, Zenon DEF Plan, Stray
  <2>2. QED
    BY <2>1, JobTypes DEF Due, Live, Bound
<1>7. ASSUME NEW n \in JobIds, Deliver(n) PROVE FALSE
  BY <1>7 DEF Deliver
<1>5. ASSUME NEW n \in JobIds, Fire(n) \/ PlanFails(n)
      PROVE  \/ \E q \in Requests : Busy(q)' /\ Bound(request[q].at)'
             \/ \E m \in JobIds : Live(m)' /\ Bound(job[m].at)'
  <2>1. /\ status = "sending" /\ ~abandoned /\ ~strayed /\ ~unsettled /\ scheduledAt' = scheduledAt
        /\ UNCHANGED request
    BY <1>5 DEF Fire, PlanFails, row, history
  <2>2. ASSUME NEW m \in JobIds, Live(m), Bound(job[m].at)
        PROVE  Live(m)' /\ Bound(job[m].at)'
    <3>1. CASE m # n
      BY <1>5, <2>1, <2>2, <3>1, JobTypes DEF Fire, PlanFails, Live, Bound
    <3>2. CASE m = n
      BY <1>5, <2>1, <2>2, <3>2, JobTypes DEF Fire, PlanFails, Due, JobAt, Live, Bound
    <3>3. QED
      BY <3>1, <3>2
  <2>3. QED
    BY <2>1, <2>2 DEF SendingInv, Busy, RequestAt, Bound
<1>6. CASE Tick \/ UNCHANGED vars
  BY <1>6 DEF SendingInv, Busy, RequestAt, Bound, Live, Tick, vars, row, history
<1>8. QED
  BY <1>1, <1>2, <1>3, <1>4, <1>7, <1>5, <1>6, Zenon DEF Next, Continue, Work

\* Only a draft is edited, and a plan that takes a draft along is a stray.
LEMMA ApprovedStep == ASSUME TypeOK, ApprovedInv, [Next]_vars PROVE ApprovedInv'
<1> SUFFICES ASSUME status' \notin {"draft", "deleted"}, ~strayed'
             PROVE  content' = approved'
  BY DEF ApprovedInv
<1>1. ASSUME NEW r \in Requests, NEW at \in Times \cup {0}, Claim(r, at)
      PROVE  content' = approved'
  BY <1>1 DEF Claim
<1>2. ASSUME NEW r \in Requests, ReadBack(r) \/ Enqueue(r) \/ EnqueueFails(r) \/ RequestFails(r)
      PROVE  content' = approved'
  BY <1>2, Zenon DEF ApprovedInv, ReadBack, Enqueue, EnqueueFails, RequestFails, row, history
<1>3. ASSUME NEW r \in Requests, Revert(r) \/ Unschedule(r) \/ Edit(r) \/ Delete(r) PROVE FALSE
  BY <1>3 DEF Revert, Unschedule, Edit, Delete
<1>4. ASSUME NEW n \in JobIds, Plan(n) \/ PlanFails(n)
      PROVE  content' = approved'
  <2>1. status \notin {"draft", "deleted"} /\ ~strayed
    <3>1. CASE UNCHANGED <<status, strayed>>
      BY <3>1
    <3>2. CASE status # "deleted" /\ Stray(n)
      BY <3>2, Zenon DEF Stray, Due
    <3>3. QED
      BY <1>4, <3>1, <3>2, Zenon DEF Plan, PlanFails
  <2>2. QED
    BY <1>4, <2>1, Zenon DEF ApprovedInv, Plan, PlanFails
<1>5. ASSUME NEW n \in JobIds, Fire(n) \/ Deliver(n)
      PROVE  content' = approved'
  BY <1>5 DEF ApprovedInv, Fire, Deliver, row, history
<1>6. CASE Tick \/ UNCHANGED vars
  BY <1>6 DEF ApprovedInv, Tick, vars, row, history
<1>7. QED
  BY <1>1, <1>2, <1>3, <1>4, <1>5, <1>6, Zenon DEF Next, Continue, Work

-----------------------------------------------------------------------------
(* The theorems                                                            *)

LEMMA Initially == Init => IInv
<1> SUFFICES ASSUME Init PROVE IInv
  OBVIOUS
<1>1. 0 \in 0 .. MaxTime /\ 0 \in 0 .. MaxEdits /\ 0 \in 0 .. MaxFaults
  BY BoundsAssumption
<1>2. /\ request \in [Requests -> RequestStates]
      /\ job \in [JobIds -> JobStates]
  BY DEF Init, Idle, NoJob, RequestStates, JobStates
<1>3. TypeOK
  BY <1>1, <1>2, Zenon DEF Init, TypeOK, Unsent, RequestStates, JobStates
<1>4. ScheduledInv /\ SendingInv /\ ApprovedInv
  BY DEF Init, ScheduledInv, SendingInv, ApprovedInv
<1>5. QED
  BY <1>3, <1>4 DEF IInv

LEMMA Inductive == IInv /\ [Next]_vars => IInv'
  BY TypeStep, ScheduledStep, SendingStep, ApprovedStep DEF IInv

LEMMA Invariance == Spec => []IInv
<1>1. QED
  BY Initially, Inductive, PTL DEF Spec

\* The schedule is there exactly while the Broadcast is scheduled, and every
\* request and job is at one of its statements with one of the times.
THEOREM TypeCorrect == Spec => []TypeOK
<1>1. IInv => TypeOK
  BY DEF IInv
<1>2. QED
  BY <1>1, Invariance, PTL

\* However requests claim, revert, reschedule and unschedule a Broadcast while
\* its delayed jobs fire, a scheduled one has a job that is bound to exactly its
\* schedule, or a request that will still queue it or revert (unless a request
\* was cut short in between).
THEOREM ScheduledHasItsJob == Spec => []ScheduledHasJob
<1>1. IInv => ScheduledHasJob
  BY DEF IInv, ScheduledInv, ScheduledHasJob, Behind, Busy, Live
<1>2. QED
  BY <1>1, Invariance, PTL

\* A Broadcast that is sending has a job or a request to move it on, unless a
\* request was cut short, a superseded plan set it to sending, or a delivery
\* ended with a recipient pending, where Finalize writes nothing.
THEOREM SendingIsWorkedOn == Spec => []SendingHasWork
<1>1. IInv => SendingHasWork
  BY DEF IInv, SendingInv, SendingHasWork, HasWork, Busy
<1>2. QED
  BY <1>1, Invariance, PTL

\* What goes out is the content the last Send or Schedule approved: no edit
\* reaches a Broadcast between its approval and its end, whatever is retried,
\* unless a superseded plan sent it.
THEOREM ApprovedIsSent == Spec => []SendsWhatWasApproved
<1>1. IInv => SendsWhatWasApproved
  BY DEF IInv, ApprovedInv, SendsWhatWasApproved
<1>2. QED
  BY <1>1, Invariance, PTL
=============================================================================
