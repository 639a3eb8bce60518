--------------------------- MODULE AutomationRuns ---------------------------
(***************************************************************************)
(* One Contact's Enrollments (internal/automations) and the jobs that      *)
(* start them and walk them (internal/jobs/automation.go).  A trigger job  *)
(* enrolls the Contact in every active Automation and then queues a step   *)
(* job per new run; a step job executes the run's current step, advances   *)
(* the run and queues its successor, each in a statement of its own.  Both *)
(* are retried from the start after an error or a crash.  Times are timers *)
(* that count down: what is left of a wait, and of a job's delay.          *)
(***************************************************************************)
EXTENDS Naturals, Sequences, FiniteSets

CONSTANTS
  Automations,  \* the Workspace's Automations with the trigger's event
  Definitions,  \* the sequences of steps an Automation may be given
  Triggers,     \* trigger jobs: the Events that fire the trigger
  Jobs,         \* places for step jobs in the queue
  Gone,         \* the run of a step job, once deleted
  MaxFaults     \* bound: errors and crashes in a run

Kinds == {"email", "wait", "tag"}

ASSUME DefinitionsAssumption == Definitions \subseteq Seq(Kinds) /\ <<>> \in Definitions
\* A longest one: the server caps the body of the request that carries it.
ASSUME LongestAssumption == \E d \in Definitions : \A e \in Definitions : Len(e) <= Len(d)
ASSUME GoneAssumption == Gone \notin Automations
ASSUME FaultsAssumption == MaxFaults \in Nat

VARIABLES
  contact,      \* the Contact: "reachable", "mute" (no email address), "erased"
  automation,   \* automation[a]: its status and its definition
  run,          \* run[a]: the Contact's AutomationRun in a
  log,          \* log[a]: what the steps of that run did, <<step, effect>>
  optedOut,     \* Automations the Contact unsubscribed from
  trigger,      \* trigger[t]: the state of a trigger job
  job,          \* job[j]: the step job in place j
  faults,       \* faults so far
  lost,         \* history: runs whose next job was given up
  retried,      \* history: runs with a job retried after it advanced the run
  late          \* history: runs whose INSERT was under way when the Contact was erased

vars == <<contact, automation, run, log, optedOut, trigger, job, faults, lost, retried, late>>
history == <<lost, retried, late>>
world == <<contact, automation, optedOut>>

NoRun == [status |-> "none", step |-> 0, left |-> 0]
NewRun == [status |-> "active", step |-> 0, left |-> 0]
NoJob == [pc |-> "none", run |-> Gone, delay |-> 0, step |-> 0]
Idle == [pc |-> "queued", todo |-> {}, made |-> {}, at |-> Gone]

\* The delay of a wait step, of a Held and of a Deferral: one tick.
Delay == 1

Length == Len(CHOOSE d \in Definitions : \A e \in Definitions : Len(e) <= Len(d))

Active(a) == run[a].status = "active"

TypeOK ==
  /\ contact \in {"reachable", "mute", "erased"}
  /\ automation \in [Automations ->
       [status : {"draft", "active", "deleted"}, steps : Definitions]]
  /\ run \in [Automations ->
       [status : {"none", "active", "completed", "failed", "exited"},
        step : 0 .. Length, left : 0 .. Delay]]
  /\ log \in [Automations ->
       SUBSET ((0 .. Length) \X {"sent", "skipped", "failed", "tag", "wait"})]
  /\ optedOut \subseteq Automations
  /\ trigger \in [Triggers ->
       [pc : {"queued", "enroll", "insert", "enqueue", "ended"},
        todo : SUBSET Automations, made : SUBSET Automations, at : Automations \cup {Gone}]]
  /\ job \in [Jobs ->
       [pc : {"none", "queued", "step", "advance", "exit", "fail", "enqueue", "complete"},
        run : Automations \cup {Gone}, delay : 0 .. Delay, step : 0 .. Length]]
  /\ \A a \in Automations : run[a] = NoRun => log[a] = {}
  /\ faults \in 0 .. MaxFaults
  /\ lost \subseteq Automations /\ retried \subseteq Automations /\ late \subseteq Automations

Init ==
  /\ contact \in {"reachable", "mute"}
  /\ automation \in [Automations -> [status : {"active"}, steps : Definitions]]
  /\ run = [a \in Automations |-> NoRun] /\ log = [a \in Automations |-> {}]
  /\ optedOut = {}
  /\ trigger = [t \in Triggers |-> Idle]
  /\ job = [j \in Jobs |-> NoJob]
  /\ faults = 0 /\ lost = {} /\ retried = {} /\ late = {}

Fault == faults < MaxFaults /\ faults' = faults + 1

-----------------------------------------------------------------------------
(* The trigger job: EvaluateTriggerWorker, EvaluateTrigger and Enroll.     *)

TriggerAt(t, statement) == trigger[t].pc = statement

\* The job starts over; what it enrolled before counts as enrolled already.
Restart(t) ==
  /\ trigger' = [trigger EXCEPT ![t] = Idle]
  /\ lost' = lost \cup trigger[t].made
  /\ UNCHANGED <<retried, late>>

\* The Contact is loaded, then the Automations that are active.
Load(t) ==
  /\ TriggerAt(t, "queued")
  /\ trigger' = [trigger EXCEPT ![t] =
       IF contact = "erased" THEN [Idle EXCEPT !.pc = "ended"]
       ELSE [Idle EXCEPT !.pc = "enroll",
                         !.todo = {a \in Automations : automation[a].status = "active"}]]
  /\ UNCHANGED <<world, run, log, job, faults, history>>

\* Mutant of Look: the Contact is not checked.
LookUnchecked(t, a) ==
  /\ TriggerAt(t, "enroll") /\ a \in trigger[t].todo
  /\ trigger' = [trigger EXCEPT ![t].todo = @ \ {a},
       ![t].pc = IF run[a] # NoRun THEN @ ELSE "insert",
       ![t].at = IF run[a] # NoRun THEN @ ELSE a]
  /\ UNCHANGED <<world, run, log, job, faults, history>>

\* Enroll: is there a run already? If not, both references are checked before
\* the INSERT, and one that is missing is an error.
Look(t, a) ==
  /\ TriggerAt(t, "enroll") /\ a \in trigger[t].todo
  /\ \/ /\ run[a] # NoRun
        /\ trigger' = [trigger EXCEPT ![t].todo = @ \ {a}]
        /\ UNCHANGED history
     \/ /\ run[a] = NoRun /\ (contact = "erased" \/ automation[a].status = "deleted")
        /\ Restart(t)
     \/ /\ run[a] = NoRun /\ contact # "erased" /\ automation[a].status # "deleted"
        /\ trigger' = [trigger EXCEPT ![t].pc = "insert", ![t].todo = @ \ {a}, ![t].at = a]
        /\ UNCHANGED history
  /\ UNCHANGED <<world, run, log, job, faults>>

\* Mutant of Insert: a conflict returns the run that is there.
InsertUpserts(t) ==
  /\ TriggerAt(t, "insert") /\ automation[trigger[t].at].status # "deleted"
  /\ LET a == trigger[t].at
     IN  /\ run' = IF run[a] = NoRun THEN [run EXCEPT ![a] = NewRun] ELSE run
         /\ trigger' = [trigger EXCEPT ![t].pc = "enroll", ![t].at = Gone, ![t].made = @ \cup {a}]
  /\ UNCHANGED <<world, log, job, faults, history>>

\* The INSERT: the unique index and the Automation's foreign key make it a
\* lost race; nothing ties it to the Contact.
Insert(t) ==
  /\ TriggerAt(t, "insert")
  /\ LET a == trigger[t].at
         refused == run[a] # NoRun \/ automation[a].status = "deleted"
         back == [trigger[t] EXCEPT !.pc = "enroll", !.at = Gone]
     IN  IF refused
         THEN /\ trigger' = [trigger EXCEPT ![t] = back]
              /\ UNCHANGED run
         ELSE /\ run' = [run EXCEPT ![a] = NewRun]
              /\ trigger' = [trigger EXCEPT ![t] = [back EXCEPT !.made = @ \cup {a}]]
  /\ UNCHANGED <<world, log, job, faults, history>>

\* All are enrolled: from here on the job only queues the runs' first steps.
Enrolled(t) ==
  /\ TriggerAt(t, "enroll") /\ trigger[t].todo = {}
  /\ trigger' = [trigger EXCEPT ![t].pc = IF trigger[t].made = {} THEN "ended" ELSE "enqueue"]
  /\ UNCHANGED <<world, run, log, job, faults, history>>

Free(j) == job[j] = NoJob
StepJob(a, delay) == [pc |-> "queued", run |-> a, delay |-> delay, step |-> 0]

StartRun(t, a) ==
  /\ TriggerAt(t, "enqueue") /\ a \in trigger[t].made
  /\ \E j \in Jobs : Free(j) /\ job' = [job EXCEPT ![j] = StepJob(a, 0)]
  /\ trigger' = [trigger EXCEPT ![t].made = @ \ {a},
                                ![t].pc = IF trigger[t].made = {a} THEN "ended" ELSE @]
  /\ UNCHANGED <<world, run, log, faults, history>>

\* A statement fails, or the process dies: the queue retries the job.
InterruptTrigger(t) ==
  /\ trigger[t].pc \in {"enroll", "insert", "enqueue"} /\ Fault
  /\ Restart(t)
  /\ UNCHANGED <<world, run, log, job>>

-----------------------------------------------------------------------------
(* The step job: RunStepWorker and RunStep.                                *)

JobAt(j, statement) == job[j].pc = statement
Found(j) == job[j].run # Gone /\ run[job[j].run] # NoRun

Goto(j, statement) == job' = [job EXCEPT ![j].pc = statement]
GotoEnqueue(j, delay) == job' = [job EXCEPT ![j].pc = "enqueue", ![j].delay = delay]
End(j) == job' = [job EXCEPT ![j] = NoJob]
Requeue(j) == job' = [job EXCEPT ![j] = StepJob(job[j].run, 0)]

\* The run is read; a run that is gone or has ended ends the chain of jobs.
ReadRun(j) ==
  /\ JobAt(j, "queued") /\ job[j].delay = 0
  /\ IF Found(j) /\ Active(job[j].run)
     THEN job' = [job EXCEPT ![j].pc = "step", ![j].step = run[job[j].run].step]
     ELSE End(j)
  /\ UNCHANGED <<world, run, log, trigger, faults, history>>

\* The run is deleted under the job: the next statement fails, the job is
\* retried and finds nothing.
RunVanishes(j) ==
  /\ job[j].pc \in {"step", "advance", "exit", "fail"} /\ ~Found(j)
  /\ Requeue(j)
  /\ UNCHANGED <<world, run, log, trigger, faults, history>>

\* The step the job read, by the definition as it is now.
Past(j) == JobAt(j, "step") /\ Found(j) /\ job[j].step >= Len(automation[job[j].run].steps)
At(j, kind) ==
  /\ JobAt(j, "step") /\ Found(j) /\ ~Past(j)
  /\ automation[job[j].run].steps[job[j].step + 1] = kind

Record(j, effect) == log' = [log EXCEPT ![job[j].run] = @ \cup {<<job[j].step, effect>>}]

\* A status written by id, whatever the run has become. An error is ignored:
\* the job is done and the run stays as it is.
EndRun(j, status) ==
  /\ \/ /\ run' = [run EXCEPT ![job[j].run].status = status, ![job[j].run].left = 0]
        /\ UNCHANGED <<faults, lost>>
     \/ /\ Fault /\ lost' = lost \cup {job[j].run}
        /\ UNCHANGED run
  /\ End(j)
  /\ UNCHANGED <<world, log, trigger, retried, late>>

CompleteRun(j) ==
  /\ Past(j) \/ (At(j, "email") /\ contact = "mute")
  /\ EndRun(j, "completed")

\* Mutant of WaitStep: the next step's job is due at once.
WaitStepNow(j) ==
  /\ At(j, "wait")
  /\ run' = [run EXCEPT ![job[j].run].step = job[j].step + 1, ![job[j].run].left = Delay]
  /\ Record(j, "wait")
  /\ GotoEnqueue(j, 0)
  /\ UNCHANGED <<world, trigger, faults, history>>

\* A wait step advances the run and sets when it resumes in one UPDATE.
WaitStep(j) ==
  /\ At(j, "wait")
  /\ run' = [run EXCEPT ![job[j].run].step = job[j].step + 1, ![job[j].run].left = Delay]
  /\ Record(j, "wait")
  /\ GotoEnqueue(j, Delay)
  /\ UNCHANGED <<world, trigger, faults, history>>

\* A Tag is applied or removed; the run advances in a statement of its own.
TagStep(j) ==
  /\ At(j, "tag") /\ contact # "erased"
  /\ Record(j, "tag")
  /\ Goto(j, "advance")
  /\ UNCHANGED <<world, run, trigger, faults, history>>

\* The Outcome an earlier Send of this step recorded, if any.
Recorded(j) == {o \in {"sent", "skipped", "failed"} : <<job[j].step, o>> \in log[job[j].run]}

\* Mutant of Decide: a skipped email is stepped over.
DecideWalksOn(j) ==
  /\ At(j, "email") /\ contact = "reachable"
  /\ \E outcome \in {"sent", "skipped", "failed"} :
       /\ IF Recorded(j) # {} THEN outcome \in Recorded(j)
          ELSE outcome = "sent" => job[j].run \notin optedOut
       /\ Record(j, outcome)
       /\ Goto(j, IF outcome = "failed" THEN "fail" ELSE "advance")
  /\ UNCHANGED <<world, run, trigger, faults, history>>

\* Send decides, once and for all; it sends nothing to who opted out.
Decide(j) ==
  /\ At(j, "email") /\ contact = "reachable"
  /\ \E outcome \in {"sent", "skipped", "failed"} :
       /\ IF Recorded(j) # {} THEN outcome \in Recorded(j)
          ELSE outcome = "sent" => job[j].run \notin optedOut
       /\ Record(j, outcome)
       /\ Goto(j, CASE outcome = "sent" -> "advance"
                    [] outcome = "skipped" -> "exit"
                    [] outcome = "failed" -> "fail")
  /\ UNCHANGED <<world, run, trigger, faults, history>>

\* Mutant of Defer: the job is done.
DeferEnds(j) ==
  /\ At(j, "email") /\ contact = "reachable" /\ Recorded(j) = {}
  /\ End(j)
  /\ UNCHANGED <<world, run, log, trigger, faults, history>>

\* Held or Deferral: the run stays as it is and another job asks later.
Defer(j) ==
  /\ At(j, "email") /\ contact = "reachable" /\ Recorded(j) = {}
  /\ GotoEnqueue(j, Delay)
  /\ UNCHANGED <<world, run, log, trigger, faults, history>>

\* A run inserted after its Contact was erased: loading the Contact, or giving
\* it a Tag, is an error in every attempt, up to the last.
ContactVanished(j) ==
  /\ At(j, "email") \/ At(j, "tag")
  /\ contact = "erased"
  /\ Requeue(j) \/ End(j)
  /\ UNCHANGED <<world, run, log, trigger, faults, history>>

\* Mutant of Advance: the step is incremented in the database.
AdvanceAdds(j) ==
  /\ JobAt(j, "advance") /\ Found(j)
  /\ run' = [run EXCEPT ![job[j].run].step = @ + 1, ![job[j].run].left = 0]
  /\ GotoEnqueue(j, 0)
  /\ UNCHANGED <<world, log, trigger, faults, history>>

Advance(j) ==
  /\ JobAt(j, "advance") /\ Found(j)
  /\ run' = [run EXCEPT ![job[j].run].step = job[j].step + 1, ![job[j].run].left = 0]
  /\ GotoEnqueue(j, 0)
  /\ UNCHANGED <<world, log, trigger, faults, history>>

\* Skipped: automations.ExitRun.
ExitRun(j) ==
  /\ JobAt(j, "exit") /\ Found(j)
  /\ EndRun(j, "exited")

\* Mutant of FailRun: the error is reported and the status is not written.
FailRunUnwritten(j) ==
  /\ JobAt(j, "fail") /\ Found(j)
  /\ Requeue(j)
  /\ UNCHANGED <<world, run, log, trigger, faults, history>>

\* Failed: the run fails and the job reports an error, to be retried.
FailRun(j) ==
  /\ JobAt(j, "fail") /\ Found(j)
  /\ run' = [run EXCEPT ![job[j].run].status = "failed"]
  /\ Requeue(j)
  /\ UNCHANGED <<world, log, trigger, faults, history>>

Enqueue(j) ==
  /\ JobAt(j, "enqueue")
  /\ \E k \in Jobs :
       /\ Free(k)
       /\ job' = [job EXCEPT ![k] = StepJob(job[j].run, job[j].delay), ![j].pc = "complete"]
  /\ UNCHANGED <<world, run, log, trigger, faults, history>>

Complete(j) ==
  /\ JobAt(j, "complete")
  /\ End(j)
  /\ UNCHANGED <<world, run, log, trigger, faults, history>>

\* A statement fails, its answer is lost, or the process dies.
Interrupt(j) ==
  /\ job[j].pc \notin {"none", "queued"} /\ Fault
  /\ Requeue(j)
  /\ retried' = IF job[j].pc \in {"enqueue", "complete"}
                THEN retried \cup ({job[j].run} \ {Gone}) ELSE retried
  /\ UNCHANGED <<world, run, log, trigger, lost, late>>

-----------------------------------------------------------------------------
(* The rest of the Workspace.                                              *)

\* The link of an email of this Automation: the opt-out and Exit, which ends
\* an active run only, in one transaction.
Unsubscribe(a) ==
  /\ a \notin optedOut /\ \E i \in 0 .. Length : <<i, "sent">> \in log[a]
  /\ optedOut' = optedOut \cup {a}
  /\ run' = IF Active(a) THEN [run EXCEPT ![a].status = "exited", ![a].left = 0] ELSE run
  /\ UNCHANGED <<contact, automation, log, trigger, job, faults, history>>

Activate(a) ==
  /\ automation[a].status = "draft"
  /\ automation' = [automation EXCEPT ![a].status = "active"]
  /\ UNCHANGED <<contact, run, log, optedOut, trigger, job, faults, history>>

Deactivate(a) ==
  /\ automation[a].status = "active"
  /\ automation' = [automation EXCEPT ![a].status = "draft"]
  /\ UNCHANGED <<contact, run, log, optedOut, trigger, job, faults, history>>

Update(a) ==
  /\ automation[a].status # "deleted"
  /\ \E d \in Definitions : automation' = [automation EXCEPT ![a].steps = d]
  /\ UNCHANGED <<contact, run, log, optedOut, trigger, job, faults, history>>

\* Deleting an Automation deletes its runs (ON DELETE CASCADE).
Delete(a) ==
  /\ automation[a].status # "deleted"
  /\ automation' = [automation EXCEPT ![a].status = "deleted"]
  /\ run' = [run EXCEPT ![a] = NoRun] /\ log' = [log EXCEPT ![a] = {}]
  /\ UNCHANGED <<contact, optedOut, trigger, job, faults, history>>

\* An Erasure deletes the runs and the jobs that are not running. A trigger
\* job under way would still queue steps of runs that are gone: left out.
Erase ==
  /\ contact # "erased" /\ contact' = "erased"
  /\ run' = [a \in Automations |-> NoRun] /\ log' = [a \in Automations |-> {}]
  /\ optedOut' = {}
  /\ trigger' = [t \in Triggers |->
       IF TriggerAt(t, "queued") THEN [Idle EXCEPT !.pc = "ended"]
       ELSE [trigger[t] EXCEPT !.made = {}]]
  /\ job' = [j \in Jobs |-> IF JobAt(j, "queued") THEN NoJob ELSE [job[j] EXCEPT !.run = Gone]]
  /\ lost' = {} /\ retried' = {}
  /\ late' = {trigger[t].at : t \in {u \in Triggers : TriggerAt(u, "insert")}}
  /\ UNCHANGED <<automation, faults>>

Less(n) == IF n = 0 THEN 0 ELSE n - 1
Timing == (\E a \in Automations : run[a].left > 0) \/ (\E j \in Jobs : job[j].delay > 0)

\* One tick for all timers; the delay of a job still to be queued is a time too.
Tick ==
  /\ Timing
  /\ run' = [a \in Automations |-> [run[a] EXCEPT !.left = Less(@)]]
  /\ job' = [j \in Jobs |-> [job[j] EXCEPT !.delay = Less(@)]]
  /\ UNCHANGED <<world, log, trigger, faults, history>>

-----------------------------------------------------------------------------

Trigger(t) ==
  \/ Load(t) \/ Insert(t) \/ Enrolled(t)
  \/ \E a \in Automations : Look(t, a) \/ StartRun(t, a)

Step(j) ==
  \/ ReadRun(j) \/ RunVanishes(j) \/ CompleteRun(j) \/ WaitStep(j) \/ TagStep(j)
  \/ Decide(j) \/ Defer(j) \/ ContactVanished(j)
  \/ Advance(j) \/ ExitRun(j) \/ FailRun(j) \/ Enqueue(j) \/ Complete(j)

Workspace ==
  \/ \E a \in Automations :
       Unsubscribe(a) \/ Activate(a) \/ Deactivate(a) \/ Update(a) \/ Delete(a)
  \/ Erase

Next ==
  \/ \E t \in Triggers : Trigger(t) \/ InterruptTrigger(t)
  \/ \E j \in Jobs : Step(j) \/ Interrupt(j)
  \/ Workspace
  \/ Tick

Spec == Init /\ [][Next]_vars

\* The queue runs the jobs that are due, calls under way go on, a send that is
\* held or deferred is decided in the end, and time passes.
FairSpec ==
  /\ Spec
  /\ \A t \in Triggers : WF_vars(Trigger(t))
  /\ \A j \in Jobs : WF_vars(Step(j)) /\ SF_vars(Decide(j))
  /\ WF_vars(Tick)

-----------------------------------------------------------------------------
(* Properties.                                                             *)

\* A job that will look at the run again, or is about to queue one that will.
Walks(j, a) == job[j].run = a /\ job[j].pc \notin {"none", "complete"}
Starts(t, a) == a \in trigger[t].made
Walked(a) == (\E j \in Jobs : Walks(j, a)) \/ (\E t \in Triggers : Starts(t, a))

\* An active Enrollment has a job to walk it, unless the job that enrolled it
\* was retried before it queued the first step, or a write that was to end the
\* run failed and the error was ignored.
ActiveIsWalked ==
  \A a \in Automations : Active(a) /\ contact # "erased" => Walked(a) \/ a \in lost

\* One job at a time walks an Enrollment, until one is retried after it
\* queued its successor.
OneWalker ==
  \A a \in Automations \ retried :
    /\ Cardinality({j \in Jobs : Walks(j, a)})
         + Cardinality({t \in Triggers : Starts(t, a)}) <= 1

\* No step is skipped: every step before the current one took effect, whatever
\* was retried and however the jobs of a forked chain overtake one another.
NoStepSkipped ==
  \A a \in Automations : \A i \in 0 .. run[a].step - 1 :
    \E effect \in {"sent", "tag", "wait"} : <<i, effect>> \in log[a]

\* A wait is waited out: the step after it takes effect only once it is over,
\* unless a job of the run was retried after it advanced the run.
WaitsAreWaited ==
  [][\A a \in Automations :
       log'[a] \notin {log[a], {}} /\ run[a].left > 0 => a \in retried]_vars

\* A run inserted for a Contact that is erased passed its reference check
\* before the Erasure; no other Enrollment outlives its Contact.
OnlyLateRunsOutlive ==
  contact = "erased" => \A a \in Automations : run[a] = NoRun \/ a \in late

\* Every Enrollment comes to an end: completed, exited, failed or deleted. The
\* exceptions are the stranded ones and those of an erased Contact.
EnrollmentEnds ==
  \A a \in Automations :
    Active(a) ~> (~Active(a) \/ a \in lost \/ contact = "erased")

-----------------------------------------------------------------------------
(* Promises of the documents that the code does not keep; the README says  *)
(* how each one is broken.                                                 *)

\* "the Contact is enrolled and walks the Automation's ordered steps"
\* (GLOSSARY.md): an active Enrollment has a job to walk it, at the latest
\* when every trigger job has done its work.  The code does not keep this: a
\* trigger job that dies between enrolling and enqueuing finds the Contact
\* enrolled when it is retried, and enqueues nothing.
NeverStranded ==
  \A a \in Automations :
    Active(a) /\ contact # "erased" =>
      Walked(a) \/ \E t \in Triggers : ~TriggerAt(t, "ended")
=============================================================================
