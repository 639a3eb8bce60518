------------------------ MODULE AutomationRunsProofs ------------------------
(***************************************************************************)
(* What the Enrollments of a Contact keep, for any number of Automations,  *)
(* definitions, trigger jobs, places in the queue and failures.            *)
(***************************************************************************)
EXTENDS AutomationRuns, FiniteSetTheorems, TLAPS

\* A run that is not there has nothing left, and a place without a job has no
\* run; a trigger job holds an Automation only while it inserts its run, and
\* owes runs a job only while it is at work; a step that is to be advanced past
\* is one of a definition.
Shape ==
  /\ \A a \in Automations : run[a].status = "none" => run[a] = NoRun
  /\ \A j \in Jobs : JobAt(j, "none") => job[j] = NoJob
  /\ \A j \in Jobs : JobAt(j, "advance") => job[j].step < Length
  /\ \A t \in Triggers : TriggerAt(t, "insert") => trigger[t].at # Gone
  /\ \A t \in Triggers : trigger[t].pc \in {"queued", "ended"} => trigger[t].made = {}

\* Before there is a run, nobody names it.
Unnamed ==
  \A a \in Automations :
    run[a] = NoRun /\ automation[a].status # "deleted" =>
      /\ \A j \in Jobs : job[j].run # a
      /\ \A t \in Triggers : ~Starts(t, a)

\* OneWalker without its cardinalities.
Alone ==
  \A a \in Automations \ retried :
    /\ \A j \in Jobs, k \in Jobs : Walks(j, a) /\ Walks(k, a) => j = k
    /\ \A t \in Triggers, u \in Triggers : Starts(t, a) /\ Starts(u, a) => t = u
    /\ \A j \in Jobs, t \in Triggers : ~(Walks(j, a) /\ Starts(t, a))

\* Step i of the run in a took effect.
Took(a, i) == \E effect \in {"sent", "tag", "wait"} : <<i, effect>> \in log[a]

\* What a job has read of its run is behind the run or on the way to it: every
\* step before the job's took effect, and the job's own before it is advanced.
ReadIsTrue ==
  \A a \in Automations, j \in Jobs :
    run[a] # NoRun /\ job[j].run = a =>
      /\ job[j].pc \in {"step", "advance"} => \A i \in 0 .. job[j].step - 1 : Took(a, i)
      /\ JobAt(j, "advance") => Took(a, job[j].step)

\* After the Erasure only the INSERTs that were under way are left.
LateInserts ==
  contact = "erased" => \A t \in Triggers : TriggerAt(t, "insert") => trigger[t].at \in late

\* While a run waits, nobody looks at it before the wait is over.
WaitIsKept ==
  \A a \in Automations \ retried :
    run[a].left > 0 =>
      /\ \A j \in Jobs : Walks(j, a) => job[j].pc \in {"enqueue", "queued"} /\ run[a].left <= job[j].delay
      /\ \A t \in Triggers : ~Starts(t, a)

IInv ==
  /\ TypeOK /\ Shape /\ Unnamed /\ Alone /\ ActiveIsWalked /\ ReadIsTrue /\ NoStepSkipped
  /\ LateInserts /\ OnlyLateRunsOutlive /\ WaitIsKept

-----------------------------------------------------------------------------
(* The pieces of the type invariant and the operators on them              *)

RunStates == [status : {"none", "active", "completed", "failed", "exited"},
              step : 0 .. Length, left : 0 .. Delay]
LogStates == SUBSET ((0 .. Length) \X {"sent", "skipped", "failed", "tag", "wait"})
TriggerStates == [pc : {"queued", "enroll", "insert", "enqueue", "ended"},
                  todo : SUBSET Automations, made : SUBSET Automations, at : Automations \cup {Gone}]
JobStates == [pc : {"none", "queued", "step", "advance", "exit", "fail", "enqueue", "complete"},
              run : Automations \cup {Gone}, delay : 0 .. Delay, step : 0 .. Length]

LEMMA LengthBounds ==
  /\ Length \in Nat
  /\ \A d \in Definitions : Len(d) \in Nat /\ Len(d) <= Length
<1> DEFINE longest == CHOOSE d \in Definitions : \A e \in Definitions : Len(e) <= Len(d)
<1>1. longest \in Definitions /\ \A e \in Definitions : Len(e) <= Len(longest)
  BY LongestAssumption
<1>2. \A d \in Definitions : Len(d) \in Nat
  BY DefinitionsAssumption
<1>3. Length = Len(longest)
  BY DEF Length
<1> HIDE DEF longest
<1>4. QED
  BY <1>1, <1>2, <1>3

LEMMA Types ==
  ASSUME TypeOK
  PROVE  /\ run \in [Automations -> RunStates] /\ log \in [Automations -> LogStates]
         /\ trigger \in [Triggers -> TriggerStates] /\ job \in [Jobs -> JobStates]
  BY DEF TypeOK, RunStates, LogStates, TriggerStates, JobStates

LEMMA Constants0 == /\ NoRun \in RunStates /\ NewRun \in RunStates /\ NoRun # NewRun
                    /\ NoJob \in JobStates /\ Idle \in TriggerStates
                    /\ \A a \in Automations \cup {Gone}, n \in 0 .. Delay : StepJob(a, n) \in JobStates
  BY LengthBounds DEF NoRun, NewRun, NoJob, Idle, StepJob, Delay, RunStates, JobStates, TriggerStates

LEMMA FaultOK == ASSUME TypeOK, Fault PROVE faults' \in 0 .. MaxFaults
  BY FaultsAssumption DEF TypeOK, Fault

\* A job leaves its place.
LEMMA Ends ==
  ASSUME job \in [Jobs -> JobStates], NEW j \in Jobs, End(j)
  PROVE  /\ job' \in [Jobs -> JobStates]
         /\ \A k \in Jobs : k # j => job'[k] = job[k]
         /\ job'[j] = NoJob
  BY Constants0 DEF End

\* A job goes to another statement.
LEMMA Goes ==
  ASSUME job \in [Jobs -> JobStates], NEW j \in Jobs,
         NEW pc \in {"step", "advance", "exit", "fail", "enqueue", "complete"}, Goto(j, pc)
  PROVE  /\ job' \in [Jobs -> JobStates]
         /\ \A k \in Jobs : k # j => job'[k] = job[k]
         /\ job'[j].pc = pc /\ job'[j].run = job[j].run
         /\ job'[j].step = job[j].step /\ job'[j].delay = job[j].delay
  BY DEF Goto, JobStates

LEMMA GoesToEnqueue ==
  ASSUME job \in [Jobs -> JobStates], NEW j \in Jobs, NEW n \in 0 .. Delay, GotoEnqueue(j, n)
  PROVE  /\ job' \in [Jobs -> JobStates]
         /\ \A k \in Jobs : k # j => job'[k] = job[k]
         /\ job'[j].pc = "enqueue" /\ job'[j].run = job[j].run /\ job'[j].delay = n
  BY DEF GotoEnqueue, JobStates

\* A job is retried from its start.
LEMMA Requeues ==
  ASSUME job \in [Jobs -> JobStates], NEW j \in Jobs, Requeue(j)
  PROVE  /\ job' \in [Jobs -> JobStates]
         /\ \A k \in Jobs : k # j => job'[k] = job[k]
         /\ job'[j].pc = "queued" /\ job'[j].run = job[j].run
<1>1. job[j].run \in Automations \cup {Gone} /\ 0 \in 0 .. Delay
  BY DEF JobStates, Delay
<1>2. StepJob(job[j].run, 0) \in JobStates
  BY <1>1, Constants0
<1>3. job' = [job EXCEPT ![j] = StepJob(job[j].run, 0)]
  BY DEF Requeue
<1>4. QED
  BY <1>2, <1>3 DEF StepJob

\* What a step did is added to its run's log.
LEMMA Records ==
  ASSUME TypeOK, NEW j \in Jobs, job[j].run # Gone,
         NEW effect \in {"sent", "skipped", "failed", "tag", "wait"}, Record(j, effect)
  PROVE  /\ job[j].run \in Automations
         /\ log' \in [Automations -> LogStates]
         /\ \A a \in Automations : a # job[j].run => log'[a] = log[a]
         /\ log'[job[j].run] = log[job[j].run] \cup {<<job[j].step, effect>>}
<1>1. job[j].run \in Automations /\ job[j].step \in 0 .. Length
  BY Types DEF JobStates
<1>2. log' = [log EXCEPT ![job[j].run] = log[job[j].run] \cup {<<job[j].step, effect>>}]
  BY DEF Record
<1>3. log[job[j].run] \cup {<<job[j].step, effect>>} \in LogStates
  BY <1>1, Types DEF LogStates
<1>4. QED
  BY <1>1, <1>2, <1>3, Types

\* A run moves to another step.
Move(a, s, n) == run' = [run EXCEPT ![a].step = s, ![a].left = n]

LEMMA Moves ==
  ASSUME TypeOK, NEW a \in Automations, NEW s \in 0 .. Length, NEW n \in 0 .. Delay, Move(a, s, n)
  PROVE  /\ run' \in [Automations -> RunStates]
         /\ \A b \in Automations : b # a => run'[b] = run[b]
         /\ run'[a].status = run[a].status /\ run'[a].step = s /\ run'[a].left = n
<1>1. run \in [Automations -> RunStates]
  BY Types
<1>2. run[a] \in RunStates
  BY <1>1
<1>3. run'[a] = [status |-> run[a].status, step |-> s, left |-> n]
  BY <1>1, <1>2 DEF RunStates, Move
<1>4. run'[a] \in RunStates
  BY <1>2, <1>3 DEF RunStates, Delay
<1>5. \A b \in Automations : b # a => run'[b] = run[b]
  BY <1>1 DEF Move
<1>6. run' \in [Automations -> RunStates]
  BY <1>1, <1>4, <1>5 DEF Move
<1>7. QED
  BY <1>3, <1>5, <1>6

LEMMA Closes ==
  ASSUME TypeOK, NEW a \in Automations, NEW s \in {"completed", "exited"},
         run' = [run EXCEPT ![a].status = s, ![a].left = 0]
  PROVE  /\ run' \in [Automations -> RunStates]
         /\ \A b \in Automations : b # a => run'[b] = run[b]
         /\ run'[a].status = s /\ run'[a].step = run[a].step /\ run'[a].left = 0
<1>1. run \in [Automations -> RunStates]
  BY Types
<1>2. run[a] \in RunStates
  BY <1>1
<1>3. run'[a] = [status |-> s, step |-> run[a].step, left |-> 0]
  BY <1>1, <1>2 DEF RunStates
<1>4. run'[a] \in RunStates
  BY <1>2, <1>3 DEF RunStates, Delay
<1>5. \A b \in Automations : b # a => run'[b] = run[b]
  BY <1>1
<1>6. run' \in [Automations -> RunStates]
  BY <1>1, <1>4, <1>5
<1>7. QED
  BY <1>3, <1>5, <1>6

-----------------------------------------------------------------------------
(* What a statement of a step job does, but for Enqueue                    *)

Typed ==
  /\ job' \in [Jobs -> JobStates] /\ run' \in [Automations -> RunStates]
  /\ log' \in [Automations -> LogStates] /\ faults' \in 0 .. MaxFaults

\* The job of another place and the run of another Automation stay.
OnlyMine(j) ==
  /\ UNCHANGED <<world, trigger, retried, late>>
  /\ lost \subseteq lost' /\ lost' \subseteq Automations
  /\ \A k \in Jobs : k # j => job'[k] = job[k]
  /\ \A a \in Automations : a # job[j].run => run'[a] = run[a] /\ log'[a] = log[a]

\* The job ends or goes on with its run.
JobGoesOn(j) ==
  /\ ~JobAt(j, "none")
  /\ \/ job'[j] = NoJob
     \/ ~JobAt(j, "complete") /\ job'[j].run = job[j].run /\ job'[j].pc \notin {"none", "complete"}
  /\ job'[j].pc = "advance" => job'[j].step < Length

\* A run is not made, nor made active again, and a job that ends leaves an active
\* one to another job or among the lost.
RunGoesOn(j, a) ==
  /\ run[a].status = "none" => run'[a] = run[a] /\ log'[a] = log[a]
  /\ run'[a].status = "none" => run[a].status = "none"
  /\ run'[a].status = "active" => Active(a)
  /\ job'[j] = NoJob /\ ~JobAt(j, "complete") /\ run'[a].status = "active" /\ contact # "erased"
       => a \in lost'
  /\ JobAt(j, "complete") => run'[a] = run[a]

TookNow(a, i) == \E effect \in {"sent", "tag", "wait"} : <<i, effect>> \in log'[a]

LogGoesOn(j, a) ==
  /\ log[a] \subseteq log'[a]
  /\ job'[j].pc \in {"step", "advance"} /\ run[a] # NoRun =>
       \A i \in 0 .. job'[j].step - 1 : TookNow(a, i)
  /\ job'[j].pc = "advance" /\ run[a] # NoRun => TookNow(a, job'[j].step)
  /\ \A i \in 0 .. run'[a].step - 1 : TookNow(a, i)

WaitGoesOn(j, a) ==
  a \notin retried /\ run'[a].left > 0 =>
    job'[j] = NoJob \/ (job'[j].pc \in {"enqueue", "queued"} /\ run'[a].left <= job'[j].delay)

Effect(j) ==
  /\ Typed /\ OnlyMine(j) /\ JobGoesOn(j)
  /\ job[j].run \in Automations =>
       RunGoesOn(j, job[j].run) /\ LogGoesOn(j, job[j].run) /\ WaitGoesOn(j, job[j].run)

\* A run whose job is past the wait is not waiting.
LEMMA NotWaiting ==
  ASSUME TypeOK, WaitIsKept, NEW j \in Jobs, job[j].run \in Automations, job[j].run \notin retried,
         \/ job[j].pc \in {"step", "advance", "exit", "fail"}
         \/ JobAt(j, "queued") /\ job[j].delay = 0
  PROVE  run[job[j].run].left = 0
<1>1. run[job[j].run].left \in Nat
  BY Types DEF RunStates, Delay
<1>2. ~(run[job[j].run].left > 0)
  BY <1>1 DEF WaitIsKept, Walks, JobAt
<1>3. QED
  BY <1>1, <1>2

\* Steps that leave runs and logs alone.
LEMMA QuietEffect ==
  ASSUME IInv, NEW j \in Jobs, ReadRun(j) \/ RunVanishes(j) \/ Defer(j) \/ ContactVanished(j) \/ Complete(j)
  PROVE  Effect(j)
<1>t. /\ run \in [Automations -> RunStates] /\ log \in [Automations -> LogStates]
      /\ job \in [Jobs -> JobStates] /\ faults \in 0 .. MaxFaults /\ lost \subseteq Automations
      /\ TypeOK /\ WaitIsKept
  BY Types DEF IInv, TypeOK
<1>1. UNCHANGED <<world, run, log, trigger, faults, history>>
  BY DEF ReadRun, RunVanishes, Defer, ContactVanished, Complete
<1>2. CASE End(j) /\ ~JobAt(j, "none")
           /\ (JobAt(j, "complete") \/ contact = "erased" \/ ~Found(j) \/ ~Active(job[j].run))
  <2>1. /\ job' \in [Jobs -> JobStates] /\ job'[j] = NoJob
        /\ \A k \in Jobs : k # j => job'[k] = job[k]
    BY <1>t, <1>2, Ends
  <2>2. ASSUME job[j].run \in Automations, ~Found(j) PROVE run[job[j].run].status = "none"
    BY <2>2, GoneAssumption DEF Found, NoRun
  <2>3. ASSUME NEW a \in Automations, a = job[j].run
        PROVE  RunGoesOn(j, a) /\ LogGoesOn(j, a) /\ WaitGoesOn(j, a)
    BY <1>1, <1>2, <2>1, <2>2, <2>3
       DEF IInv, NoStepSkipped, Active, RunGoesOn, LogGoesOn, WaitGoesOn, TookNow, NoJob
  <2>4. QED
    BY <1>1, <1>t, <1>2, <2>1, <2>3 DEF Effect, Typed, OnlyMine, JobGoesOn, NoJob, history
<1>3. CASE Requeue(j) /\ job[j].pc \in {"step", "advance", "exit", "fail"}
  <2>1. /\ job' \in [Jobs -> JobStates] /\ job'[j].pc = "queued" /\ job'[j].run = job[j].run
        /\ \A k \in Jobs : k # j => job'[k] = job[k]
        /\ job'[j] # NoJob
    BY <1>t, <1>3, Requeues DEF NoJob
  <2>2. ASSUME NEW a \in Automations, a = job[j].run
        PROVE  RunGoesOn(j, a) /\ LogGoesOn(j, a) /\ WaitGoesOn(j, a)
    <3>1. a \notin retried => run[a].left = 0
      BY <1>t, <1>3, <2>2, NotWaiting
    <3>2. QED
      BY <1>1, <2>1, <2>2, <3>1
         DEF IInv, NoStepSkipped, Active, RunGoesOn, LogGoesOn, WaitGoesOn, TookNow
  <2>3. QED
    BY <1>1, <1>t, <1>3, <2>1, <2>2 DEF Effect, Typed, OnlyMine, JobGoesOn, JobAt, history
<1>4. CASE Defer(j)
  <2>1. /\ job' \in [Jobs -> JobStates] /\ job'[j].pc = "enqueue" /\ job'[j].run = job[j].run
        /\ \A k \in Jobs : k # j => job'[k] = job[k]
        /\ job'[j] # NoJob /\ JobAt(j, "step")
    BY <1>t, <1>4, GoesToEnqueue DEF Defer, At, NoJob, Delay
  <2>2. ASSUME NEW a \in Automations, a = job[j].run
        PROVE  RunGoesOn(j, a) /\ LogGoesOn(j, a) /\ WaitGoesOn(j, a)
    <3>1. a \notin retried => run[a].left = 0
      BY <1>t, <2>1, <2>2, NotWaiting DEF JobAt
    <3>2. QED
      BY <1>1, <2>1, <2>2, <3>1
         DEF IInv, NoStepSkipped, Active, JobAt, RunGoesOn, LogGoesOn, WaitGoesOn, TookNow
  <2>3. QED
    BY <1>1, <1>t, <2>1, <2>2 DEF Effect, Typed, OnlyMine, JobGoesOn, JobAt, history
<1>5. CASE ReadRun(j) /\ Found(j) /\ Active(job[j].run)
  <2>1. /\ job' \in [Jobs -> JobStates] /\ job'[j].pc = "step" /\ job'[j].run = job[j].run
        /\ job'[j].step = run[job[j].run].step
        /\ \A k \in Jobs : k # j => job'[k] = job[k]
        /\ job'[j] # NoJob /\ JobAt(j, "queued") /\ job[j].delay = 0
    BY <1>t, <1>5 DEF ReadRun, Found, NoJob, JobStates, RunStates
  <2>2. ASSUME NEW a \in Automations, a = job[j].run
        PROVE  RunGoesOn(j, a) /\ LogGoesOn(j, a) /\ WaitGoesOn(j, a)
    <3>1. a \notin retried => run[a].left = 0
      BY <1>t, <2>1, <2>2, NotWaiting
    <3>2. QED
      BY <1>1, <2>1, <2>2, <3>1
         DEF IInv, NoStepSkipped, Active, JobAt, RunGoesOn, LogGoesOn, WaitGoesOn, TookNow
  <2>3. QED
    BY <1>1, <1>t, <2>1, <2>2 DEF Effect, Typed, OnlyMine, JobGoesOn, JobAt, history
<1>6. QED
  BY <1>2, <1>3, <1>4, <1>5 DEF ReadRun, RunVanishes, ContactVanished, Complete, At, JobAt

\* What a job in the middle of a step knows.
LEMMA InStep ==
  ASSUME IInv, NEW j \in Jobs, job[j].pc \in {"step", "advance", "exit", "fail"}, Found(j)
  PROVE  /\ TypeOK /\ job[j].run \in Automations
         /\ run[job[j].run] # NoRun /\ run[job[j].run].status # "none"
         /\ job[j].run \notin retried => run[job[j].run].left = 0
         /\ job[j].step \in 0 .. Length
         /\ faults \in 0 .. MaxFaults /\ lost \subseteq Automations
<1>1. TypeOK /\ WaitIsKept /\ Shape
  BY DEF IInv
<1>2. job[j].run \in Automations /\ job[j].step \in 0 .. Length
  BY <1>1, Types DEF Found, JobStates
<1>3. run[job[j].run] # NoRun /\ run[job[j].run].status # "none"
  BY <1>1, <1>2 DEF Found, Shape
<1>4. QED
  BY <1>1, <1>2, <1>3, NotWaiting DEF TypeOK

\* The run ends, or the write that was to end it is lost.
LEMMA EndRunEffect ==
  ASSUME IInv, NEW j \in Jobs, CompleteRun(j) \/ ExitRun(j)
  PROVE  Effect(j)
<1>1. PICK s \in {"completed", "exited"} : EndRun(j, s)
  BY DEF CompleteRun, ExitRun
<1>2. job[j].pc \in {"step", "advance", "exit", "fail"} /\ Found(j)
  BY DEF CompleteRun, ExitRun, Past, At, JobAt
<1> DEFINE a == job[j].run
<1>3. /\ TypeOK /\ a \in Automations /\ run[a].status # "none"
      /\ faults \in 0 .. MaxFaults /\ lost \subseteq Automations
  BY <1>2, InStep
<1>4. /\ job' \in [Jobs -> JobStates] /\ job'[j] = NoJob
      /\ \A k \in Jobs : k # j => job'[k] = job[k]
  BY <1>1, <1>3, Types, Ends DEF EndRun
<1>5. UNCHANGED <<world, log, trigger, retried, late>>
  BY <1>1 DEF EndRun
<1>6. /\ run' \in [Automations -> RunStates] /\ faults' \in 0 .. MaxFaults
      /\ \A b \in Automations : b # a => run'[b] = run[b]
      /\ run'[a].status # "none" /\ run'[a].step = run[a].step
      /\ run'[a].status = "active" => Active(a) /\ a \in lost'
      /\ lost \subseteq lost' /\ lost' \subseteq Automations
  <2>1. CASE run' = [run EXCEPT ![a].status = s, ![a].left = 0] /\ UNCHANGED <<faults, lost>>
    BY <1>3, <2>1, Closes
  <2>2. CASE Fault /\ lost' = lost \cup {a} /\ UNCHANGED run
    BY <1>3, <2>2, FaultOK, Types DEF Active
  <2>3. QED
    BY <1>1, <2>1, <2>2 DEF EndRun
<1>7. log \in [Automations -> LogStates] /\ NoStepSkipped
  BY <1>3, Types DEF IInv
<1> HIDE DEF a
<1>8. RunGoesOn(j, a) /\ LogGoesOn(j, a) /\ WaitGoesOn(j, a)
  BY <1>2, <1>3, <1>4, <1>5, <1>6, <1>7
     DEF NoStepSkipped, JobAt, RunGoesOn, LogGoesOn, WaitGoesOn, TookNow, NoJob
<1>9. QED
  BY <1>2, <1>4, <1>5, <1>6, <1>7, <1>8 DEF a, Effect, Typed, OnlyMine, JobGoesOn, JobAt, NoJob

LEMMA WaitStepEffect ==
  ASSUME IInv, NEW j \in Jobs, WaitStep(j)
  PROVE  Effect(j)
<1> DEFINE a == job[j].run
<1>1. JobAt(j, "step") /\ Found(j) /\ ~Past(j)
  BY DEF WaitStep, At
<1>2. /\ TypeOK /\ a \in Automations /\ run[a] # NoRun /\ run[a].status # "none"
      /\ job[j].step \in 0 .. Length
      /\ faults \in 0 .. MaxFaults /\ lost \subseteq Automations
  BY <1>1, InStep DEF JobAt
<1>3. job[j].step + 1 \in 0 .. Length /\ Delay \in 0 .. Delay
  <2>1. automation[a].steps \in Definitions
    BY <1>2 DEF TypeOK
  <2>2. QED
    BY <1>1, <1>2, <2>1, LengthBounds DEF Past, Delay
<1>4. /\ run' \in [Automations -> RunStates]
      /\ \A b \in Automations : b # a => run'[b] = run[b]
      /\ run'[a].status = run[a].status /\ run'[a].step = job[j].step + 1 /\ run'[a].left = Delay
  <2>1. Move(a, job[j].step + 1, Delay)
    BY DEF WaitStep, Move
  <2>2. QED
    BY <1>2, <1>3, <2>1, Moves
<1>5. /\ log' \in [Automations -> LogStates]
      /\ \A b \in Automations : b # a => log'[b] = log[b]
      /\ log'[a] = log[a] \cup {<<job[j].step, "wait">>}
  BY <1>1, <1>2, Records DEF WaitStep, Found
<1>6. /\ job' \in [Jobs -> JobStates] /\ job'[j].pc = "enqueue" /\ job'[j].run = a /\ job'[j].delay = Delay
      /\ \A k \in Jobs : k # j => job'[k] = job[k]
  BY <1>2, <1>3, Types, GoesToEnqueue DEF WaitStep
<1>7. UNCHANGED <<world, trigger, faults, history>>
  BY DEF WaitStep
<1>8. \A i \in 0 .. job[j].step - 1 : Took(a, i)
  BY <1>1, <1>2 DEF IInv, ReadIsTrue, JobAt
<1> HIDE DEF a
<1>9. LogGoesOn(j, a)
  <2>1. \A i \in 0 .. run'[a].step - 1 : TookNow(a, i)
    <3>1. \A i \in 0 .. job[j].step - 1 : TookNow(a, i)
      BY <1>8, <1>5 DEF Took, TookNow
    <3>2. TookNow(a, job[j].step)
      BY <1>8, <1>5 DEF Took, TookNow
    <3>3. QED
      BY <1>2, <1>4, <3>1, <3>2
  <2>2. QED
    BY <1>5, <1>6, <2>1 DEF LogGoesOn
<1>10. RunGoesOn(j, a) /\ WaitGoesOn(j, a)
  BY <1>1, <1>2, <1>4, <1>6 DEF JobAt, RunGoesOn, WaitGoesOn, Active, NoJob, Delay
<1>11. QED
  BY <1>1, <1>2, <1>4, <1>5, <1>6, <1>7, <1>9, <1>10
     DEF a, Effect, Typed, OnlyMine, JobGoesOn, JobAt, NoJob, history

LEMMA RecordEffect ==
  ASSUME IInv, NEW j \in Jobs, TagStep(j) \/ Decide(j)
  PROVE  Effect(j)
<1> DEFINE a == job[j].run
<1>1. JobAt(j, "step") /\ Found(j) /\ ~Past(j)
  BY DEF TagStep, Decide, At
<1>2. /\ TypeOK /\ a \in Automations /\ run[a] # NoRun /\ run[a].status # "none"
      /\ a \notin retried => run[a].left = 0
      /\ job[j].step \in 0 .. Length
      /\ faults \in 0 .. MaxFaults /\ lost \subseteq Automations
  BY <1>1, InStep DEF JobAt
<1>3. job[j].step < Length
  <2>1. automation[a].steps \in Definitions
    BY <1>2 DEF TypeOK
  <2>2. QED
    BY <1>1, <1>2, <2>1, LengthBounds DEF Past
<1>4. PICK effect \in {"sent", "skipped", "failed", "tag"}, pc \in {"advance", "exit", "fail"} :
        Record(j, effect) /\ Goto(j, pc) /\ (pc = "advance" => effect \in {"sent", "tag"})
  <2>1. CASE TagStep(j)
    BY <2>1 DEF TagStep
  <2>2. CASE Decide(j)
    <3>1. PICK outcome \in {"sent", "skipped", "failed"} :
            /\ Record(j, outcome)
            /\ Goto(j, CASE outcome = "sent" -> "advance"
                         [] outcome = "skipped" -> "exit"
                         [] outcome = "failed" -> "fail")
      BY <2>2 DEF Decide
    <3>2. QED
      BY <3>1
  <2>3. QED
    BY <2>1, <2>2
<1>5. /\ log' \in [Automations -> LogStates]
      /\ \A b \in Automations : b # a => log'[b] = log[b]
      /\ log'[a] = log[a] \cup {<<job[j].step, effect>>}
  BY <1>1, <1>2, <1>4, Records DEF Found
<1>6. /\ job' \in [Jobs -> JobStates] /\ job'[j].pc = pc /\ job'[j].run = a /\ job'[j].step = job[j].step
      /\ \A k \in Jobs : k # j => job'[k] = job[k]
  BY <1>2, <1>4, Types, Goes
<1>7. UNCHANGED <<world, run, trigger, faults, history>>
  BY DEF TagStep, Decide
<1>8. /\ \A i \in 0 .. job[j].step - 1 : Took(a, i)
      /\ \A i \in 0 .. run[a].step - 1 : Took(a, i)
  BY <1>1, <1>2 DEF IInv, ReadIsTrue, NoStepSkipped, JobAt, Took
<1>9. run \in [Automations -> RunStates]
  BY <1>2, Types
<1> HIDE DEF a
<1>10. LogGoesOn(j, a)
  BY <1>4, <1>5, <1>6, <1>7, <1>8 DEF LogGoesOn, Took, TookNow
<1>11. RunGoesOn(j, a)
  BY <1>1, <1>2, <1>6, <1>7 DEF JobAt, RunGoesOn, Active, NoJob
<1>12. WaitGoesOn(j, a)
  BY <1>2, <1>7 DEF WaitGoesOn
<1>13. QED
  BY <1>1, <1>2, <1>3, <1>5, <1>6, <1>7, <1>9, <1>10, <1>11, <1>12
     DEF a, Effect, Typed, OnlyMine, JobGoesOn, JobAt, NoJob, history

LEMMA AdvanceEffect ==
  ASSUME IInv, NEW j \in Jobs, Advance(j)
  PROVE  Effect(j)
<1> DEFINE a == job[j].run
<1>1. JobAt(j, "advance") /\ Found(j)
  BY DEF Advance
<1>2. /\ TypeOK /\ a \in Automations /\ run[a] # NoRun /\ run[a].status # "none"
      /\ job[j].step \in 0 .. Length
      /\ faults \in 0 .. MaxFaults /\ lost \subseteq Automations
  BY <1>1, InStep DEF JobAt
<1>3. job[j].step + 1 \in 0 .. Length /\ 0 \in 0 .. Delay
  BY <1>1, <1>2, LengthBounds DEF IInv, Shape, Delay
<1>4. /\ run' \in [Automations -> RunStates]
      /\ \A b \in Automations : b # a => run'[b] = run[b]
      /\ run'[a].status = run[a].status /\ run'[a].step = job[j].step + 1 /\ run'[a].left = 0
  <2>1. Move(a, job[j].step + 1, 0)
    BY DEF Advance, Move
  <2>2. QED
    BY <1>2, <1>3, <2>1, Moves
<1>5. log \in [Automations -> LogStates]
  BY <1>2, Types
<1>6. /\ job' \in [Jobs -> JobStates] /\ job'[j].pc = "enqueue" /\ job'[j].run = a
      /\ \A k \in Jobs : k # j => job'[k] = job[k]
  BY <1>2, <1>3, Types, GoesToEnqueue DEF Advance
<1>7. UNCHANGED <<world, log, trigger, faults, history>>
  BY DEF Advance
<1>8. (\A i \in 0 .. job[j].step - 1 : Took(a, i)) /\ Took(a, job[j].step)
  BY <1>1, <1>2 DEF IInv, ReadIsTrue, JobAt
<1> HIDE DEF a
<1>9. LogGoesOn(j, a)
  <2>1. \A i \in 0 .. run'[a].step - 1 : TookNow(a, i)
    <3>1. \A i \in 0 .. job[j].step - 1 : TookNow(a, i)
      BY <1>8, <1>7 DEF Took, TookNow
    <3>2. TookNow(a, job[j].step)
      BY <1>8, <1>7 DEF Took, TookNow
    <3>3. QED
      BY <1>2, <1>4, <3>1, <3>2
  <2>2. QED
    BY <1>6, <1>7, <2>1 DEF LogGoesOn
<1>10. RunGoesOn(j, a) /\ WaitGoesOn(j, a)
  BY <1>1, <1>2, <1>4, <1>6 DEF JobAt, RunGoesOn, WaitGoesOn, Active, NoJob
<1>11. QED
  BY <1>1, <1>2, <1>4, <1>5, <1>6, <1>7, <1>9, <1>10
     DEF a, Effect, Typed, OnlyMine, JobGoesOn, JobAt, NoJob, history

LEMMA FailRunEffect ==
  ASSUME IInv, NEW j \in Jobs, FailRun(j)
  PROVE  Effect(j)
<1> DEFINE a == job[j].run
<1>1. JobAt(j, "fail") /\ Found(j)
  BY DEF FailRun
<1>2. /\ TypeOK /\ a \in Automations /\ run[a].status # "none"
      /\ a \notin retried => run[a].left = 0
      /\ faults \in 0 .. MaxFaults /\ lost \subseteq Automations
  BY <1>1, InStep DEF JobAt
<1>3. run \in [Automations -> RunStates] /\ run[a] \in RunStates
  BY <1>2, Types
<1>4. /\ run' \in [Automations -> RunStates]
      /\ \A b \in Automations : b # a => run'[b] = run[b]
      /\ run'[a].status = "failed" /\ run'[a].step = run[a].step /\ run'[a].left = run[a].left
  BY <1>2, <1>3 DEF FailRun, RunStates
<1>5. log \in [Automations -> LogStates] /\ NoStepSkipped
  BY <1>2, Types DEF IInv
<1>6. /\ job' \in [Jobs -> JobStates] /\ job'[j].pc = "queued" /\ job'[j].run = a
      /\ \A k \in Jobs : k # j => job'[k] = job[k]
  BY <1>2, Types, Requeues DEF FailRun
<1>7. UNCHANGED <<world, log, trigger, faults, history>>
  BY DEF FailRun
<1> HIDE DEF a
<1>8. RunGoesOn(j, a) /\ LogGoesOn(j, a) /\ WaitGoesOn(j, a)
  BY <1>1, <1>2, <1>4, <1>5, <1>6, <1>7
     DEF NoStepSkipped, JobAt, RunGoesOn, LogGoesOn, WaitGoesOn, TookNow, NoJob
<1>9. QED
  BY <1>1, <1>2, <1>4, <1>5, <1>6, <1>7, <1>8
     DEF a, Effect, Typed, OnlyMine, JobGoesOn, JobAt, NoJob, history

-----------------------------------------------------------------------------
(* Such a statement keeps the invariant                                    *)

LEMMA TypesNow ==
  ASSUME Typed, UNCHANGED world, TypeOK, trigger' \in [Triggers -> TriggerStates],
         \A a \in Automations : run'[a] = NoRun => log'[a] = {},
         lost' \subseteq Automations, retried' \subseteq Automations, late' \subseteq Automations
  PROVE  TypeOK'
<1>1. /\ contact' \in {"reachable", "mute", "erased"}
      /\ automation' \in [Automations -> [status : {"draft", "active", "deleted"}, steps : Definitions]]
      /\ optedOut' \subseteq Automations
  BY DEF TypeOK, world
<1>2. QED
  BY <1>1, Zenon DEF Typed, TypeOK, RunStates, LogStates, TriggerStates, JobStates

LEMMA EffectRuns ==
  ASSUME IInv, NEW j \in Jobs, Effect(j), NEW a \in Automations
  PROVE  /\ run'[a] = NoRun <=> run[a] = NoRun
         /\ run'[a].status = "none" => run'[a] = NoRun
         /\ log[a] \subseteq log'[a]
         /\ run[a] = NoRun => log'[a] = log[a]
         /\ Active(a)' => Active(a)
<1>1. CASE a # job[j].run
  BY <1>1 DEF Effect, OnlyMine, IInv, Shape, Active
<1>2. CASE a = job[j].run
  BY <1>2 DEF Effect, RunGoesOn, LogGoesOn, IInv, Shape, Active, NoRun
<1>3. QED
  BY <1>1, <1>2

LEMMA EffectJobs ==
  ASSUME NEW j \in Jobs, Effect(j), NEW k \in Jobs
  PROVE  /\ \A a \in Automations : job'[k].run = a => job[k].run = a
         /\ \A a \in Automations : Walks(k, a)' => Walks(k, a)
  BY GoneAssumption DEF Effect, OnlyMine, JobGoesOn, NoJob, Walks, JobAt

LEMMA EffectStep ==
  ASSUME IInv, NEW j \in Jobs, Effect(j)
  PROVE  IInv'
<1>t. /\ TypeOK /\ Typed /\ OnlyMine(j)
      /\ job \in [Jobs -> JobStates] /\ run \in [Automations -> RunStates]
      /\ trigger \in [Triggers -> TriggerStates]
  BY Types DEF IInv, Effect
<1>u. UNCHANGED <<contact, automation, trigger, retried, late>>
  BY <1>t DEF OnlyMine, world
<1>1. TypeOK'
  <2>1. \A a \in Automations : run'[a] = NoRun => log'[a] = {}
    BY <1>t, EffectRuns DEF TypeOK
  <2>2. /\ trigger' \in [Triggers -> TriggerStates] /\ lost' \subseteq Automations
        /\ retried' \subseteq Automations /\ late' \subseteq Automations /\ UNCHANGED world
    BY <1>t DEF OnlyMine, TypeOK
  <2>3. QED
    BY <1>t, <2>1, <2>2, TypesNow
<1>2. Shape'
  <2>1. \A a \in Automations : run'[a].status = "none" => run'[a] = NoRun
    BY EffectRuns
  <2>2. \A k \in Jobs : job'[k].pc = "none" => job'[k] = NoJob
    BY <1>t DEF Effect, OnlyMine, JobGoesOn, IInv, Shape, JobAt
  <2>3. \A k \in Jobs : job'[k].pc = "advance" => job'[k].step < Length
    BY <1>t DEF Effect, OnlyMine, JobGoesOn, IInv, Shape, JobAt
  <2>4. QED
    BY <1>u, <2>1, <2>2, <2>3 DEF IInv, Shape, JobAt, TriggerAt
<1>3. Unnamed'
  BY <1>u, EffectRuns, EffectJobs DEF IInv, Unnamed, Starts
<1>4. Alone'
  BY <1>u, EffectJobs DEF IInv, Alone, Starts
<1>5. ActiveIsWalked'
  <2> SUFFICES ASSUME NEW a \in Automations, Active(a)', contact # "erased", a \notin lost'
               PROVE  Walked(a)'
    BY <1>u DEF ActiveIsWalked
  <2>1. Walked(a)
    BY <1>t, EffectRuns DEF IInv, ActiveIsWalked, OnlyMine
  <2>2. ASSUME NEW k \in Jobs, Walks(k, a) PROVE Walks(k, a)'
    <3>1. CASE k # j
      BY <1>t, <2>2, <3>1 DEF OnlyMine, Walks
    <3>2. CASE k = j
      BY <2>2, <3>2 DEF Effect, JobGoesOn, RunGoesOn, Walks, JobAt, Active
    <3>3. QED
      BY <3>1, <3>2
  <2>3. QED
    BY <1>u, <2>1, <2>2 DEF Walked, Starts
<1>6. ReadIsTrue'
  <2> SUFFICES ASSUME NEW a \in Automations, NEW k \in Jobs, run'[a] # NoRun, job'[k].run = a
               PROVE  /\ job'[k].pc \in {"step", "advance"} => \A i \in 0 .. job'[k].step - 1 : Took(a, i)'
                      /\ JobAt(k, "advance")' => Took(a, job[k].step)'
    BY DEF ReadIsTrue
  <2>1. run[a] # NoRun /\ job[k].run = a /\ log[a] \subseteq log'[a]
    BY EffectRuns, EffectJobs
  <2>2. CASE k # j
    BY <1>t, <2>1, <2>2 DEF OnlyMine, IInv, ReadIsTrue, Took, JobAt
  <2>3. CASE k = j
    BY <2>1, <2>3 DEF Effect, LogGoesOn, TookNow, Took, JobAt
  <2>4. QED
    BY <2>2, <2>3
<1>7. NoStepSkipped'
  <2> SUFFICES ASSUME NEW a \in Automations
               PROVE  \A i \in 0 .. run'[a].step - 1 : TookNow(a, i)
    BY DEF NoStepSkipped, TookNow
  <2>1. CASE a = job[j].run
    BY <2>1 DEF Effect, LogGoesOn
  <2>2. CASE a # job[j].run
    BY <1>t, <2>2 DEF OnlyMine, IInv, NoStepSkipped, TookNow
  <2>3. QED
    BY <2>1, <2>2
<1>8. LateInserts'
  BY <1>u DEF IInv, LateInserts, TriggerAt
<1>9. OnlyLateRunsOutlive'
  BY <1>u, EffectRuns DEF IInv, OnlyLateRunsOutlive
<1>10. WaitIsKept'
  <2> SUFFICES ASSUME NEW a \in Automations, a \notin retried, run'[a].left > 0
               PROVE  /\ \A k \in Jobs : Walks(k, a)' =>
                           job'[k].pc \in {"enqueue", "queued"} /\ run'[a].left <= job'[k].delay
                      /\ \A t \in Triggers : ~Starts(t, a)'
    BY <1>u DEF WaitIsKept
  <2>1. CASE run'[a] = run[a] /\ (a # job[j].run \/ JobAt(j, "complete"))
    <3>1. \A k \in Jobs : Walks(k, a)' => k # j
      BY <2>1, GoneAssumption DEF Effect, JobGoesOn, NoJob, Walks, JobAt
    <3>2. QED
      BY <1>t, <1>u, <2>1, <3>1 DEF OnlyMine, IInv, WaitIsKept, Walks, Starts
  <2>2. CASE a = job[j].run /\ ~JobAt(j, "complete")
    <3>1. Walks(j, a)
      BY <2>2 DEF Effect, JobGoesOn, Walks, JobAt
    <3>2. /\ \A k \in Jobs : Walks(k, a)' => k = j
          /\ \A t \in Triggers : ~Starts(t, a)'
      BY <1>u, <3>1, EffectJobs DEF IInv, Alone, Starts
    <3>3. Walks(j, a)' => job'[j].pc \in {"enqueue", "queued"} /\ run'[a].left <= job'[j].delay
      BY <2>2 DEF Effect, WaitGoesOn, Walks, NoJob
    <3>4. QED
      BY <3>2, <3>3
  <2>3. QED
    BY <1>t, <2>1, <2>2 DEF Effect, OnlyMine, RunGoesOn
<1>11. QED
  BY <1>1, <1>2, <1>3, <1>4, <1>5, <1>6, <1>7, <1>8, <1>9, <1>10 DEF IInv

-----------------------------------------------------------------------------
(* The other statements of a step job                                      *)

\* The successor takes a free place and the delay; the job is done.
LEMMA EnqueueStep ==
  ASSUME IInv, NEW j \in Jobs, Enqueue(j)
  PROVE  IInv'
<1>t. /\ TypeOK /\ Shape /\ Unnamed /\ Alone /\ ActiveIsWalked /\ ReadIsTrue /\ NoStepSkipped
      /\ LateInserts /\ OnlyLateRunsOutlive /\ WaitIsKept
      /\ job \in [Jobs -> JobStates]
  BY Types DEF IInv
<1>u. UNCHANGED <<contact, automation, optedOut, run, log, trigger, faults, lost, retried, late>>
  BY DEF Enqueue, world, history
<1> DEFINE b == job[j].run
<1>1. PICK k \in Jobs :
        Free(k) /\ job' = [job EXCEPT ![k] = StepJob(b, job[j].delay), ![j].pc = "complete"]
  BY DEF Enqueue
<1>2. /\ JobAt(j, "enqueue") /\ k # j /\ job[k].pc = "none" /\ job[k].run = Gone
      /\ job[j] \in JobStates /\ b \in Automations \cup {Gone} /\ job[j].delay \in 0 .. Delay
  BY <1>1, <1>t DEF Enqueue, Free, NoJob, JobAt, JobStates
<1>3. /\ \A i \in Jobs : i # j /\ i # k => job'[i] = job[i]
      /\ job'[k] = StepJob(b, job[j].delay)
      /\ job'[j] = [job[j] EXCEPT !.pc = "complete"]
  BY <1>1, <1>2, <1>t
<1>4. StepJob(b, job[j].delay) \in JobStates /\ [job[j] EXCEPT !.pc = "complete"] \in JobStates
  BY <1>2, Constants0 DEF JobStates
<1>5. job' \in [Jobs -> JobStates]
  BY <1>1, <1>3, <1>4, <1>t
<1>6. /\ job'[k].pc = "queued" /\ job'[k].run = b /\ job'[k].delay = job[j].delay
      /\ job'[j].pc = "complete" /\ job'[j].run = b
  BY <1>2, <1>3 DEF StepJob, JobStates
<1> HIDE DEF b
<1>7. \A i \in Jobs, a \in Automations : Walks(i, a)' =>
        IF i = k THEN a = b /\ Walks(j, a) ELSE i # j /\ Walks(i, a)
  BY <1>2, <1>3, <1>6 DEF b, Walks, JobAt
<1>8. TypeOK'
  BY <1>t, <1>u, <1>5, TypesNow, Types DEF Typed, TypeOK, world
<1>9. Shape' /\ Unnamed' /\ ReadIsTrue'
  <2>1. \A i \in Jobs : (i # j /\ i # k) \/ (job'[i].pc \in {"queued", "complete"} /\ job'[i].run = b)
    BY <1>6
  <2>2. Shape'
    BY <1>t, <1>u, <1>3, <2>1 DEF Shape, JobAt, TriggerAt
  <2>3. Unnamed'
    BY <1>t, <1>u, <1>3, <2>1 DEF b, Unnamed, Starts
  <2>4. ReadIsTrue'
    BY <1>t, <1>u, <1>3, <2>1 DEF ReadIsTrue, Took, JobAt
  <2>5. QED
    BY <2>2, <2>3, <2>4
<1>10. Alone'
  BY <1>t, <1>u, <1>7 DEF Alone, Starts
<1>11. ActiveIsWalked'
  <2>1. \A i \in Jobs, a \in Automations : Walks(i, a) => IF i = j THEN Walks(k, a)' ELSE Walks(i, a)'
    BY <1>2, <1>3, <1>6 DEF b, Walks
  <2>2. QED
    BY <1>t, <1>u, <2>1 DEF ActiveIsWalked, Walked, Starts, Active
<1>12. NoStepSkipped' /\ LateInserts' /\ OnlyLateRunsOutlive'
  BY <1>t, <1>u DEF NoStepSkipped, LateInserts, TriggerAt, OnlyLateRunsOutlive
<1>13. WaitIsKept'
  BY <1>t, <1>u, <1>2, <1>3, <1>6, <1>7 DEF WaitIsKept, Starts
<1>14. QED
  BY <1>8, <1>9, <1>10, <1>11, <1>12, <1>13 DEF IInv

\* A job is retried; once its run was advanced, the successor may be there too.
LEMMA InterruptStep ==
  ASSUME IInv, NEW j \in Jobs, Interrupt(j)
  PROVE  IInv'
<1>t. /\ TypeOK /\ Shape /\ Unnamed /\ Alone /\ ActiveIsWalked /\ ReadIsTrue /\ NoStepSkipped
      /\ LateInserts /\ OnlyLateRunsOutlive /\ WaitIsKept
      /\ job \in [Jobs -> JobStates] /\ retried \subseteq Automations
  BY Types DEF IInv, TypeOK
<1>u. UNCHANGED <<contact, automation, optedOut, run, log, trigger, lost, late>>
  BY DEF Interrupt, world
<1> DEFINE b == job[j].run
<1>1. /\ job' \in [Jobs -> JobStates] /\ job'[j].pc = "queued" /\ job'[j].run = b
      /\ \A k \in Jobs : k # j => job'[k] = job[k]
      /\ b \in Automations \cup {Gone}
      /\ job[j].pc \in {"step", "advance", "exit", "fail", "enqueue", "complete"}
  BY <1>t, Requeues DEF Interrupt, JobStates
<1>2. /\ faults' \in 0 .. MaxFaults
      /\ retried \subseteq retried' /\ retried' \subseteq Automations
      /\ b \in Automations /\ b \notin retried' => job[j].pc \in {"step", "advance", "exit", "fail"}
  BY <1>t, <1>1, FaultOK, GoneAssumption DEF Interrupt
<1>3. b \in Automations /\ b \notin retried' => run[b].left = 0
  BY <1>t, <1>2, NotWaiting
<1> HIDE DEF b
<1>4. \A k \in Jobs, a \in Automations \ retried' : Walks(k, a)' => Walks(k, a)
  BY <1>1, <1>2 DEF b, Walks
<1>5. TypeOK'
  BY <1>t, <1>u, <1>1, <1>2, TypesNow, Types DEF Typed, TypeOK, world
<1>6. Shape'
  BY <1>t, <1>u, <1>1 DEF Shape, JobAt, TriggerAt
<1>7. Unnamed'
  BY <1>t, <1>u, <1>1 DEF b, Unnamed, Starts
<1>8. Alone'
  BY <1>t, <1>u, <1>2, <1>4 DEF Alone, Starts
<1>9. ActiveIsWalked'
  <2>1. \A k \in Jobs, a \in Automations : Walks(k, a) => Walks(k, a)'
    BY <1>1 DEF b, Walks
  <2>2. QED
    BY <1>t, <1>u, <2>1 DEF ActiveIsWalked, Walked, Starts, Active
<1>10. ReadIsTrue'
  BY <1>t, <1>u, <1>1 DEF ReadIsTrue, Took, JobAt
<1>11. NoStepSkipped' /\ LateInserts' /\ OnlyLateRunsOutlive'
  BY <1>t, <1>u DEF NoStepSkipped, LateInserts, TriggerAt, OnlyLateRunsOutlive
<1>12. WaitIsKept'
  <2> SUFFICES ASSUME NEW a \in Automations, a \notin retried', run[a].left > 0
               PROVE  /\ \A k \in Jobs : Walks(k, a)' =>
                           job'[k].pc \in {"enqueue", "queued"} /\ run[a].left <= job'[k].delay
                      /\ \A t \in Triggers : ~Starts(t, a)
    BY <1>u DEF WaitIsKept, Starts
  <2>1. a # b
    BY <1>3
  <2>2. QED
    BY <1>t, <1>1, <1>2, <1>4, <2>1 DEF WaitIsKept, Walks
<1>13. QED
  BY <1>5, <1>6, <1>7, <1>8, <1>9, <1>10, <1>11, <1>12 DEF IInv

-----------------------------------------------------------------------------
(* The trigger jobs                                                        *)

\* Statements that make no run and start none.
TriggerEffect(t) ==
  /\ UNCHANGED <<contact, automation, optedOut, run, log, job, retried, late>>
  /\ trigger' \in [Triggers -> TriggerStates] /\ faults' \in 0 .. MaxFaults
  /\ lost \subseteq lost' /\ lost' \subseteq Automations
  /\ \A u \in Triggers : u # t => trigger'[u] = trigger[u]
  /\ trigger'[t].made = trigger[t].made \/ (trigger'[t].made = {} /\ trigger[t].made \subseteq lost')
  /\ trigger'[t].pc = "insert" => trigger'[t].at # Gone /\ contact # "erased"
  /\ trigger'[t].pc \in {"queued", "ended"} => trigger'[t].made = {}

LEMMA RestartEffect ==
  ASSUME TypeOK, NEW t \in Triggers, Restart(t),
         UNCHANGED <<world, run, log, job>>, faults' \in 0 .. MaxFaults
  PROVE  TriggerEffect(t)
<1>1. trigger \in [Triggers -> TriggerStates] /\ trigger[t].made \subseteq Automations /\ lost \subseteq Automations
  BY Types DEF TypeOK, TriggerStates
<1>2. /\ trigger' \in [Triggers -> TriggerStates] /\ trigger'[t] = Idle
      /\ \A u \in Triggers : u # t => trigger'[u] = trigger[u]
  BY <1>1, Constants0 DEF Restart
<1>3. QED
  BY <1>1, <1>2 DEF Restart, TriggerEffect, Idle, world

LEMMA TriggerTurns ==
  ASSUME IInv, NEW t \in Triggers,
         Load(t) \/ Enrolled(t) \/ InterruptTrigger(t) \/ \E a \in Automations : Look(t, a)
  PROVE  TriggerEffect(t)
<1>t. /\ TypeOK /\ Shape /\ trigger \in [Triggers -> TriggerStates] /\ trigger[t] \in TriggerStates
      /\ faults \in 0 .. MaxFaults /\ lost \subseteq Automations
  BY Types DEF IInv, TypeOK
<1>1. CASE Load(t)
  <2>1. \A pc \in {"enroll", "ended"}, todo \in SUBSET Automations :
          [[Idle EXCEPT !.pc = pc] EXCEPT !.todo = todo] \in TriggerStates
    BY DEF Idle, TriggerStates
  <2>2. trigger[t].made = {}
    BY <1>t, <1>1 DEF Load, Shape, TriggerAt
  <2>3. /\ trigger' \in [Triggers -> TriggerStates]
        /\ \A u \in Triggers : u # t => trigger'[u] = trigger[u]
        /\ trigger'[t].made = {} /\ trigger'[t].pc \in {"enroll", "ended"}
    <3>1. CASE contact = "erased"
      BY <1>t, <1>1, <3>1 DEF Load, Idle, TriggerStates
    <3>2. CASE contact # "erased"
      BY <1>t, <1>1, <3>2 DEF Load, Idle, TriggerStates
    <3>3. QED
      BY <3>1, <3>2
  <2>4. QED
    BY <1>t, <1>1, <2>2, <2>3 DEF Load, TriggerEffect, world, history
<1>2. CASE Enrolled(t)
  <2>1. /\ trigger' \in [Triggers -> TriggerStates]
        /\ \A u \in Triggers : u # t => trigger'[u] = trigger[u]
        /\ trigger'[t].made = trigger[t].made
        /\ trigger'[t].pc = IF trigger[t].made = {} THEN "ended" ELSE "enqueue"
    BY <1>t, <1>2 DEF Enrolled, TriggerStates
  <2>2. QED
    BY <1>t, <1>2, <2>1 DEF Enrolled, TriggerEffect, world, history
<1>3. CASE InterruptTrigger(t)
  <2>1. faults' \in 0 .. MaxFaults
    BY <1>t, <1>3, FaultOK DEF InterruptTrigger
  <2>2. QED
    BY <1>t, <1>3, <2>1, RestartEffect DEF InterruptTrigger
<1>4. ASSUME NEW a \in Automations, Look(t, a) PROVE TriggerEffect(t)
  <2>1. CASE Restart(t)
    BY <1>t, <1>4, <2>1, RestartEffect DEF Look
  <2>2. CASE trigger' = [trigger EXCEPT ![t].todo = @ \ {a}] /\ UNCHANGED history
    <3>1. /\ trigger' \in [Triggers -> TriggerStates]
          /\ \A u \in Triggers : u # t => trigger'[u] = trigger[u]
          /\ trigger'[t].made = trigger[t].made /\ trigger'[t].pc = trigger[t].pc
      BY <1>t, <2>2 DEF TriggerStates
    <3>2. QED
      BY <1>t, <1>4, <2>2, <3>1 DEF Look, TriggerAt, TriggerEffect, world, history
  <2>3. CASE /\ trigger' = [trigger EXCEPT ![t].pc = "insert", ![t].todo = @ \ {a}, ![t].at = a]
             /\ contact # "erased" /\ UNCHANGED history
    <3>1. trigger'[t] = [pc |-> "insert", todo |-> trigger[t].todo \ {a},
                         made |-> trigger[t].made, at |-> a]
      BY <1>t, <2>3 DEF TriggerStates
    <3>2. trigger'[t] \in TriggerStates
      BY <1>t, <3>1 DEF TriggerStates
    <3>3. \A u \in Triggers : u # t => trigger'[u] = trigger[u]
      BY <1>t, <2>3
    <3>4. trigger' \in [Triggers -> TriggerStates]
      BY <1>t, <2>3, <3>2, <3>3
    <3>5. trigger'[t].made = trigger[t].made /\ trigger'[t].pc = "insert" /\ trigger'[t].at # Gone
      BY <3>1, GoneAssumption
    <3>6. UNCHANGED <<contact, automation, optedOut, run, log, job, faults, lost, retried, late>>
      BY <1>4, <2>3 DEF Look, world, history
    <3>7. QED
      BY <1>t, <2>3, <3>3, <3>4, <3>5, <3>6 DEF TriggerEffect
  <2>4. QED
    BY <1>4, <2>1, <2>2, <2>3 DEF Look
<1>5. QED
  BY <1>1, <1>2, <1>3, <1>4

LEMMA TriggerStep ==
  ASSUME IInv, NEW t \in Triggers, TriggerEffect(t)
  PROVE  IInv'
<1>t. /\ TypeOK /\ Shape /\ Unnamed /\ Alone /\ ActiveIsWalked /\ ReadIsTrue /\ NoStepSkipped
      /\ LateInserts /\ OnlyLateRunsOutlive /\ WaitIsKept
  BY DEF IInv
<1>u. UNCHANGED <<contact, automation, optedOut, run, log, job, retried, late>>
  BY DEF TriggerEffect
<1>1. \A u \in Triggers, a \in Automations : Starts(u, a)' => Starts(u, a)
  BY DEF TriggerEffect, Starts
<1>2. TypeOK'
  BY <1>t, <1>u, TypesNow, Types DEF TriggerEffect, Typed, TypeOK, world
<1>3. Shape'
  BY <1>t, <1>u DEF TriggerEffect, Shape, JobAt, TriggerAt
<1>4. Unnamed' /\ Alone' /\ WaitIsKept'
  BY <1>t, <1>u, <1>1 DEF Unnamed, Alone, WaitIsKept, Walks
<1>5. ActiveIsWalked'
  <2>1. \A u \in Triggers, a \in Automations : Starts(u, a) => Starts(u, a)' \/ a \in lost'
    BY DEF TriggerEffect, Starts
  <2>2. lost \subseteq lost'
    BY DEF TriggerEffect
  <2>3. QED
    BY <1>t, <1>u, <2>1, <2>2 DEF ActiveIsWalked, Walked, Walks, Active
<1>6. ReadIsTrue' /\ NoStepSkipped' /\ OnlyLateRunsOutlive'
  BY <1>t, <1>u DEF ReadIsTrue, NoStepSkipped, OnlyLateRunsOutlive, Took, JobAt
<1>7. LateInserts'
  BY <1>t, <1>u DEF TriggerEffect, LateInserts, TriggerAt
<1>8. QED
  BY <1>2, <1>3, <1>4, <1>5, <1>6, <1>7 DEF IInv

\* A trigger job owes one more run its first job.
LEMMA OwesAlso ==
  ASSUME NEW r \in TriggerStates, NEW made \in SUBSET Automations
  PROVE  /\ [r EXCEPT !.made = made] \in TriggerStates
         /\ [r EXCEPT !.made = made].pc = r.pc /\ [r EXCEPT !.made = made].made = made
  BY DEF TriggerStates

\* A new run has nobody but the trigger job that made it.
LEMMA InsertStep ==
  ASSUME IInv, NEW t \in Triggers, Insert(t)
  PROVE  IInv'
<1>t. /\ TypeOK /\ Shape /\ Unnamed /\ Alone /\ ActiveIsWalked /\ ReadIsTrue /\ NoStepSkipped
      /\ LateInserts /\ OnlyLateRunsOutlive /\ WaitIsKept
      /\ trigger \in [Triggers -> TriggerStates] /\ trigger[t] \in TriggerStates
      /\ run \in [Automations -> RunStates] /\ log \in [Automations -> LogStates]
      /\ faults \in 0 .. MaxFaults /\ lost \subseteq Automations
  BY Types DEF IInv, TypeOK
<1>u. UNCHANGED <<contact, automation, optedOut, log, job, faults, lost, retried, late>>
  BY DEF Insert, world, history
<1> DEFINE b == trigger[t].at
           back == [trigger[t] EXCEPT !.pc = "enroll", !.at = Gone]
<1>1. b \in Automations /\ TriggerAt(t, "insert")
  BY <1>t DEF Insert, TriggerAt, Shape, TriggerStates
<1>2. /\ back \in TriggerStates /\ back.pc = "enroll" /\ back.made = trigger[t].made
  BY <1>t DEF TriggerStates
<1>3. CASE trigger' = [trigger EXCEPT ![t] = back] /\ UNCHANGED run
  <2>1. /\ trigger' \in [Triggers -> TriggerStates]
        /\ \A u \in Triggers : u # t => trigger'[u] = trigger[u]
        /\ trigger'[t].made = trigger[t].made /\ trigger'[t].pc = "enroll"
    BY <1>t, <1>2, <1>3
  <2>2. TriggerEffect(t)
    BY <1>t, <1>u, <1>3, <2>1 DEF TriggerEffect
  <2>3. QED
    BY <2>2, TriggerStep
<1>4. CASE /\ run[b] = NoRun /\ automation[b].status # "deleted"
           /\ run' = [run EXCEPT ![b] = NewRun]
           /\ trigger' = [trigger EXCEPT ![t] = [back EXCEPT !.made = @ \cup {b}]]
  <2>1. trigger[t].made \cup {b} \in SUBSET Automations
    BY <1>t, <1>1 DEF TriggerStates
  <2>2. /\ [back EXCEPT !.made = back.made \cup {b}] \in TriggerStates
        /\ [back EXCEPT !.made = back.made \cup {b}].pc = "enroll"
        /\ [back EXCEPT !.made = back.made \cup {b}].made = trigger[t].made \cup {b}
    BY <1>2, <2>1, OwesAlso
  <2>3. /\ trigger' \in [Triggers -> TriggerStates]
        /\ \A u \in Triggers : u # t => trigger'[u] = trigger[u]
        /\ trigger'[t].made = trigger[t].made \cup {b} /\ trigger'[t].pc = "enroll"
    <3> HIDE DEF back
    <3>1. trigger' = [trigger EXCEPT ![t] = [back EXCEPT !.made = back.made \cup {b}]]
      BY <1>4
    <3>2. QED
      BY <1>t, <2>2, <3>1
  <2>4. /\ run' \in [Automations -> RunStates]
        /\ \A a \in Automations : a # b => run'[a] = run[a]
        /\ run'[b] = NewRun
    BY <1>t, <1>1, <1>4, Constants0
  <2>5. /\ \A j \in Jobs : job[j].run # b
        /\ \A u \in Triggers : ~Starts(u, b)
    BY <1>t, <1>1, <1>4 DEF Unnamed
  <2> HIDE DEF b, back
  <2>6. \A u \in Triggers, a \in Automations : Starts(u, a)' <=> (Starts(u, a) \/ (u = t /\ a = b))
    BY <2>3 DEF Starts
  <2>7. TypeOK'
    <3>1. \A a \in Automations : run'[a] = NoRun => log'[a] = {}
      BY <1>t, <1>u, <2>4, Constants0 DEF TypeOK
    <3>2. QED
      BY <1>t, <1>u, <2>3, <2>4, <3>1, TypesNow, Types DEF Typed, TypeOK, world
  <2>8. Shape'
    BY <1>t, <1>u, <2>3, <2>4 DEF Shape, JobAt, TriggerAt, NewRun
  <2>9. Unnamed'
    BY <1>t, <1>u, <2>4, <2>6, Constants0 DEF Unnamed
  <2>10. Alone'
    BY <1>t, <1>u, <2>5, <2>6 DEF Alone, Walks
  <2>11. ActiveIsWalked'
    BY <1>t, <1>u, <1>1, <2>4, <2>6 DEF ActiveIsWalked, Walked, Walks, Active
  <2>12. ReadIsTrue'
    BY <1>t, <1>u, <2>4, <2>5 DEF ReadIsTrue, Took, JobAt
  <2>13. NoStepSkipped'
    <3>1. \A a \in Automations : run'[a].step = IF a = b THEN 0 ELSE run[a].step
      BY <2>4 DEF NewRun
    <3>2. ASSUME NEW a \in Automations, NEW i \in 0 .. run'[a].step - 1
          PROVE  TookNow(a, i)
      <4>1. a # b
        BY <3>1, <3>2
      <4>2. QED
        BY <1>t, <1>u, <3>1, <3>2, <4>1 DEF NoStepSkipped, TookNow
    <3>3. QED
      BY <3>2 DEF NoStepSkipped, TookNow
  <2>14. LateInserts'
    BY <1>t, <1>u, <2>3 DEF LateInserts, TriggerAt
  <2>15. OnlyLateRunsOutlive'
    BY <1>t, <1>u, <1>1, <2>4 DEF b, OnlyLateRunsOutlive, LateInserts
  <2>16. WaitIsKept'
    BY <1>t, <1>u, <2>4, <2>6 DEF WaitIsKept, Walks, NewRun
  <2>17. QED
    BY <2>7, <2>8, <2>9, <2>10, <2>11, <2>12, <2>13, <2>14, <2>15, <2>16 DEF IInv
<1>5. QED
  BY <1>3, <1>4 DEF Insert

\* The trigger job hands a run over to the first step job.
LEMMA StartRunStep ==
  ASSUME IInv, NEW t \in Triggers, NEW b \in Automations, StartRun(t, b)
  PROVE  IInv'
<1>t. /\ TypeOK /\ Shape /\ Unnamed /\ Alone /\ ActiveIsWalked /\ ReadIsTrue /\ NoStepSkipped
      /\ LateInserts /\ OnlyLateRunsOutlive /\ WaitIsKept
      /\ trigger \in [Triggers -> TriggerStates] /\ trigger[t] \in TriggerStates
      /\ job \in [Jobs -> JobStates]
  BY Types DEF IInv
<1>u. UNCHANGED <<contact, automation, optedOut, run, log, faults, lost, retried, late>>
  BY DEF StartRun, world, history
<1>1. PICK k \in Jobs : Free(k) /\ job' = [job EXCEPT ![k] = StepJob(b, 0)]
  BY DEF StartRun
<1>2. Starts(t, b) /\ TriggerAt(t, "enqueue")
  BY DEF StartRun, Starts
<1>3. /\ job' \in [Jobs -> JobStates]
      /\ \A j \in Jobs : j # k => job'[j] = job[j]
      /\ job'[k].pc = "queued" /\ job'[k].run = b /\ job[k].pc = "none" /\ job[k].run = Gone
  <2>1. StepJob(b, 0) \in JobStates
    BY Constants0 DEF Delay
  <2>2. QED
    BY <1>1, <1>t, <2>1 DEF StepJob, Free, NoJob
<1>4. /\ trigger' \in [Triggers -> TriggerStates]
      /\ \A u \in Triggers : u # t => trigger'[u] = trigger[u]
      /\ trigger'[t].made = trigger[t].made \ {b}
      /\ trigger'[t].pc = IF trigger[t].made = {b} THEN "ended" ELSE "enqueue"
  <2> DEFINE pc == IF trigger[t].made = {b} THEN "ended" ELSE "enqueue"
  <2>1. trigger'[t] = [pc |-> pc, todo |-> trigger[t].todo, made |-> trigger[t].made \ {b}, at |-> trigger[t].at]
    BY <1>t, <1>2 DEF StartRun, TriggerStates, TriggerAt
  <2>2. trigger'[t] \in TriggerStates
    BY <1>t, <2>1 DEF TriggerStates
  <2>3. \A u \in Triggers : u # t => trigger'[u] = trigger[u]
    BY <1>t DEF StartRun
  <2>4. trigger' \in [Triggers -> TriggerStates]
    BY <1>t, <2>2, <2>3 DEF StartRun
  <2>5. QED
    BY <2>1, <2>3, <2>4
<1>5. \A u \in Triggers, a \in Automations : Starts(u, a)' <=> (Starts(u, a) /\ ~(u = t /\ a = b))
  BY <1>4 DEF Starts
<1>6. \A j \in Jobs, a \in Automations : Walks(j, a)' <=> (Walks(j, a) \/ (j = k /\ a = b))
  BY <1>3, GoneAssumption DEF Walks
<1>7. TypeOK'
  BY <1>t, <1>u, <1>3, <1>4, TypesNow, Types DEF Typed, TypeOK, world
<1>8. Shape'
  BY <1>t, <1>u, <1>3, <1>4 DEF Shape, JobAt, TriggerAt
<1>9. Unnamed'
  BY <1>t, <1>u, <1>2, <1>3, <1>5 DEF Unnamed
<1>10. Alone'
  BY <1>t, <1>u, <1>2, <1>5, <1>6 DEF Alone
<1>11. ActiveIsWalked'
  BY <1>t, <1>u, <1>5, <1>6 DEF ActiveIsWalked, Walked, Active
<1>12. ReadIsTrue'
  BY <1>t, <1>u, <1>3 DEF ReadIsTrue, Took, JobAt
<1>13. NoStepSkipped' /\ OnlyLateRunsOutlive'
  BY <1>t, <1>u DEF NoStepSkipped, OnlyLateRunsOutlive
<1>14. LateInserts'
  BY <1>t, <1>u, <1>4 DEF LateInserts, TriggerAt
<1>15. WaitIsKept'
  BY <1>t, <1>u, <1>2, <1>3, <1>5, <1>6 DEF WaitIsKept
<1>16. QED
  BY <1>7, <1>8, <1>9, <1>10, <1>11, <1>12, <1>13, <1>14, <1>15 DEF IInv

-----------------------------------------------------------------------------
(* The rest of the Workspace                                               *)

\* Edits leave every run where it is, or end it.
LEMMA EditStep ==
  ASSUME IInv, NEW b \in Automations, Unsubscribe(b) \/ Activate(b) \/ Deactivate(b) \/ Update(b)
  PROVE  IInv'
<1>t. /\ TypeOK /\ Shape /\ Unnamed /\ Alone /\ ActiveIsWalked /\ ReadIsTrue /\ NoStepSkipped
      /\ LateInserts /\ OnlyLateRunsOutlive /\ WaitIsKept
      /\ run \in [Automations -> RunStates]
  BY Types DEF IInv
<1>u. UNCHANGED <<contact, log, trigger, job, faults, lost, retried, late>>
  BY DEF Unsubscribe, Activate, Deactivate, Update, history
<1>1. /\ run' \in [Automations -> RunStates] /\ optedOut' \subseteq Automations
      /\ \A a \in Automations :
           /\ run'[a].status = "none" \/ run[a].status = "none" => run'[a] = run[a]
           /\ run'[a].step = run[a].step
           /\ run'[a] = run[a] \/ (run'[a].status = "exited" /\ run'[a].left = 0)
  <2>1. CASE Unsubscribe(b) /\ Active(b)
    <3>1. run' = [run EXCEPT ![b].status = "exited", ![b].left = 0]
      BY <2>1 DEF Unsubscribe
    <3>2. QED
      BY <1>t, <2>1, <3>1, Closes DEF Unsubscribe, TypeOK, Active
  <2>2. CASE UNCHANGED run
    BY <1>t, <2>2 DEF Unsubscribe, Activate, Deactivate, Update, TypeOK
  <2>3. QED
    BY <2>1, <2>2 DEF Unsubscribe, Activate, Deactivate, Update
<1>2. /\ automation' \in [Automations -> [status : {"draft", "active", "deleted"}, steps : Definitions]]
      /\ \A a \in Automations : automation'[a].status = "deleted" <=> automation[a].status = "deleted"
  <2>1. CASE UNCHANGED automation
    BY <1>t, <2>1 DEF TypeOK
  <2>2. CASE Activate(b) \/ Deactivate(b)
    <3>1. automation \in [Automations -> [status : {"draft", "active", "deleted"}, steps : Definitions]]
      BY <1>t DEF TypeOK
    <3>2. PICK s \in {"draft", "active"} :
            automation[b].status # "deleted" /\ automation' = [automation EXCEPT ![b].status = s]
      BY <2>2 DEF Activate, Deactivate
    <3>3. automation'[b] = [status |-> s, steps |-> automation[b].steps]
      BY <3>1, <3>2
    <3>4. \A a \in Automations : a # b => automation'[a] = automation[a]
      BY <3>1, <3>2
    <3>5. automation'[b] \in [status : {"draft", "active", "deleted"}, steps : Definitions]
      BY <3>1, <3>3
    <3>6. automation' \in [Automations -> [status : {"draft", "active", "deleted"}, steps : Definitions]]
      BY <3>1, <3>2, <3>4, <3>5
    <3>7. QED
      BY <3>2, <3>3, <3>4, <3>6
  <2>3. CASE Update(b)
    BY <1>t, <2>3 DEF TypeOK, Update
  <2>4. QED
    BY <2>1, <2>2, <2>3 DEF Unsubscribe
<1>3. \A a \in Automations : run'[a] = NoRun <=> run[a] = NoRun
  BY <1>1 DEF NoRun
<1>4. TypeOK'
  <2>1. /\ log' \in [Automations -> LogStates] /\ trigger' \in [Triggers -> TriggerStates]
        /\ job' \in [Jobs -> JobStates]
        /\ \A a \in Automations : run'[a] = NoRun => log'[a] = {}
    BY <1>t, <1>u, <1>3, Types DEF TypeOK
  <2>2. /\ contact' \in {"reachable", "mute", "erased"} /\ faults' \in 0 .. MaxFaults
        /\ lost' \subseteq Automations /\ retried' \subseteq Automations /\ late' \subseteq Automations
    BY <1>t, <1>u DEF TypeOK
  <2>3. QED
    BY <1>1, <1>2, <2>1, <2>2, Zenon DEF TypeOK, RunStates, LogStates, TriggerStates, JobStates
<1>5. Shape'
  BY <1>t, <1>u, <1>1 DEF Shape, JobAt, TriggerAt
<1>6. Unnamed'
  BY <1>t, <1>u, <1>2, <1>3 DEF Unnamed, Starts
<1>7. Alone' /\ LateInserts'
  BY <1>t, <1>u DEF Alone, LateInserts, Walks, Starts, TriggerAt
<1>8. ActiveIsWalked'
  BY <1>t, <1>u, <1>1 DEF ActiveIsWalked, Walked, Walks, Starts, Active
<1>9. ReadIsTrue' /\ OnlyLateRunsOutlive'
  BY <1>t, <1>u, <1>3 DEF ReadIsTrue, OnlyLateRunsOutlive, Took, JobAt
<1>10. NoStepSkipped'
  BY <1>t, <1>u, <1>1 DEF NoStepSkipped
<1>11. WaitIsKept'
  BY <1>t, <1>u, <1>1 DEF WaitIsKept, Walks, Starts
<1>12. QED
  BY <1>4, <1>5, <1>6, <1>7, <1>8, <1>9, <1>10, <1>11 DEF IInv

\* A deleted Automation loses its run for good: nothing inserts another.
LEMMA DeleteStep ==
  ASSUME IInv, NEW b \in Automations, Delete(b)
  PROVE  IInv'
<1>t. /\ TypeOK /\ Shape /\ Unnamed /\ Alone /\ ActiveIsWalked /\ ReadIsTrue /\ NoStepSkipped
      /\ LateInserts /\ OnlyLateRunsOutlive /\ WaitIsKept
      /\ run \in [Automations -> RunStates] /\ log \in [Automations -> LogStates]
  BY Types DEF IInv
<1>u. UNCHANGED <<contact, optedOut, trigger, job, faults, lost, retried, late>>
  BY DEF Delete, history
<1>1. /\ run' \in [Automations -> RunStates] /\ log' \in [Automations -> LogStates]
      /\ run'[b] = NoRun /\ log'[b] = {}
      /\ \A a \in Automations : a # b => run'[a] = run[a] /\ log'[a] = log[a]
  <2>1. NoRun \in RunStates /\ {} \in LogStates
    BY Constants0 DEF LogStates
  <2>2. QED
    BY <1>t, <2>1 DEF Delete
<1>2. /\ automation' \in [Automations -> [status : {"draft", "active", "deleted"}, steps : Definitions]]
      /\ automation'[b].status = "deleted"
      /\ \A a \in Automations : a # b => automation'[a] = automation[a]
  <2>1. automation \in [Automations -> [status : {"draft", "active", "deleted"}, steps : Definitions]]
    BY <1>t DEF TypeOK
  <2>2. automation'[b] = [status |-> "deleted", steps |-> automation[b].steps]
    BY <2>1 DEF Delete
  <2>3. \A a \in Automations : a # b => automation'[a] = automation[a]
    BY <2>1 DEF Delete
  <2>4. automation'[b] \in [status : {"draft", "active", "deleted"}, steps : Definitions]
    BY <2>1, <2>2
  <2>5. QED
    BY <2>1, <2>2, <2>3, <2>4 DEF Delete
<1>3. NoRun.status = "none" /\ NoRun.step = 0 /\ NoRun.left = 0
  BY DEF NoRun
<1>4. TypeOK'
  <2>1. /\ trigger' \in [Triggers -> TriggerStates] /\ job' \in [Jobs -> JobStates]
        /\ \A a \in Automations : run'[a] = NoRun => log'[a] = {}
    BY <1>t, <1>u, <1>1, Types DEF TypeOK
  <2>2. /\ contact' \in {"reachable", "mute", "erased"} /\ faults' \in 0 .. MaxFaults /\ optedOut' \subseteq Automations
        /\ lost' \subseteq Automations /\ retried' \subseteq Automations /\ late' \subseteq Automations
    BY <1>t, <1>u DEF TypeOK
  <2>3. QED
    BY <1>1, <1>2, <2>1, <2>2, Zenon DEF TypeOK, RunStates, LogStates, TriggerStates, JobStates
<1>5. Shape'
  BY <1>t, <1>u, <1>1 DEF Shape, JobAt, TriggerAt
<1>6. Unnamed'
  BY <1>t, <1>u, <1>1, <1>2 DEF Unnamed, Starts
<1>7. Alone' /\ LateInserts'
  BY <1>t, <1>u DEF Alone, LateInserts, Walks, Starts, TriggerAt
<1>8. ActiveIsWalked'
  BY <1>t, <1>u, <1>1, <1>3 DEF ActiveIsWalked, Walked, Walks, Starts, Active
<1>9. ReadIsTrue' /\ OnlyLateRunsOutlive'
  BY <1>t, <1>u, <1>1 DEF ReadIsTrue, OnlyLateRunsOutlive, Took, JobAt
<1>10. NoStepSkipped'
  <2>1. ASSUME NEW a \in Automations, NEW i \in 0 .. run'[a].step - 1
        PROVE  TookNow(a, i)
    <3>1. a # b
      BY <1>1, <1>3, <2>1
    <3>2. QED
      BY <1>t, <1>1, <2>1, <3>1 DEF NoStepSkipped, TookNow
  <2>2. QED
    BY <2>1 DEF NoStepSkipped, TookNow
<1>11. WaitIsKept'
  BY <1>t, <1>u, <1>1, <1>3 DEF WaitIsKept, Walks, Starts
<1>12. QED
  BY <1>4, <1>5, <1>6, <1>7, <1>8, <1>9, <1>10, <1>11 DEF IInv

\* The Erasure leaves no run, no job that names one, and the INSERTs under way.
LEMMA EraseStep ==
  ASSUME IInv, Erase
  PROVE  IInv'
<1>t. /\ TypeOK /\ Shape
      /\ trigger \in [Triggers -> TriggerStates] /\ job \in [Jobs -> JobStates]
  BY Types DEF IInv
<1>1. /\ run' \in [Automations -> RunStates] /\ log' \in [Automations -> LogStates]
      /\ \A a \in Automations : run'[a] = NoRun /\ log'[a] = {}
      /\ contact' = "erased" /\ optedOut' = {} /\ lost' = {} /\ retried' = {}
      /\ UNCHANGED <<automation, faults>>
  <2>1. NoRun \in RunStates /\ {} \in LogStates
    BY Constants0 DEF LogStates
  <2>2. QED
    BY <2>1 DEF Erase
<1>2. \A t \in Triggers :
        /\ trigger'[t] \in TriggerStates /\ trigger'[t].made = {}
        /\ trigger'[t].pc = "insert" => TriggerAt(t, "insert") /\ trigger'[t].at = trigger[t].at
  <2> TAKE t \in Triggers
  <2>1. CASE TriggerAt(t, "queued")
    <3>1. trigger'[t] = [Idle EXCEPT !.pc = "ended"]
      BY <2>1 DEF Erase
    <3>2. QED
      BY <3>1 DEF Idle, TriggerStates
  <2>2. CASE ~TriggerAt(t, "queued")
    <3>1. trigger'[t] = [trigger[t] EXCEPT !.made = {}]
      BY <2>2 DEF Erase
    <3>2. trigger[t] \in TriggerStates
      BY <1>t
    <3>3. QED
      BY <3>1, <3>2 DEF TriggerStates, TriggerAt
  <2>3. QED
    BY <2>1, <2>2
<1>3. trigger' \in [Triggers -> TriggerStates]
  BY <1>2 DEF Erase
<1>4. \A j \in Jobs :
        /\ job'[j] \in JobStates /\ job'[j].run = Gone
        /\ job'[j] = NoJob \/ (job'[j].pc = job[j].pc /\ job'[j].step = job[j].step /\ ~JobAt(j, "none"))
  <2> TAKE j \in Jobs
  <2>1. CASE JobAt(j, "queued")
    BY <2>1, Constants0 DEF Erase, NoJob
  <2>2. CASE ~JobAt(j, "queued")
    <3>1. job'[j] = [job[j] EXCEPT !.run = Gone] /\ job[j] \in JobStates
      BY <1>t, <2>2 DEF Erase
    <3>2. /\ job'[j] \in JobStates /\ job'[j].run = Gone /\ job'[j].pc = job[j].pc
          /\ job'[j].step = job[j].step /\ job'[j].delay = job[j].delay
      BY <3>1 DEF JobStates
    <3>3. JobAt(j, "none") => job'[j] = NoJob
      <4> SUFFICES ASSUME JobAt(j, "none") PROVE job'[j] = NoJob
        OBVIOUS
      <4>1. job[j] = NoJob
        BY <1>t DEF Shape
      <4>2. QED
        BY <3>1, <4>1 DEF NoJob
    <3>4. QED
      BY <3>2, <3>3
  <2>3. QED
    BY <2>1, <2>2
<1>5. job' \in [Jobs -> JobStates]
  BY <1>4 DEF Erase
<1>6. late' = {trigger[t].at : t \in {u \in Triggers : TriggerAt(u, "insert")}}
  BY DEF Erase
<1>7. late' \subseteq Automations
  <2>1. \A t \in Triggers : TriggerAt(t, "insert") => trigger[t].at \in Automations
    BY <1>t DEF Shape, TriggerStates
  <2>2. QED
    BY <1>6, <2>1
<1>8. TypeOK'
  <2>1. /\ automation' \in [Automations -> [status : {"draft", "active", "deleted"}, steps : Definitions]]
        /\ faults' \in 0 .. MaxFaults
        /\ contact' \in {"reachable", "mute", "erased"}
        /\ optedOut' \subseteq Automations /\ lost' \subseteq Automations /\ retried' \subseteq Automations
    BY <1>t, <1>1 DEF TypeOK
  <2>2. QED
    BY <1>1, <1>3, <1>5, <1>7, <2>1, Zenon DEF TypeOK, RunStates, LogStates, TriggerStates, JobStates
<1>9. Shape'
  <2>1. \A j \in Jobs : (job'[j].pc = "none" => job'[j] = NoJob) /\ (job'[j].pc = "advance" => job'[j].step < Length)
    BY <1>t, <1>4 DEF Shape, JobAt, NoJob
  <2>2. \A t \in Triggers : trigger'[t].pc = "insert" => trigger'[t].at # Gone
    BY <1>t, <1>2 DEF Shape
  <2>3. QED
    BY <1>1, <1>2, <2>1, <2>2 DEF Shape, JobAt, TriggerAt
<1>10. Unnamed' /\ Alone' /\ ActiveIsWalked' /\ ReadIsTrue' /\ OnlyLateRunsOutlive'
  BY <1>1, <1>2, <1>4, GoneAssumption
     DEF Unnamed, Alone, ActiveIsWalked, ReadIsTrue, OnlyLateRunsOutlive, Walks, Starts
<1>11. \A a \in Automations : run'[a].step = 0 /\ run'[a].left = 0
  BY <1>1 DEF NoRun
<1>12. NoStepSkipped' /\ WaitIsKept'
  <2>1. \A a \in Automations : \A i \in 0 .. run'[a].step - 1 : FALSE
    BY <1>11
  <2>2. QED
    BY <1>11, <2>1 DEF NoStepSkipped, WaitIsKept
<1>13. LateInserts'
  BY <1>2, <1>6 DEF LateInserts, TriggerAt
<1>14. QED
  BY <1>8, <1>9, <1>10, <1>12, <1>13 DEF IInv

\* A tick shortens a wait no more than the delay of the job that is to end it.
LEMMA TickStep ==
  ASSUME IInv, Tick
  PROVE  IInv'
<1>t. /\ TypeOK /\ Shape /\ Unnamed /\ Alone /\ ActiveIsWalked /\ ReadIsTrue /\ NoStepSkipped
      /\ LateInserts /\ OnlyLateRunsOutlive /\ WaitIsKept
      /\ run \in [Automations -> RunStates] /\ job \in [Jobs -> JobStates]
  BY Types DEF IInv
<1>u. UNCHANGED <<contact, automation, optedOut, log, trigger, faults, lost, retried, late>>
  BY DEF Tick, world, history
<1>1. \A a \in Automations :
        /\ run'[a] \in RunStates /\ run'[a].left = Less(run[a].left)
        /\ run'[a].status = run[a].status /\ run'[a].step = run[a].step
  <2> TAKE a \in Automations
  <2>1. run'[a] = [run[a] EXCEPT !.left = Less(run[a].left)] /\ run[a] \in RunStates
    BY <1>t DEF Tick
  <2>2. Less(run[a].left) \in 0 .. Delay
    BY <2>1 DEF Less, RunStates, Delay
  <2>3. QED
    BY <2>1, <2>2 DEF RunStates
<1>2. \A j \in Jobs :
        /\ job'[j] \in JobStates /\ job'[j].delay = Less(job[j].delay)
        /\ job'[j].pc = job[j].pc /\ job'[j].run = job[j].run /\ job'[j].step = job[j].step
  <2> TAKE j \in Jobs
  <2>1. job'[j] = [job[j] EXCEPT !.delay = Less(job[j].delay)] /\ job[j] \in JobStates
    BY <1>t DEF Tick
  <2>2. Less(job[j].delay) \in 0 .. Delay
    BY <2>1 DEF Less, JobStates, Delay
  <2>3. QED
    BY <2>1, <2>2 DEF JobStates
<1>3. run' \in [Automations -> RunStates] /\ job' \in [Jobs -> JobStates]
  BY <1>1, <1>2 DEF Tick
<1>4. \A a \in Automations :
        /\ run'[a].status = "none" => run'[a] = NoRun
        /\ run'[a] = NoRun <=> run[a] = NoRun
  <2> TAKE a \in Automations
  <2>1. run[a].status = "none" <=> run[a] = NoRun
    BY <1>t DEF Shape, NoRun
  <2>2. run[a] = NoRun => run'[a] = NoRun
    <3>1. run[a] = NoRun => run'[a] = [NoRun EXCEPT !.left = Less(NoRun.left)]
      BY DEF Tick
    <3>2. QED
      BY <3>1 DEF NoRun, Less
  <2>3. run'[a] = NoRun => run[a].status = "none"
    BY <1>1 DEF NoRun
  <2>4. QED
    BY <1>1, <2>1, <2>2, <2>3
<1>5. \A j \in Jobs : job'[j].pc = "none" => job'[j] = NoJob
  <2> SUFFICES ASSUME NEW j \in Jobs, job'[j].pc = "none" PROVE job'[j] = NoJob
    OBVIOUS
  <2>1. job[j] = NoJob
    BY <1>t, <1>2 DEF Shape, JobAt
  <2>2. job'[j] = [NoJob EXCEPT !.delay = Less(NoJob.delay)]
    BY <2>1 DEF Tick
  <2>3. QED
    BY <2>2 DEF NoJob, Less
<1>6. TypeOK'
  BY <1>t, <1>u, <1>3, <1>4, TypesNow, Types DEF Typed, TypeOK, world
<1>7. Shape'
  BY <1>t, <1>u, <1>2, <1>4, <1>5 DEF Shape, JobAt, TriggerAt
<1>8. Unnamed' /\ Alone' /\ ActiveIsWalked' /\ LateInserts' /\ OnlyLateRunsOutlive'
  BY <1>t, <1>u, <1>1, <1>2, <1>4
     DEF Unnamed, Alone, ActiveIsWalked, LateInserts, OnlyLateRunsOutlive, Walked, Walks, Starts, Active, TriggerAt
<1>9. ReadIsTrue' /\ NoStepSkipped'
  BY <1>t, <1>u, <1>1, <1>2, <1>4 DEF ReadIsTrue, NoStepSkipped, Took, JobAt
<1>10. WaitIsKept'
  <2>1. \A m, n \in 0 .. Delay : Less(m) > 0 => m > 0 /\ (m <= n => Less(m) <= Less(n))
    BY DEF Less, Delay
  <2>2. \A a \in Automations : run[a].left \in 0 .. Delay
    BY <1>t DEF RunStates
  <2>3. \A j \in Jobs : job[j].delay \in 0 .. Delay
    BY <1>t DEF JobStates
  <2>4. QED
    BY <1>t, <1>u, <1>1, <1>2, <2>1, <2>2, <2>3 DEF WaitIsKept, Walks, Starts
<1>11. QED
  BY <1>6, <1>7, <1>8, <1>9, <1>10 DEF IInv

-----------------------------------------------------------------------------
(* The theorems                                                            *)

LEMMA Initially == Init => IInv
<1> SUFFICES ASSUME Init PROVE IInv
  OBVIOUS
<1>1. /\ run \in [Automations -> RunStates] /\ \A a \in Automations : run[a] = NoRun /\ log[a] = {}
      /\ log \in [Automations -> LogStates]
      /\ trigger \in [Triggers -> TriggerStates] /\ \A t \in Triggers : trigger[t] = Idle
      /\ job \in [Jobs -> JobStates] /\ \A j \in Jobs : job[j] = NoJob
  <2>1. {} \in LogStates
    BY DEF LogStates
  <2>2. QED
    BY <2>1, Constants0 DEF Init
<1>2. TypeOK
  <2>1. /\ automation \in [Automations -> [status : {"draft", "active", "deleted"}, steps : Definitions]]
        /\ faults \in 0 .. MaxFaults /\ contact \in {"reachable", "mute", "erased"}
    BY FaultsAssumption DEF Init
  <2>2. lost = {} /\ retried = {} /\ late = {} /\ optedOut = {}
    BY DEF Init
  <2>3. QED
    BY <1>1, <2>1, <2>2 DEF TypeOK, RunStates, LogStates, TriggerStates, JobStates
<1>3. /\ NoRun.status = "none" /\ NoRun.step = 0 /\ NoRun.left = 0 /\ Idle.pc = "queued" /\ Idle.made = {}
      /\ NoJob.pc = "none" /\ NoJob.run = Gone
  BY DEF NoRun, Idle, NoJob
<1>4. Shape
  BY <1>1, <1>3 DEF Shape, JobAt, TriggerAt
<1>5. Unnamed /\ Alone
  BY <1>1, <1>3, GoneAssumption DEF Unnamed, Alone, Walks, Starts
<1>6. ActiveIsWalked /\ ReadIsTrue /\ LateInserts /\ OnlyLateRunsOutlive /\ WaitIsKept
  BY <1>1, <1>3 DEF ActiveIsWalked, ReadIsTrue, LateInserts, OnlyLateRunsOutlive, WaitIsKept, Active, JobAt, TriggerAt
<1>7. NoStepSkipped
  <2>1. \A a \in Automations : \A i \in 0 .. run[a].step - 1 : FALSE
    BY <1>1, <1>3
  <2>2. QED
    BY <2>1 DEF NoStepSkipped
<1>8. QED
  BY <1>2, <1>4, <1>5, <1>6, <1>7 DEF IInv

LEMMA StepEffect ==
  ASSUME IInv, NEW j \in Jobs, Step(j)
  PROVE  IInv'
<1>1. CASE Enqueue(j)
  BY <1>1, EnqueueStep
<1>2. CASE ~Enqueue(j)
  <2>1. Effect(j)
    BY <1>2, QuietEffect, EndRunEffect, WaitStepEffect, RecordEffect, AdvanceEffect, FailRunEffect DEF Step
  <2>2. QED
    BY <2>1, EffectStep
<1>3. QED
  BY <1>1, <1>2

LEMMA Inductive == IInv /\ [Next]_vars => IInv'
<1> SUFFICES ASSUME IInv, [Next]_vars PROVE IInv'
  OBVIOUS
<1>1. ASSUME NEW t \in Triggers, Trigger(t) \/ InterruptTrigger(t) PROVE IInv'
  <2>1. CASE Insert(t)
    BY <2>1, InsertStep
  <2>2. CASE \E a \in Automations : StartRun(t, a)
    BY <2>2, StartRunStep
  <2>3. CASE TriggerEffect(t)
    BY <2>3, TriggerStep
  <2>4. QED
    BY <1>1, <2>1, <2>2, <2>3, TriggerTurns DEF Trigger
<1>2. CASE Workspace
  BY <1>2, EditStep, DeleteStep, EraseStep DEF Workspace
<1>3. CASE UNCHANGED vars
  <2>1. UNCHANGED <<contact, automation, run, log, optedOut, trigger, job, faults, lost, retried, late>>
    BY <1>3 DEF vars
  <2>2. TypeOK'
    BY <2>1 DEF IInv, TypeOK
  <2>3. Shape' /\ Unnamed' /\ Alone' /\ ActiveIsWalked'
    BY <2>1 DEF IInv, Shape, Unnamed, Alone, ActiveIsWalked, JobAt, TriggerAt, Walked, Walks, Starts, Active
  <2>4. ReadIsTrue' /\ NoStepSkipped' /\ LateInserts' /\ OnlyLateRunsOutlive' /\ WaitIsKept'
    BY <2>1 DEF IInv, ReadIsTrue, NoStepSkipped, LateInserts, OnlyLateRunsOutlive, WaitIsKept,
                Took, JobAt, TriggerAt, Walks, Starts
  <2>5. QED
    BY <2>2, <2>3, <2>4 DEF IInv
<1>4. QED
  BY <1>1, <1>2, <1>3, StepEffect, InterruptStep, TickStep DEF Next

LEMMA Invariance == Spec => []IInv
<1>1. QED
  BY Initially, Inductive, PTL DEF Spec

\* Runs, logs, trigger jobs and step jobs are well typed; above all no run ever
\* stands past the end of the longest definition, however its definition is
\* edited while a job is between reading a step and advancing past it.
THEOREM TypeCorrect == Spec => []TypeOK
<1>1. IInv => TypeOK
  BY DEF IInv
<1>2. QED
  BY <1>1, Invariance, PTL

\* An active Enrollment always has a job that walks it or will start it, but for
\* the runs whose job was given up: the chain of step jobs is never broken by a
\* crash, a retry or a wait.
THEOREM ChainIsUnbroken == Spec => []ActiveIsWalked
<1>1. IInv => ActiveIsWalked
  BY DEF IInv
<1>2. QED
  BY <1>1, Invariance, PTL

\* However many trigger jobs race to enroll a Contact and however many places the
\* queue has, an Enrollment has at most one job at a time that walks or will
\* start it, until a job is retried after it queued its successor.
THEOREM OneWalkerAtATime == Spec => []OneWalker
<1>1. ASSUME Alone, NEW a \in Automations \ retried
      PROVE  Cardinality({j \in Jobs : Walks(j, a)}) + Cardinality({t \in Triggers : Starts(t, a)}) <= 1
  <2> DEFINE W == {j \in Jobs : Walks(j, a)}
             S == {t \in Triggers : Starts(t, a)}
  <2>1. W = {} \/ \E j \in Jobs : W = {j}
    BY <1>1 DEF Alone
  <2>2. S = {} \/ \E t \in Triggers : S = {t}
    BY <1>1 DEF Alone
  <2>3. W = {} \/ S = {}
    BY <1>1 DEF Alone
  <2> HIDE DEF W, S
  <2>4. Cardinality(W) = 0 \/ (Cardinality(W) = 1 /\ W # {})
    BY <2>1, FS_EmptySet, FS_Singleton
  <2>5. Cardinality(S) = 0 \/ (Cardinality(S) = 1 /\ S # {})
    BY <2>2, FS_EmptySet, FS_Singleton
  <2>6. Cardinality(W) + Cardinality(S) <= 1
    BY <2>3, <2>4, <2>5, FS_EmptySet
  <2>7. QED
    BY <2>6 DEF W, S
<1>2. IInv => OneWalker
  BY <1>1 DEF IInv, OneWalker
<1>3. QED
  BY <1>2, Invariance, PTL

\* Every step before a run's current one took effect, whatever is retried and
\* even if the jobs of a forked chain overtake one another.
THEOREM StepsAreTaken == Spec => []NoStepSkipped
<1>1. IInv => NoStepSkipped
  BY DEF IInv
<1>2. QED
  BY <1>1, Invariance, PTL

\* Of an erased Contact only those runs are there whose INSERT was under way.
THEOREM OnlyLateRunsStay == Spec => []OnlyLateRunsOutlive
<1>1. IInv => OnlyLateRunsOutlive
  BY DEF IInv
<1>2. QED
  BY <1>1, Invariance, PTL

\* No step of a run takes effect while the run waits, unless a job of the run was
\* retried after it advanced it.
THEOREM WaitsAreKept == Spec => WaitsAreWaited
<1>1. ASSUME IInv, [Next]_vars
      PROVE  \A a \in Automations : log'[a] \notin {log[a], {}} /\ run[a].left > 0 => a \in retried
  <2> SUFFICES ASSUME NEW a \in Automations, log'[a] \notin {log[a], {}}, run[a].left > 0,
                      a \notin retried
               PROVE  FALSE
    OBVIOUS
  <2>1. ASSUME NEW j \in Jobs, WaitStep(j) \/ TagStep(j) \/ Decide(j) PROVE FALSE
    <3>1. PICK effect \in {"sent", "skipped", "failed", "tag", "wait"} :
            JobAt(j, "step") /\ Found(j) /\ Record(j, effect)
      BY <2>1 DEF WaitStep, TagStep, Decide, At
    <3>2. /\ TypeOK /\ job[j].run # Gone
          /\ job[j].run \notin retried => run[job[j].run].left = 0
      BY <1>1, <3>1, InStep DEF JobAt, Found
    <3>3. a = job[j].run
      BY <3>1, <3>2, Records
    <3>4. QED
      BY <3>2, <3>3
  <2>2. ASSUME NEW b \in Automations, Delete(b) PROVE FALSE
    <3>1. log \in [Automations -> LogStates] /\ log' = [log EXCEPT ![b] = {}]
      BY <1>1, <2>2, Types DEF Delete, IInv
    <3>2. QED
      BY <3>1
  <2>3. CASE Erase
    BY <2>3 DEF Erase
  <2>4. ASSUME NEW j \in Jobs, Step(j) \/ Interrupt(j) PROVE FALSE
    <3>1. CASE Interrupt(j)
      BY <3>1 DEF Interrupt
    <3>2. CASE WaitStep(j) \/ TagStep(j) \/ Decide(j)
      BY <2>1, <3>2
    <3>3. CASE ReadRun(j) \/ RunVanishes(j) \/ Defer(j) \/ ContactVanished(j) \/ Enqueue(j) \/ Complete(j)
      BY <3>3 DEF ReadRun, RunVanishes, Defer, ContactVanished, Enqueue, Complete
    <3>4. CASE Advance(j) \/ FailRun(j) \/ CompleteRun(j) \/ ExitRun(j)
      BY <3>4 DEF Advance, FailRun, CompleteRun, ExitRun, EndRun
    <3>5. QED
      BY <2>4, <3>1, <3>2, <3>3, <3>4 DEF Step
  <2>5. ASSUME NEW t \in Triggers, Trigger(t) \/ InterruptTrigger(t) PROVE FALSE
    BY <2>5 DEF Trigger, InterruptTrigger, Load, Insert, Enrolled, Look, StartRun
  <2>6. CASE Tick \/ UNCHANGED vars
    BY <2>6 DEF Tick, vars
  <2>7. ASSUME NEW b \in Automations, Unsubscribe(b) \/ Activate(b) \/ Deactivate(b) \/ Update(b) PROVE FALSE
    BY <2>7 DEF Unsubscribe, Activate, Deactivate, Update
  <2>8. QED
    BY <1>1, <2>2, <2>3, <2>4, <2>5, <2>6, <2>7, Zenon DEF Next, Workspace
<1>2. IInv /\ [Next]_vars =>
        [\A a \in Automations :
           log'[a] \notin {log[a], {}} /\ run[a].left > 0 => a \in retried]_vars
  BY <1>1
<1>3. QED
  BY <1>2, Invariance, PTL DEF Spec, WaitsAreWaited
=============================================================================
