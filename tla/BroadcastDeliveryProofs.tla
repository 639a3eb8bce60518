----------------------- MODULE BroadcastDeliveryProofs -----------------------
(***************************************************************************)
(* Delivery of a Broadcast, for any audience, plans and failures: *)
(* its rows say what Outbound send recorded, a pending recipient has       *)
(* somebody to settle it, and a Broadcast that was planned once is settled *)
(* only when everybody is.                                                 *)
(*                                                                         *)
(* The first rests on what a recipient job carries from the answer it got  *)
(* to the row (Carries).  The second names who will take a pending         *)
(* recipient on: a plan that has still to read its row or has read it, or  *)
(* a job that has not passed it (Covers, Works).  The third is about       *)
(* counts taken some statements ago: nothing but an Erasure can change how *)
(* many recipients are decided once none is pending (InFull).              *)
(***************************************************************************)
EXTENDS BroadcastDelivery, FiniteSetTheorems, TLAPS

Running == {"lookup", "send", "provider", "lift", "park", "write", "giveup", "mark", "count", "settle"}
JobStates ==
  [pc : Running \cup {"none", "queued", "ended"}, attempt : 0 .. MaxAttempts,
   answer : Decided \cup {"none"}, tally : [Decided -> Nat]]
PlanStates ==
  [pc : {"queued", "claim", "audience", "verify", "insert", "reread", "total", "enqueue", "count",
         "settle", "ended"},
   ids : SUBSET Contacts, tally : [Decided -> Nat]]
ErasureStates ==
  [pc : {"idle", "delete", "shrink", "count", "commit", "done"},
   unsent : BOOLEAN, ready : BOOLEAN, tally : [Decided -> Nat]]

-----------------------------------------------------------------------------
(* What a job carries.                                                     *)

\* A row of c that says s says no more than the message, or that c is gone.
Backs(c, s) ==
  /\ s = "sent" => message[c] = "sent"
  /\ s = "skipped" => message[c] = "skipped" \/ c \notin existing

\* Where a job is, it has a try left to begin, or has begun one; and it writes
\* an Outcome that is recorded.
Carries(j) ==
  /\ job[j].pc = "queued" => job[j].attempt < MaxAttempts
  /\ job[j].pc \in Running => job[j].attempt >= 1
  /\ job[j].pc \in {"lift", "write"} => job[j].answer \in Decided /\ Backs(j[1], job[j].answer)

RowInv == \A c \in Contacts : Backs(c, row[c])
CarryInv == \A j \in Jobs : Carries(j)

-----------------------------------------------------------------------------
(* Who will take a pending recipient on.                                   *)

\* The plan will read c's row, or has read it and will queue its job.
Covers(p, c) ==
  \/ plan[p].pc \in {"queued", "claim", "audience", "verify", "insert", "reread"}
  \/ plan[p].pc \in {"total", "enqueue"} /\ c \in plan[p].ids

\* The job has not passed c's row.
Works(j) == job[j].pc \notin {"none", "count", "settle", "ended"}

WorkInv ==
  \A c \in existing :
    row[c] = "pending" =>
      \/ c \in dropped
      \/ \E p \in Plans : Covers(p, c)
      \/ \E j \in Jobs : j[1] = c /\ Works(j)
      \/ erasure[c].pc \notin {"idle", "done"}

\* A template that does not render stops every plan at its start.
RenderInv ==
  ~renders => /\ \A p \in Plans : plan[p].pc \in {"queued", "ended"}
              /\ \A c \in Contacts : row[c] = "absent"

-----------------------------------------------------------------------------
(* Counts that are still right.                                            *)

Sum(tally) == tally["sent"] + tally["failed"] + tally["skipped"]
Present(rows) == Cardinality({c \in Contacts : rows[c] # "absent"})
Gone == Cardinality(Contacts \ existing)
Without(c) == [row EXCEPT ![c] = "absent"]

\* The tally adds up to the recipients, but for those erased since it was taken.
InFull(tally) ==
  /\ NonePending(row)
  /\ Present(row) <= Sum(tally) /\ Sum(tally) <= Present(row) + Gone

\* Nothing has been planned yet.
Fresh ==
  /\ status # "sent"
  /\ \A c \in Contacts : row[c] = "absent" /\ ~erasure[c].unsent
  /\ \A j \in Jobs : job[j].pc = "none"

Begun(p) == plan[p].pc \notin {"queued", "claim", "ended"}

\* While a Broadcast was planned once, one plan is under way at most, and up to
\* its insert nothing else has happened.
OnceInv ==
  plannings <= 1 =>
    /\ plannings = 0 => Fresh /\ \A p \in Plans : ~Begun(p)
    /\ \A p \in Plans : plan[p].pc \in {"audience", "verify", "insert"} => Fresh
    /\ \A p, q \in Plans : Begun(p) /\ Begun(q) => p = q

\* An Erasure that has written holds the Broadcast, alone, and its own row; what
\* it counted is what its commit will leave.
Writes(c) == erasure[c].pc \in {"count", "commit"} /\ erasure[c].unsent
EraseInv ==
  /\ \A c \in Contacts :
       /\ c \in existing <=> erasure[c].pc # "done"
       /\ erasure[c].pc \in {"shrink", "count"} => erasure[c].unsent
       /\ erasure[c].ready => erasure[c].pc = "commit" /\ erasure[c].unsent
       /\ plannings <= 1 /\ erasure[c].ready =>
            NonePending(Without(c)) /\ Sum(erasure[c].tally) = Present(Without(c))
  /\ \A c, d \in Contacts : Writes(c) /\ Writes(d) => c = d

FullInv ==
  plannings <= 1 =>
    /\ status = "sent" => InFull(counts)
    /\ \A p \in Plans : plan[p].pc = "settle" => InFull(plan[p].tally)
    /\ \A j \in Jobs : job[j].pc = "settle" => InFull(job[j].tally)

IInv ==
  /\ TypeOK
  /\ RowInv /\ CarryInv
  /\ WorkInv /\ RenderInv
  /\ OnceInv /\ EraseInv /\ FullInv

-----------------------------------------------------------------------------
(* The steps of a recipient job, by what they do to its record.            *)

JobTypes == job \in [Jobs -> JobStates]

\* Only job j moves.
Moves(j) == job' \in [Jobs -> JobStates] /\ \A i \in Jobs : i # j => job'[i] = job[i]

Same(j) == job'[j].attempt = job[j].attempt

LEMMA NoJobOK == NoTally \in [Decided -> Nat] /\ NoJob \in JobStates
  BY LimitsAssumption DEF NoTally, Decided, NoJob, JobStates

LEMMA Puts ==
  ASSUME JobTypes, NEW j \in Jobs, NEW x \in JobStates, job' = [job EXCEPT ![j] = x]
  PROVE  Moves(j) /\ job'[j] = x
<1> HIDE DEF JobStates
<1>1. QED
  BY DEF JobTypes, Moves

LEMMA Gotos ==
  ASSUME JobTypes, NEW j \in Jobs, NEW s \in Running, JobGoto(j, s)
  PROVE  /\ Moves(j) /\ Same(j)
         /\ job'[j].pc = s /\ job'[j].answer = job[j].answer /\ job'[j].tally = job[j].tally
<1> DEFINE x == [job[j] EXCEPT !.pc = s]
<1>1. job[j] \in JobStates
  BY DEF JobTypes
<1>2. x \in JobStates /\ x.pc = s /\ x.attempt = job[j].attempt /\ x.answer = job[j].answer
      /\ x.tally = job[j].tally
  BY <1>1 DEF JobStates
<1>3. job' = [job EXCEPT ![j] = x]
  BY DEF JobGoto
<1> HIDE DEF x
<1>4. QED
  BY <1>2, <1>3, Puts DEF Same

LEMMA Queued ==
  ASSUME NEW r \in JobStates, NEW n \in 0 .. MaxAttempts
  PROVE  /\ [r EXCEPT !.pc = "queued", !.attempt = n] \in JobStates
         /\ [r EXCEPT !.pc = "queued", !.attempt = n].pc = "queued"
         /\ [r EXCEPT !.pc = "queued", !.attempt = n].attempt = n
  BY DEF JobStates

LEMMA Snoozes ==
  ASSUME JobTypes, NEW j \in Jobs, job[j].attempt >= 1, Snooze(j)
  PROVE  Moves(j) /\ job'[j].pc = "queued" /\ job'[j].attempt < MaxAttempts
<1> DEFINE x == [NoJob EXCEPT !.pc = "queued", !.attempt = Attempt(j) - 1]
<1>1. job[j].attempt \in 0 .. MaxAttempts
  BY DEF JobTypes, JobStates
<1>2. Attempt(j) - 1 \in 0 .. MaxAttempts /\ Attempt(j) - 1 < MaxAttempts
  BY <1>1, LimitsAssumption DEF Attempt
<1>3. x \in JobStates /\ x.pc = "queued" /\ x.attempt = Attempt(j) - 1
  BY <1>2, Queued, NoJobOK
<1>4. job' = [job EXCEPT ![j] = x]
  BY DEF Snooze
<1> HIDE DEF x
<1>5. QED
  BY <1>2, <1>3, <1>4, Puts

LEMMA Retries ==
  ASSUME JobTypes, NEW j \in Jobs, ~LastTry(j), Retry(j)
  PROVE  Moves(j) /\ job'[j].pc = "queued" /\ job'[j].attempt < MaxAttempts
<1> DEFINE x == [NoJob EXCEPT !.pc = "queued", !.attempt = Attempt(j)]
<1>1. job[j].attempt \in 0 .. MaxAttempts
  BY DEF JobTypes, JobStates
<1>2. Attempt(j) \in 0 .. MaxAttempts /\ Attempt(j) < MaxAttempts
  BY <1>1, LimitsAssumption DEF Attempt, LastTry
<1>3. x \in JobStates /\ x.pc = "queued" /\ x.attempt = Attempt(j)
  BY <1>2, Queued, NoJobOK
<1>4. job' = [job EXCEPT ![j] = x]
  BY DEF Retry
<1> HIDE DEF x
<1>5. QED
  BY <1>2, <1>3, <1>4, Puts

LEMMA Ends ==
  ASSUME JobTypes, NEW j \in Jobs, End(j)
  PROVE  Moves(j) /\ job'[j].pc = "ended"
<1> DEFINE x == [NoJob EXCEPT !.pc = "ended"]
<1>1. x \in JobStates /\ x.pc = "ended"
  BY NoJobOK DEF JobStates, NoJob
<1>2. job' = [job EXCEPT ![j] = x]
  BY DEF End
<1> HIDE DEF x
<1>3. QED
  BY <1>1, <1>2, Puts

LEMMA Errors ==
  ASSUME JobTypes, NEW j \in Jobs, Error(j)
  PROVE  /\ Moves(j)
         /\ \/ job'[j].pc = "giveup" /\ Same(j)
            \/ job'[j].pc = "queued" /\ job'[j].attempt < MaxAttempts
<1>1. CASE LastTry(j)
  <2> DEFINE x == [job[j] EXCEPT !.pc = "giveup", !.answer = "none"]
  <2>1. job[j] \in JobStates
    BY DEF JobTypes
  <2>2. x \in JobStates /\ x.pc = "giveup" /\ x.attempt = job[j].attempt
    BY <2>1 DEF JobStates, Running
  <2>3. job' = [job EXCEPT ![j] = x]
    BY <1>1 DEF Error
  <2> HIDE DEF x
  <2>4. QED
    BY <2>2, <2>3, Puts DEF Same
<1>2. CASE ~LastTry(j)
  BY <1>2, Retries DEF Error
<1>3. QED
  BY <1>1, <1>2

LEMMA Answers ==
  ASSUME JobTypes, NEW j \in Jobs, NEW s \in Decided, Answer(j, s)
  PROVE  Moves(j) /\ Same(j) /\ job'[j].pc \in {"lift", "write"} /\ job'[j].answer = s
<1> DEFINE x == [job[j] EXCEPT !.pc = IF s = "sent" THEN "lift" ELSE "write", !.answer = s]
<1>1. job[j] \in JobStates
  BY DEF JobTypes
<1>2. x \in JobStates /\ x.attempt = job[j].attempt /\ x.pc \in {"lift", "write"} /\ x.answer = s
  BY <1>1 DEF JobStates, Running
<1>3. job' = [job EXCEPT ![j] = x]
  BY DEF Answer
<1> HIDE DEF x
<1>4. QED
  BY <1>2, <1>3, Puts DEF Same

-----------------------------------------------------------------------------
(* What such a step does to the rest.                                      *)

\* Its row, if it writes it, is decided, as Outbound send decided it.
RowWritten(c) ==
  /\ row[c] # "absent" /\ ~RowLocked(c)
  /\ \E s \in Decided : row' = [row EXCEPT ![c] = s] /\ Backs(c, s)'

MessageTypes ==
  message \in [Contacts -> Decided \cup {"none", "pending"}] /\ holder \in [Contacts -> 0 .. MaxJobs]

JobEffect(j) ==
  /\ job[j].pc # "none" /\ Moves(j) /\ Carries(j)'
  /\ UNCHANGED <<total, people, plan, erasure, plannings>>
  /\ hold' \in BOOLEAN /\ dropped' \subseteq Contacts /\ faults' \in 0 .. MaxFaults + 1
  /\ dropped \subseteq dropped'
  /\ MessageTypes' /\ \A c \in Contacts : message[c] \in Decided => message'[c] = message[c]
  /\ row' = row \/ RowWritten(j[1])
  /\ UNCHANGED <<status, counts, settlings>> \/ (JobAt(j, "settle") /\ Settle(job[j].tally))
  /\ Works(j) => Works(j)' \/ j[1] \in dropped' \/ row'[j[1]] # "pending" \/ j[1] \notin existing
  /\ job'[j].pc = "settle" => NonePending(row) /\ row' = row /\ job'[j].tally = Tally(row)

\* Most steps leave most of it alone.
Quiet ==
  /\ UNCHANGED <<status, total, counts, people, plan, erasure, plannings, settlings>>
  /\ hold' \in BOOLEAN /\ dropped' \subseteq Contacts /\ faults' \in 0 .. MaxFaults + 1
  /\ dropped \subseteq dropped'

LEMMA Types ==
  ASSUME TypeOK
  PROVE  /\ JobTypes /\ MessageTypes /\ hold \in BOOLEAN /\ dropped \subseteq Contacts
         /\ faults \in 0 .. MaxFaults + 1 /\ row \in [Contacts -> Decided \cup {"absent", "pending"}]
         /\ LimitsAssumption
<1>1. JobTypes
  BY DEF TypeOK, JobTypes, JobStates, Running
<1>2. QED
  BY <1>1, LimitsAssumption DEF TypeOK, MessageTypes

LEMMA FaultTypes == ASSUME TypeOK, Fault \/ Stall PROVE faults' \in 0 .. MaxFaults + 1
  BY LimitsAssumption DEF TypeOK, Fault, Stall

\* A try goes on.
LEMMA GoesOn ==
  ASSUME CarryInv, NEW j \in Jobs, job[j].pc \in Running, Same(j), job'[j].pc \in Running,
         job'[j].pc \in {"lift", "write"} => job'[j].answer \in Decided /\ Backs(j[1], job[j].answer)'
  PROVE  Carries(j)'
<1>1. job'[j].attempt >= 1
  BY DEF CarryInv, Carries, Same
<1>2. job'[j].pc # "queued"
  BY DEF Running
<1>3. QED
  BY <1>1, <1>2 DEF Carries

\* A try is over.
LEMMA Rests ==
  ASSUME NEW j \in Jobs,
         job'[j].pc = "ended" \/ (job'[j].pc = "queued" /\ job'[j].attempt < MaxAttempts)
  PROVE  Carries(j)'
  BY DEF Carries, Running

\* Neither row nor message changes.
LEMMA QuietEffect ==
  ASSUME TypeOK, NEW j \in Jobs, Quiet, UNCHANGED <<row, outbound>>,
         job[j].pc # "none", Moves(j), Carries(j)',
         Works(j) => Works(j)' \/ j[1] \in dropped' \/ row[j[1]] # "pending" \/ j[1] \notin existing,
         job'[j].pc = "settle" => NonePending(row) /\ job'[j].tally = Tally(row)
  PROVE  JobEffect(j)
  BY Types DEF Quiet, JobEffect, MessageTypes, outbound

LEMMA QuietSteps ==
  ASSUME TypeOK, UNCHANGED <<broadcast, people, plan, erasure, history>>,
         UNCHANGED faults \/ Fault \/ Stall
  PROVE  Quiet
  BY Types, FaultTypes DEF Quiet, broadcast, history

LEMMA LoadEffect ==
  ASSUME TypeOK, CarryInv, NEW j \in Jobs, JobLoad(j) PROVE JobEffect(j)
<1> DEFINE s == IF row[j[1]] = "pending" THEN "lookup" ELSE "count"
           x == [job[j] EXCEPT !.attempt = @ + 1, !.pc = s]
<1>1. job[j] \in JobStates /\ JobTypes /\ job[j].pc = "queued"
  BY Types DEF JobTypes, JobLoad, JobAt
<1>2. job[j].attempt \in Nat /\ job[j].attempt < MaxAttempts
  BY <1>1 DEF CarryInv, Carries, JobStates
<1>3. job[j].attempt + 1 \in 0 .. MaxAttempts /\ job[j].attempt + 1 >= 1
  BY <1>2, LimitsAssumption
<1>4. x \in JobStates /\ x.pc = s /\ x.attempt >= 1
  BY <1>1, <1>3 DEF JobStates, Running
<1>5. job' = [job EXCEPT ![j] = x]
  BY DEF JobLoad
<1>6. Moves(j) /\ job'[j].pc = s /\ job'[j].attempt >= 1
  <2> HIDE DEF x
  <2>1. QED
    BY <1>1, <1>4, <1>5, Puts
<1>7. Quiet /\ UNCHANGED <<row, outbound>>
  BY QuietSteps DEF JobLoad
<1>8. QED
  BY <1>1, <1>6, <1>7, QuietEffect DEF Carries, Works, Running

\* A try that could not load its recipient.
LEMMA LoadFails ==
  ASSUME TypeOK, CarryInv, NEW j \in Jobs, job[j].pc = "queued",
         job' = [job EXCEPT ![j].attempt = @ + 1,
                            ![j].pc = IF Attempt(j) + 1 < MaxAttempts THEN "queued" ELSE "giveup"]
  PROVE  /\ Moves(j) /\ job'[j].attempt = job[j].attempt + 1 /\ job[j].attempt + 1 \in 1 .. MaxAttempts
         /\ job'[j].pc = IF Attempt(j) + 1 < MaxAttempts THEN "queued" ELSE "giveup"
<1> DEFINE s == IF Attempt(j) + 1 < MaxAttempts THEN "queued" ELSE "giveup"
           x == [job[j] EXCEPT !.attempt = @ + 1, !.pc = s]
<1>1. job[j] \in JobStates /\ JobTypes
  BY Types DEF JobTypes
<1>2. job[j].attempt \in Nat /\ job[j].attempt < MaxAttempts
  BY <1>1 DEF CarryInv, Carries, JobStates
<1>3. job[j].attempt + 1 \in 0 .. MaxAttempts /\ job[j].attempt + 1 \in 1 .. MaxAttempts
  BY <1>2, LimitsAssumption
<1>4. x \in JobStates /\ x.pc = s /\ x.attempt = job[j].attempt + 1
  BY <1>1, <1>3 DEF JobStates, Running
<1>5. job' = [job EXCEPT ![j] = x]
  OBVIOUS
<1>6. Moves(j) /\ job'[j].pc = s /\ job'[j].attempt = job[j].attempt + 1
  <2> HIDE DEF x
  <2>1. QED
    BY <1>1, <1>4, <1>5, Puts
<1>7. QED
  BY <1>3, <1>6

LEMMA LookupEffect ==
  ASSUME TypeOK, CarryInv, NEW j \in Jobs, JobLookup(j) PROVE JobEffect(j)
<1>1. JobTypes /\ job[j].pc = "lookup" /\ Quiet /\ UNCHANGED <<row, outbound>>
  BY Types, QuietSteps DEF JobLookup, JobAt
<1>2. Moves(j) /\ Same(j) /\ job'[j].pc = IF j[1] \in existing THEN "send" ELSE "count"
  BY <1>1, Gotos DEF JobLookup, Running
<1>3. Carries(j)'
  BY <1>1, <1>2, GoesOn DEF Running
<1>4. QED
  BY <1>1, <1>2, <1>3, QuietEffect DEF Works

\* The row is failed if it is there.
LEMMA FailedRow ==
  ASSUME TypeOK, NEW c \in Contacts, ~RowLocked(c),
         row' = [row EXCEPT ![c] = IF @ = "absent" THEN @ ELSE "failed"]
  PROVE  (row' = row \/ RowWritten(c)) /\ row'[c] # "pending"
<1>1. row \in [Contacts -> Decided \cup {"absent", "pending"}]
  BY Types
<1>2. CASE row[c] = "absent"
  BY <1>1, <1>2
<1>3. CASE row[c] # "absent"
  BY <1>1, <1>3 DEF RowWritten, Backs, Decided
<1>4. QED
  BY <1>2, <1>3

LEMMA MarkEffect ==
  ASSUME TypeOK, CarryInv, NEW j \in Jobs, JobMark(j) PROVE JobEffect(j)
<1>1. JobTypes /\ job[j].pc = "mark" /\ Quiet /\ UNCHANGED outbound
  BY Types, QuietSteps DEF JobMark, JobAt
<1>2. Moves(j) /\ Same(j) /\ job'[j].pc = "count"
  BY <1>1, Gotos DEF JobMark, Running
<1>3. Carries(j)'
  BY <1>1, <1>2, GoesOn DEF Running
<1>4. j[1] \in Contacts
  BY DEF Jobs
<1>5. (row' = row \/ RowWritten(j[1])) /\ row'[j[1]] # "pending"
  BY <1>4, FailedRow DEF JobMark
<1>6. QED
  BY <1>1, <1>2, <1>3, <1>5, Types DEF JobEffect, Quiet, MessageTypes, outbound

LEMMA NoEmailEffect ==
  ASSUME TypeOK, CarryInv, NEW j \in Jobs, JobNoEmail(j) PROVE JobEffect(j)
<1>1. JobTypes /\ job[j].pc = "lookup" /\ UNCHANGED outbound /\ j[1] \in Contacts
  BY Types DEF JobNoEmail, JobAt, Jobs
<1>2. Moves(j) /\ Same(j) /\ job'[j].pc = "count"
  BY <1>1, Gotos DEF JobNoEmail, Running
<1>3. Carries(j)'
  BY <1>1, <1>2, GoesOn DEF Running
<1>4. /\ dropped' \subseteq Contacts /\ dropped \subseteq dropped' /\ faults' \in 0 .. MaxFaults + 1
  BY <1>1, Types, FaultTypes DEF JobNoEmail
<1>5. Quiet
  BY <1>4, Types DEF JobNoEmail, Quiet, broadcast
<1>6. CASE /\ row' = [row EXCEPT ![j[1]] = IF @ = "absent" THEN @ ELSE "failed"]
           /\ UNCHANGED <<faults, dropped>>
  <2>1. (row' = row \/ RowWritten(j[1])) /\ row'[j[1]] # "pending"
    BY <1>1, <1>6, FailedRow DEF JobNoEmail
  <2>2. QED
    BY <1>1, <1>2, <1>3, <1>5, <2>1, Types DEF JobEffect, Quiet, MessageTypes, outbound
<1>7. CASE Fault /\ dropped' = dropped \cup {j[1]} /\ UNCHANGED row
  BY <1>1, <1>2, <1>3, <1>5, <1>7, Types DEF JobEffect, Quiet, MessageTypes, outbound
<1>8. QED
  BY <1>6, <1>7 DEF JobNoEmail

\* A decided message stays as it is.
MessagesStay ==
  MessageTypes' /\ \A c \in Contacts : message[c] \in Decided => message'[c] = message[c]

LEMMA MessageMoves ==
  ASSUME TypeOK, NEW c \in Contacts, NEW s \in Decided \cup {"none", "pending"},
         message' = [message EXCEPT ![c] = s], message[c] \in Decided => s = message[c],
         holder' \in [Contacts -> 0 .. MaxJobs]
  PROVE  MessagesStay /\ message'[c] = s
<1>1. MessageTypes
  BY Types
<1> HIDE DEF Decided
<1>2. message' \in [Contacts -> Decided \cup {"none", "pending"}] /\ message'[c] = s
  BY <1>1 DEF MessageTypes
<1>3. \A d \in Contacts : d # c => message'[d] = message[d]
  BY <1>1 DEF MessageTypes
<1>4. QED
  BY <1>2, <1>3 DEF MessagesStay, MessageTypes

LEMMA SameMessages == ASSUME TypeOK, UNCHANGED outbound PROVE MessagesStay
  BY Types DEF outbound, MessagesStay, MessageTypes

\* The row is left alone.
LEMMA RowlessEffect ==
  ASSUME TypeOK, NEW j \in Jobs, Quiet, row' = row, MessagesStay,
         job[j].pc # "none", Moves(j), Carries(j)', Works(j)' \/ j[1] \in dropped', job'[j].pc # "settle"
  PROVE  JobEffect(j)
  BY DEF Quiet, JobEffect, MessagesStay

LEMMA ClaimEffect ==
  ASSUME TypeOK, CarryInv, NEW j \in Jobs, JobAt(j, "send"), Quiet, row' = row,
         message' = [message EXCEPT ![j[1]] = "pending"], message[j[1]] \notin Decided,
         holder' = [holder EXCEPT ![j[1]] = j[2]], JobGoto(j, "provider")
  PROVE  JobEffect(j)
<1>1. JobTypes /\ MessageTypes /\ j[1] \in Contacts /\ j[2] \in 1 .. MaxJobs /\ job[j].pc = "send"
  BY Types DEF Jobs, JobAt
<1>2. Moves(j) /\ Same(j) /\ job'[j].pc = "provider"
  BY <1>1, Gotos DEF Running
<1>3. holder' \in [Contacts -> 0 .. MaxJobs]
  BY <1>1, LimitsAssumption DEF MessageTypes
<1>4. MessagesStay
  BY <1>1, <1>3, MessageMoves
<1>5. Carries(j)'
  BY <1>1, <1>2, GoesOn DEF Running
<1>6. QED
  BY <1>1, <1>2, <1>4, <1>5, RowlessEffect DEF Works

LEMMA SendEffect ==
  ASSUME TypeOK, CarryInv, NEW j \in Jobs, JobSend(j) PROVE JobEffect(j)
<1>1. JobTypes /\ job[j].pc = "send" /\ Quiet /\ row' = row /\ existing' = existing /\ j[1] \in Contacts
  BY Types, QuietSteps DEF JobSend, JobAt, people, Jobs
<1>2. ASSUME NEW s \in Decided, Answer(j, s), UNCHANGED outbound, Backs(j[1], s)
      PROVE  JobEffect(j)
  <2>1. Moves(j) /\ Same(j) /\ job'[j].pc \in {"lift", "write"} /\ job'[j].answer = s
    BY <1>1, <1>2, Answers
  <2>2. Backs(j[1], job[j].answer)'
    BY <1>1, <1>2, <2>1 DEF Backs, outbound
  <2>3. Carries(j)'
    BY <1>1, <2>1, <2>2, GoesOn DEF Running
  <2>4. MessagesStay
    BY <1>2, SameMessages
  <2>5. QED
    BY <1>1, <2>1, <2>3, <2>4, RowlessEffect DEF Works
<1>3. CASE message[j[1]] \in Decided /\ Answer(j, message[j[1]]) /\ UNCHANGED outbound
  BY <1>2, <1>3 DEF Backs
<1>4. CASE j[1] \notin existing /\ Answer(j, "skipped") /\ UNCHANGED outbound
  BY <1>2, <1>4 DEF Backs, Decided
<1>5. CASE /\ message[j[1]] = "none" \/ message[j[1]] = "pending"
           /\ message' = [message EXCEPT ![j[1]] = "pending"]
           /\ holder' = [holder EXCEPT ![j[1]] = j[2]]
           /\ JobGoto(j, "provider")
  BY <1>1, <1>5, ClaimEffect DEF JobAt, Decided
<1>6. QED
  BY <1>3, <1>4, <1>5 DEF JobSend

LEMMA TakeOverEffect ==
  ASSUME TypeOK, CarryInv, NEW j \in Jobs, JobTakeOver(j) PROVE JobEffect(j)
<1>1. MessageTypes /\ Quiet /\ row' = row /\ JobAt(j, "send") /\ message[j[1]] = "pending"
  BY Types, QuietSteps DEF JobTakeOver
<1>2. message' = [message EXCEPT ![j[1]] = "pending"]
  BY <1>1 DEF JobTakeOver, MessageTypes
<1>3. QED
  BY <1>1, <1>2, ClaimEffect DEF JobTakeOver, Decided

\* A job that sleeps or is tried again.
LEMMA SleepEffect ==
  ASSUME TypeOK, NEW j \in Jobs, Quiet, row' = row, MessagesStay, job[j].pc # "none",
         Moves(j), job'[j].pc = "queued", job'[j].attempt < MaxAttempts
  PROVE  JobEffect(j)
  BY Rests, RowlessEffect DEF Works

LEMMA Begun1 == ASSUME CarryInv, NEW j \in Jobs, job[j].pc \in Running PROVE job[j].attempt >= 1
  BY DEF CarryInv, Carries

LEMMA InProgressEffect ==
  ASSUME TypeOK, CarryInv, NEW j \in Jobs, JobInProgress(j) PROVE JobEffect(j)
<1>1. JobTypes /\ job[j].pc = "send" /\ Quiet /\ row' = row /\ MessagesStay
  BY Types, QuietSteps, SameMessages DEF JobInProgress, JobAt
<1>2. Moves(j) /\ job'[j].pc = "queued" /\ job'[j].attempt < MaxAttempts
  BY <1>1, Begun1, Snoozes DEF JobInProgress, Running
<1>3. QED
  BY <1>1, <1>2, SleepEffect

LEMMA ParkEffect ==
  ASSUME TypeOK, CarryInv, NEW j \in Jobs, JobPark(j) PROVE JobEffect(j)
<1>1. JobTypes /\ job[j].pc = "park" /\ row' = row /\ MessagesStay
  BY Types, SameMessages DEF JobPark, JobAt
<1>2. Quiet
  BY Types DEF JobPark, Quiet, history
<1>3. Moves(j) /\ job'[j].pc = "queued" /\ job'[j].attempt < MaxAttempts
  BY <1>1, Begun1, Snoozes DEF JobPark, Running
<1>4. QED
  BY <1>1, <1>2, <1>3, SleepEffect

\* The claim is released, if it is still this attempt's.
LEMMA Released ==
  ASSUME TypeOK, NEW j \in Jobs, holder' = holder,
         message' = [message EXCEPT ![j[1]] = IF Held(j) THEN "none" ELSE @]
  PROVE  MessagesStay
<1>1. MessageTypes /\ j[1] \in Contacts
  BY Types DEF Jobs
<1>2. CASE Held(j)
  BY <1>1, <1>2, MessageMoves DEF Held, MessageTypes, Decided
<1>3. CASE ~Held(j)
  BY <1>1, <1>3 DEF MessagesStay, MessageTypes
<1>4. QED
  BY <1>2, <1>3

LEMMA HeldEffect ==
  ASSUME TypeOK, CarryInv, NEW j \in Jobs, JobHeld(j) PROVE JobEffect(j)
<1>1. JobTypes /\ job[j].pc \in {"send", "provider"} /\ Quiet /\ row' = row
  BY Types, QuietSteps DEF JobHeld, JobAt
<1>2. MessagesStay
  BY Released, SameMessages DEF JobHeld, outbound
<1>3. Moves(j) /\ Same(j) /\ job'[j].pc = "park"
  BY <1>1, Gotos DEF JobHeld, Running
<1>4. Carries(j)'
  BY <1>1, <1>3, GoesOn DEF Running
<1>5. QED
  BY <1>1, <1>2, <1>3, <1>4, RowlessEffect DEF Works

LEMMA DeferredEffect ==
  ASSUME TypeOK, CarryInv, NEW j \in Jobs, JobDeferred(j) PROVE JobEffect(j)
<1>1. JobTypes /\ job[j].pc = "provider" /\ Quiet /\ row' = row
  BY Types, QuietSteps DEF JobDeferred, JobAt
<1>2. MessagesStay
  BY Released DEF JobDeferred
<1>3. Moves(j) /\ job'[j].pc = "queued" /\ job'[j].attempt < MaxAttempts
  BY <1>1, Begun1, Snoozes DEF JobDeferred, Running
<1>4. QED
  BY <1>1, <1>2, <1>3, SleepEffect

LEMMA DecideEffect ==
  ASSUME TypeOK, CarryInv, NEW j \in Jobs, JobDecide(j) PROVE JobEffect(j)
<1>1. JobTypes /\ MessageTypes /\ job[j].pc = "provider" /\ Quiet /\ row' = row /\ j[1] \in Contacts
      /\ holder' = holder /\ existing' = existing
  BY Types, QuietSteps DEF JobDecide, JobAt, Jobs, people
<1>2. ASSUME Held(j), NEW s \in Decided, message' = [message EXCEPT ![j[1]] = s], Answer(j, s)
      PROVE  JobEffect(j)
  <2>1. MessagesStay /\ message'[j[1]] = s
    BY <1>1, <1>2, MessageMoves DEF Held, MessageTypes, Decided
  <2>2. Moves(j) /\ Same(j) /\ job'[j].pc \in {"lift", "write"} /\ job'[j].answer = s
    BY <1>1, <1>2, Answers
  <2>3. Backs(j[1], job[j].answer)'
    BY <2>1, <2>2 DEF Backs
  <2>4. Carries(j)'
    BY <1>1, <2>2, <2>3, GoesOn DEF Running
  <2>5. QED
    BY <1>1, <2>1, <2>2, <2>4, RowlessEffect DEF Works
<1>3. CASE Snooze(j) /\ UNCHANGED message
  <2>1. Moves(j) /\ job'[j].pc = "queued" /\ job'[j].attempt < MaxAttempts
    BY <1>1, <1>3, Begun1, Snoozes DEF Running
  <2>2. MessagesStay
    BY <1>1, <1>3, SameMessages DEF outbound
  <2>3. QED
    BY <1>1, <2>1, <2>2, SleepEffect
<1>4. QED
  BY <1>2, <1>3 DEF JobDecide

\* After an error the recipient is tried again or given up.
LEMMA ErrorKeeps ==
  ASSUME TypeOK, CarryInv, NEW j \in Jobs, job[j].pc \in Running, Error(j)
  PROVE  Moves(j) /\ Carries(j)' /\ Works(j)' /\ job'[j].pc # "settle"
<1>1. /\ Moves(j)
      /\ \/ job'[j].pc = "giveup" /\ Same(j)
         \/ job'[j].pc = "queued" /\ job'[j].attempt < MaxAttempts
  BY Types, Errors
<1>2. Carries(j)'
  BY <1>1, GoesOn, Rests DEF Running
<1>3. QED
  BY <1>1, <1>2 DEF Works

LEMMA SendFailsEffect ==
  ASSUME TypeOK, CarryInv, NEW j \in Jobs, JobSendFails(j) PROVE JobEffect(j)
<1>1. MessageTypes /\ job[j].pc = "provider" /\ Quiet /\ row' = row /\ j[1] \in Contacts
      /\ holder' = holder
  BY Types, QuietSteps DEF JobSendFails, JobAt, Jobs
<1>2. ASSUME UNCHANGED message PROVE MessagesStay
  BY <1>1, <1>2, SameMessages DEF outbound
<1>3. ASSUME Held(j), message' = [message EXCEPT ![j[1]] = "sent"]
      PROVE  MessagesStay
  BY <1>1, <1>3, MessageMoves DEF Held, MessageTypes, Decided
<1>4. MessagesStay
  BY <1>2, <1>3 DEF JobSendFails
<1>5. QED
  BY <1>1, <1>4, ErrorKeeps, RowlessEffect DEF JobSendFails, Running

LEMMA LiftEffect ==
  ASSUME TypeOK, CarryInv, NEW j \in Jobs, JobLift(j) PROVE JobEffect(j)
<1>1. JobTypes /\ job[j].pc = "lift" /\ row' = row /\ MessagesStay
  BY Types, SameMessages DEF JobLift, JobAt
<1>2. Quiet
  BY Types DEF JobLift, Quiet, history
<1>3. Moves(j) /\ Same(j) /\ job'[j].pc = "write" /\ job'[j].answer = job[j].answer
  BY <1>1, Gotos DEF JobLift, Running
<1>4. job[j].answer \in Decided /\ Backs(j[1], job[j].answer)
  BY <1>1 DEF CarryInv, Carries
<1>5. Backs(j[1], job[j].answer)'
  BY <1>3, <1>4 DEF Backs, JobLift, outbound, people
<1>6. Carries(j)'
  BY <1>1, <1>3, <1>4, <1>5, GoesOn DEF Running
<1>7. QED
  BY <1>1, <1>2, <1>3, <1>6, RowlessEffect DEF Works

LEMMA WrittenRow ==
  ASSUME TypeOK, CarryInv, NEW j \in Jobs, job[j].pc = "write", Written(j), UNCHANGED <<outbound, people>>
  PROVE  RowWritten(j[1]) /\ row'[j[1]] # "pending"
<1>1. row \in [Contacts -> Decided \cup {"absent", "pending"}] /\ j[1] \in Contacts
  BY Types DEF Jobs
<1>2. job[j].answer \in Decided /\ Backs(j[1], job[j].answer)
  BY DEF CarryInv, Carries
<1> DEFINE s == job[j].answer
<1>3. row' = [row EXCEPT ![j[1]] = s] /\ row[j[1]] # "absent" /\ ~RowLocked(j[1])
  BY DEF Written
<1>4. Backs(j[1], s) /\ message' = message /\ existing' = existing
  BY <1>2 DEF outbound, people
<1>5. s \in Decided
  BY <1>2
<1> HIDE DEF s
<1>6. row'[j[1]] = s
  BY <1>1, <1>3
<1>7. RowWritten(j[1])
  BY <1>3, <1>4, <1>5 DEF RowWritten, Backs
<1>8. QED
  BY <1>5, <1>6, <1>7 DEF Decided

LEMMA WriteEffect ==
  ASSUME TypeOK, CarryInv, NEW j \in Jobs, JobWrite(j) PROVE JobEffect(j)
<1>1. JobTypes /\ job[j].pc = "write" /\ Quiet /\ MessagesStay /\ UNCHANGED <<outbound, people>>
  BY Types, QuietSteps, SameMessages DEF JobWrite, JobAt
<1>2. CASE row[j[1]] = "absent"
  BY <1>1, <1>2, ErrorKeeps, RowlessEffect DEF JobWrite, Running
<1>3. CASE row[j[1]] # "absent"
  <2> DEFINE x == [job[j] EXCEPT !.pc = "count", !.answer = "none"]
  <2>1. job[j] \in JobStates
    BY <1>1 DEF JobTypes
  <2>2. x \in JobStates /\ x.pc = "count" /\ x.attempt = job[j].attempt
    BY <2>1 DEF JobStates, Running
  <2>3. job' = [job EXCEPT ![j] = x] /\ Written(j)
    BY <1>3 DEF JobWrite
  <2>4. Moves(j) /\ Same(j) /\ job'[j].pc = "count"
    <3> HIDE DEF x
    <3>1. QED
      BY <1>1, <2>2, <2>3, Puts DEF Same
  <2>5. Carries(j)'
    BY <1>1, <2>4, GoesOn DEF Running
  <2>6. RowWritten(j[1]) /\ row'[j[1]] # "pending"
    BY <1>1, <2>3, WrittenRow
  <2>7. QED
    BY <1>1, <2>4, <2>5, <2>6 DEF JobEffect, Quiet, MessagesStay
<1>4. QED
  BY <1>2, <1>3

LEMMA GiveUpEffect ==
  ASSUME TypeOK, CarryInv, NEW j \in Jobs, JobGiveUp(j) PROVE JobEffect(j)
<1>1. JobTypes /\ MessageTypes /\ job[j].pc = "giveup" /\ Quiet /\ row' = row /\ j[1] \in Contacts
      /\ holder' = holder
  BY Types, QuietSteps DEF JobGiveUp, JobAt, Jobs
<1>2. ASSUME UNCHANGED message PROVE MessagesStay
  BY <1>1, <1>2, SameMessages DEF outbound
<1>3. ASSUME message[j[1]] = "pending", message' = [message EXCEPT ![j[1]] = "failed"]
      PROVE  MessagesStay
  BY <1>1, <1>3, MessageMoves DEF MessageTypes, Decided
<1>4. MessagesStay
  BY <1>2, <1>3 DEF JobGiveUp
<1>5. Moves(j) /\ Same(j) /\ job'[j].pc = "mark"
  BY <1>1, Gotos DEF JobGiveUp, Running
<1>6. Carries(j)'
  BY <1>1, <1>5, GoesOn DEF Running
<1>7. QED
  BY <1>1, <1>4, <1>5, <1>6, RowlessEffect DEF Works

LEMMA Finite == ASSUME NEW S, S \subseteq Contacts PROVE IsFiniteSet(S) /\ Cardinality(S) \in Nat
  BY ContactsAssumption, FS_Subset, FS_CardinalityType

LEMMA TallyTypes == ASSUME NEW rows PROVE Tally(rows) \in [Decided -> Nat]
<1>1. ASSUME NEW s \in Decided PROVE Cardinality({c \in Contacts : rows[c] = s}) \in Nat
  BY Finite
<1>2. QED
  BY <1>1 DEF Tally

LEMMA CountEffect ==
  ASSUME TypeOK, CarryInv, NEW j \in Jobs, JobCount(j) PROVE JobEffect(j)
<1>1. JobTypes /\ job[j].pc = "count" /\ Quiet /\ UNCHANGED <<row, outbound>>
  BY Types, QuietSteps DEF JobCount, JobAt
<1>2. CASE NonePending(row)
  <2> DEFINE t == Tally(row)
             x == [job[j] EXCEPT !.pc = "settle", !.tally = t]
  <2>1. job[j] \in JobStates /\ t \in [Decided -> Nat]
    BY <1>1, TallyTypes DEF JobTypes
  <2>2. job' = [job EXCEPT ![j] = x]
    BY <1>2 DEF JobCount
  <2> HIDE DEF t
  <2>3. x \in JobStates /\ x.pc = "settle" /\ x.attempt = job[j].attempt /\ x.tally = t
    BY <2>1 DEF JobStates, Running
  <2>4. Moves(j) /\ Same(j) /\ job'[j].pc = "settle" /\ job'[j].tally = t
    <3> HIDE DEF x
    <3>1. QED
      BY <1>1, <2>2, <2>3, Puts DEF Same
  <2>5. Carries(j)'
    BY <1>1, <2>4, GoesOn DEF Running
  <2>6. QED
    BY <1>1, <1>2, <2>4, <2>5, QuietEffect DEF Works, t
<1>3. CASE ~NonePending(row)
  <2>1. Moves(j) /\ job'[j].pc = "ended"
    BY <1>1, <1>3, Ends DEF JobCount
  <2>2. QED
    BY <1>1, <2>1, Rests, QuietEffect DEF Works
<1>4. QED
  BY <1>2, <1>3

LEMMA SettleEffect ==
  ASSUME TypeOK, CarryInv, NEW j \in Jobs, JobSettle(j) PROVE JobEffect(j)
<1>1. JobTypes /\ JobAt(j, "settle") /\ job[j].pc = "settle" /\ Settle(job[j].tally)
  BY Types DEF JobSettle, JobAt
<1>2. MessagesStay /\ row' = row
  BY SameMessages DEF JobSettle
<1>3. Moves(j) /\ job'[j].pc = "ended"
  BY <1>1, Ends DEF JobSettle
<1>4. Carries(j)'
  BY <1>3, Rests
<1>5. total' = total /\ hold' \in BOOLEAN
  BY <1>1, Types DEF Settle, broadcast
<1>6. UNCHANGED <<people, plan, erasure, plannings, faults, dropped>>
  BY DEF JobSettle
<1>7. QED
  BY <1>1, <1>2, <1>3, <1>4, <1>5, <1>6, Types DEF JobEffect, MessagesStay, Works

\* A last try cut short is noted, any other is made again.
LEMMA CutShort ==
  ASSUME TypeOK, NEW j \in Jobs,
         (LastTry(j) /\ Drop(j)) \/ (~LastTry(j) /\ Retry(j) /\ UNCHANGED dropped)
  PROVE  Moves(j) /\ Carries(j)' /\ (Works(j)' \/ j[1] \in dropped') /\ job'[j].pc # "settle"
         /\ dropped' \subseteq Contacts /\ (dropped \subseteq dropped')
<1>1. JobTypes /\ dropped \subseteq Contacts /\ j[1] \in Contacts
  BY Types DEF Jobs
<1>2. CASE LastTry(j) /\ Drop(j)
  BY <1>1, <1>2, Ends, Rests DEF Drop
<1>3. CASE ~LastTry(j) /\ Retry(j) /\ UNCHANGED dropped
  BY <1>1, <1>3, Retries, Rests DEF Works
<1>4. QED
  BY <1>2, <1>3

LEMMA CrashEffect ==
  ASSUME TypeOK, CarryInv, NEW j \in Jobs, JobCrash(j) PROVE JobEffect(j)
<1>1. /\ Moves(j) /\ Carries(j)' /\ (Works(j)' \/ j[1] \in dropped') /\ job'[j].pc # "settle"
      /\ dropped' \subseteq Contacts /\ (dropped \subseteq dropped')
  BY CutShort DEF JobCrash
<1>2. Quiet
  BY <1>1, Types, FaultTypes DEF JobCrash, Quiet, broadcast
<1>3. job[j].pc # "none" /\ row' = row /\ MessagesStay
  BY SameMessages DEF JobCrash
<1>4. QED
  BY <1>1, <1>2, <1>3, RowlessEffect

LEMMA FailsEffect ==
  ASSUME TypeOK, CarryInv, NEW j \in Jobs, JobFails(j) PROVE JobEffect(j)
<1>1. JobTypes /\ MessagesStay /\ UNCHANGED <<outbound, people>> /\ faults' \in 0 .. MaxFaults + 1
      /\ dropped \subseteq Contacts
  BY Types, SameMessages, FaultTypes DEF JobFails
<1>2. UNCHANGED <<broadcast, people, plan, erasure, plannings, settlings>>
  BY DEF JobFails
<1>3. ASSUME dropped' \subseteq Contacts, dropped \subseteq dropped' PROVE Quiet
  BY <1>1, <1>2, <1>3, Types DEF Quiet, broadcast
<1>4. CASE job[j].pc \in {"lookup", "send"} /\ Error(j) /\ UNCHANGED <<row, dropped>>
  BY <1>1, <1>3, <1>4, ErrorKeeps, RowlessEffect DEF Running
<1>5. CASE JobAt(j, "write") /\ Error(j) /\ UNCHANGED row /\ UNCHANGED dropped
  BY <1>1, <1>3, <1>5, ErrorKeeps, RowlessEffect DEF Running, JobAt
<1>6. CASE JobAt(j, "write") /\ Error(j) /\ Written(j) /\ UNCHANGED dropped
  <2>1. job[j].pc = "write" /\ Quiet /\ RowWritten(j[1]) /\ row'[j[1]] # "pending"
    BY <1>1, <1>3, <1>6, WrittenRow DEF JobAt
  <2>2. Moves(j) /\ Carries(j)' /\ Works(j)' /\ job'[j].pc # "settle"
    BY <1>6, <2>1, ErrorKeeps DEF Running
  <2>3. QED
    BY <1>1, <2>1, <2>2 DEF JobEffect, Quiet, MessagesStay
<1>7. CASE JobAt(j, "lift") /\ JobGoto(j, "write") /\ UNCHANGED <<row, dropped>>
  <2>1. job[j].pc = "lift" /\ Moves(j) /\ Same(j) /\ job'[j].pc = "write" /\ job'[j].answer = job[j].answer
    BY <1>1, <1>7, Gotos DEF Running, JobAt
  <2>2. job[j].answer \in Decided /\ Backs(j[1], job[j].answer)
    BY <2>1 DEF CarryInv, Carries
  <2>3. Backs(j[1], job[j].answer)'
    BY <1>1, <2>1, <2>2 DEF Backs, outbound, people
  <2>4. Carries(j)'
    BY <2>1, <2>2, <2>3, GoesOn DEF Running
  <2>5. QED
    BY <1>1, <1>3, <1>7, <2>1, <2>4, RowlessEffect DEF Works
<1>8. CASE JobAt(j, "giveup") /\ JobGoto(j, "mark") /\ UNCHANGED <<row, dropped>>
  <2>1. job[j].pc = "giveup" /\ Moves(j) /\ Same(j) /\ job'[j].pc = "mark"
    BY <1>1, <1>8, Gotos DEF Running, JobAt
  <2>2. Carries(j)'
    BY <2>1, GoesOn DEF Running
  <2>3. QED
    BY <1>1, <1>3, <1>8, <2>1, <2>2, RowlessEffect DEF Works
<1>9. CASE JobAt(j, "mark") /\ JobGoto(j, "count") /\ dropped' = dropped \cup {j[1]} /\ UNCHANGED row
  <2>1. job[j].pc = "mark" /\ Moves(j) /\ Same(j) /\ job'[j].pc = "count"
    BY <1>1, <1>9, Gotos DEF Running, JobAt
  <2>2. Carries(j)'
    BY <2>1, GoesOn DEF Running
  <2>3. dropped' \subseteq Contacts /\ dropped \subseteq dropped' /\ j[1] \in dropped' /\ row' = row
    BY <1>1, <1>9 DEF Jobs
  <2>4. Quiet
    BY <1>3, <2>3
  <2>5. QED
    BY <1>1, <2>1, <2>2, <2>3, <2>4, RowlessEffect
<1>10. CASE /\ job[j].pc \in {"count", "settle"} /\ UNCHANGED row
            /\ (LastTry(j) /\ Drop(j)) \/ (~LastTry(j) /\ Retry(j) /\ UNCHANGED dropped)
  BY <1>1, <1>3, <1>10, CutShort, RowlessEffect
<1>11. CASE /\ JobAt(j, "queued") /\ UNCHANGED <<row, dropped>>
            /\ job' = [job EXCEPT ![j].attempt = @ + 1,
                                  ![j].pc = IF Attempt(j) + 1 < MaxAttempts THEN "queued" ELSE "giveup"]
  <2>1. /\ Moves(j) /\ job'[j].attempt = job[j].attempt + 1 /\ job[j].attempt + 1 \in 1 .. MaxAttempts
        /\ job'[j].pc = IF Attempt(j) + 1 < MaxAttempts THEN "queued" ELSE "giveup"
    BY <1>1, <1>11, LoadFails DEF JobAt
  <2>2. Carries(j)' /\ Works(j)' /\ job'[j].pc # "settle"
    BY <2>1 DEF Carries, Works, Attempt, Running
  <2>3. QED
    BY <1>1, <1>3, <1>11, <2>1, <2>2, RowlessEffect DEF JobAt
<1>12. CASE JobAt(j, "park") /\ Snooze(j) /\ UNCHANGED <<row, dropped>>
  <2>1. job[j].pc = "park" /\ job[j].attempt >= 1
    BY <1>12, Begun1 DEF JobAt, Running
  <2>2. Moves(j) /\ job'[j].pc = "queued" /\ job'[j].attempt < MaxAttempts
    BY <1>1, <1>12, <2>1, Snoozes
  <2>3. Carries(j)' /\ Works(j)' /\ job'[j].pc # "settle"
    BY <2>2, Rests DEF Works
  <2>4. QED
    BY <1>1, <1>3, <1>12, <2>1, <2>2, <2>3, RowlessEffect
<1>13. QED
  BY <1>4, <1>5, <1>6, <1>7, <1>8, <1>9, <1>10, <1>11, <1>12 DEF JobFails

JobMishap(j) ==
  \/ JobNoEmail(j) \/ JobTakeOver(j) \/ JobHeld(j) \/ JobDeferred(j)
  \/ JobSendFails(j) \/ JobFails(j) \/ JobCrash(j)

LEMMA JobStepEffect ==
  ASSUME TypeOK, CarryInv, NEW j \in Jobs, JobWork(j) \/ JobMishap(j) PROVE JobEffect(j)
  BY LoadEffect, LookupEffect, SendEffect, InProgressEffect, ParkEffect, DecideEffect, LiftEffect,
     WriteEffect, GiveUpEffect, MarkEffect, NoEmailEffect, CountEffect, SettleEffect, TakeOverEffect, HeldEffect,
     DeferredEffect, SendFailsEffect, FailsEffect, CrashEffect DEF JobWork, JobMishap

-----------------------------------------------------------------------------
(* The steps of a plan, likewise.                                          *)

PlanTypes == plan \in [Plans -> PlanStates]
PlanMoves(p) == plan' \in [Plans -> PlanStates] /\ \A q \in Plans : q # p => plan'[q] = plan[q]

Reads == {"queued", "claim", "audience", "verify", "insert", "reread"}
Early == {"audience", "verify", "insert"}

\* What a plan counts, sets, inserts and queues.
Counts(p) ==
  plan'[p].pc = "settle" =>
    plan[p].pc = "count" /\ NonePending(row) /\ plan'[p].tally = Tally(row) /\ UNCHANGED <<row, job>>
Sets(p) ==
  \/ UNCHANGED <<status, counts, settlings, plannings>>
  \/ status' = "failed" /\ UNCHANGED <<counts, settlings, plannings>>
  \/ /\ plan[p].pc = "claim" /\ plan'[p].pc = "audience" /\ status' = "sending"
     /\ plannings' = plannings + 1 /\ UNCHANGED <<counts, settlings>>
  \/ PlanAt(p, "settle") /\ Settle(plan[p].tally) /\ UNCHANGED plannings
Inserts(p) ==
  \/ row' = row
  \/ /\ plan[p].pc = "insert" /\ plan'[p].pc = "reread"
     /\ row' \in [Contacts -> Decided \cup {"absent", "pending"}]
     /\ \A c \in Contacts : row'[c] = row[c] \/ (row[c] = "absent" /\ row'[c] = "pending")
Queues(p) ==
  \/ UNCHANGED job
  \/ /\ plan[p].pc = "enqueue" /\ job' \in [Jobs -> JobStates]
     /\ \A j \in Jobs : job'[j] = job[j] \/ (job'[j].pc = "queued" /\ job'[j].attempt = 0)

\* Where it goes: past its claim only by that claim, past its read only with
\* every recipient there is.
Goes(p) ==
  /\ plan[p].pc \in Reads =>
       \/ plan'[p].pc \in Reads
       \/ plan'[p].pc = "ended" /\ ~renders
       \/ plan'[p].pc = "total" /\ \A c \in Contacts : row'[c] = "pending" => c \in plan'[p].ids
  /\ plan[p].pc = "total" /\ plan[p].ids # {} =>
       plan'[p].pc = "queued" \/ (plan'[p].pc = "enqueue" /\ plan'[p].ids = plan[p].ids)
  /\ plan[p].pc = "enqueue" =>
       \/ plan'[p].pc = "queued"
       \/ \A c \in plan[p].ids : \/ plan'[p].pc = "enqueue" /\ c \in plan'[p].ids
                                 \/ \E j \in Jobs : j[1] = c /\ job'[j].pc = "queued"
  /\ plan'[p].pc \notin {"queued", "claim", "ended"} => Begun(p) \/ plannings' = plannings + 1
  /\ plan'[p].pc \in Early => plan[p].pc \in Early \/ plannings' = plannings + 1
  /\ plan[p].pc = "queued" => plan'[p].pc \in {"queued", "claim", "ended"}
  /\ plan[p].pc = "queued" /\ ~renders => plan'[p].pc \in {"queued", "ended"}
  /\ plan[p].pc # "ended"

PlanEffect(p) ==
  /\ PlanMoves(p) /\ UNCHANGED <<people, outbound, erasure, dropped>>
  /\ total' \in Int /\ hold' \in BOOLEAN /\ faults' \in 0 .. MaxFaults + 1
  /\ Counts(p) /\ Sets(p) /\ Inserts(p) /\ Queues(p) /\ Goes(p)

LEMMA PlanTyped ==
  ASSUME TypeOK
  PROVE  /\ PlanTypes /\ hold \in BOOLEAN /\ total \in Int /\ faults \in 0 .. MaxFaults + 1
         /\ \A p \in Plans : /\ plan[p] \in PlanStates /\ plan[p].ids \subseteq Contacts
                             /\ plan[p].tally \in [Decided -> Nat]
  BY DEF TypeOK, PlanTypes, PlanStates

LEMMA PlanPuts ==
  ASSUME PlanTypes, NEW p \in Plans, NEW x \in PlanStates, plan' = [plan EXCEPT ![p] = x]
  PROVE  PlanMoves(p) /\ plan'[p] = x
<1> HIDE DEF PlanStates
<1>1. QED
  BY DEF PlanTypes, PlanMoves

PlanPlaces == {"queued", "claim", "audience", "verify", "insert", "reread", "total", "enqueue", "count",
               "settle", "ended"}

LEMMA PlanSets ==
  ASSUME TypeOK, NEW p \in Plans, NEW s \in PlanPlaces, NEW ids \in SUBSET Contacts,
         plan' = [plan EXCEPT ![p].pc = s, ![p].ids = ids]
  PROVE  PlanMoves(p) /\ plan'[p].pc = s /\ plan'[p].ids = ids
<1> DEFINE x == [plan[p] EXCEPT !.pc = s, !.ids = ids]
<1>1. plan[p] \in PlanStates /\ PlanTypes
  BY PlanTyped
<1>2. x \in PlanStates /\ x.pc = s /\ x.ids = ids
  BY <1>1 DEF PlanStates, PlanPlaces
<1>3. plan' = [plan EXCEPT ![p] = x]
  OBVIOUS
<1> HIDE DEF x
<1>4. QED
  BY <1>1, <1>2, <1>3, PlanPuts

LEMMA PlanGotos ==
  ASSUME TypeOK, NEW p \in Plans, NEW s \in PlanPlaces, PlanGoto(p, s)
  PROVE  PlanMoves(p) /\ plan'[p].pc = s /\ plan'[p].ids = plan[p].ids
<1> DEFINE x == [plan[p] EXCEPT !.pc = s]
<1>1. plan[p] \in PlanStates /\ PlanTypes
  BY PlanTyped
<1>2. x \in PlanStates /\ x.pc = s /\ x.ids = plan[p].ids
  BY <1>1 DEF PlanStates, PlanPlaces
<1>3. plan' = [plan EXCEPT ![p] = x]
  BY DEF PlanGoto
<1> HIDE DEF x
<1>4. QED
  BY <1>1, <1>2, <1>3, PlanPuts

\* Only the plan itself moves.
PlanAlone == UNCHANGED <<broadcast, people, row, outbound, job, erasure, history>>

LEMMA AloneEffect ==
  ASSUME TypeOK, NEW p \in Plans, PlanAlone, faults' \in 0 .. MaxFaults + 1, PlanMoves(p), Counts(p), Goes(p)
  PROVE  PlanEffect(p)
  BY PlanTyped DEF PlanAlone, PlanEffect, Sets, Inserts, Queues, broadcast, history

LEMMA HeldPlanEffect == ASSUME TypeOK, NEW p \in Plans, PlanHeld(p) PROVE PlanEffect(p)
<1>1. plan[p].pc = "queued" /\ plan' = plan /\ PlanTypes
  BY PlanTyped DEF PlanHeld, PlanAt
<1>2. PlanMoves(p) /\ Counts(p) /\ Goes(p)
  BY <1>1 DEF PlanMoves, PlanTypes, Counts, Goes, Reads, Early
<1>3. faults' \in 0 .. MaxFaults + 1
  BY FaultTypes DEF PlanHeld
<1>4. QED
  BY <1>2, <1>3, PlanTyped DEF PlanHeld, PlanEffect, Sets, Inserts, Queues, history

LEMMA StartEffect == ASSUME TypeOK, NEW p \in Plans, PlanStart(p) PROVE PlanEffect(p)
<1>1. /\ plan[p].pc = "queued" /\ PlanMoves(p)
      /\ \/ renders /\ plan'[p].pc = "claim"
         \/ ~renders /\ plan'[p].pc \in {"queued", "ended"}
  BY PlanGotos DEF PlanStart, PlanAt, PlanPlaces
<1>2. Counts(p) /\ Goes(p)
  BY <1>1 DEF Counts, Goes, Reads, Early
<1>3. Sets(p)
  BY DEF PlanStart, Sets, history
<1>4. QED
  BY <1>1, <1>2, <1>3, PlanTyped DEF PlanStart, PlanEffect, Inserts, Queues, history

LEMMA ClaimPlanEffect == ASSUME TypeOK, NEW p \in Plans, PlanClaim(p) PROVE PlanEffect(p)
<1>1. plan[p].pc = "claim" /\ PlanMoves(p) /\ plan'[p].pc = "audience"
  BY PlanGotos DEF PlanClaim, PlanAt, PlanPlaces
<1>2. Counts(p) /\ Goes(p)
  BY <1>1 DEF Counts, Goes, Reads, Early, PlanClaim
<1>3. QED
  BY <1>1, <1>2, PlanTyped DEF PlanClaim, PlanEffect, Sets, Inserts, Queues

LEMMA AudienceEffect == ASSUME TypeOK, NEW p \in Plans, PlanAudience(p) PROVE PlanEffect(p)
<1> DEFINE ids == audience \cap existing
           s == IF ids = {} THEN "reread" ELSE "verify"
<1>1. ids \in SUBSET Contacts /\ s \in PlanPlaces
  BY DEF TypeOK, PlanPlaces
<1>2. plan' = [plan EXCEPT ![p].pc = s, ![p].ids = ids] /\ plan[p].pc = "audience"
  BY DEF PlanAudience, PlanAt
<1>3. PlanMoves(p) /\ plan'[p].pc \in {"reread", "verify"}
  <2> HIDE DEF ids
  <2>1. s \in {"reread", "verify"}
    OBVIOUS
  <2> HIDE DEF s
  <2>2. QED
    BY <1>1, <1>2, <2>1, PlanSets
<1>4. Counts(p) /\ Goes(p)
  BY <1>2, <1>3 DEF Counts, Goes, Reads, Early, Begun
<1>5. QED
  BY <1>3, <1>4, AloneEffect, PlanTyped DEF PlanAudience, PlanAlone

LEMMA VerifyEffect == ASSUME TypeOK, NEW p \in Plans, PlanVerify(p) PROVE PlanEffect(p)
<1>1. plan[p].pc = "verify"
  BY DEF PlanVerify, PlanAt
<1>2. PlanMoves(p) /\ plan'[p].pc \in {"insert", "queued"}
  <2>1. "insert" \in PlanPlaces /\ "queued" \in PlanPlaces /\ {} \in SUBSET Contacts
    BY DEF PlanPlaces
  <2>2. PlanGoto(p, "insert") \/ plan' = [plan EXCEPT ![p].pc = "queued", ![p].ids = {}]
    BY DEF PlanVerify
  <2>3. QED
    BY <2>1, <2>2, PlanGotos, PlanSets
<1>3. Counts(p) /\ Goes(p)
  BY <1>1, <1>2 DEF Counts, Goes, Reads, Early, Begun
<1>4. QED
  BY <1>2, <1>3, AloneEffect, PlanTyped DEF PlanVerify, PlanAlone

LEMMA InsertEffect == ASSUME TypeOK, NEW p \in Plans, PlanInsert(p) PROVE PlanEffect(p)
<1>1. plan[p].pc = "insert" /\ PlanMoves(p) /\ plan'[p].pc = "reread"
  BY PlanGotos DEF PlanInsert, PlanAt, PlanPlaces
<1>2. Counts(p) /\ Goes(p)
  BY <1>1 DEF Counts, Goes, Reads, Early, Begun
<1>3. Inserts(p)
  BY <1>1, Types DEF PlanInsert, Inserts
<1>4. QED
  BY <1>1, <1>2, <1>3, PlanTyped DEF PlanInsert, PlanEffect, Sets, Queues, broadcast, history

LEMMA RereadEffect == ASSUME TypeOK, NEW p \in Plans, PlanReread(p) PROVE PlanEffect(p)
<1> DEFINE ids == {c \in Contacts : row[c] # "absent"}
<1>1. plan[p].pc = "reread" /\ plan' = [plan EXCEPT ![p].pc = "total", ![p].ids = ids] /\ row' = row
  BY DEF PlanReread, PlanAt
<1>2. ids \in SUBSET Contacts /\ \A c \in Contacts : row[c] = "pending" => c \in ids
  OBVIOUS
<1> HIDE DEF ids
<1>3. PlanMoves(p) /\ plan'[p].pc = "total" /\ plan'[p].ids = ids
  BY <1>1, <1>2, PlanSets DEF PlanPlaces
<1>4. Counts(p) /\ Goes(p)
  BY <1>1, <1>2, <1>3 DEF Counts, Goes, Reads, Early, Begun
<1>5. QED
  BY <1>3, <1>4, AloneEffect, PlanTyped DEF PlanReread, PlanAlone

LEMMA TotalEffect == ASSUME TypeOK, NEW p \in Plans, PlanTotal(p) PROVE PlanEffect(p)
<1>1. /\ plan[p].pc = "total" /\ PlanMoves(p) /\ plan'[p].ids = plan[p].ids
      /\ plan'[p].pc = IF plan[p].ids = {} THEN "count" ELSE "enqueue"
  BY PlanGotos DEF PlanTotal, PlanAt, PlanPlaces
<1>2. Counts(p) /\ Goes(p)
  BY <1>1 DEF Counts, Goes, Reads, Early, Begun
<1>3. total' \in Int
  BY PlanTyped, Finite DEF PlanTotal
<1>4. QED
  BY <1>1, <1>2, <1>3, PlanTyped DEF PlanTotal, PlanEffect, Sets, Inserts, Queues, history

\* A job is queued for every recipient of a chunk.
LEMMA Enqueues ==
  ASSUME TypeOK, NEW chunk \in SUBSET Contacts, Enqueue(chunk)
  PROVE  /\ job' \in [Jobs -> JobStates]
         /\ \A j \in Jobs : job'[j] = job[j] \/ (job'[j].pc = "queued" /\ job'[j].attempt = 0)
         /\ \A c \in chunk : \E j \in Jobs : j[1] = c /\ job'[j].pc = "queued"
<1> DEFINE x == [NoJob EXCEPT !.pc = "queued"]
<1>1. x \in JobStates /\ x.pc = "queued" /\ x.attempt = 0
  BY NoJobOK DEF JobStates, NoJob
<1>2. JobTypes
  BY Types
<1>3. job' = [j \in Jobs |-> IF j[1] \in chunk /\ j[2] = Handed(j[1]) + 1 THEN x ELSE job[j]]
  BY DEF Enqueue
<1> HIDE DEF x
<1>4. job' \in [Jobs -> JobStates]
  <2> HIDE DEF JobStates
  <2>1. QED
    BY <1>1, <1>2, <1>3 DEF JobTypes
<1>5. ASSUME NEW c \in chunk
      PROVE  \E j \in Jobs : j[1] = c /\ job'[j].pc = "queued"
  <2> DEFINE j == <<c, Handed(c) + 1>>
  <2>1. Handed(c) + 1 \in 1 .. MaxJobs
    <3> DEFINE S == {n \in 1 .. MaxJobs : job[<<c, n>>].pc # "none"}
    <3>1. S \subseteq 1 .. MaxJobs /\ IsFiniteSet(1 .. MaxJobs)
      BY FS_Interval, LimitsAssumption
    <3>2. Handed(c) = Cardinality(S)
      BY DEF Handed
    <3> HIDE DEF S
    <3>3. Handed(c) \in Nat
      BY <3>1, <3>2, FS_Subset, FS_CardinalityType
    <3>4. Handed(c) < MaxJobs /\ MaxJobs \in Nat
      BY LimitsAssumption DEF Enqueue
    <3>5. QED
      BY <3>3, <3>4
  <2>2. j \in Jobs /\ j[1] = c /\ j[2] = Handed(j[1]) + 1
    BY <2>1 DEF Jobs
  <2> HIDE DEF j
  <2>3. QED
    BY <1>1, <1>3, <2>2
<1>6. QED
  BY <1>1, <1>3, <1>4, <1>5

LEMMA EnqueueEffect == ASSUME TypeOK, NEW p \in Plans, PlanEnqueue(p) PROVE PlanEffect(p)
<1>1. plan[p].pc = "enqueue" /\ plan[p].ids \subseteq Contacts
  BY PlanTyped DEF PlanEnqueue, PlanAt
<1>2. PICK chunk \in Chunks(plan[p].ids) :
        LET rest == plan[p].ids \ chunk IN
          /\ Enqueue(chunk)
          /\ plan' = [plan EXCEPT ![p].pc = IF rest = {} THEN "ended" ELSE "enqueue",
                                  ![p].ids = rest]
  BY DEF PlanEnqueue
<1> DEFINE rest == plan[p].ids \ chunk
           s == IF rest = {} THEN "ended" ELSE "enqueue"
<1>3. chunk \in SUBSET Contacts /\ rest \in SUBSET Contacts /\ s \in PlanPlaces
  BY <1>1, <1>2 DEF Chunks, PlanPlaces
<1>4. PlanMoves(p) /\ plan'[p].pc = s /\ plan'[p].ids = rest
  <2>1. plan' = [plan EXCEPT ![p].pc = s, ![p].ids = rest]
    BY <1>2
  <2> HIDE DEF rest, s
  <2>2. QED
    BY <1>3, <2>1, PlanSets
<1>5. \A c \in plan[p].ids : \/ plan'[p].pc = "enqueue" /\ c \in plan'[p].ids
                             \/ \E j \in Jobs : j[1] = c /\ job'[j].pc = "queued"
  BY <1>2, <1>3, <1>4, Enqueues
<1>6. Queues(p)
  BY <1>1, <1>2, <1>3, Enqueues DEF Queues
<1>7. Counts(p) /\ Goes(p)
  BY <1>1, <1>4, <1>5 DEF Counts, Goes, Reads, Early, Begun
<1>8. QED
  BY <1>4, <1>6, <1>7, PlanTyped DEF PlanEnqueue, PlanEffect, Sets, Inserts, broadcast, history

LEMMA LostEffect == ASSUME TypeOK, NEW p \in Plans, PlanEnqueueLost(p) PROVE PlanEffect(p)
<1>1. plan[p].pc = "enqueue" /\ plan[p].ids \subseteq Contacts
  BY PlanTyped DEF PlanEnqueueLost, PlanAt
<1>2. PICK chunk \in Chunks(plan[p].ids) : Enqueue(chunk)
  BY DEF PlanEnqueueLost
<1>3. chunk \in SUBSET Contacts
  BY <1>1, <1>2 DEF Chunks
<1>4. PlanMoves(p) /\ plan'[p].pc = "queued"
  <2>1. "queued" \in PlanPlaces /\ {} \in SUBSET Contacts
    BY DEF PlanPlaces
  <2>2. plan' = [plan EXCEPT ![p].pc = "queued", ![p].ids = {}]
    BY DEF PlanEnqueueLost
  <2>3. QED
    BY <2>1, <2>2, PlanSets
<1>5. Queues(p)
  BY <1>1, <1>2, <1>3, Enqueues DEF Queues
<1>6. Counts(p) /\ Goes(p)
  BY <1>1, <1>4 DEF Counts, Goes, Reads, Early, Begun
<1>7. faults' \in 0 .. MaxFaults + 1
  BY FaultTypes DEF PlanEnqueueLost
<1>8. QED
  BY <1>4, <1>5, <1>6, <1>7, PlanTyped
     DEF PlanEnqueueLost, PlanEffect, Sets, Inserts, broadcast, history

LEMMA FailsPlanEffect == ASSUME TypeOK, NEW p \in Plans, PlanFails(p) PROVE PlanEffect(p)
<1> DEFINE x == [pc |-> "queued", ids |-> {}, tally |-> NoTally]
<1>1. plan[p].pc \notin {"queued", "ended"} /\ plan' = [plan EXCEPT ![p] = x] /\ PlanTypes
  BY PlanTyped DEF PlanFails
<1>2. x \in PlanStates /\ x.pc = "queued"
  BY NoJobOK DEF PlanStates
<1> HIDE DEF x
<1>3. PlanMoves(p) /\ plan'[p].pc = "queued"
  BY <1>1, <1>2, PlanPuts
<1>4. Counts(p) /\ Goes(p)
  BY <1>1, <1>3 DEF Counts, Goes, Reads, Early
<1>5. Sets(p) /\ faults' \in 0 .. MaxFaults + 1
  BY FaultTypes DEF PlanFails, Sets, history
<1>6. QED
  BY <1>3, <1>4, <1>5, PlanTyped DEF PlanFails, PlanEffect, Inserts, Queues, history

LEMMA CountPlanEffect == ASSUME TypeOK, NEW p \in Plans, PlanCount(p) PROVE PlanEffect(p)
<1> DEFINE s == IF NonePending(row) THEN "settle" ELSE "ended"
           t == IF NonePending(row) THEN Tally(row) ELSE plan[p].tally
           x == [plan[p] EXCEPT !.pc = s, !.tally = t]
<1>1. plan[p].pc = "count" /\ plan[p] \in PlanStates /\ PlanTypes /\ t \in [Decided -> Nat]
  BY PlanTyped, TallyTypes DEF PlanCount, PlanAt
<1>2. plan' = [plan EXCEPT ![p] = x]
  BY DEF PlanCount
<1>3. s \in {"settle", "ended"} /\ (s = "settle" => NonePending(row) /\ t = Tally(row))
  OBVIOUS
<1> HIDE DEF s, t
<1>4. x \in PlanStates /\ x.pc = s /\ x.tally = t
  BY <1>1, <1>3 DEF PlanStates
<1> HIDE DEF x
<1>5. PlanMoves(p) /\ plan'[p].pc = s /\ plan'[p].tally = t
  BY <1>1, <1>2, <1>4, PlanPuts
<1>6. Counts(p) /\ Goes(p)
  BY <1>1, <1>3, <1>5 DEF Counts, Goes, Reads, Early, Begun, PlanCount
<1>7. QED
  BY <1>5, <1>6, AloneEffect, PlanTyped DEF PlanCount, PlanAlone

LEMMA SettlePlanEffect == ASSUME TypeOK, NEW p \in Plans, PlanSettle(p) PROVE PlanEffect(p)
<1> DEFINE x == [plan[p] EXCEPT !.pc = "ended", !.tally = NoTally]
<1>1. plan[p].pc = "settle" /\ plan[p] \in PlanStates /\ PlanTypes /\ Settle(plan[p].tally)
  BY PlanTyped DEF PlanSettle, PlanAt
<1>2. plan' = [plan EXCEPT ![p] = x]
  BY DEF PlanSettle
<1>3. x \in PlanStates /\ x.pc = "ended"
  BY <1>1, NoJobOK DEF PlanStates
<1> HIDE DEF x
<1>4. PlanMoves(p) /\ plan'[p].pc = "ended"
  BY <1>1, <1>2, <1>3, PlanPuts
<1>5. Counts(p) /\ Goes(p)
  BY <1>1, <1>4 DEF Counts, Goes, Reads, Early
<1>6. Sets(p) /\ total' = total /\ hold' \in BOOLEAN
  BY <1>1, PlanTyped DEF PlanSettle, PlanAt, Sets, Settle, broadcast
<1>7. QED
  BY <1>4, <1>5, <1>6, PlanTyped DEF PlanSettle, PlanEffect, Inserts, Queues

PlanMishap(p) == PlanHeld(p) \/ PlanEnqueueLost(p) \/ PlanFails(p)

LEMMA PlanStepEffect ==
  ASSUME TypeOK, NEW p \in Plans, PlanWork(p) \/ PlanMishap(p) PROVE PlanEffect(p)
  BY StartEffect, ClaimPlanEffect, AudienceEffect, VerifyEffect, InsertEffect, RereadEffect,
     TotalEffect, EnqueueEffect, LostEffect, CountPlanEffect, SettlePlanEffect, HeldPlanEffect, FailsPlanEffect
     DEF PlanWork, PlanMishap

-----------------------------------------------------------------------------
(* Counting.                                                               *)

RowStates == Decided \cup {"absent", "pending"}

\* With none pending, whoever has a row is counted under one of the Outcomes.
LEMMA TallySum ==
  ASSUME NEW rows \in [Contacts -> RowStates], NonePending(rows)
  PROVE  Sum(Tally(rows)) = Present(rows)
<1> DEFINE S == {c \in Contacts : rows[c] = "sent"}
           F == {c \in Contacts : rows[c] = "failed"}
           K == {c \in Contacts : rows[c] = "skipped"}
           P == {c \in Contacts : rows[c] # "absent"}
<1>1. P = (S \cup F) \cup K /\ S \cap F = {} /\ (S \cup F) \cap K = {}
  BY DEF NonePending, RowStates, Decided
<1>2. Sum(Tally(rows)) = Cardinality(S) + Cardinality(F) + Cardinality(K) /\ Present(rows) = Cardinality(P)
  BY DEF Sum, Tally, Decided, Present
<1>3. /\ IsFiniteSet(S) /\ IsFiniteSet(F) /\ IsFiniteSet(K) /\ IsFiniteSet(S \cup F)
      /\ Cardinality(S) \in Nat /\ Cardinality(F) \in Nat /\ Cardinality(K) \in Nat
      /\ Cardinality(S \cup F) \in Nat
  BY Finite
<1> HIDE DEF S, F, K, P
<1>4. Cardinality(S \cup F) = Cardinality(S) + Cardinality(F) - Cardinality({})
  BY <1>1, <1>3, FS_Union
<1>5. Cardinality(P) = Cardinality(S \cup F) + Cardinality(K) - Cardinality({})
  BY <1>1, <1>3, FS_Union
<1>6. Cardinality({}) = 0
  BY FS_EmptySet
<1>7. QED
  BY <1>2, <1>3, <1>4, <1>5, <1>6

\* A decided row stands where a row stood.
LEMMA RowDecided ==
  ASSUME TypeOK, NEW c \in Contacts, RowWritten(c)
  PROVE  /\ row' \in [Contacts -> RowStates] /\ row'[c] \in Decided /\ row[c] # "absent"
         /\ \A d \in Contacts : d # c => row'[d] = row[d]
         /\ \A d \in Contacts : row'[d] = "absent" <=> row[d] = "absent"
         /\ \A d \in Contacts : row'[d] = "pending" => row[d] = "pending"
<1>1. PICK s \in Decided : row' = [row EXCEPT ![c] = s]
  BY DEF RowWritten
<1>2. row \in [Contacts -> RowStates] /\ row[c] # "absent"
  BY Types DEF RowStates, RowWritten
<1>3. s \in RowStates /\ s # "absent" /\ s # "pending"
  BY DEF RowStates, Decided
<1>4. row' \in [Contacts -> RowStates] /\ row'[c] = s /\ \A d \in Contacts : d # c => row'[d] = row[d]
  <2> HIDE DEF RowStates
  <2>1. QED
    BY <1>1, <1>2, <1>3
<1>5. QED
  BY <1>2, <1>3, <1>4

\* The recipients are those whose row is not absent, pending or not.
LEMMA SamePresent ==
  ASSUME NEW rows, NEW left, \A c \in Contacts : left[c] = "absent" <=> rows[c] = "absent"
  PROVE  Present(left) = Present(rows)
<1>1. {c \in Contacts : left[c] # "absent"} = {c \in Contacts : rows[c] # "absent"}
  OBVIOUS
<1>2. QED
  BY <1>1 DEF Present

\* Purging a row takes one recipient away, or none.
LEMMA OneLess ==
  ASSUME NEW rows \in [Contacts -> RowStates], NEW c \in Contacts, NEW left,
         left = [rows EXCEPT ![c] = "absent"]
  PROVE  /\ Present(rows) \in Nat /\ Present(left) \in Nat
         /\ Present(left) <= Present(rows) /\ Present(rows) <= Present(left) + 1
<1> DEFINE P == {d \in Contacts : rows[d] # "absent"}
           Q == {d \in Contacts : left[d] # "absent"}
<1>1. Q = P \ {c} /\ Present(rows) = Cardinality(P) /\ Present(left) = Cardinality(Q)
  BY DEF Present
<1>2. IsFiniteSet(P) /\ Cardinality(P) \in Nat /\ Cardinality(Q) \in Nat
  BY Finite
<1> HIDE DEF P, Q
<1>3. CASE c \in P
  <2>1. Cardinality(P \ {c}) = Cardinality(P) - 1
    BY <1>2, <1>3, FS_RemoveElement
  <2>2. QED
    BY <1>1, <1>2, <2>1
<1>4. CASE c \notin P
  <2>1. Q = P
    BY <1>1, <1>4
  <2>2. QED
    BY <1>1, <1>2, <2>1
<1>5. QED
  BY <1>3, <1>4

\* An erased Contact is one more that is gone.
LEMMA OneMoreGone ==
  ASSUME NEW c \in existing, existing \subseteq Contacts, existing' = existing \ {c}
  PROVE  Gone \in Nat /\ Gone' = Gone + 1
<1>1. Contacts \ existing' = (Contacts \ existing) \cup {c} /\ c \notin Contacts \ existing
  OBVIOUS
<1>2. IsFiniteSet(Contacts \ existing) /\ Cardinality(Contacts \ existing) \in Nat
  BY Finite
<1>3. Cardinality((Contacts \ existing) \cup {c}) = Cardinality(Contacts \ existing) + 1
  BY <1>1, <1>2, FS_AddElement
<1>4. QED
  BY <1>1, <1>2, <1>3 DEF Gone

-----------------------------------------------------------------------------
(* The steps of an Erasure.                                                *)

EraseTypes == erasure \in [Contacts -> ErasureStates]

\* Only the Erasure of c moves.
EraseMoves(c) ==
  erasure' \in [Contacts -> ErasureStates] /\ \A d \in Contacts : d # c => erasure'[d] = erasure[d]

LEMMA Erasing ==
  ASSUME TypeOK
  PROVE  /\ EraseTypes /\ existing \subseteq Contacts
         /\ \A c \in Contacts : erasure[c] \in ErasureStates /\ erasure[c].tally \in [Decided -> Nat]
  BY DEF TypeOK, EraseTypes, ErasureStates

LEMMA ErasePuts ==
  ASSUME EraseTypes, NEW c \in Contacts, NEW x \in ErasureStates, erasure' = [erasure EXCEPT ![c] = x]
  PROVE  EraseMoves(c) /\ erasure'[c] = x
<1> HIDE DEF ErasureStates
<1>1. QED
  BY DEF EraseTypes, EraseMoves

\* Everything but the Erasures is as it was.
EraseAlone == UNCHANGED <<broadcast, people, row, outbound, plan, job, faults, history>>

LEMMA EraseReads ==
  ASSUME TypeOK, NEW c \in Contacts, EraseRead(c)
  PROVE  /\ EraseAlone /\ EraseMoves(c) /\ erasure[c].pc = "idle" /\ erasure'[c].pc = "delete"
         /\ erasure'[c].unsent <=> row[c] = "pending"
         /\ erasure'[c].ready = erasure[c].ready
<1> DEFINE u == row[c] = "pending"
           x == [erasure[c] EXCEPT !.pc = "delete", !.unsent = u]
<1>1. erasure[c] \in ErasureStates /\ EraseTypes /\ u \in BOOLEAN
  BY Erasing
<1>2. erasure' = [erasure EXCEPT ![c] = x] /\ erasure[c].pc = "idle" /\ EraseAlone
  BY DEF EraseRead, EraseAlone
<1> HIDE DEF u
<1>3. x \in ErasureStates /\ x.pc = "delete" /\ x.unsent = u /\ x.ready = erasure[c].ready
  BY <1>1 DEF ErasureStates
<1> HIDE DEF x
<1>4. EraseMoves(c) /\ erasure'[c].pc = "delete" /\ erasure'[c].unsent = u
      /\ erasure'[c].ready = erasure[c].ready
  BY <1>1, <1>2, <1>3, ErasePuts
<1>5. QED
  BY <1>2, <1>4 DEF u

LEMMA EraseDeletes ==
  ASSUME TypeOK, NEW c \in Contacts, EraseDelete(c)
  PROVE  /\ UNCHANGED <<broadcast, people, row, outbound, plan, faults, history>>
         /\ EraseMoves(c) /\ erasure[c].pc = "delete"
         /\ erasure'[c].pc = IF erasure[c].unsent THEN "shrink" ELSE "commit"
         /\ erasure'[c].unsent = erasure[c].unsent /\ erasure'[c].ready = erasure[c].ready
         /\ job' \in [Jobs -> JobStates]
         /\ \A j \in Jobs : \/ job'[j] = job[j]
                            \/ j[1] = c /\ erasure[c].unsent /\ job'[j].pc = "ended" /\ job[j].pc = "queued"
<1> DEFINE s == IF erasure[c].unsent THEN "shrink" ELSE "commit"
           x == [erasure[c] EXCEPT !.pc = s]
           y == [NoJob EXCEPT !.pc = "ended"]
<1>1. erasure[c] \in ErasureStates /\ EraseTypes /\ JobTypes
  BY Erasing, Types
<1>2. s \in {"shrink", "commit"} /\ erasure' = [erasure EXCEPT ![c] = x] /\ erasure[c].pc = "delete"
  BY DEF EraseDelete
<1>3. y \in JobStates /\ y.pc = "ended"
  BY NoJobOK DEF JobStates, NoJob
<1>4. job' = [j \in Jobs |-> IF erasure[c].unsent /\ j[1] = c /\ job[j].pc = "queued" THEN y ELSE job[j]]
  BY DEF EraseDelete, JobAt
<1> HIDE DEF s, y
<1>5. x \in ErasureStates /\ x.pc = s /\ x.unsent = erasure[c].unsent /\ x.ready = erasure[c].ready
  BY <1>1, <1>2 DEF ErasureStates
<1> HIDE DEF x
<1>6. EraseMoves(c) /\ erasure'[c].pc = s /\ erasure'[c].unsent = erasure[c].unsent
      /\ erasure'[c].ready = erasure[c].ready
  BY <1>1, <1>2, <1>5, ErasePuts
<1>7. job' \in [Jobs -> JobStates]
  <2> HIDE DEF JobStates
  <2>1. QED
    BY <1>1, <1>3, <1>4 DEF JobTypes
<1>8. \A j \in Jobs : \/ job'[j] = job[j]
                      \/ j[1] = c /\ erasure[c].unsent /\ job'[j].pc = "ended" /\ job[j].pc = "queued"
  BY <1>3, <1>4
<1>9. QED
  BY <1>2, <1>6, <1>7, <1>8 DEF EraseDelete, s

LEMMA EraseShrinks ==
  ASSUME TypeOK, NEW c \in Contacts, EraseShrink(c)
  PROVE  /\ EraseAlone /\ EraseMoves(c) /\ erasure[c].pc = "shrink" /\ erasure'[c].pc = "count"
         /\ erasure'[c].unsent = erasure[c].unsent /\ erasure'[c].ready = erasure[c].ready
<1> DEFINE x == [erasure[c] EXCEPT !.pc = "count"]
<1>1. erasure[c] \in ErasureStates /\ EraseTypes
  BY Erasing
<1>2. erasure' = [erasure EXCEPT ![c] = x] /\ erasure[c].pc = "shrink" /\ EraseAlone
  BY DEF EraseShrink, EraseAlone
<1>3. x \in ErasureStates /\ x.pc = "count" /\ x.unsent = erasure[c].unsent /\ x.ready = erasure[c].ready
  BY <1>1 DEF ErasureStates
<1> HIDE DEF x
<1>4. QED
  BY <1>1, <1>2, <1>3, ErasePuts

LEMMA EraseCounts ==
  ASSUME TypeOK, NEW c \in Contacts, EraseCount(c)
  PROVE  /\ EraseAlone /\ EraseMoves(c) /\ erasure[c].pc = "count" /\ erasure'[c].pc = "commit"
         /\ erasure'[c].unsent = erasure[c].unsent
         /\ erasure'[c].ready => NonePending(Without(c)) /\ erasure'[c].tally = Tally(Without(c))
<1> DEFINE r == NonePending(Without(c))
           t == IF r THEN Tally(Without(c)) ELSE NoTally
           x == [erasure[c] EXCEPT !.pc = "commit", !.ready = r, !.tally = t]
<1>1. erasure[c] \in ErasureStates /\ EraseTypes /\ r \in BOOLEAN /\ t \in [Decided -> Nat]
  BY Erasing, TallyTypes, NoJobOK DEF NonePending
<1>2. erasure' = [erasure EXCEPT ![c] = x] /\ erasure[c].pc = "count" /\ EraseAlone
  BY DEF EraseCount, EraseAlone, Without
<1>3. r => t = Tally(Without(c))
  OBVIOUS
<1> HIDE DEF r, t
<1>4. x \in ErasureStates /\ x.pc = "commit" /\ x.unsent = erasure[c].unsent /\ x.ready = r /\ x.tally = t
  BY <1>1 DEF ErasureStates
<1> HIDE DEF x
<1>5. EraseMoves(c) /\ erasure'[c] = x
  BY <1>1, <1>2, <1>4, ErasePuts
<1>6. QED
  BY <1>2, <1>3, <1>4, <1>5 DEF r

\* What a commit leaves of the Broadcast and the row.
LEMMA EraseCommits ==
  ASSUME TypeOK, NEW c \in Contacts, EraseCommit(c)
  PROVE  /\ UNCHANGED <<renders, audience, outbound, plan, job, faults, plannings, dropped>>
         /\ EraseMoves(c) /\ erasure[c].pc = "commit" /\ erasure'[c].pc = "done"
         /\ ~erasure'[c].unsent /\ ~erasure'[c].ready
         /\ existing' = existing \ {c}
         /\ row' = row \/ (erasure[c].unsent /\ row' = Without(c))
         /\ erasure[c].unsent => row' = Without(c)
         /\ row' \in [Contacts -> RowStates] /\ \A d \in Contacts : row'[d] = row[d] \/ row'[d] = "absent"
         /\ total' \in Int /\ hold' \in BOOLEAN /\ settlings' \in Nat
         /\ \/ UNCHANGED <<status, counts>>
            \/ erasure[c].ready /\ status' = "sent" /\ counts' = erasure[c].tally
<1> DEFINE x == [pc |-> "done", unsent |-> FALSE, ready |-> FALSE, tally |-> NoTally]
<1>1. EraseTypes /\ erasure' = [erasure EXCEPT ![c] = x] /\ erasure[c].pc = "commit"
  BY Erasing DEF EraseCommit
<1>2. x \in ErasureStates /\ x.pc = "done" /\ ~x.unsent /\ ~x.ready
  BY NoJobOK DEF ErasureStates
<1> HIDE DEF x
<1>3. EraseMoves(c) /\ erasure'[c].pc = "done" /\ ~erasure'[c].unsent /\ ~erasure'[c].ready
  BY <1>1, <1>2, ErasePuts
<1>4. row \in [Contacts -> RowStates] /\ "absent" \in RowStates
  BY Types DEF RowStates
<1>5. Without(c) \in [Contacts -> RowStates]
      /\ \A d \in Contacts : Without(c)[d] = row[d] \/ Without(c)[d] = "absent"
  <2> HIDE DEF RowStates
  <2>1. QED
    BY <1>4 DEF Without
<1>6. /\ row' = row \/ (erasure[c].unsent /\ row' = Without(c))
      /\ erasure[c].unsent => row' = Without(c)
  BY DEF EraseCommit, Without
<1>7. row' \in [Contacts -> RowStates] /\ \A d \in Contacts : row'[d] = row[d] \/ row'[d] = "absent"
  BY <1>4, <1>5, <1>6
<1>8. total \in Int /\ hold \in BOOLEAN /\ settlings \in Nat
  BY DEF TypeOK
<1>9. total' \in Int /\ hold' \in BOOLEAN /\ settlings' \in Nat
      /\ \/ UNCHANGED <<status, counts>>
         \/ erasure[c].ready /\ status' = "sent" /\ counts' = erasure[c].tally
  <2>1. total' \in Int
    BY <1>8 DEF EraseCommit
  <2>2. CASE /\ erasure[c].ready /\ status' = "sent" /\ counts' = erasure[c].tally /\ hold' = FALSE
             /\ settlings' = settlings + 1
    <3>1. settlings' \in Nat
      BY <1>8, <2>2
    <3>2. hold' \in BOOLEAN
      BY <2>2
    <3>3. QED
      BY <2>1, <2>2, <3>1, <3>2, Zenon
  <2>3. CASE UNCHANGED <<status, counts, hold, settlings>>
    BY <1>8, <2>1, <2>3
  <2>4. QED
    BY <2>2, <2>3 DEF EraseCommit
<1>10. QED
  BY <1>1, <1>3, <1>6, <1>7, <1>9 DEF EraseCommit

-----------------------------------------------------------------------------
(* What each kind of step keeps: types.                                    *)

LEMMA SettleTypes ==
  ASSUME TypeOK, NEW t \in [Decided -> Nat], Settle(t)
  PROVE  /\ status' \in {"scheduled", "sending", "sent", "failed"}
         /\ counts' \in [Decided -> Nat] /\ settlings' \in Nat
  BY DEF TypeOK, Settle, broadcast

LEMMA JobKeepsTypes == ASSUME TypeOK, NEW j \in Jobs, JobEffect(j) PROVE TypeOK'
<1>1. job[j].tally \in [Decided -> Nat] /\ j[1] \in Contacts
  BY Types DEF JobTypes, JobStates, Jobs
<1>2. status' \in {"scheduled", "sending", "sent", "failed"} /\ counts' \in [Decided -> Nat]
      /\ settlings' \in Nat
  BY <1>1, SettleTypes DEF TypeOK, JobEffect
<1>3. row' \in [Contacts -> RowStates]
  BY <1>1, Types, RowDecided DEF JobEffect, RowStates
<1>4. job' \in [Jobs -> JobStates] /\ MessageTypes' /\ hold' \in BOOLEAN /\ dropped' \subseteq Contacts
      /\ faults' \in 0 .. MaxFaults + 1
      /\ UNCHANGED <<total, people, plan, erasure, plannings>>
  BY DEF JobEffect, Moves
<1>5. QED
  BY <1>2, <1>3, <1>4 DEF TypeOK, people, RowStates, JobStates, Running, MessageTypes

LEMMA PlanKeepsTypes == ASSUME TypeOK, NEW p \in Plans, PlanEffect(p) PROVE TypeOK'
<1>1. plan[p].tally \in [Decided -> Nat]
  BY PlanTyped
<1>2. status' \in {"scheduled", "sending", "sent", "failed"} /\ counts' \in [Decided -> Nat]
      /\ settlings' \in Nat /\ plannings' \in Nat
  BY <1>1, SettleTypes DEF TypeOK, PlanEffect, Sets
<1>3. row' \in [Contacts -> RowStates]
  BY Types DEF PlanEffect, Inserts, RowStates
<1>4. job' \in [Jobs -> JobStates]
  BY Types DEF PlanEffect, Queues, JobTypes
<1>5. plan' \in [Plans -> PlanStates] /\ hold' \in BOOLEAN /\ total' \in Int
      /\ faults' \in 0 .. MaxFaults + 1 /\ UNCHANGED <<people, outbound, erasure, dropped>>
  BY DEF PlanEffect, PlanMoves
<1>6. QED
  BY <1>2, <1>3, <1>4, <1>5 DEF TypeOK, people, outbound, RowStates, JobStates, Running, PlanStates

LEMMA EraseKeepsTypes == ASSUME TypeOK, NEW c \in Contacts, Erase(c) PROVE TypeOK'
<1>1. ASSUME EraseAlone, EraseMoves(c) PROVE TypeOK'
  <2>1. erasure' \in [Contacts -> ErasureStates]
        /\ UNCHANGED <<broadcast, people, row, outbound, plan, job, faults, history>>
    BY <1>1 DEF EraseMoves, EraseAlone
  <2>2. QED
    BY <2>1 DEF TypeOK, broadcast, people, outbound, history, ErasureStates
<1>2. CASE EraseRead(c) \/ EraseShrink(c) \/ EraseCount(c)
  BY <1>1, <1>2, EraseReads, EraseShrinks, EraseCounts
<1>3. CASE EraseDelete(c)
  <2>1. /\ erasure' \in [Contacts -> ErasureStates] /\ job' \in [Jobs -> JobStates]
        /\ UNCHANGED <<broadcast, people, row, outbound, plan, faults, history>>
    BY <1>3, EraseDeletes DEF EraseMoves
  <2>2. QED
    BY <2>1 DEF TypeOK, broadcast, people, outbound, history, ErasureStates, JobStates, Running
<1>4. CASE EraseCommit(c)
  <2>1. /\ erasure' \in [Contacts -> ErasureStates] /\ existing' = existing \ {c}
        /\ UNCHANGED <<renders, audience, outbound, plan, job, faults, plannings, dropped>>
        /\ row' \in [Contacts -> RowStates]
        /\ total' \in Int /\ hold' \in BOOLEAN /\ settlings' \in Nat
    BY <1>4, EraseCommits DEF EraseMoves
  <2>2. status' \in {"scheduled", "sending", "sent", "failed"} /\ counts' \in [Decided -> Nat]
    BY <1>4, EraseCommits, Erasing DEF TypeOK
  <2>3. QED
    BY <2>1, <2>2 DEF TypeOK, outbound, ErasureStates, RowStates
<1>5. QED
  BY <1>2, <1>3, <1>4 DEF Erase

-----------------------------------------------------------------------------
(* Rows and what jobs carry.                                               *)

\* What is recorded stays, and nobody comes back.
BackStays ==
  /\ \A c \in Contacts : message[c] \in Decided => message'[c] = message[c]
  /\ existing' \subseteq existing

LEMMA BacksStay ==
  ASSUME BackStays, NEW c \in Contacts, NEW s, Backs(c, s) PROVE Backs(c, s)'
  BY DEF BackStays, Backs, Decided

LEMMA CarriesStay ==
  ASSUME BackStays, NEW j \in Jobs, Carries(j), job'[j] = job[j] PROVE Carries(j)'
<1>1. j[1] \in Contacts
  BY DEF Jobs
<1>2. job[j].pc \in {"lift", "write"} => Backs(j[1], job[j].answer)'
  BY <1>1, BacksStay DEF Carries, Backs
<1>3. QED
  BY <1>2 DEF Carries, Backs

LEMMA JobKeepsRows ==
  ASSUME TypeOK, RowInv, CarryInv, NEW j \in Jobs, JobEffect(j) PROVE RowInv' /\ CarryInv'
<1>1. BackStays /\ j[1] \in Contacts
  BY DEF JobEffect, BackStays, people, Jobs
<1>2. ASSUME NEW c \in Contacts PROVE Backs(c, row[c])'
  <2>1. CASE row' = row
    BY <1>1, <2>1, BacksStay DEF RowInv, Backs
  <2>2. CASE RowWritten(j[1])
    <3>1. PICK s \in Decided : row' = [row EXCEPT ![j[1]] = s] /\ Backs(j[1], s)'
      BY <2>2 DEF RowWritten
    <3>2. row'[c] = row[c] \/ (c = j[1] /\ row'[c] = s)
      BY <1>1, <3>1, Types
    <3>3. QED
      BY <1>1, <3>1, <3>2, BacksStay DEF RowInv, Backs
  <2>3. QED
    BY <2>1, <2>2 DEF JobEffect
<1>3. ASSUME NEW i \in Jobs PROVE Carries(i)'
  BY <1>1, CarriesStay DEF JobEffect, Moves, CarryInv
<1>4. QED
  BY <1>2, <1>3 DEF RowInv, CarryInv

LEMMA PlanKeepsRows ==
  ASSUME TypeOK, RowInv, CarryInv, NEW p \in Plans, PlanEffect(p) PROVE RowInv' /\ CarryInv'
<1>1. BackStays /\ UNCHANGED <<message, existing>>
  BY DEF PlanEffect, BackStays, people, outbound
<1>2. ASSUME NEW c \in Contacts PROVE Backs(c, row[c])'
  BY <1>1 DEF PlanEffect, Inserts, RowInv, Backs
<1>3. ASSUME NEW j \in Jobs PROVE Carries(j)'
  <2>1. job'[j] = job[j] \/ (job'[j].pc = "queued" /\ job'[j].attempt = 0)
    BY DEF PlanEffect, Queues
  <2>2. 0 < MaxAttempts
    BY LimitsAssumption
  <2>3. QED
    BY <1>1, <2>1, <2>2, CarriesStay, Rests DEF CarryInv
<1>4. QED
  BY <1>2, <1>3 DEF RowInv, CarryInv

LEMMA EraseKeepsRows ==
  ASSUME TypeOK, RowInv, CarryInv, NEW c \in Contacts, Erase(c) PROVE RowInv' /\ CarryInv'
<1>1. BackStays /\ \A d \in Contacts : row'[d] = row[d] \/ row'[d] = "absent"
  <2>1. CASE EraseCommit(c)
    BY <2>1, EraseCommits DEF BackStays, outbound
  <2>2. CASE EraseRead(c) \/ EraseDelete(c) \/ EraseShrink(c) \/ EraseCount(c)
    BY <2>2 DEF BackStays, EraseRead, EraseDelete, EraseShrink, EraseCount, outbound, people
  <2>3. QED
    BY <2>1, <2>2 DEF Erase
<1>2. ASSUME NEW d \in Contacts PROVE Backs(d, row[d])'
  BY <1>1, BacksStay DEF RowInv, Backs
<1>3. ASSUME NEW j \in Jobs PROVE Carries(j)'
  <2>1. job'[j] = job[j] \/ job'[j].pc = "ended"
    <3>1. CASE EraseDelete(c)
      BY <3>1, EraseDeletes
    <3>2. CASE EraseRead(c) \/ EraseShrink(c) \/ EraseCount(c) \/ EraseCommit(c)
      BY <3>2 DEF EraseRead, EraseShrink, EraseCount, EraseCommit
    <3>3. QED
      BY <3>1, <3>2 DEF Erase
  <2>2. QED
    BY <1>1, <2>1, CarriesStay, Rests DEF CarryInv
<1>4. QED
  BY <1>2, <1>3 DEF RowInv, CarryInv

-----------------------------------------------------------------------------
(* Who takes a pending recipient on.                                       *)

LEMMA JobKeepsWork ==
  ASSUME TypeOK, WorkInv, RenderInv, NEW j \in Jobs, JobEffect(j) PROVE WorkInv' /\ RenderInv'
<1>1. /\ UNCHANGED <<renders, existing, plan, erasure>> /\ (dropped \subseteq dropped')
      /\ \A i \in Jobs : i # j => job'[i] = job[i]
      /\ Works(j) => Works(j)' \/ j[1] \in dropped' \/ row'[j[1]] # "pending" \/ j[1] \notin existing
  BY DEF JobEffect, people, Moves
<1>2. j[1] \in Contacts /\ existing \subseteq Contacts
  BY Erasing DEF Jobs
<1>3. \A c \in Contacts : row'[c] = "pending" => row[c] = "pending"
  BY <1>2, RowDecided DEF JobEffect
<1>4. ASSUME NEW c \in existing, row'[c] = "pending"
      PROVE  \/ c \in dropped'
             \/ \E p \in Plans : Covers(p, c)'
             \/ \E i \in Jobs : i[1] = c /\ Works(i)'
             \/ erasure'[c].pc \notin {"idle", "done"}
  <2>1. \/ c \in dropped
        \/ \E p \in Plans : Covers(p, c)
        \/ \E i \in Jobs : i[1] = c /\ Works(i)
        \/ erasure[c].pc \notin {"idle", "done"}
    BY <1>2, <1>3, <1>4 DEF WorkInv
  <2>2. CASE \E p \in Plans : Covers(p, c)
    BY <1>1, <2>2 DEF Covers
  <2>3. ASSUME NEW i \in Jobs, i[1] = c, Works(i)
        PROVE  c \in dropped' \/ (i[1] = c /\ Works(i)')
    BY <1>1, <1>4, <2>3 DEF Works
  <2>4. QED
    BY <1>1, <2>1, <2>2, <2>3
<1>5. WorkInv'
  BY <1>1, <1>4 DEF WorkInv
<1>6. RenderInv'
  <2>1. ASSUME ~renders PROVE row' = row
    BY <1>2, <2>1 DEF RenderInv, JobEffect, RowWritten
  <2>2. QED
    BY <1>1, <2>1 DEF RenderInv
<1>7. QED
  BY <1>5, <1>6

LEMMA PlanKeepsWork ==
  ASSUME TypeOK, WorkInv, RenderInv, NEW p \in Plans, PlanEffect(p) PROVE WorkInv' /\ RenderInv'
<1>1. /\ UNCHANGED <<renders, existing, erasure, dropped>> /\ existing \subseteq Contacts
      /\ \A q \in Plans : q # p => plan'[q] = plan[q]
      /\ \A j \in Jobs : job'[j] = job[j] \/ job'[j].pc = "queued"
      /\ Inserts(p) /\ Goes(p)
  BY Erasing DEF PlanEffect, PlanMoves, people, Queues
<1>2. ASSUME NEW c \in existing, row'[c] = "pending"
      PROVE  \/ c \in dropped'
             \/ \E q \in Plans : Covers(q, c)'
             \/ \E j \in Jobs : j[1] = c /\ Works(j)'
             \/ erasure'[c].pc \notin {"idle", "done"}
  <2>1. CASE row[c] # "pending"
    <3>1. plan'[p].pc = "reread"
      BY <1>1, <1>2, <2>1 DEF Inserts
    <3>2. Covers(p, c)'
      BY <3>1 DEF Covers
    <3>3. QED
      BY <3>2
  <2>2. CASE row[c] = "pending"
    <3>1. \/ c \in dropped
          \/ \E q \in Plans : Covers(q, c)
          \/ \E j \in Jobs : j[1] = c /\ Works(j)
          \/ erasure[c].pc \notin {"idle", "done"}
      BY <2>2 DEF WorkInv
    <3>2. ASSUME NEW q \in Plans, Covers(q, c)
          PROVE  Covers(q, c)' \/ \E j \in Jobs : j[1] = c /\ Works(j)'
      <4>1. CASE q # p
        BY <1>1, <3>2, <4>1 DEF Covers
      <4>2. CASE q = p /\ plan[p].pc \in Reads
        <5>1. renders
          BY <1>1, <2>2 DEF RenderInv
        <5>2. \/ plan'[p].pc \in Reads
              \/ plan'[p].pc = "total" /\ c \in plan'[p].ids
          BY <1>1, <1>2, <4>2, <5>1 DEF Goes
        <5>3. QED
          BY <4>2, <5>2 DEF Covers, Reads
      <4>3. CASE q = p /\ plan[p].pc = "total"
        <5>1. c \in plan[p].ids
          BY <3>2, <4>3 DEF Covers
        <5>2. QED
          BY <1>1, <4>3, <5>1 DEF Covers, Goes
      <4>4. CASE q = p /\ plan[p].pc = "enqueue"
        <5>1. c \in plan[p].ids
          BY <3>2, <4>4 DEF Covers
        <5>2. \/ plan'[p].pc = "queued" \/ (plan'[p].pc = "enqueue" /\ c \in plan'[p].ids)
              \/ \E j \in Jobs : j[1] = c /\ job'[j].pc = "queued"
          BY <1>1, <4>4, <5>1 DEF Goes
        <5>3. QED
          BY <4>4, <5>2 DEF Covers, Works
      <4>5. QED
        BY <3>2, <4>1, <4>2, <4>3, <4>4 DEF Covers, Reads
    <3>3. ASSUME NEW j \in Jobs, j[1] = c, Works(j) PROVE Works(j)'
      BY <1>1, <3>3 DEF Works
    <3>4. QED
      BY <1>1, <3>1, <3>2, <3>3
  <2>3. QED
    BY <2>1, <2>2
<1>3. WorkInv'
  BY <1>1, <1>2 DEF WorkInv
<1>4. ASSUME ~renders
      PROVE  row' = row /\ plan[p].pc = "queued" /\ plan'[p].pc \in {"queued", "ended"}
  BY <1>1, <1>4 DEF RenderInv, Goes, Inserts
<1>5. RenderInv'
  BY <1>1, <1>4 DEF RenderInv
<1>6. QED
  BY <1>3, <1>5

LEMMA EraseKeepsWork ==
  ASSUME TypeOK, WorkInv, RenderInv, NEW c \in Contacts, Erase(c) PROVE WorkInv' /\ RenderInv'
<1>1. /\ UNCHANGED <<renders, plan, dropped>> /\ existing' \subseteq existing
      /\ erasure'[c].pc \notin {"idle", "done"} \/ c \notin existing'
      /\ \A d \in Contacts : d # c => erasure'[d] = erasure[d]
      /\ \A d \in Contacts : row'[d] = row[d] \/ row'[d] = "absent"
      /\ \A j \in Jobs : job'[j] = job[j] \/ j[1] = c
  <2>1. CASE EraseRead(c) \/ EraseShrink(c) \/ EraseCount(c)
    BY <2>1, EraseReads, EraseShrinks, EraseCounts DEF EraseAlone, EraseMoves, people, history
  <2>2. CASE EraseDelete(c)
    BY <2>2, EraseDeletes DEF EraseMoves, people, history
  <2>3. CASE EraseCommit(c)
    BY <2>3, EraseCommits DEF EraseMoves
  <2>4. QED
    BY <2>1, <2>2, <2>3 DEF Erase
<1>2. existing \subseteq Contacts
  BY Erasing
<1>3. ASSUME NEW d \in existing', row'[d] = "pending"
      PROVE  \/ d \in dropped'
             \/ \E p \in Plans : Covers(p, d)'
             \/ \E j \in Jobs : j[1] = d /\ Works(j)'
             \/ erasure'[d].pc \notin {"idle", "done"}
  <2>1. CASE d = c
    BY <1>1, <2>1
  <2>2. CASE d # c
    <3>1. \/ d \in dropped
          \/ \E p \in Plans : Covers(p, d)
          \/ \E j \in Jobs : j[1] = d /\ Works(j)
          \/ erasure[d].pc \notin {"idle", "done"}
      BY <1>1, <1>2, <1>3 DEF WorkInv
    <3>2. ASSUME NEW p \in Plans, Covers(p, d) PROVE Covers(p, d)'
      BY <1>1, <3>2 DEF Covers
    <3>3. ASSUME NEW j \in Jobs, j[1] = d, Works(j) PROVE Works(j)'
      BY <1>1, <2>2, <3>3 DEF Works
    <3>4. QED
      BY <1>1, <1>2, <2>2, <3>1, <3>2, <3>3
  <2>3. QED
    BY <2>1, <2>2
<1>4. WorkInv'
  BY <1>3 DEF WorkInv
<1>5. RenderInv'
  BY <1>1 DEF RenderInv
<1>6. QED
  BY <1>4, <1>5

-----------------------------------------------------------------------------
(* Planned once.                                                           *)

LEMMA JobKeepsOnce ==
  ASSUME TypeOK, OnceInv, NEW j \in Jobs, JobEffect(j) PROVE OnceInv'
<1>1. UNCHANGED <<plan, plannings>> /\ ~Fresh
  BY DEF JobEffect, Fresh
<1>2. ASSUME plannings <= 1
      PROVE  /\ plannings # 0
             /\ \A p \in Plans : plan[p].pc \notin {"audience", "verify", "insert"}
             /\ \A p, q \in Plans : Begun(p) /\ Begun(q) => p = q
  BY <1>1, <1>2 DEF OnceInv
<1>3. QED
  BY <1>1, <1>2 DEF OnceInv, Begun

\* A plan leaves a fresh Broadcast fresh until it inserts.
LEMMA PlanKeepsFresh ==
  ASSUME Fresh, NEW p \in Plans, PlanEffect(p), row' = row, plan[p].pc \notin {"enqueue", "settle"}
  PROVE  Fresh'
<1>1. job' = job /\ erasure' = erasure
  BY DEF PlanEffect, Queues
<1>2. status' # "sent"
  BY DEF Fresh, PlanEffect, Sets, PlanAt
<1>3. QED
  BY <1>1, <1>2 DEF Fresh

LEMMA PlanKeepsOnce ==
  ASSUME TypeOK, OnceInv, NEW p \in Plans, PlanEffect(p) PROVE OnceInv'
<1> SUFFICES ASSUME plannings' <= 1
             PROVE  /\ plannings' = 0 => Fresh' /\ \A q \in Plans : ~Begun(q)'
                    /\ \A q \in Plans : plan'[q].pc \in Early => Fresh'
                    /\ \A q, r \in Plans : Begun(q)' /\ Begun(r)' => q = r
  BY DEF OnceInv, Early
<1>1. plannings \in Nat /\ (plannings' = plannings \/ plannings' = plannings + 1)
  BY DEF TypeOK, PlanEffect, Sets
<1>2. plannings <= 1
  BY <1>1
<1>3. /\ \A q \in Plans : q # p => plan'[q] = plan[q]
      /\ Begun(p)' => Begun(p) \/ plannings' = plannings + 1
      /\ plan'[p].pc \in Early => plan[p].pc \in Early \/ plannings' = plannings + 1
  BY DEF PlanEffect, PlanMoves, Goes, Begun
<1>4. CASE plannings' = plannings + 1
  <2>1. plannings = 0 /\ Fresh /\ \A q \in Plans : ~Begun(q)
    BY <1>1, <1>4 DEF OnceInv
  <2>2. Fresh'
    BY <2>1, PlanKeepsFresh DEF Begun, PlanEffect, Inserts
  <2>3. \A q \in Plans : Begun(q)' => q = p
    BY <1>3, <2>1 DEF Begun
  <2>4. QED
    BY <1>1, <1>4, <2>2, <2>3
<1>5. CASE plannings' = plannings
  <2>1. \A q \in Plans : Begun(q)' => Begun(q)
    BY <1>1, <1>3, <1>5 DEF Begun
  <2>2. \A q, r \in Plans : Begun(q)' /\ Begun(r)' => q = r
    BY <1>2, <2>1 DEF OnceInv
  <2>3. ASSUME plannings = 0 PROVE Fresh' /\ \A q \in Plans : ~Begun(q)'
    <3>1. Fresh /\ \A q \in Plans : ~Begun(q)
      BY <2>3 DEF OnceInv
    <3>2. QED
      BY <2>1, <3>1, PlanKeepsFresh DEF Begun, PlanEffect, Inserts
  <2>4. ASSUME NEW q \in Plans, plan'[q].pc \in Early PROVE Fresh'
    <3>1. plan[q].pc \in Early
      BY <1>1, <1>3, <1>5, <2>4
    <3>2. Fresh /\ Begun(q)
      BY <1>2, <3>1 DEF OnceInv, Begun, Early
    <3>3. Begun(p) => q = p
      BY <1>2, <3>2 DEF OnceInv
    <3>4. plan[p].pc \notin {"enqueue", "settle"}
      BY <3>1, <3>3 DEF Begun, Early
    <3>5. row' = row
      BY <2>4, <3>3 DEF PlanEffect, Inserts, Begun, Early
    <3>6. QED
      BY <3>2, <3>4, <3>5, PlanKeepsFresh
  <2>5. QED
    BY <1>5, <2>2, <2>3, <2>4
<1>6. QED
  BY <1>1, <1>4, <1>5

\* An Erasure finds nothing to purge in a fresh Broadcast.
LEMMA EraseKeepsFresh ==
  ASSUME TypeOK, EraseInv, Fresh, NEW c \in Contacts, Erase(c) PROVE Fresh'
<1>1. /\ status # "sent" /\ ~erasure[c].unsent /\ ~erasure[c].ready
      /\ erasure[c].pc \notin {"shrink", "count"}
  BY DEF Fresh, EraseInv
<1>2. \A d \in Contacts : row[d] = "absent"
  BY DEF Fresh
<1>3. CASE EraseRead(c)
  <2>1. EraseAlone /\ EraseMoves(c) /\ ~erasure'[c].unsent
    BY <1>2, <1>3, EraseReads
  <2>2. QED
    BY <2>1 DEF Fresh, EraseAlone, EraseMoves, broadcast
<1>4. CASE EraseDelete(c)
  <2>1. \A j \in Jobs : job'[j] = job[j]
    BY <1>1, <1>4, EraseDeletes
  <2>2. /\ status' = status /\ row' = row
        /\ \A d \in Contacts : erasure'[d].unsent = erasure[d].unsent
    BY <1>4, EraseDeletes DEF EraseMoves, broadcast
  <2>3. QED
    BY <2>1, <2>2 DEF Fresh
<1>5. CASE EraseCommit(c)
  <2>1. job' = job /\ status' = status
    BY <1>1, <1>5, EraseCommits
  <2>2. \A d \in Contacts : row'[d] = "absent"
    BY <1>2, <1>5, EraseCommits
  <2>3. \A d \in Contacts : ~erasure'[d].unsent
    BY <1>5, EraseCommits DEF EraseMoves, Fresh
  <2>4. QED
    BY <2>1, <2>2, <2>3 DEF Fresh
<1>6. QED
  BY <1>1, <1>3, <1>4, <1>5, EraseShrinks, EraseCounts DEF Erase

LEMMA EraseKeepsOnce ==
  ASSUME TypeOK, EraseInv, OnceInv, NEW c \in Contacts, Erase(c) PROVE OnceInv'
<1>1. UNCHANGED <<plan, plannings>>
  BY DEF Erase, EraseRead, EraseDelete, EraseShrink, EraseCount, EraseCommit, history
<1>2. Fresh => Fresh'
  BY EraseKeepsFresh
<1>3. QED
  BY <1>1, <1>2 DEF OnceInv, Begun

-----------------------------------------------------------------------------
(* What an Erasure counted.                                                *)

\* A row written for somebody else changes nothing an Erasure counted.
LEMMA CountStays ==
  ASSUME TypeOK, NEW c \in Contacts, NEW d \in Contacts, RowWritten(d), c # d, NonePending(Without(c))
  PROVE  NonePending(Without(c))' /\ Present(Without(c))' = Present(Without(c))
<1> DEFINE old == [row EXCEPT ![c] = "absent"]
           new == [row' EXCEPT ![c] = "absent"]
<1>1. row \in [Contacts -> RowStates] /\ row' \in [Contacts -> RowStates]
  BY Types, RowDecided DEF RowStates
<1>2. \A x \in Contacts : /\ old[x] = IF x = c THEN "absent" ELSE row[x]
                          /\ new[x] = IF x = c THEN "absent" ELSE row'[x]
  <2> HIDE DEF RowStates
  <2>1. QED
    BY <1>1
<1> HIDE DEF old, new
<1>3. \A x \in Contacts : new[x] = "absent" <=> old[x] = "absent"
  BY <1>2, RowDecided
<1>4. \A x \in Contacts : old[x] # "pending"
  BY DEF NonePending, Without, old
<1>5. \A x \in Contacts : new[x] # "pending"
  BY <1>2, <1>4, RowDecided
<1>6. {x \in Contacts : new[x] # "absent"} = {x \in Contacts : old[x] # "absent"}
  BY <1>3
<1>7. QED
  BY <1>5, <1>6 DEF NonePending, Present, Without, old, new

\* What an Erasure counted is what its commit will leave.
Foresees(c) ==
  plannings <= 1 /\ erasure[c].ready =>
    NonePending(Without(c)) /\ Sum(erasure[c].tally) = Present(Without(c))

LEMMA ForeseesStays ==
  ASSUME NEW c \in Contacts, Foresees(c), UNCHANGED <<row, plannings>>, erasure'[c] = erasure[c]
  PROVE  Foresees(c)'
  BY DEF Foresees, NonePending, Present, Without

\* Everything an Erasure may assume of its place, and that two never write at once.
Places ==
  /\ \A c \in Contacts :
       /\ c \in existing <=> erasure[c].pc # "done"
       /\ erasure[c].pc \in {"shrink", "count"} => erasure[c].unsent
       /\ erasure[c].ready => erasure[c].pc = "commit" /\ erasure[c].unsent
  /\ \A c, d \in Contacts : Writes(c) /\ Writes(d) => c = d

LEMMA EraseParts == EraseInv <=> Places /\ \A c \in Contacts : Foresees(c)
  BY Zenon DEF EraseInv, Places, Foresees

LEMMA PlacesStay == ASSUME Places, UNCHANGED <<existing, erasure>> PROVE Places'
  BY DEF Places, Writes

LEMMA JobKeepsErasures ==
  ASSUME TypeOK, EraseInv, NEW j \in Jobs, JobEffect(j) PROVE EraseInv'
<1>1. UNCHANGED <<existing, erasure, plannings>> /\ j[1] \in Contacts
  BY DEF JobEffect, people, Jobs
<1>2. Places /\ \A c \in Contacts : Foresees(c)
  BY EraseParts
<1>3. Places'
  BY <1>1, <1>2, PlacesStay
<1>4. ASSUME NEW c \in Contacts PROVE Foresees(c)'
  <2>1. CASE row' = row
    BY <1>1, <1>2, <2>1, ForeseesStays
  <2>2. CASE RowWritten(j[1])
    <3>1. CASE plannings <= 1 /\ erasure[c].ready
      <4>1. RowLocked(c)
        BY <1>2, <3>1 DEF Places, RowLocked
      <4>2. c # j[1]
        BY <2>2, <4>1 DEF RowWritten
      <4>3. NonePending(Without(c)) /\ Sum(erasure[c].tally) = Present(Without(c))
        BY <1>2, <3>1 DEF Foresees
      <4>4. NonePending(Without(c))' /\ Present(Without(c))' = Present(Without(c))
        BY <1>1, <2>2, <4>2, <4>3, CountStays
      <4>5. QED
        BY <1>1, <4>3, <4>4 DEF Foresees, Sum
    <3>2. CASE ~(plannings <= 1 /\ erasure[c].ready)
      BY <1>1, <3>2 DEF Foresees
    <3>3. QED
      BY <3>1, <3>2
  <2>3. QED
    BY <2>1, <2>2 DEF JobEffect
<1>5. QED
  BY <1>3, <1>4 DEF EraseInv, Places, Foresees

LEMMA PlanKeepsErasures ==
  ASSUME TypeOK, EraseInv, OnceInv, NEW p \in Plans, PlanEffect(p) PROVE EraseInv'
<1>1. UNCHANGED <<existing, erasure>> /\ plannings \in Nat
      /\ (plannings' = plannings \/ plannings' = plannings + 1)
  BY DEF PlanEffect, people, Sets, TypeOK
<1>2. Places /\ \A c \in Contacts : Foresees(c)
  BY EraseParts
<1>3. Places'
  BY <1>1, <1>2, PlacesStay
<1>4. ASSUME NEW c \in Contacts PROVE Foresees(c)'
  <2>1. CASE plannings' <= 1 /\ erasure[c].ready
    <3>1. plannings <= 1 /\ ~Fresh
      BY <1>1, <1>2, <2>1 DEF Places, Fresh
    <3>2. plannings' = plannings /\ plan[p].pc # "insert"
      BY <1>1, <2>1, <3>1 DEF OnceInv
    <3>3. row' = row
      BY <3>2 DEF PlanEffect, Inserts
    <3>4. QED
      BY <1>1, <1>2, <3>2, <3>3, ForeseesStays
  <2>2. CASE ~(plannings' <= 1 /\ erasure[c].ready)
    BY <1>1, <2>2 DEF Foresees
  <2>3. QED
    BY <2>1, <2>2
<1>5. QED
  BY <1>3, <1>4 DEF EraseInv, Places, Foresees

LEMMA EraseKeepsErasures ==
  ASSUME TypeOK, EraseInv, NEW c \in Contacts, Erase(c) PROVE EraseInv'
<1>1. Places /\ (\A d \in Contacts : Foresees(d)) /\ existing \subseteq Contacts
  BY EraseParts, Erasing
<1>2. ASSUME EraseMoves(c), UNCHANGED <<row, existing, plannings>>,
             erasure[c].pc # "done", erasure'[c].pc # "done", ~erasure'[c].ready,
             erasure'[c].pc \in {"shrink", "count"} => erasure'[c].unsent,
             Writes(c)' => \A d \in Contacts : d # c => ~Writes(d)
      PROVE  EraseInv'
  <2>1. Places'
    BY <1>1, <1>2 DEF Places, EraseMoves, Writes
  <2>2. ASSUME NEW d \in Contacts PROVE Foresees(d)'
    BY <1>1, <1>2, ForeseesStays DEF EraseMoves, Foresees
  <2>3. QED
    BY <2>1, <2>2 DEF EraseInv, Places, Foresees
<1>3. CASE EraseRead(c)
  <2>1. EraseMoves(c) /\ UNCHANGED <<row, existing, plannings>> /\ erasure[c].pc = "idle"
        /\ erasure'[c].pc = "delete" /\ ~erasure'[c].ready
    BY <1>1, <1>3, EraseReads DEF EraseAlone, people, history, Places
  <2>2. QED
    BY <1>2, <2>1 DEF Writes
<1>4. CASE EraseDelete(c)
  <2>1. EraseMoves(c) /\ UNCHANGED <<row, existing, plannings>> /\ erasure[c].pc = "delete"
        /\ ~erasure'[c].ready /\ erasure'[c].unsent = erasure[c].unsent
        /\ erasure'[c].pc = IF erasure[c].unsent THEN "shrink" ELSE "commit"
    BY <1>1, <1>4, EraseDeletes DEF people, history, Places
  <2>2. erasure'[c].pc \in {"shrink", "commit"} /\ (erasure'[c].pc = "shrink" => erasure'[c].unsent)
        /\ (erasure'[c].pc = "commit" => ~erasure'[c].unsent)
    BY <2>1
  <2>3. QED
    BY <1>2, <2>1, <2>2 DEF Writes
<1>5. CASE EraseShrink(c)
  <2>1. EraseMoves(c) /\ UNCHANGED <<row, existing, plannings>> /\ erasure[c].pc = "shrink"
        /\ erasure'[c].pc = "count" /\ ~erasure'[c].ready /\ erasure'[c].unsent
    BY <1>1, <1>5, EraseShrinks DEF EraseAlone, people, history, Places
  <2>2. \A d \in Contacts : ~Writes(d)
    BY <1>5 DEF EraseShrink, BroadcastLocked, Writes
  <2>3. QED
    BY <1>2, <2>1, <2>2
<1>6. CASE EraseCount(c)
  <2>1. EraseMoves(c) /\ UNCHANGED <<row, existing, plannings>> /\ erasure[c].pc = "count"
        /\ erasure'[c].pc = "commit" /\ erasure[c].unsent /\ erasure'[c].unsent
        /\ (erasure'[c].ready => NonePending(Without(c)) /\ erasure'[c].tally = Tally(Without(c)))
    BY <1>1, <1>6, EraseCounts DEF EraseAlone, people, history, Places
  <2>2. Writes(c)
    BY <2>1 DEF Writes
  <2>3. Places'
    BY <1>1, <2>1, <2>2 DEF Places, EraseMoves, Writes
  <2>4. Without(c) \in [Contacts -> RowStates]
    <3>1. row \in [Contacts -> RowStates] /\ "absent" \in RowStates
      BY Types DEF RowStates
    <3> HIDE DEF RowStates
    <3>2. QED
      BY <3>1 DEF Without
  <2>5. erasure'[c].ready => Sum(erasure'[c].tally) = Present(Without(c))
    BY <2>1, <2>4, TallySum
  <2>6. Foresees(c)'
    BY <2>1, <2>5 DEF Foresees, NonePending, Present, Without
  <2>7. ASSUME NEW d \in Contacts PROVE Foresees(d)'
    BY <1>1, <2>1, <2>6, ForeseesStays DEF EraseMoves
  <2>8. QED
    BY <2>3, <2>7 DEF EraseInv, Places, Foresees
<1>7. CASE EraseCommit(c)
  <2>1. /\ EraseMoves(c) /\ plannings' = plannings /\ erasure[c].pc = "commit"
        /\ erasure'[c].pc = "done" /\ ~erasure'[c].unsent /\ ~erasure'[c].ready
        /\ existing' = existing \ {c} /\ (row' = row \/ erasure[c].unsent)
    BY <1>7, EraseCommits
  <2>2. Places'
    BY <1>1, <2>1 DEF Places, EraseMoves, Writes
  <2>3. ASSUME NEW d \in Contacts PROVE Foresees(d)'
    <3>1. CASE d = c
      BY <2>1, <3>1 DEF Foresees
    <3>2. CASE d # c /\ ~erasure[d].ready
      BY <2>1, <3>2 DEF Foresees, EraseMoves
    <3>3. CASE d # c /\ erasure[d].ready
      <4>1. Writes(d) /\ ~Writes(c)
        BY <1>1, <3>3 DEF Places, Writes
      <4>2. row' = row
        BY <2>1, <4>1 DEF Writes
      <4>3. QED
        BY <1>1, <2>1, <3>3, <4>2, ForeseesStays DEF EraseMoves
    <3>4. QED
      BY <3>1, <3>2, <3>3
  <2>4. QED
    BY <2>2, <2>3 DEF EraseInv, Places, Foresees
<1>8. QED
  BY <1>3, <1>4, <1>5, <1>6, <1>7 DEF Erase

-----------------------------------------------------------------------------
(* Settled in full.                                                        *)

LEMMA FullAtOnce ==
  ASSUME TypeOK, NonePending(row) PROVE InFull(Tally(row))
<1>1. row \in [Contacts -> RowStates]
  BY Types DEF RowStates
<1>2. Sum(Tally(row)) = Present(row) /\ Present(row) \in Nat /\ Gone \in Nat
  BY <1>1, TallySum, Finite DEF Present, Gone
<1>3. QED
  BY <1>2 DEF InFull

LEMMA StaysFull ==
  ASSUME NEW t, InFull(t), UNCHANGED <<row, existing>> PROVE InFull(t)'
  BY DEF InFull, NonePending, Present, Gone

LEMMA StaysFullWritten ==
  ASSUME TypeOK, NEW t, InFull(t), NEW c \in Contacts, RowWritten(c), existing' = existing
  PROVE  InFull(t)'
<1>1. /\ \A d \in Contacts : row'[d] = "absent" <=> row[d] = "absent"
      /\ \A d \in Contacts : row'[d] = "pending" => row[d] = "pending"
  BY RowDecided
<1>2. {d \in Contacts : row'[d] # "absent"} = {d \in Contacts : row[d] # "absent"}
  BY <1>1
<1>3. QED
  BY <1>1, <1>2 DEF InFull, NonePending, Present, Gone

\* An erased Contact takes its row along, if it had one, and is one more gone.
LEMMA StaysFullErased ==
  ASSUME TypeOK, EraseInv, NEW c \in Contacts, EraseCommit(c), NEW t \in [Decided -> Nat], InFull(t)
  PROVE  InFull(t)'
<1>1. row \in [Contacts -> RowStates] /\ existing \subseteq Contacts
  BY Types, Erasing DEF RowStates
<1>2. c \in existing /\ existing' = existing \ {c}
  BY EraseCommits DEF EraseInv
<1>3. Gone \in Nat /\ Gone' = Gone + 1
  BY <1>1, <1>2, OneMoreGone
<1>4. row' = row \/ row' = Without(c)
  BY EraseCommits
<1> DEFINE n == Present(row)
           m == Cardinality({d \in Contacts : row'[d] # "absent"})
<1>5. n \in Nat /\ m \in Nat /\ m <= n /\ n <= m + 1
  <2>1. CASE row' = row
    BY <2>1, Finite DEF Present
  <2>2. CASE row' = Without(c)
    BY <1>1, <2>2, OneLess DEF Without, Present
  <2>3. QED
    BY <1>4, <2>1, <2>2
<1>6. Sum(t) \in Nat /\ n <= Sum(t) /\ Sum(t) <= n + Gone
  BY DEF Sum, Decided, InFull
<1>7. \A d \in Contacts : row'[d] # "pending"
  BY EraseCommits DEF InFull, NonePending
<1> HIDE DEF n
<1>8. m <= Sum(t) /\ Sum(t) <= m + (Gone + 1)
  <2> HIDE DEF m
  <2>1. QED
    BY <1>3, <1>5, <1>6
<1>9. QED
  BY <1>3, <1>7, <1>8 DEF InFull, NonePending, Present

\* What an Erasure counted is the count its commit leaves.
LEMMA FullByErasure ==
  ASSUME TypeOK, EraseInv, NEW c \in Contacts, EraseCommit(c), plannings <= 1, erasure[c].ready,
         NEW t, t = erasure[c].tally
  PROVE  InFull(t)'
<1>1. NonePending(Without(c)) /\ Sum(t) = Present(Without(c)) /\ erasure[c].unsent
  BY DEF EraseInv
<1>2. row' = Without(c)
  BY <1>1, EraseCommits
<1>3. Sum(t) = Cardinality({d \in Contacts : row'[d] # "absent"}) /\ \A d \in Contacts : row'[d] # "pending"
  BY <1>1, <1>2 DEF Present, NonePending
<1>4. Cardinality({d \in Contacts : row'[d] # "absent"}) \in Nat /\ Cardinality(Contacts \ existing') \in Nat
  BY Finite
<1>5. /\ Cardinality({d \in Contacts : row'[d] # "absent"}) <= Sum(t)
      /\ Sum(t) <= Cardinality({d \in Contacts : row'[d] # "absent"}) + Cardinality(Contacts \ existing')
  BY <1>3, <1>4
<1>6. QED
  BY <1>3, <1>5 DEF InFull, NonePending, Present, Gone

LEMMA JobKeepsFull ==
  ASSUME TypeOK, FullInv, NEW j \in Jobs, JobEffect(j) PROVE FullInv'
<1> SUFFICES ASSUME plannings <= 1
             PROVE  /\ status' = "sent" => InFull(counts)'
                    /\ \A p \in Plans : plan'[p].pc = "settle" => InFull(plan[p].tally)'
                    /\ \A i \in Jobs : job'[i].pc = "settle" => InFull(job[i].tally)'
  BY DEF FullInv, JobEffect
<1>1. UNCHANGED <<existing, plan, plannings>> /\ j[1] \in Contacts
      /\ (row' = row \/ RowWritten(j[1])) /\ \A i \in Jobs : i # j => job'[i] = job[i]
  BY DEF JobEffect, people, Jobs, Moves
<1>2. ASSUME NEW t, InFull(t) PROVE InFull(t)'
  BY <1>1, <1>2, StaysFull, StaysFullWritten
<1>3. status' = "sent" => InFull(counts)'
  <2>1. CASE UNCHANGED <<status, counts, settlings>>
    BY <1>2, <2>1 DEF FullInv, InFull, Sum
  <2>2. CASE JobAt(j, "settle") /\ Settle(job[j].tally)
    <3>1. CASE UNCHANGED <<status, counts>>
      BY <1>2, <3>1 DEF FullInv, InFull, Sum
    <3>2. CASE counts' = job[j].tally
      <4>1. InFull(job[j].tally)
        BY <2>2 DEF FullInv, JobAt
      <4>2. QED
        BY <1>2, <3>2, <4>1 DEF InFull, Sum
    <3>3. QED
      BY <2>2, <3>1, <3>2 DEF Settle, broadcast
  <2>3. QED
    BY <2>1, <2>2 DEF JobEffect
<1>4. \A p \in Plans : plan'[p].pc = "settle" => InFull(plan[p].tally)'
  BY <1>1, <1>2 DEF FullInv, InFull, Sum
<1>5. ASSUME NEW i \in Jobs, job'[i].pc = "settle" PROVE InFull(job[i].tally)'
  <2>1. CASE i # j
    BY <1>1, <1>2, <1>5, <2>1 DEF FullInv, InFull, Sum
  <2>2. CASE i = j
    <3>1. NonePending(row) /\ row' = row /\ job'[j].tally = Tally(row)
      BY <1>5, <2>2 DEF JobEffect
    <3>2. InFull(Tally(row))
      BY <3>1, FullAtOnce
    <3>3. QED
      BY <1>1, <2>2, <3>1, <3>2, StaysFull DEF InFull, Sum
  <2>3. QED
    BY <2>1, <2>2
<1>6. QED
  BY <1>3, <1>4, <1>5

LEMMA PlanKeepsFull ==
  ASSUME TypeOK, OnceInv, FullInv, NEW p \in Plans, PlanEffect(p) PROVE FullInv'
<1> SUFFICES ASSUME plannings' <= 1
             PROVE  /\ status' = "sent" => InFull(counts)'
                    /\ \A q \in Plans : plan'[q].pc = "settle" => InFull(plan[q].tally)'
                    /\ \A j \in Jobs : job'[j].pc = "settle" => InFull(job[j].tally)'
  BY DEF FullInv
<1>1. /\ existing' = existing /\ plannings \in Nat
      /\ (plannings' = plannings \/ plannings' = plannings + 1)
      /\ \A q \in Plans : q # p => plan'[q] = plan[q]
      /\ \A j \in Jobs : job'[j] = job[j] \/ job'[j].pc = "queued"
  BY DEF PlanEffect, PlanMoves, people, Sets, TypeOK, Queues
<1>2. plannings <= 1
  BY <1>1
<1>3. CASE row' = row
  <2>1. ASSUME NEW t, InFull(t) PROVE InFull(t)'
    BY <1>1, <1>3, <2>1, StaysFull
  <2>2. status' = "sent" => InFull(counts)'
    <3>1. CASE UNCHANGED <<status, counts>>
      BY <1>2, <2>1, <3>1 DEF FullInv, InFull, Sum
    <3>2. CASE PlanAt(p, "settle") /\ counts' = plan[p].tally
      <4>1. InFull(plan[p].tally)
        BY <1>2, <3>2 DEF FullInv, PlanAt
      <4>2. QED
        BY <2>1, <3>2, <4>1 DEF InFull, Sum
    <3>3. QED
      BY <3>1, <3>2 DEF PlanEffect, Sets, Settle, broadcast
  <2>3. ASSUME NEW q \in Plans, plan'[q].pc = "settle" PROVE InFull(plan[q].tally)'
    <3>1. CASE q # p
      BY <1>1, <1>2, <2>1, <2>3, <3>1 DEF FullInv, InFull, Sum
    <3>2. CASE q = p
      <4>1. NonePending(row) /\ plan'[p].tally = Tally(row)
        BY <2>3, <3>2 DEF PlanEffect, Counts
      <4>2. InFull(Tally(row))
        BY <4>1, FullAtOnce
      <4>3. QED
        BY <1>1, <1>3, <3>2, <4>1, <4>2, StaysFull DEF InFull, Sum
    <3>3. QED
      BY <3>1, <3>2
  <2>4. \A j \in Jobs : job'[j].pc = "settle" => InFull(job[j].tally)'
    BY <1>1, <1>2, <2>1 DEF FullInv, InFull, Sum
  <2>5. QED
    BY <2>2, <2>3, <2>4
<1>4. CASE plan[p].pc = "insert" /\ plan'[p].pc = "reread"
  <2>1. Fresh /\ Begun(p)
    BY <1>2, <1>4 DEF OnceInv, Begun
  <2>2. status' # "sent"
    BY <1>4, <2>1 DEF PlanEffect, Sets, Fresh, PlanAt
  <2>3. \A j \in Jobs : job'[j].pc # "settle"
    BY <1>1, <2>1 DEF Fresh
  <2>4. \A q \in Plans : plan'[q].pc # "settle"
    BY <1>1, <1>2, <1>4, <2>1 DEF OnceInv, Begun
  <2>5. QED
    BY <2>2, <2>3, <2>4
<1>5. QED
  BY <1>3, <1>4 DEF PlanEffect, Inserts

LEMMA EraseKeepsFull ==
  ASSUME TypeOK, EraseInv, FullInv, NEW c \in Contacts, Erase(c) PROVE FullInv'
<1> SUFFICES ASSUME plannings <= 1
             PROVE  /\ status' = "sent" => InFull(counts)'
                    /\ \A p \in Plans : plan'[p].pc = "settle" => InFull(plan[p].tally)'
                    /\ \A j \in Jobs : job'[j].pc = "settle" => InFull(job[j].tally)'
  <2>1. plannings' = plannings
    BY DEF Erase, EraseRead, EraseDelete, EraseShrink, EraseCount, EraseCommit, history
  <2>2. QED
    BY <2>1 DEF FullInv
<1>1. CASE EraseRead(c) \/ EraseDelete(c) \/ EraseShrink(c) \/ EraseCount(c)
  <2>1. UNCHANGED <<row, existing, status, counts, plan>>
        /\ \A j \in Jobs : job'[j] = job[j] \/ job'[j].pc = "ended"
    BY <1>1, EraseReads, EraseDeletes, EraseShrinks, EraseCounts DEF EraseAlone, broadcast, people
  <2>2. ASSUME NEW t, InFull(t) PROVE InFull(t)'
    BY <2>1, <2>2, StaysFull
  <2>3. QED
    BY <2>1, <2>2 DEF FullInv, InFull, Sum
<1>2. CASE EraseCommit(c)
  <2>1. UNCHANGED <<plan, job>>
    BY <1>2, EraseCommits
  <2>2. ASSUME NEW t \in [Decided -> Nat], InFull(t) PROVE InFull(t)'
    BY <1>2, <2>2, StaysFullErased
  <2>3. /\ counts \in [Decided -> Nat]
        /\ \A p \in Plans : plan[p].tally \in [Decided -> Nat]
        /\ \A j \in Jobs : job[j].tally \in [Decided -> Nat]
    BY PlanTyped, Types DEF TypeOK, JobTypes, JobStates
  <2>4. status' = "sent" => InFull(counts)'
    <3>1. CASE UNCHANGED <<status, counts>>
      BY <2>2, <2>3, <3>1 DEF FullInv, InFull, Sum
    <3>2. CASE erasure[c].ready /\ counts' = erasure[c].tally
      <4>1. ASSUME NEW t, t = erasure[c].tally PROVE InFull(t)'
        BY <1>2, <3>2, <4>1, FullByErasure
      <4>2. QED
        BY <3>2, <4>1 DEF InFull, Sum
    <3>3. QED
      BY <1>2, <3>1, <3>2, EraseCommits
  <2>5. \A p \in Plans : plan'[p].pc = "settle" => InFull(plan[p].tally)'
    BY <2>1, <2>2, <2>3 DEF FullInv, InFull, Sum
  <2>6. \A j \in Jobs : job'[j].pc = "settle" => InFull(job[j].tally)'
    BY <2>1, <2>2, <2>3 DEF FullInv, InFull, Sum
  <2>7. QED
    BY <2>4, <2>5, <2>6
<1>3. QED
  BY <1>1, <1>2 DEF Erase

-----------------------------------------------------------------------------
(* The invariant.                                                          *)

\* Somebody joins the audience, or nothing happens.
LEMMA Still ==
  ASSUME IInv, audience' \subseteq Contacts,
         UNCHANGED <<broadcast, renders, existing, row, outbound, plan, job, erasure, faults, history>>
  PROVE  IInv'
<1>1. TypeOK'
  BY DEF IInv, TypeOK, broadcast, outbound, history
<1>2. RowInv' /\ CarryInv'
  BY DEF IInv, RowInv, CarryInv, Carries, Backs, outbound
<1>3. WorkInv' /\ RenderInv'
  BY DEF IInv, WorkInv, Covers, Works, RenderInv, history
<1>4. OnceInv'
  BY DEF IInv, OnceInv, Fresh, Begun, broadcast, history
<1>5. EraseInv'
  <2>1. Places /\ \A c \in Contacts : Foresees(c)
    BY EraseParts DEF IInv
  <2>2. Places' /\ \A c \in Contacts : Foresees(c)'
    BY <2>1, PlacesStay, ForeseesStays DEF history
  <2>3. QED
    BY <2>2 DEF EraseInv, Places, Foresees
<1>6. FullInv'
  <2>1. ASSUME NEW t, InFull(t) PROVE InFull(t)'
    BY <2>1, StaysFull
  <2>2. QED
    BY <2>1 DEF IInv, FullInv, InFull, Sum, broadcast, history
<1>7. QED
  BY <1>1, <1>2, <1>3, <1>4, <1>5, <1>6 DEF IInv

LEMMA InitInv == ASSUME Init PROVE IInv
<1>1. TypeOK
  <2>1. hold \in BOOLEAN /\ dropped = {} /\ renders \in BOOLEAN
    BY Zenon DEF Init
  <2>2. /\ status \in {"scheduled", "sending", "sent", "failed"} /\ total \in Int
        /\ counts \in [Decided -> Nat] /\ audience \subseteq Contacts /\ existing \subseteq Contacts
        /\ faults \in 0 .. MaxFaults + 1 /\ plannings \in Nat /\ settlings \in Nat
    <3>1. /\ status \in {"scheduled", "sending"} /\ counts = NoTally
          /\ total = 0 /\ plannings = 0 /\ settlings = 0
          /\ audience = Contacts \ Latecomers /\ existing = Contacts
      BY DEF Init
    <3>2. PICK due \in SUBSET Leftovers : Cardinality(due) <= MaxFaults /\ faults = Cardinality(due)
      BY DEF Init
    <3>3. Cardinality(due) \in Nat
      BY FS_Subset, FS_CardinalityType, PlansAssumption
    <3>4. QED
      BY <3>1, <3>2, <3>3, NoJobOK, LimitsAssumption
  <2>3. row \in [Contacts -> RowStates] /\ MessageTypes
    BY LimitsAssumption DEF Init, RowStates, MessageTypes
  <2>4. plan \in [Plans -> PlanStates]
    <3>1. PICK due \in SUBSET Leftovers :
            plan = [p \in Plans |-> [pc |-> IF p \in Leftovers \ due THEN "ended" ELSE "queued",
                                     ids |-> {}, tally |-> NoTally]]
      BY DEF Init
    <3>2. QED
      BY <3>1, NoJobOK DEF PlanStates
  <2>5. job \in [Jobs -> JobStates]
    <3> HIDE DEF JobStates, NoJob
    <3>1. QED
      BY NoJobOK DEF Init
  <2>6. erasure \in [Contacts -> ErasureStates]
    BY NoJobOK DEF Init, ErasureStates
  <2>7. QED
    BY <2>1, <2>2, <2>3, <2>4, <2>5, <2>6
       DEF TypeOK, RowStates, MessageTypes, PlanStates, JobStates, Running, ErasureStates
<1>2. RowInv
  BY DEF Init, RowInv, Backs
<1>3. \A j \in Jobs : job[j].pc = "none"
  BY DEF Init, NoJob
<1>4. CarryInv
  BY <1>3 DEF CarryInv, Carries, Running
<1>5. \A c \in Contacts : erasure[c].pc = "idle" /\ ~erasure[c].unsent /\ ~erasure[c].ready /\ row[c] = "absent"
  BY DEF Init
<1>6. status # "sent" /\ \A p \in Plans : plan[p].pc \in {"queued", "ended"}
  BY DEF Init
<1>7. WorkInv /\ RenderInv
  <2>1. existing = Contacts
    BY DEF Init
  <2>2. QED
    BY <1>5, <1>6, <2>1 DEF WorkInv, RenderInv
<1>8. OnceInv
  BY <1>3, <1>5, <1>6 DEF OnceInv, Fresh, Begun
<1>9. EraseInv
  <2>1. existing = Contacts
    BY DEF Init
  <2>2. QED
    BY <1>5, <2>1 DEF EraseInv, Writes
<1>10. FullInv
  BY <1>3, <1>6 DEF FullInv
<1>11. QED
  BY <1>1, <1>2, <1>4, <1>7, <1>8, <1>9, <1>10 DEF IInv

LEMMA StepInv == ASSUME IInv, [Next]_vars PROVE IInv'
<1> USE DEF IInv
<1>1. ASSUME NEW j \in Jobs, JobWork(j) \/ JobMishap(j) PROVE IInv'
  <2>1. JobEffect(j)
    BY <1>1, JobStepEffect
  <2>2. QED
    BY <2>1, JobKeepsTypes, JobKeepsRows, JobKeepsWork, JobKeepsOnce, JobKeepsErasures, JobKeepsFull
<1>2. ASSUME NEW p \in Plans, PlanWork(p) \/ PlanMishap(p) PROVE IInv'
  <2>1. PlanEffect(p)
    BY <1>2, PlanStepEffect
  <2>2. QED
    BY <2>1, PlanKeepsTypes, PlanKeepsRows, PlanKeepsWork, PlanKeepsOnce, PlanKeepsErasures, PlanKeepsFull
<1>3. ASSUME NEW c \in Contacts, Erase(c) PROVE IInv'
  BY <1>3, EraseKeepsTypes, EraseKeepsRows, EraseKeepsWork, EraseKeepsOnce, EraseKeepsErasures, EraseKeepsFull
<1>4. ASSUME NEW c \in Contacts, Join(c) PROVE IInv'
  <2>1. audience' \subseteq Contacts
    BY <1>4 DEF Join, TypeOK
  <2>2. QED
    BY <1>4, <2>1, Still DEF Join
<1>5. CASE UNCHANGED vars
  <2>1. audience' \subseteq Contacts
    BY <1>5 DEF vars, people, TypeOK
  <2>2. QED
    BY <1>5, <2>1, Still DEF vars, people
<1>6. CASE Next
  <2>1. CASE Mishap
    BY <1>1, <1>2, <2>1 DEF Mishap, JobMishap, PlanMishap
  <2>2. QED
    BY <1>1, <1>2, <1>3, <1>4, <1>6, <2>1 DEF Next
<1>7. QED
  BY <1>5, <1>6

LEMMA Invariance == Spec => []IInv
<1>1. Init => IInv
  BY InitInv
<1>2. IInv /\ [Next]_vars => IInv'
  BY StepInv
<1>3. QED
  BY <1>1, <1>2, PTL DEF Spec

-----------------------------------------------------------------------------
(* The theorems.                                                           *)

\* The type invariant of the delivery of a Broadcast.
THEOREM TypeCorrect == Spec => []TypeOK
<1>1. IInv => TypeOK
  BY DEF IInv
<1>2. QED
  BY <1>1, Invariance, PTL

\* A recipient row never says more than the Outbound message under its key: Sent
\* only where Send recorded it sent, Skipped only where it was skipped or the
\* Contact is erased, whichever try of whichever job wrote the row
\* (SendRecipientWorker.Work, markRecipientFailed).
THEOREM RowsAreTrue == Spec => []RowsAreBacked
<1>1. IInv => RowsAreBacked
  BY DEF IInv, RowInv, Backs, RowsAreBacked
<1>2. QED
  BY <1>1, Invariance, PTL

\* A pending recipient has a job or a plan to settle it or an Erasure to remove
\* it, unless a job of its own ended with its row unwritten, however plans and
\* jobs are retried, at whatever chunk a plan breaks off, and whatever an Erasure
\* purges in between (SendBroadcastWorker.Work, SendToRecipient, cancelInFlight).
THEOREM NobodyIsForgotten == Spec => []PendingHasWork
<1>1. ASSUME IInv PROVE PendingHasWork
  <2>1. ASSUME NEW c \in existing, row[c] = "pending"
        PROVE  c \in dropped \/ ~PlansEnded \/ JobsOf(c) # {} \/ erasure[c].pc \notin {"idle", "done"}
    <3>1. ASSUME NEW p \in Plans, Covers(p, c) PROVE ~PlansEnded
      BY <3>1 DEF Covers, PlansEnded, PlanAt
    <3>2. ASSUME NEW j \in Jobs, j[1] = c, Works(j) PROVE JobsOf(c) # {}
      BY <3>2 DEF Works, JobsOf
    <3>3. QED
      BY <1>1, <2>1, <3>1, <3>2 DEF IInv, WorkInv
  <2>2. QED
    BY <2>1 DEF PendingHasWork
<1>2. QED
  BY <1>1, Invariance, PTL

\* A Broadcast that was planned once is sent only when no recipient is pending,
\* and its counters add up to its recipients and, at most, those erased since
\* they were counted (broadcasts.Finalize, in jobs and in an Erasure).
THEOREM SettledOnlyInFull == Spec => []SettledInFull
<1>1. ASSUME IInv, status = "sent", plannings <= 1
      PROVE  /\ NonePending(row)
             /\ Cardinality(Recipients) \in Counted - Cardinality(Contacts \ existing) .. Counted
  <2>1. InFull(counts) /\ counts \in [Decided -> Nat]
    BY <1>1 DEF IInv, FullInv, TypeOK
  <2>2. Counted = Sum(counts) /\ Counted \in Nat
    BY <2>1 DEF Counted, Sum, Decided
  <2>3. Cardinality(Recipients) = Present(row) /\ Present(row) \in Nat /\ Gone \in Nat
        /\ Cardinality(Contacts \ existing) = Gone
    BY Finite DEF Recipients, Present, Gone
  <2>4. NonePending(row) /\ Present(row) <= Counted /\ Counted <= Present(row) + Gone
    BY <2>1, <2>2 DEF InFull
  <2>5. QED
    BY <2>2, <2>3, <2>4
<1>2. IInv => SettledInFull
  BY <1>1 DEF SettledInFull
<1>3. QED
  BY <1>2, Invariance, PTL

-----------------------------------------------------------------------------
(* What is used of Outbound send.                                          *)

\* Outbound send as the delivery of a Broadcast uses it: one key per recipient.
Ledger == INSTANCE SendLedger WITH
            Keys <- Contacts, status <- message,
            announced <- [c \in Contacts |-> message[c] = "sent"]

\* What may become of a message in one step.
Allowed(from, to) ==
  \/ from = "none" /\ to = "pending"
  \/ from = "pending" /\ to \in Decided \cup {"none"}

LEMMA AllowedStep ==
  ASSUME TypeOK, NEW c \in Contacts, NEW s, message' = [message EXCEPT ![c] = s],
         s = message[c] \/ Allowed(message[c], s)
  PROVE  [Ledger!Next]_(Ledger!ledger)
<1>1. message \in [Contacts -> Decided \cup {"none", "pending"}]
  BY Types DEF MessageTypes
<1>2. CASE s = message[c]
  <2>1. message' = message
    BY <1>1, <1>2
  <2>2. QED
    BY <2>1 DEF Ledger!ledger
<1> DEFINE announced == [d \in Contacts |-> message[d] = "sent"]
           announcedNext == [d \in Contacts |-> message'[d] = "sent"]
<1>3. message'[c] = s /\ \A d \in Contacts : d # c => message'[d] = message[d]
  BY <1>1
<1>4. ASSUME message[c] # "sent", s # "sent" PROVE announcedNext = announced
  <2>1. \A d \in Contacts : (message'[d] = "sent") = (message[d] = "sent")
    BY <1>3, <1>4
  <2>2. QED
    BY <2>1
<1>5. CASE message[c] = "none" /\ s = "pending"
  <2>1. Ledger!Claim(c)
    BY <1>4, <1>5 DEF Ledger!Claim
  <2>2. QED
    BY <2>1 DEF Ledger!Next
<1>6. CASE message[c] = "pending" /\ s = "none"
  <2>1. Ledger!Drop(c)
    BY <1>4, <1>6 DEF Ledger!Drop
  <2>2. QED
    BY <2>1 DEF Ledger!Next
<1>7. CASE message[c] = "pending" /\ s \in Decided
  <2>1. \A d \in Contacts :
          (message'[d] = "sent") = [announced EXCEPT ![c] = (s = "sent")][d]
    BY <1>3
  <2>2. announcedNext = [announced EXCEPT ![c] = (s = "sent")]
    BY <2>1
  <2>3. Ledger!Decide(c, s)
    BY <1>7, <2>2 DEF Ledger!Decide
  <2>4. s \in Ledger!Final
    BY <1>7 DEF Decided, Ledger!Final
  <2>5. QED
    BY <2>3, <2>4 DEF Ledger!Next
<1>8. QED
  BY <1>2, <1>5, <1>6, <1>7 DEF Allowed

LEMMA JobMessage ==
  ASSUME TypeOK, NEW j \in Jobs, JobWork(j) \/ JobMishap(j)
  PROVE  \/ message' = message
         \/ \E s \in Decided \cup {"none", "pending"} :
              /\ message' = [message EXCEPT ![j[1]] = s]
              /\ s = message[j[1]] \/ Allowed(message[j[1]], s)
<1>1. message \in [Contacts -> Decided \cup {"none", "pending"}] /\ j[1] \in Contacts
  BY Types DEF MessageTypes, Jobs
<1>2. CASE JobSend(j)
  BY <1>2 DEF JobSend, outbound, Allowed
<1>3. CASE JobDecide(j)
  BY <1>3 DEF JobDecide, Held, Allowed
<1>4. CASE JobSendFails(j)
  BY <1>4 DEF JobSendFails, Held, Allowed, Decided
<1>5. CASE JobGiveUp(j)
  BY <1>5 DEF JobGiveUp, Allowed, Decided
<1>6. CASE JobHeld(j) \/ JobDeferred(j)
  <2>1. CASE message' = message
    BY <2>1
  <2>2. CASE message' = [message EXCEPT ![j[1]] = IF Held(j) THEN "none" ELSE @]
    <3>1. CASE Held(j)
      BY <2>2, <3>1 DEF Held, Allowed
    <3>2. CASE ~Held(j)
      BY <1>1, <2>2, <3>2
    <3>3. QED
      BY <3>1, <3>2
  <2>3. QED
    BY <1>6, <2>1, <2>2 DEF JobHeld, JobDeferred
<1>7. CASE \/ JobLoad(j) \/ JobLookup(j) \/ JobInProgress(j) \/ JobPark(j) \/ JobLift(j)
           \/ JobWrite(j) \/ JobMark(j) \/ JobCount(j) \/ JobSettle(j) \/ JobNoEmail(j)
           \/ JobTakeOver(j) \/ JobFails(j) \/ JobCrash(j)
  BY <1>7 DEF JobLoad, JobLookup, JobInProgress, JobPark, JobLift, JobWrite, JobMark, JobCount,
     JobSettle, JobNoEmail, JobTakeOver, JobFails, JobCrash, outbound
<1>8. QED
  BY <1>2, <1>3, <1>4, <1>5, <1>6, <1>7 DEF JobWork, JobMishap

LEMMA LedgerStep == ASSUME TypeOK, [Next]_vars PROVE [Ledger!Next]_(Ledger!ledger)
<1>1. ASSUME message' = message PROVE [Ledger!Next]_(Ledger!ledger)
  BY <1>1 DEF Ledger!ledger
<1>2. ASSUME NEW j \in Jobs, JobWork(j) \/ JobMishap(j) PROVE [Ledger!Next]_(Ledger!ledger)
  <2>1. j[1] \in Contacts
    BY DEF Jobs
  <2>2. QED
    BY <1>1, <1>2, <2>1, JobMessage, AllowedStep
<1>3. ASSUME NEW p \in Plans, PlanWork(p) \/ PlanMishap(p) PROVE message' = message
  BY <1>3, PlanStepEffect DEF PlanEffect, outbound
<1>4. ASSUME NEW c \in Contacts, Erase(c) \/ Join(c) PROVE message' = message
  BY <1>4 DEF Erase, EraseRead, EraseDelete, EraseShrink, EraseCount, EraseCommit, Join, outbound
<1>5. CASE UNCHANGED vars
  BY <1>1, <1>5 DEF vars, outbound
<1>6. CASE Mishap
  BY <1>1, <1>2, <1>3, <1>6 DEF Mishap, JobMishap, PlanMishap
<1>7. QED
  BY <1>1, <1>2, <1>3, <1>4, <1>5, <1>6 DEF Next

\* Of Outbound send the delivery of a Broadcast uses no more than the ledger
\* OutboundSend is proved to implement: a message is claimed, dropped or decided,
\* and a decided one is never touched again, whoever takes a claim over, gives a
\* recipient up (markRecipientFailed) or hears of the outcome late.
THEOREM UsesTheLedger == Spec => Ledger!Spec
<1>1. Init => Ledger!Init
  <2>1. ASSUME Init PROVE [c \in Contacts |-> message[c] = "sent"] = [c \in Contacts |-> FALSE]
    <3>1. \A c \in Contacts : (message[c] = "sent") = FALSE
      BY <2>1 DEF Init
    <3>2. QED
      BY <3>1
  <2>2. QED
    BY <2>1 DEF Init, Ledger!Init
<1>2. TypeOK /\ [Next]_vars => [Ledger!Next]_(Ledger!ledger)
  BY LedgerStep
<1>3. QED
  BY <1>1, <1>2, TypeCorrect, PTL DEF Spec, Ledger!Spec

=============================================================================
