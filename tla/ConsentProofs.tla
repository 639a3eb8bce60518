---------------------------- MODULE ConsentProofs ----------------------------
(***************************************************************************)
(* Opt-outs take effect once and stale consent stays gone, for any number  *)
(* of requests, confirmations and failures; and the type invariant.        *)
(*                                                                         *)
(* Both are about committed rows; what makes them inductive is what the    *)
(* open transactions have seen: whoever is past its insert holds the key   *)
(* alone, and has settled what its effect will be.                         *)
(***************************************************************************)
EXTENDS Consent, TLAPS

Past(r) == req[r].pc \in {"effect", "commit"}

\* What a request carries along.
Sound(r) ==
  /\ req[r].pc # "none" => req[r].asks \in (IF r \in Requests THEN Sources ELSE {"confirm"})
  /\ req[r].broadcast => req[r].asks = "broadcasts"
  /\ req[r].asks \in Sources /\ ~req[r].contact => ~contact
  /\ Past(r) => req[r].asks \notin optOuts
  /\ req[r].pc = "commit" /\ req[r].asks = "automation" /\ run = "active" => req[r].exits

Alone == \A r, q \in All : Past(r) /\ Past(q) /\ req[r].asks = req[q].asks => r = q

Rows ==
  /\ optOuts \subseteq Sources
  /\ ~contact => run = "gone"
  /\ attributed => "broadcasts" \in optOuts
  /\ published \in [Sources -> Nat] /\ counted \in Nat

Types == req \in [All -> States]

OptInv == Types /\ Alone /\ Rows /\ OptOutInFull /\ \A r \in All : Sound(r)

-----------------------------------------------------------------------------
(* How a request moves                                                     *)

Others(r) == \A q \in All : q # r => req'[q] = req[q]

LEMMA GoMoves ==
  ASSUME Types, NEW r \in All, NEW pc \in {"none", "check", "insert", "effect", "commit", "failed"}, Go(r, pc)
  PROVE  /\ Types' /\ Others(r) /\ req'[r].pc = pc /\ req'[r].asks = req[r].asks
         /\ req'[r].contact = req[r].contact /\ req'[r].broadcast = req[r].broadcast
         /\ req'[r].drops = req[r].drops /\ req'[r].exits = req[r].exits
  BY DEF Types, States, Go, Others

LEMMA FailedMoves ==
  ASSUME Types, NEW r \in All, Failed(r)
  PROVE  /\ Types' /\ Others(r) /\ req'[r].pc = "failed" /\ req'[r].asks = req[r].asks
         /\ req'[r].contact = req[r].contact /\ req'[r].broadcast = req[r].broadcast
         /\ req'[r].drops = FALSE /\ req'[r].exits = FALSE
  BY DEF Types, States, Failed, Others

LEMMA SettledMoves ==
  ASSUME Types, NEW r \in All, Settled(r)
  PROVE  Types' /\ Others(r) /\ req'[r] = NoRequest
  BY DEF Types, States, Settled, Others, NoRequest

LEMMA DropsMoves ==
  ASSUME Types, NEW r \in All, DropConfirmation(r), confirmed \in BOOLEAN
  PROVE  /\ Types' /\ Others(r) /\ req'[r].pc = "commit" /\ req'[r].asks = req[r].asks
         /\ req'[r].contact = req[r].contact /\ req'[r].broadcast = req[r].broadcast
         /\ req'[r].drops = confirmed /\ req'[r].exits = req[r].exits
  BY DEF Types, States, DropConfirmation, Others

LEMMA ExitsMoves ==
  ASSUME Types, NEW r \in All, ExitRun(r)
  PROVE  /\ Types' /\ Others(r) /\ req'[r].pc = "commit" /\ req'[r].asks = req[r].asks
         /\ req'[r].contact = req[r].contact /\ req'[r].broadcast = req[r].broadcast
         /\ req'[r].drops = req[r].drops /\ req'[r].exits = (req[r].contact /\ run = "active")
  BY DEF Types, States, ExitRun, Others

-----------------------------------------------------------------------------
(* An opt-out takes effect once                                            *)

\* A request that is not past its insert changes nothing but itself.
LEMMA QuietStep ==
  ASSUME OptInv, NEW r \in All, Types', Others(r), ~Past(r)', Sound(r)', told' \subseteq optOuts,
         UNCHANGED <<optOuts, contact, run, counted, attributed, published>>
  PROVE  OptInv'
<1>1. Alone'
  BY DEF OptInv, Alone, Past, Others
<1>2. Rows' /\ OptOutInFull'
  BY DEF OptInv, Rows, OptOutInFull
<1>3. ASSUME NEW q \in All, q # r PROVE Sound(q)'
  BY <1>3 DEF OptInv, Sound, Past, Others
<1>4. QED
  BY <1>1, <1>2, <1>3 DEF OptInv

LEMMA AskStep ==
  ASSUME OptInv, NEW r \in All, NEW target \in States, Ask(r, target),
         target.pc = "check", target.asks \in (IF r \in Requests THEN Sources ELSE {"confirm"}),
         target.broadcast => target.asks = "broadcasts",
         target.asks \in Sources /\ ~target.contact => ~contact
  PROVE  OptInv'
<1>1. Types' /\ Others(r) /\ req'[r] = target
  BY DEF OptInv, Types, Ask, Others
<1>2. ~Past(r)'
  BY <1>1 DEF Past
<1>3. Sound(r)'
  BY <1>1, <1>2 DEF Sound, Past, Ask, rows
<1>4. UNCHANGED <<optOuts, contact, run, counted, attributed, published, told>>
  BY DEF Ask, rows, histories
<1>5. told' \subseteq optOuts
  BY <1>4 DEF OptInv, OptOutInFull
<1>6. QED
  BY <1>1, <1>2, <1>3, <1>4, <1>5, QuietStep

LEMMA FailedStep ==
  ASSUME OptInv, NEW r \in All, Failed(r), req[r].pc # "none",
         UNCHANGED <<optOuts, contact, run, counted, attributed, published, told>>
  PROVE  OptInv'
<1>1. Types
  BY DEF OptInv
<1>2. ~Past(r)' /\ Sound(r)'
  BY <1>1, FailedMoves DEF OptInv, Sound, Past
<1>3. told' \subseteq optOuts
  BY DEF OptInv, OptOutInFull
<1>4. QED
  BY <1>1, <1>2, <1>3, FailedMoves, QuietStep

LEMMA SettledStep ==
  ASSUME OptInv, NEW r \in All, Settled(r), req[r].asks \in optOuts \/ req[r].asks \notin Sources,
         UNCHANGED <<optOuts, contact, run, counted, attributed, published>>
  PROVE  OptInv'
<1>1. Types /\ req'[r] = NoRequest
  BY SettledMoves DEF OptInv
<1>2. ~Past(r)' /\ Sound(r)'
  BY <1>1 DEF Sound, Past, NoRequest, Sources
<1>3. told' \subseteq optOuts
  BY DEF OptInv, OptOutInFull, Settled
<1>4. QED
  BY <1>1, <1>2, <1>3, SettledMoves, QuietStep

\* On to the next statement, before the insert.
LEMMA GoStep ==
  ASSUME OptInv, NEW r \in All, NEW pc \in {"check", "insert"}, Go(r, pc), req[r].pc # "none",
         UNCHANGED <<optOuts, contact, run, counted, attributed, published, told>>
  PROVE  OptInv'
<1>1. Types
  BY DEF OptInv
<1>2. ~Past(r)' /\ Sound(r)'
  BY <1>1, GoMoves DEF OptInv, Sound, Past
<1>3. told' \subseteq optOuts
  BY DEF OptInv, OptOutInFull
<1>4. QED
  BY <1>1, <1>2, <1>3, GoMoves, QuietStep

\* A request that holds its key goes on holding it.
LEMMA HoldingStep ==
  ASSUME OptInv, NEW r \in All, Types', Others(r), Past(r)', req'[r].asks = req[r].asks, Sound(r)',
         Past(r) \/ \A q \in All : Past(q) => req[q].asks # req[r].asks,
         UNCHANGED <<optOuts, contact, run, counted, attributed, published, told>>
  PROVE  OptInv'
<1>1. Alone'
  BY DEF OptInv, Alone, Past, Others
<1>2. Rows' /\ OptOutInFull'
  BY DEF OptInv, Rows, OptOutInFull
<1>3. ASSUME NEW q \in All, q # r PROVE Sound(q)'
  BY <1>3 DEF OptInv, Sound, Past, Others
<1>4. QED
  BY <1>1, <1>2, <1>3 DEF OptInv

LEMMA CheckStep == ASSUME OptInv, NEW r \in Requests, Check(r) PROVE OptInv'
<1>1. r \in All /\ req[r].pc = "check"
      /\ UNCHANGED <<optOuts, contact, run, counted, attributed, published>>
  BY DEF Check, All, rows
<1>2. \/ Settled(r) /\ req[r].asks \in optOuts
      \/ (Failed(r) \/ Go(r, "insert")) /\ UNCHANGED told
  BY DEF Check
<1>3. QED
  BY <1>1, <1>2, SettledStep, FailedStep, GoStep

LEMMA InsertStep == ASSUME OptInv, NEW r \in Requests, Insert(r) PROVE OptInv'
<1>1. r \in All /\ req[r].pc = "insert" /\ Holding(req[r].asks) = {}
      /\ UNCHANGED <<optOuts, contact, run, counted, attributed, published>>
  BY DEF Insert, All, rows
<1>2. CASE Settled(r) /\ req[r].asks \in optOuts
  BY <1>1, <1>2, SettledStep
<1>3. CASE Go(r, "effect") /\ req[r].asks \notin optOuts /\ UNCHANGED told
  <2>1. \A q \in All : Past(q) => req[q].asks # req[r].asks
    BY <1>1 DEF Holding, Past
  <2>2. Types /\ Sound(r)
    BY <1>1 DEF OptInv
  <2>3. Past(r)' /\ Sound(r)' /\ req'[r].asks = req[r].asks
    BY <1>1, <1>3, <2>2, GoMoves DEF Sound, Past
  <2>4. QED
    BY <1>1, <1>3, <2>1, <2>2, <2>3, GoMoves, HoldingStep
<1>4. QED
  BY <1>2, <1>3 DEF Insert

LEMMA EffectStep ==
  ASSUME OptInv, NEW r \in Requests, confirmed \in BOOLEAN, DropConfirmation(r) \/ ExitRun(r) \/ Bump(r)
  PROVE  OptInv'
<1>1. r \in All /\ req[r].pc = "effect" /\ Past(r) /\ Types /\ Sound(r)
      /\ UNCHANGED <<optOuts, contact, run, counted, attributed, published, told>>
  BY DEF DropConfirmation, ExitRun, Bump, All, rows, histories, OptInv, Past
<1>2. CASE DropConfirmation(r)
  <2>1. /\ Types' /\ Others(r) /\ req'[r].pc = "commit" /\ req'[r].asks = req[r].asks
        /\ req'[r].contact = req[r].contact /\ req'[r].broadcast = req[r].broadcast
        /\ req[r].asks = "everything"
    BY <1>1, <1>2, DropsMoves DEF DropConfirmation
  <2>2. Past(r)' /\ Sound(r)'
    BY <1>1, <2>1 DEF Sound, Past
  <2>3. QED
    BY <1>1, <2>1, <2>2, HoldingStep
<1>3. CASE ExitRun(r)
  <2>1. req[r].contact \/ run = "gone"
    BY <1>1, <1>3 DEF Sound, OptInv, Rows, ExitRun, Sources
  <2>2. /\ Types' /\ Others(r) /\ req'[r].pc = "commit" /\ req'[r].asks = req[r].asks
        /\ req'[r].contact = req[r].contact /\ req'[r].broadcast = req[r].broadcast
        /\ req'[r].exits = (req[r].contact /\ run = "active")
    BY <1>1, <1>3, ExitsMoves
  <2>3. Past(r)' /\ Sound(r)'
    BY <1>1, <2>1, <2>2 DEF Sound, Past
  <2>4. QED
    BY <1>1, <2>2, <2>3, HoldingStep
<1>4. CASE Bump(r) /\ Failed(r)
  BY <1>1, <1>4, FailedStep
<1>5. CASE Bump(r) /\ Go(r, "commit")
  <2>1. Past(r)' /\ Sound(r)' /\ req'[r].asks = req[r].asks
    BY <1>1, <1>5, GoMoves DEF Sound, Past, Bump
  <2>2. QED
    BY <1>1, <1>5, <2>1, GoMoves, HoldingStep
<1>6. QED
  BY <1>2, <1>3, <1>4, <1>5 DEF Bump

LEMMA CommitStep == ASSUME OptInv, NEW r \in Requests, Commit(r) PROVE OptInv'
<1> DEFINE s == req[r].asks
<1>1. /\ r \in All /\ req[r].pc = "commit" /\ Past(r) /\ Types /\ Sound(r)
      /\ s \in Sources /\ s \notin optOuts /\ optOuts' = optOuts \cup {s}
      /\ contact' = contact
      /\ Settled(r) \/ (Failed(r) /\ UNCHANGED told)
  BY DEF Commit, All, OptInv, Past, Sound
<1>2. Types' /\ Others(r) /\ ~Past(r)' /\ Sound(r)'
  <2>1. CASE Settled(r)
    <3>1. Types' /\ Others(r) /\ req'[r] = NoRequest
      BY <1>1, <2>1, SettledMoves
    <3>2. QED
      BY <3>1 DEF Sound, Past, NoRequest, Sources
  <2>2. CASE Failed(r)
    <3>1. /\ Types' /\ Others(r) /\ req'[r].pc = "failed" /\ req'[r].asks = req[r].asks
          /\ req'[r].contact = req[r].contact /\ req'[r].broadcast = req[r].broadcast
      BY <1>1, <2>2, FailedMoves
    <3>2. QED
      BY <1>1, <3>1 DEF Sound, Past
  <2>3. QED
    BY <1>1, <2>1, <2>2
<1>3. Alone'
  BY <1>1, <1>2 DEF OptInv, Alone, Past, Others
<1>4. run' = "active" => run = "active"
  BY DEF Commit
<1>5. ASSUME NEW q \in All, q # r PROVE Sound(q)'
  <2>1. Sound(q) /\ req'[q] = req[q] /\ (Past(q) => req[q].asks # s)
    BY <1>1, <1>2, <1>5 DEF OptInv, Alone, Others
  <2>2. QED
    BY <1>1, <1>4, <2>1 DEF Sound, Past
<1>6. published' = [published EXCEPT ![s] = 1] /\ published \in [Sources -> Nat]
  <2>1. published \in [Sources -> Nat] /\ published[s] = 0
    BY <1>1 DEF OptInv, Rows, OptOutInFull
  <2>2. published' = [published EXCEPT ![s] = published[s] + 1]
    BY DEF Commit
  <2>3. QED
    BY <2>1, <2>2
<1>7. /\ counted' = IF attributed' THEN 1 ELSE 0
      /\ attributed' => "broadcasts" \in optOuts'
  <2>1. CASE req[r].broadcast
    <3>1. s = "broadcasts" /\ ~attributed /\ counted = 0
      BY <1>1, <2>1 DEF OptInv, Sound, Rows, OptOutInFull
    <3>2. counted' = 1
      BY <2>1, <3>1 DEF Commit
    <3>3. attributed'
      BY <2>1, Zenon DEF Commit
    <3>4. QED
      BY <1>1, <3>1, <3>2, <3>3
  <2>2. CASE ~req[r].broadcast
    BY <1>1, <2>2 DEF Commit, OptInv, Rows, OptOutInFull
  <2>3. QED
    BY <2>1, <2>2
<1>8. run' = "active" => "automation" \notin optOuts'
  <2>1. CASE s = "automation"
    BY <1>1, <2>1 DEF Commit, Sound
  <2>2. CASE s # "automation"
    BY <1>1, <1>4, <2>2 DEF OptInv, OptOutInFull
  <2>3. QED
    BY <2>1, <2>2
<1>9. told' \subseteq optOuts'
  BY <1>1 DEF OptInv, OptOutInFull, Settled
<1>10. OptOutInFull'
  BY <1>1, <1>6, <1>7, <1>8, <1>9 DEF OptInv, OptOutInFull
<1>11. Rows'
  BY <1>1, <1>4, <1>6, <1>7 DEF OptInv, Rows, Commit
<1>12. QED
  BY <1>2, <1>3, <1>5, <1>10, <1>11 DEF OptInv

LEMMA ConfirmStep ==
  ASSUME OptInv, NEW r \in Confirms, ConfirmCheck(r) \/ ConfirmInsert(r) \/ ConfirmCommit(r)
  PROVE  OptInv'
<1>1. /\ r \in All /\ r \notin Requests /\ Types /\ Sound(r) /\ req[r].pc # "none"
      /\ UNCHANGED <<optOuts, contact, run, counted, attributed, published>>
  BY RequestsAssumption DEF ConfirmCheck, ConfirmInsert, ConfirmCommit, All, OptInv, rows
<1>2. req[r].asks = "confirm" /\ "confirm" \notin Sources /\ "confirm" \notin optOuts
  BY <1>1 DEF Sound, Sources, OptInv, Rows
<1>3. CASE Settled(r)
  BY <1>1, <1>2, <1>3, SettledStep
<1>4. CASE Go(r, "insert") /\ UNCHANGED told
  BY <1>1, <1>4, GoStep
<1>5. CASE Go(r, "commit") /\ UNCHANGED told /\ Holding("confirm") = {}
  <2>1. \A q \in All : Past(q) => req[q].asks # req[r].asks
    BY <1>2, <1>5 DEF Holding, Past
  <2>2. Past(r)' /\ Sound(r)' /\ req'[r].asks = req[r].asks
    BY <1>1, <1>2, <1>5, GoMoves DEF Sound, Past
  <2>3. QED
    BY <1>1, <1>5, <2>1, <2>2, GoMoves, HoldingStep
<1>6. QED
  BY <1>3, <1>4, <1>5 DEF ConfirmCheck, ConfirmInsert, ConfirmCommit

\* The deletion of a Broadcast, and an Erasure, which ends the Enrollment.
LEMMA BesideStep == ASSUME OptInv, DeleteBroadcast \/ Erase PROVE OptInv'
<1>1. UNCHANGED <<req, optOuts, counted, published, attributed, told>>
      /\ (contact' => contact) /\ ((run' = run /\ contact' = contact) \/ run' = "gone")
  BY DEF DeleteBroadcast, Erase, histories
<1>2. Rows' /\ OptOutInFull'
  BY <1>1 DEF OptInv, Rows, OptOutInFull
<1>3. ASSUME NEW q \in All PROVE Sound(q)'
  BY <1>1 DEF OptInv, Sound, Past
<1>4. QED
  BY <1>1, <1>2, <1>3 DEF OptInv, Types, Alone, Past

LEMMA OptInitially == Init => OptInv
<1> SUFFICES ASSUME Init PROVE OptInv
  OBVIOUS
<1>1. NoRequest \in States /\ NoRequest.pc = "none" /\ ~NoRequest.broadcast /\ NoRequest.asks \notin Sources
  BY DEF NoRequest, States, Sources
<1>2. Types /\ \A r \in All : req[r] = NoRequest
  BY <1>1 DEF Types, Init
<1>3. Rows /\ OptOutInFull
  BY DEF Init, Rows, OptOutInFull
<1>4. Alone /\ \A r \in All : Sound(r)
  BY <1>1, <1>2 DEF Alone, Sound, Past
<1>5. QED
  BY <1>2, <1>3, <1>4 DEF OptInv

\* Every request begins as the handlers begin it.
LEMMA LinkStep ==
  ASSUME OptInv, contact \in BOOLEAN, NEW r \in All,
         \/ r \in Requests /\ \E s \in Sources : Link(r, s) \/ Intake(r, s)
         \/ ConfirmLink(r)
  PROVE  OptInv'
<1>1. ASSUME NEW s \in Sources, r \in Requests, Link(r, s) PROVE OptInv'
  <2> DEFINE target == [NoRequest EXCEPT !.pc = "check", !.asks = s, !.contact = TRUE, !.broadcast = (s = "broadcasts")]
  <2>1. target \in States /\ target.pc = "check" /\ target.asks = s /\ target.contact
        /\ (target.broadcast => s = "broadcasts")
    BY DEF NoRequest, States
  <2>2. Ask(r, target)
    BY <1>1 DEF Link
  <2> HIDE DEF target
  <2>3. QED
    BY <1>1, <2>1, <2>2, AskStep
<1>2. ASSUME NEW s \in Sources, r \in Requests, Intake(r, s) PROVE OptInv'
  <2> DEFINE target == [NoRequest EXCEPT !.pc = "check", !.asks = s, !.contact = contact]
  <2>1. target \in States /\ target.pc = "check" /\ target.asks = s /\ target.contact = contact /\ ~target.broadcast
    BY DEF NoRequest, States
  <2>2. Ask(r, target)
    BY <1>2 DEF Intake
  <2> HIDE DEF target
  <2>3. QED
    BY <1>2, <2>1, <2>2, AskStep
<1>3. CASE ConfirmLink(r)
  <2> DEFINE target == [NoRequest EXCEPT !.pc = "check", !.asks = "confirm"]
  <2>1. target \in States /\ target.pc = "check" /\ target.asks = "confirm" /\ ~target.broadcast
    BY DEF NoRequest, States
  <2>2. Ask(r, target) /\ r \notin Requests /\ "confirm" \notin Sources
    BY <1>3, RequestsAssumption DEF ConfirmLink, Sources
  <2> HIDE DEF target
  <2>3. QED
    BY <2>1, <2>2, AskStep
<1>4. QED
  BY <1>1, <1>2, <1>3

LEMMA FailStep == ASSUME OptInv, NEW r \in All, Fail(r) \/ Retry(r) PROVE OptInv'
<1>1. CASE Fail(r)
  BY <1>1, FailedStep DEF Fail, rows, histories
<1>2. CASE Retry(r)
  BY <1>2, GoStep DEF Retry, rows, histories
<1>3. QED
  BY <1>1, <1>2

\* The steps of a request name the requests they are of by their statement.
LEMMA StepStep == ASSUME OptInv, confirmed \in BOOLEAN, NEW r \in All, Step(r) PROVE OptInv'
<1>1. ASSUME r \in Requests PROVE OptInv'
  BY <1>1, CheckStep, InsertStep, EffectStep, CommitStep, ConfirmStep
     DEF Step, ConfirmCheck, ConfirmInsert, ConfirmCommit
<1>2. ASSUME r \in Confirms PROVE OptInv'
  <2>1. r \notin Requests /\ "confirm" \notin Sources /\ Sound(r)
    BY <1>2, RequestsAssumption DEF Sources, OptInv
  <2>2. ~DropConfirmation(r) /\ ~ExitRun(r) /\ ~Bump(r)
    BY <2>1 DEF DropConfirmation, ExitRun, Bump, Sound
  <2>3. QED
    BY <1>2, <2>1, <2>2, ConfirmStep DEF Step, Check, Insert, Commit
<1>3. QED
  BY <1>1, <1>2 DEF All

-----------------------------------------------------------------------------
(* Every step                                                              *)

Flags == confirmed \in BOOLEAN /\ contact \in BOOLEAN

LEMMA FlagsStep == ASSUME Flags, [Next]_vars PROVE Flags'
<1>1. CASE UNCHANGED <<confirmed, contact>>
  BY <1>1 DEF Flags
<1>2. ASSUME NEW r \in All, Step(r) PROVE Flags'
  <2>1. contact' = contact
    BY <1>2 DEF Step, Check, Insert, DropConfirmation, ExitRun, Bump, Commit,
                ConfirmCheck, ConfirmInsert, ConfirmCommit, rows
  <2>2. confirmed' = confirmed \/ confirmed' = (confirmed /\ ~req[r].drops) \/ confirmed' = TRUE
    BY <1>2 DEF Step, Check, Insert, DropConfirmation, ExitRun, Bump, Commit,
                ConfirmCheck, ConfirmInsert, ConfirmCommit, rows
  <2>3. confirmed' \in BOOLEAN
    BY <2>2, Zenon DEF Flags
  <2>4. QED
    BY <2>1, <2>3 DEF Flags
<1>3. CASE Erase
  BY <1>3 DEF Erase, Flags
<1>4. QED
  BY <1>1, <1>2, <1>3
     DEF Next, vars, rows, Link, Intake, ConfirmLink, Ask, Fail, Retry, DeleteBroadcast

LEMMA OptStep == ASSUME OptInv, Flags, [Next]_vars PROVE OptInv'
<1>1. CASE UNCHANGED vars
  BY <1>1 DEF vars, rows, histories, OptInv, Types, Alone, Rows, OptOutInFull, Sound, Past
<1>2. CASE \/ \E r \in Requests, s \in Sources : Link(r, s) \/ Intake(r, s)
           \/ \E r \in Confirms : ConfirmLink(r)
  BY <1>2, LinkStep DEF Flags, All
<1>3. CASE \E r \in All : Step(r) \/ Fail(r) \/ Retry(r)
  BY <1>3, StepStep, FailStep DEF Flags
<1>4. CASE DeleteBroadcast \/ Erase
  BY <1>4, BesideStep
<1>5. QED
  BY <1>1, <1>2, <1>3, <1>4 DEF Next

\* OptOutInFull of Consent: for any number of links posted at once, late or
\* again, RecordUnsubscribe and recordOnce take each opt-out into effect once,
\* with its Event, its count and the end of the Enrollment.
THEOREM OptOutsInFull == Spec => []OptOutInFull
<1>1. Init => OptInv /\ Flags
  BY OptInitially DEF Init, Flags
<1>2. OptInv /\ Flags /\ [Next]_vars => (OptInv /\ Flags)'
  BY OptStep, FlagsStep
<1>3. OptInv => OptOutInFull
  BY DEF OptInv
<1>4. QED
  BY <1>1, <1>2, <1>3, PTL DEF Spec

-----------------------------------------------------------------------------
(* Stale consent stays gone                                                *)

\* An opt-out about to commit deletes the Confirmation there is, unless a
\* confirmation crossed it; and one that could is known to cross it.
GoneInv ==
  /\ LeftEntirely /\ Confirming => crossed
  /\ \A r \in All :
       req[r].asks = "everything" /\ req[r].pc = "commit" /\ confirmed /\ ~req[r].drops => crossed
  /\ StaleConsentStaysGone

LEMMA TrackStep == ASSUME Track PROVE (crossed => crossed') /\ (LeftEntirely /\ Confirming => crossed)'
  BY DEF Track

\* A step that gives no consent leaves none standing.
LEMMA NoConsentStep ==
  ASSUME GoneInv, Track, confirmed' => confirmed, "everything" \in optOuts' => "everything" \in optOuts,
         \A r \in All : req'[r].asks = "everything" /\ req'[r].pc = "commit"
                       => req'[r].drops = confirmed \/ req'[r] = req[r]
  PROVE  GoneInv'
<1>1. crossed => crossed'
  BY TrackStep
<1>2. StaleConsentStaysGone'
  BY <1>1 DEF GoneInv, StaleConsentStaysGone
<1>3. QED
  BY <1>1, <1>2, TrackStep DEF GoneInv

\* A request that is not about to commit "everything" may do what it likes.
LEMMA ElsewhereStep ==
  ASSUME GoneInv, Track, confirmed' => confirmed, UNCHANGED optOuts, NEW r \in All, Others(r),
         req'[r].pc # "commit" \/ req'[r].asks # "everything"
  PROVE  GoneInv'
  BY NoConsentStep DEF Others

LEMMA GoneRequestStep ==
  ASSUME OptInv, Flags, GoneInv, Track, NEW r \in All,
         \/ \E s \in Sources : Link(r, s) \/ Intake(r, s)
         \/ ConfirmLink(r) \/ Fail(r) \/ Retry(r) \/ Check(r) \/ Insert(r) \/ ExitRun(r) \/ Bump(r)
         \/ ConfirmCheck(r) \/ ConfirmInsert(r)
  PROVE  GoneInv'
<1>1. UNCHANGED <<confirmed, optOuts>> /\ Types /\ Sound(r)
  BY DEF Link, Intake, ConfirmLink, Ask, Fail, Retry, Check, Insert, ExitRun, Bump,
         ConfirmCheck, ConfirmInsert, rows, OptInv
<1>2. ASSUME NEW target, target.pc = "check", Ask(r, target) PROVE GoneInv'
  <2>1. Others(r) /\ req'[r].pc = "check"
    BY <1>1, <1>2 DEF Types, Ask, Others
  <2>2. QED
    BY <1>1, <2>1, ElsewhereStep
<1>3. CASE (\E s \in Sources : Link(r, s) \/ Intake(r, s)) \/ ConfirmLink(r)
  <2>1. \E target : target.pc = "check" /\ Ask(r, target)
    BY <1>3 DEF Link, Intake, ConfirmLink, NoRequest
  <2>2. QED
    BY <1>2, <2>1
<1>4. CASE Settled(r)
  BY <1>1, <1>4, SettledMoves, ElsewhereStep DEF NoRequest
<1>5. CASE Failed(r)
  BY <1>1, <1>5, FailedMoves, ElsewhereStep
<1>6. CASE \E pc \in {"check", "insert", "effect"} : Go(r, pc)
  BY <1>1, <1>6, GoMoves, ElsewhereStep
<1>7. CASE Go(r, "commit") /\ req[r].asks # "everything"
  BY <1>1, <1>7, GoMoves, ElsewhereStep
<1>8. CASE ExitRun(r)
  BY <1>1, <1>8, ExitsMoves, ElsewhereStep DEF ExitRun
<1>9. CASE Go(r, "commit") /\ ConfirmInsert(r)
  <2>1. r \notin Requests /\ req[r].pc # "none"
    BY <1>9, RequestsAssumption DEF ConfirmInsert
  <2>2. req[r].asks = "confirm"
    BY <1>1, <2>1 DEF Sound
  <2>3. QED
    BY <1>7, <1>9, <2>2
<1>10. CASE Fail(r) \/ Retry(r)
  BY <1>5, <1>6, <1>10 DEF Fail, Retry
<1>11. CASE Check(r) \/ Insert(r) \/ ConfirmCheck(r)
  BY <1>4, <1>5, <1>6, <1>11 DEF Check, Insert, ConfirmCheck
<1>12. CASE Bump(r)
  BY <1>5, <1>7, <1>12 DEF Bump
<1>13. CASE ConfirmInsert(r)
  BY <1>4, <1>9, <1>13 DEF ConfirmInsert
<1>14. QED
  BY <1>3, <1>8, <1>10, <1>11, <1>12, <1>13

LEMMA GoneCommitStep ==
  ASSUME OptInv, Flags, GoneInv, Track, NEW r \in Requests, Commit(r)
  PROVE  GoneInv'
<1>1. r \in All /\ Types /\ req[r].pc = "commit" /\ (Settled(r) \/ Failed(r))
      /\ optOuts' = optOuts \cup {req[r].asks}
  BY DEF OptInv, Commit, All
<1>2. confirmed' => confirmed /\ ~req[r].drops
  BY DEF Commit
<1>3. Others(r) /\ req'[r].pc # "commit"
  <2>1. NoRequest.pc = "none"
    BY DEF NoRequest
  <2>2. CASE Settled(r)
    BY <1>1, <2>1, <2>2, SettledMoves
  <2>3. CASE Failed(r)
    BY <1>1, <2>3, FailedMoves
  <2>4. QED
    BY <1>1, <2>2, <2>3
<1>4. CASE req[r].asks = "everything"
  <2>1. confirmed' => crossed
    BY <1>1, <1>2, <1>4 DEF GoneInv
  <2>2. confirmed' => crossed'
    BY <2>1, TrackStep
  <2>3. QED
    BY <2>2, TrackStep DEF GoneInv, StaleConsentStaysGone
<1>5. CASE req[r].asks # "everything"
  BY <1>1, <1>2, <1>3, <1>5, NoConsentStep DEF Others
<1>6. QED
  BY <1>4, <1>5

\* A confirmation that commits was under way: it crosses what it finds there.
LEMMA GoneConfirmStep ==
  ASSUME OptInv, GoneInv, Track, NEW r \in Confirms, ConfirmCommit(r)
  PROVE  GoneInv'
<1>1. r \in All /\ Types /\ Confirming /\ Settled(r) /\ UNCHANGED optOuts
  BY DEF OptInv, ConfirmCommit, All, Confirming
<1>2. LeftEntirely => crossed'
  BY <1>1, TrackStep DEF GoneInv
<1>3. StaleConsentStaysGone'
  BY <1>1, <1>2 DEF StaleConsentStaysGone, LeftEntirely
<1>4. ASSUME NEW q \in All, req'[q].asks = "everything", req'[q].pc = "commit" PROVE crossed'
  <2>1. q # r /\ req'[q] = req[q]
    BY <1>1, <1>4, SettledMoves DEF NoRequest, Others
  <2>2. QED
    BY <1>2, <1>4, <2>1 DEF LeftEntirely, Holding
<1>5. QED
  BY <1>3, <1>4, TrackStep DEF GoneInv

LEMMA GoneStep == ASSUME OptInv, Flags, GoneInv, [Next]_vars PROVE GoneInv'
<1>1. CASE UNCHANGED vars
  BY <1>1 DEF vars, rows, GoneInv, LeftEntirely, Confirming, Holding, StaleConsentStaysGone
<1>2. ASSUME NEW r \in All, DropConfirmation(r), Track PROVE GoneInv'
  <2>1. Types /\ confirmed \in BOOLEAN /\ UNCHANGED <<optOuts, confirmed>>
    BY <1>2 DEF OptInv, Flags, DropConfirmation, rows
  <2>2. QED
    BY <1>2, <2>1, DropsMoves, NoConsentStep DEF Others
<1>3. ASSUME DeleteBroadcast \/ Erase, Track PROVE GoneInv'
  <2>1. (confirmed' => confirmed) /\ UNCHANGED <<optOuts, req>>
    BY <1>3 DEF DeleteBroadcast, Erase
  <2>2. QED
    BY <1>3, <2>1, NoConsentStep
<1>4. ASSUME NEW r \in All, Step(r), Track PROVE GoneInv'
  BY <1>2, <1>4, GoneRequestStep, GoneCommitStep, GoneConfirmStep DEF Step, Commit, ConfirmCommit
<1>5. QED
  BY <1>1, <1>3, <1>4, GoneRequestStep DEF Next, All

\* StaleConsentStaysGone of Consent: whatever the order of the statements, an
\* "everything" opt-out leaves no Confirmation behind but one that was still
\* being made, which RecordUnsubscribe cannot see and does not wait for.
THEOREM StaleConsentGone == Spec => []StaleConsentStaysGone
<1>1. Init => OptInv /\ Flags /\ GoneInv
  <2>1. ASSUME Init PROVE GoneInv
    BY <2>1 DEF Init, GoneInv, LeftEntirely, Confirming, Holding, StaleConsentStaysGone, NoRequest, All
  <2>2. QED
    BY <2>1, OptInitially DEF Init, Flags
<1>2. OptInv /\ Flags /\ GoneInv /\ [Next]_vars => (OptInv /\ Flags /\ GoneInv)'
  BY OptStep, FlagsStep, GoneStep
<1>3. GoneInv => StaleConsentStaysGone
  BY DEF GoneInv
<1>4. QED
  BY <1>1, <1>2, <1>3, PTL DEF Spec

-----------------------------------------------------------------------------
(* Types                                                                   *)

Rest ==
  /\ broadcast \in BOOLEAN /\ attributed \in BOOLEAN /\ crossed \in BOOLEAN
  /\ run \in {"gone", "active", "exited"} /\ faults \in 0 .. MaxFaults

LEMMA FaultTyped == ASSUME faults \in 0 .. MaxFaults, UNCHANGED faults \/ Fault PROVE faults' \in 0 .. MaxFaults
  BY FaultsAssumption DEF Fault

LEMMA RestStep == ASSUME Rest, [Next]_vars PROVE Rest'
<1>1. CASE UNCHANGED vars
  BY <1>1 DEF vars, rows, histories, Rest
<1>2. ASSUME Track PROVE crossed' \in BOOLEAN
  BY <1>2, Zenon DEF Track
<1>3. ASSUME UNCHANGED <<broadcast, attributed, run>> \/ Erase \/ DeleteBroadcast,
             UNCHANGED faults \/ Fault, Track
      PROVE  Rest'
  <2>1. broadcast' \in BOOLEAN /\ attributed' \in BOOLEAN
    BY <1>3 DEF Rest, Erase, DeleteBroadcast, histories
  <2>2. run' \in {"gone", "active", "exited"} /\ faults' \in 0 .. MaxFaults
    BY <1>3, FaultTyped DEF Rest, Erase, DeleteBroadcast
  <2>3. QED
    BY <1>2, <1>3, <2>1, <2>2 DEF Rest
<1>4. ASSUME NEW r \in All, Commit(r), Track PROVE Rest'
  <2>1. attributed' \in BOOLEAN
    BY <1>4, Zenon DEF Commit
  <2>2. broadcast' = broadcast /\ run' \in {"gone", "active", "exited"}
    BY <1>4 DEF Commit, Rest
  <2>3. faults' \in 0 .. MaxFaults
    BY <1>4, FaultTyped DEF Commit, Rest
  <2>4. QED
    BY <1>2, <1>4, <2>1, <2>2, <2>3 DEF Rest
<1>5. CASE \/ \E r \in Requests, s \in Sources : (Link(r, s) \/ Intake(r, s)) /\ Track
           \/ \E r \in Confirms : ConfirmLink(r) /\ Track
           \/ \E r \in All : (Fail(r) \/ Retry(r)) /\ Track
           \/ (DeleteBroadcast \/ Erase) /\ Track
  BY <1>3, <1>5 DEF Link, Intake, ConfirmLink, Ask, Fail, Retry, rows, histories, DeleteBroadcast, Erase
<1>6. ASSUME NEW r \in All, Step(r), Track PROVE Rest'
  BY <1>3, <1>4, <1>6 DEF Step, Check, Insert, DropConfirmation, ExitRun, Bump,
     ConfirmCheck, ConfirmInsert, ConfirmCommit, rows, histories
<1>7. QED
  BY <1>1, <1>5, <1>6 DEF Next

\* The type invariant of consent, and that of the requests for one source, and
\* of the confirmations, at most one is past its insert: the unique index makes
\* the others wait (recordOnce).
THEOREM TypeCorrect == Spec => []TypeOK
<1>1. Init => OptInv /\ Flags /\ Rest
  <2>1. ASSUME Init PROVE Rest
    <3>1. broadcast \in BOOLEAN /\ attributed \in BOOLEAN /\ crossed \in BOOLEAN
      BY <2>1, Zenon DEF Init
    <3>2. QED
      BY <2>1, <3>1, FaultsAssumption DEF Init, Rest
  <2>2. QED
    BY <2>1, OptInitially DEF Init, Flags
<1>2. OptInv /\ Flags /\ Rest /\ [Next]_vars => (OptInv /\ Flags /\ Rest)'
  BY OptStep, FlagsStep, RestStep
<1>3. OptInv /\ Flags /\ Rest => TypeOK
  <2>1. ASSUME OptInv, NEW s, NEW r \in Holding(s), NEW q \in Holding(s) PROVE r = q
    BY <2>1 DEF OptInv, Alone, Past, Holding
  <2>2. ASSUME OptInv, Flags, Rest PROVE TypeOK
    <3>1. told \subseteq Sources /\ optOuts \subseteq Sources /\ counted \in Nat
          /\ published \in [Sources -> Nat] /\ req \in [All -> States]
      BY <2>2 DEF OptInv, OptOutInFull, Rows, Types
    <3>2. QED
      BY <2>1, <2>2, <3>1 DEF TypeOK, Flags, Rest
  <2>3. QED
    BY <2>2
<1>4. QED
  BY <1>1, <1>2, <1>3, PTL DEF Spec
=============================================================================
