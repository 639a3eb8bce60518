------------------------------- MODULE Consent -------------------------------
(***************************************************************************)
(* Opt-outs and confirmations of one address of one Contact                *)
(* (internal/consent), recorded by links that are posted twice, at once,   *)
(* late, and again after a failure, beside the deletion of the Broadcast   *)
(* they came from and an Erasure of the Contact.                           *)
(*                                                                         *)
(* Every request is one transaction, statement by statement.  It reads     *)
(* what is committed, its own writes show when it commits, and an insert   *)
(* of a key another transaction inserted or deleted waits for its end.     *)
(***************************************************************************)
EXTENDS Naturals

CONSTANTS
  Requests,    \* unsubscribe requests under way at a time
  Confirms,    \* confirmation requests under way at a time
  MaxFaults    \* bound: transactions that fail, replies that are lost

ASSUME RequestsAssumption == Requests \cap Confirms = {}
ASSUME FaultsAssumption == MaxFaults \in Nat

Sources == {"broadcasts", "automation", "everything"}

VARIABLES
  optOuts,     \* sources the address has an Unsubscribe row for
  confirmed,   \* whether it has a Confirmation
  contact,     \* whether the Contact exists
  broadcast,   \* whether the Broadcast behind the "broadcasts" link exists
  run,         \* the Contact's Enrollment in the Automation
  counted,     \* unsubscribed_count of the Broadcast
  req,         \* req[r]: what a request asks, how far it is, what it staged
  published,   \* history: published[s]: Events of opt-outs from s
  attributed,  \* history: whether the Broadcast's own link won its opt-out
  told,        \* history: opt-outs a request was told are done
  crossed,     \* history: whether a confirmation crossed or followed "everything"
  faults

rows == <<optOuts, confirmed, contact, broadcast, run, counted>>
histories == <<published, attributed, told>>
vars == <<rows, req, histories, crossed, faults>>

All == Requests \cup Confirms
NoRequest == [pc |-> "none", asks |-> "none", contact |-> FALSE, broadcast |-> FALSE,
              drops |-> FALSE, exits |-> FALSE]

States == [pc : {"none", "check", "insert", "effect", "commit", "failed"},
           asks : Sources \cup {"none", "confirm"}, contact : BOOLEAN, broadcast : BOOLEAN,
           drops : BOOLEAN, exits : BOOLEAN]

\* Requests that hold the key they inserted until their transaction ends.
Holding(asks) ==
  {r \in All : req[r].asks = asks /\ req[r].pc \in {"effect", "commit"}}

TypeOK ==
  /\ optOuts \subseteq Sources
  /\ confirmed \in BOOLEAN /\ contact \in BOOLEAN /\ broadcast \in BOOLEAN
  /\ run \in {"gone", "active", "exited"} /\ counted \in Nat
  /\ req \in [All -> States]
  /\ published \in [Sources -> Nat] /\ attributed \in BOOLEAN
  /\ told \subseteq Sources /\ crossed \in BOOLEAN
  /\ faults \in 0 .. MaxFaults
  /\ \A s \in Sources \cup {"confirm"} : \A r, q \in Holding(s) : r = q

Init ==
  /\ optOuts = {} /\ confirmed = FALSE /\ contact = TRUE /\ broadcast = TRUE
  /\ run = "active" /\ counted = 0
  /\ req = [r \in All |-> NoRequest]
  /\ published = [s \in Sources |-> 0] /\ attributed = FALSE /\ told = {}
  /\ crossed = FALSE /\ faults = 0

Go(r, pc) == req' = [req EXCEPT ![r].pc = pc]

\* The transaction ends without a write and the request is answered.
Settled(r) ==
  /\ req' = [req EXCEPT ![r] = NoRequest]
  /\ told' = told \cup ({req[r].asks} \cap Sources)

\* The transaction rolls back and the caller sees an error.
Failed(r) == req' = [req EXCEPT ![r].pc = "failed", ![r].drops = FALSE, ![r].exits = FALSE]

Fault == faults < MaxFaults /\ faults' = faults + 1

-----------------------------------------------------------------------------
(* RecordUnsubscribe                                                       *)

Ask(r, target) ==
  /\ req[r].pc = "none"
  /\ req' = [req EXCEPT ![r] = target]
  /\ UNCHANGED <<rows, histories, faults>>

\* The link in an email names the Contact, and the Broadcast it was part of.
Link(r, s) ==
  Ask(r, [NoRequest EXCEPT !.pc = "check", !.asks = s, !.contact = TRUE, !.broadcast = (s = "broadcasts")])

\* Unsubscribe, for a caller with an account, looks the Contact up first.
Intake(r, s) ==
  Ask(r, [NoRequest EXCEPT !.pc = "check", !.asks = s, !.contact = contact])

\* An opt-out that is there settles it.  The scoped create refuses a Contact
\* that is not there, with no constraint error: settled passes that on.
Check(r) ==
  /\ r \in Requests /\ req[r].pc = "check"
  /\ CASE req[r].asks \in optOuts -> Settled(r)
       [] req[r].asks \notin optOuts /\ req[r].contact /\ ~contact -> Failed(r) /\ UNCHANGED told
       [] OTHER -> Go(r, "insert") /\ UNCHANGED told
  /\ UNCHANGED <<rows, published, attributed, faults>>

\* Mutant of Insert: a row that is there already is updated.
InsertUpserts(r) ==
  /\ r \in Requests /\ req[r].pc = "insert" /\ Holding(req[r].asks) = {}
  /\ Go(r, "effect")
  /\ UNCHANGED <<rows, histories, faults>>

\* Mutant of Insert: there is no unique index to wait for.
InsertUnindexed(r) ==
  /\ r \in Requests /\ req[r].pc = "insert"
  /\ Go(r, "effect")
  /\ UNCHANGED <<rows, histories, faults>>

\* Waits for the transaction that holds the key; the loser is settled.
Insert(r) ==
  /\ r \in Requests /\ req[r].pc = "insert" /\ Holding(req[r].asks) = {}
  /\ IF req[r].asks \in optOuts THEN Settled(r)
     ELSE Go(r, "effect") /\ UNCHANGED told
  /\ UNCHANGED <<rows, published, attributed, faults>>

\* Mutant of DropConfirmation: a Confirmation is dropped with its Contact only.
DropAttributed(r) ==
  /\ req[r].pc = "effect" /\ req[r].asks = "everything"
  /\ req' = [req EXCEPT ![r].pc = "commit", ![r].drops = confirmed /\ req[r].contact /\ contact]
  /\ UNCHANGED <<rows, histories, faults>>

\* "everything" deletes the Confirmation that is committed by now.
DropConfirmation(r) ==
  /\ req[r].pc = "effect" /\ req[r].asks = "everything"
  /\ req' = [req EXCEPT ![r].pc = "commit", ![r].drops = confirmed]
  /\ UNCHANGED <<rows, histories, faults>>

\* Exit ends the Enrollment of a Contact that is named, if active by now.
ExitRun(r) ==
  /\ req[r].pc = "effect" /\ req[r].asks = "automation"
  /\ req' = [req EXCEPT ![r].pc = "commit", ![r].exits = req[r].contact /\ run = "active"]
  /\ UNCHANGED <<rows, histories, faults>>

\* The counter of a Broadcast that is gone fails the opt-out as a whole.
Bump(r) ==
  /\ req[r].pc = "effect" /\ req[r].asks = "broadcasts"
  /\ IF req[r].broadcast /\ ~broadcast THEN Failed(r) ELSE Go(r, "commit")
  /\ UNCHANGED <<rows, histories, faults>>

\* The row, its effects and its Event appear together; a reply may be lost.
Commit(r) ==
  /\ r \in Requests /\ req[r].pc = "commit"
  /\ optOuts' = optOuts \cup {req[r].asks}
  /\ confirmed' = (confirmed /\ ~req[r].drops)
  /\ run' = IF req[r].exits /\ run = "active" THEN "exited" ELSE run
  /\ counted' = IF req[r].broadcast THEN counted + 1 ELSE counted
  /\ attributed' = (attributed \/ req[r].broadcast)
  /\ published' = [published EXCEPT ![req[r].asks] = @ + 1]
  /\ \/ Settled(r) /\ UNCHANGED faults
     \/ Failed(r) /\ Fault /\ UNCHANGED told
  /\ UNCHANGED <<contact, broadcast>>

\* Mutant of Fail: settled takes every failure for done.
FailSettled(r) ==
  /\ req[r].pc \notin {"none", "failed"} /\ Fault /\ Settled(r)
  /\ UNCHANGED <<rows, published, attributed>>

Fail(r) ==
  /\ req[r].pc \notin {"none", "failed"} /\ Fault /\ Failed(r)
  /\ UNCHANGED <<rows, histories>>

\* A mailbox provider or a person posts the link again.
Retry(r) ==
  /\ req[r].pc = "failed" /\ Go(r, "check")
  /\ UNCHANGED <<rows, histories, faults>>

-----------------------------------------------------------------------------
(* RecordConfirmation                                                      *)

ConfirmLink(r) == r \in Confirms /\ Ask(r, [NoRequest EXCEPT !.pc = "check", !.asks = "confirm"])

ConfirmCheck(r) ==
  /\ r \in Confirms /\ req[r].pc = "check"
  /\ IF confirmed THEN Settled(r) ELSE Go(r, "insert") /\ UNCHANGED told
  /\ UNCHANGED <<rows, published, attributed, faults>>

\* Its Contact is not looked up: the row outlives the Contact.
ConfirmInsert(r) ==
  /\ r \in Confirms /\ req[r].pc = "insert"
  /\ Holding("confirm") = {} /\ \A q \in Requests : ~req[q].drops
  /\ IF confirmed THEN Settled(r) ELSE Go(r, "commit") /\ UNCHANGED told
  /\ UNCHANGED <<rows, published, attributed, faults>>

ConfirmCommit(r) ==
  /\ r \in Confirms /\ req[r].pc = "commit"
  /\ confirmed' = TRUE
  /\ Settled(r)
  /\ UNCHANGED <<optOuts, contact, broadcast, run, counted, published, attributed, faults>>

-----------------------------------------------------------------------------
(* Beside them                                                             *)

\* The update of the counter locks the Broadcast until its transaction ends.
DeleteBroadcast ==
  /\ broadcast /\ \A r \in Holding("broadcasts") : ~(req[r].broadcast /\ req[r].pc = "commit")
  /\ broadcast' = FALSE
  /\ UNCHANGED <<optOuts, confirmed, contact, run, counted, req, histories, faults>>

\* An Erasure keeps the opt-outs, which are keyed by address.
Erase ==
  /\ contact /\ \A r \in All : ~req[r].drops /\ ~req[r].exits
  /\ contact' = FALSE /\ confirmed' = FALSE /\ run' = "gone"
  /\ UNCHANGED <<optOuts, broadcast, counted, req, histories, faults>>

-----------------------------------------------------------------------------

Step(r) ==
  \/ Check(r) \/ Insert(r) \/ DropConfirmation(r) \/ ExitRun(r) \/ Bump(r) \/ Commit(r)
  \/ ConfirmCheck(r) \/ ConfirmInsert(r) \/ ConfirmCommit(r)

\* A confirmation that is not over when the opt-out that would delete it has
\* looked, or that is asked for after it.
Confirming == \E c \in Confirms : req[c].pc \notin {"none", "failed"}
LeftEntirely == "everything" \in optOuts \/ \E r \in Holding("everything") : req[r].pc = "commit"
Track == crossed' = (crossed \/ (Confirming' /\ LeftEntirely'))

Next ==
  \/ \E r \in Requests, s \in Sources : (Link(r, s) \/ Intake(r, s)) /\ Track
  \/ \E r \in Confirms : ConfirmLink(r) /\ Track
  \/ \E r \in All : (Step(r) \/ Fail(r) \/ Retry(r)) /\ Track
  \/ (DeleteBroadcast \/ Erase) /\ Track

Spec == Init /\ [][Next]_vars

\* A statement is answered, and who saw an error posts the link again.
FairSpec ==
  /\ Spec
  /\ \A r \in All : WF_vars((Step(r) \/ Retry(r)) /\ Track)

-----------------------------------------------------------------------------
(* Properties.                                                             *)

\* However often and however closely together it is asked for, an opt-out
\* takes effect once: one Event, one count of the Broadcast whose link won,
\* an end to the Enrollment there was; and who was told so can rely on it.
OptOutInFull ==
  /\ \A s \in Sources : published[s] = IF s \in optOuts THEN 1 ELSE 0
  /\ counted = IF attributed THEN 1 ELSE 0
  /\ run = "active" => "automation" \notin optOuts
  /\ told \subseteq optOuts

\* Consent given before the address left entirely is gone for good: only a
\* confirmation that crossed the opt-out or came after it can stand.
StaleConsentStaysGone ==
  "everything" \in optOuts /\ confirmed => crossed

\* A link that is posted until it is answered is recorded, unless the Contact
\* or the Broadcast it names is deleted meanwhile.
RefusalRecorded ==
  \A s \in Sources :
    (\E r \in Requests : req[r].asks = s) ~> s \in optOuts \/ ~contact \/ ~broadcast
=============================================================================
