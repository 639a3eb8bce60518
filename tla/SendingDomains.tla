--------------------------- MODULE SendingDomains ---------------------------
(***************************************************************************)
(* The DKIM verification of one Sending domain (internal/sendingdomains,   *)
(* internal/jobs/sending_domain.go): "verified is a live property".  Jobs  *)
(* of the periodic recheck and of the Verify button read the row, ask DNS, *)
(* and write what they found, with no transaction around the three, while  *)
(* the owner moves the selector, publishes and withdraws records, or       *)
(* deletes the domain.                                                     *)
(***************************************************************************)
EXTENDS Integers

CONSTANTS
  Selectors,   \* DKIM selectors the owner uses
  Default,     \* the one a domain is created with
  Checks,      \* bound: jobs of the domain that are queued or running at a time
  MaxChanges,  \* bound: edits of the selector and of the DNS zone, together
  MaxFaults    \* bound: failed lookups, dead workers, alerts that fail

ASSUME DefaultAssumption == Default \in Selectors
ASSUME BoundsAssumption == MaxChanges \in Nat /\ MaxFaults \in Nat

VARIABLES
  selector,    \* dkim_selector
  verified,
  deleted,     \* whether the row is gone
  zone,        \* selectors the zone has the domain's key under
  check,       \* check[c]: where a job is, what it read, what DNS said
  basis,       \* history: the selector of the lookup "verified" comes from
  crossed,     \* history: whether a job wrote a verdict on an older selector
  owed,        \* history: losses of verification less alerts of them
  changes, faults

row == <<selector, verified, deleted>>
vars == <<row, zone, check, basis, crossed, owed, changes, faults>>

\* A job with nothing in hand.
Job(at) == [at |-> at, selector |-> Default, verified |-> FALSE, found |-> FALSE]
NoCheck == Job("none")

Jobs == [at : {"none", "queued", "read", "looked", "alert"},
         selector : Selectors, verified : BOOLEAN, found : BOOLEAN]

TypeOK ==
  /\ selector \in Selectors /\ verified \in BOOLEAN /\ deleted \in BOOLEAN
  /\ zone \subseteq Selectors
  /\ check \in [Checks -> Jobs]
  /\ basis \in Selectors /\ crossed \in BOOLEAN /\ owed \in Int
  /\ changes \in 0 .. MaxChanges /\ faults \in 0 .. MaxFaults

\* A domain that was just created.
Init ==
  /\ selector = Default /\ verified = FALSE /\ deleted = FALSE
  /\ zone = {} /\ check = [c \in Checks |-> NoCheck]
  /\ basis = Default /\ crossed = FALSE /\ owed = 0
  /\ changes = 0 /\ faults = 0

Change == changes < MaxChanges /\ changes' = changes + 1
Fault == faults < MaxFaults /\ faults' = faults + 1

-----------------------------------------------------------------------------
(* The owner                                                               *)

\* Mutant of Update: the domain stays verified under its new selector.
UpdateKeeps(s) ==
  /\ ~deleted /\ s # selector /\ Change
  /\ selector' = s
  /\ UNCHANGED <<verified, deleted, zone, check, basis, crossed, owed, faults>>

\* A new selector moves the record: what was verified is another one.
Update(s) ==
  /\ ~deleted /\ s # selector /\ Change
  /\ selector' = s /\ verified' = FALSE
  /\ UNCHANGED <<deleted, zone, check, basis, crossed, owed, faults>>

Delete ==
  /\ ~deleted /\ deleted' = TRUE
  /\ UNCHANGED <<selector, verified, zone, check, basis, crossed, owed, changes, faults>>

\* The owner publishes the record of a selector, or withdraws it.
EditZone(s) ==
  /\ Change
  /\ zone' = IF s \in zone THEN zone \ {s} ELSE zone \cup {s}
  /\ UNCHANGED <<row, check, basis, crossed, owed, faults>>

-----------------------------------------------------------------------------
(* The jobs                                                                *)

Enqueue(c) ==
  /\ check[c].at = "none" /\ ~deleted
  /\ check' = [check EXCEPT ![c] = Job("queued")]
  /\ UNCHANGED <<row, zone, basis, crossed, owed, changes, faults>>

\* The owner asks for a check.
Verify(c) == Enqueue(c)

\* The periodic job enqueues a check of every domain that is due.
Recheck(c) == Enqueue(c)

Done(c) == check' = [check EXCEPT ![c] = NoCheck]

\* A job whose domain is gone fails until its attempts are used up.
Read(c) ==
  /\ check[c].at = "queued"
  /\ IF deleted THEN Done(c)
     ELSE check' = [check EXCEPT ![c] = [at |-> "read", selector |-> selector, verified |-> verified, found |-> FALSE]]
  /\ UNCHANGED <<row, zone, basis, crossed, owed, changes, faults>>

\* VerifyDKIM asks for the selector the job read.
Lookup(c) ==
  /\ check[c].at = "read"
  /\ check' = [check EXCEPT ![c] = [at |-> "looked", selector |-> check[c].selector,
                       verified |-> check[c].verified, found |-> check[c].selector \in zone]]
  /\ UNCHANGED <<row, zone, basis, crossed, owed, changes, faults>>

\* DNS fails, or the worker dies, anywhere: the job runs again from the top.
Again(c) ==
  /\ check[c].at \in {"read", "looked", "alert"} /\ Fault
  /\ check' = [check EXCEPT ![c] = Job("queued")]
  /\ UNCHANGED <<row, zone, basis, crossed, owed, changes>>

\* Mutant of Write: a verdict is stored only when it is a new "verified".
WriteOnlyGains(c) ==
  /\ check[c].at = "looked" /\ ~deleted
  /\ IF check[c].found /\ ~check[c].verified
     THEN /\ verified' = TRUE /\ basis' = check[c].selector
          /\ crossed' = (crossed \/ check[c].selector # selector)
     ELSE UNCHANGED <<verified, basis, crossed>>
  /\ Done(c)
  /\ UNCHANGED <<selector, deleted, zone, owed, changes, faults>>

\* The verdict is stored if it differs from the one that was read; a domain
\* read as verified that is not found is a loss, to alert the owner of.
Write(c) ==
  /\ check[c].at = "looked"
  /\ IF deleted \/ check[c].found = check[c].verified
     THEN Done(c) /\ UNCHANGED <<verified, basis, crossed, owed>>
     ELSE /\ verified' = check[c].found
          /\ IF check[c].found
             THEN /\ basis' = check[c].selector
                  /\ crossed' = (crossed \/ check[c].selector # selector)
                  /\ Done(c)
             ELSE /\ check' = [check EXCEPT ![c] = Job("alert")]
                  /\ UNCHANGED <<basis, crossed>>
          /\ owed' = IF verified /\ ~check[c].found THEN owed + 1 ELSE owed
  /\ UNCHANGED <<selector, deleted, zone, changes, faults>>

\* NotifySendingDomainUnverified.
Alert(c) ==
  /\ check[c].at = "alert" /\ ~deleted
  /\ owed' = owed - 1
  /\ Done(c)
  /\ UNCHANGED <<row, zone, basis, crossed, changes, faults>>

\* The alert is best-effort: the job is done without it.
AlertFails(c) ==
  /\ check[c].at = "alert"
  /\ \/ deleted /\ UNCHANGED faults
     \/ ~deleted /\ Fault
  /\ Done(c)
  /\ UNCHANGED <<row, zone, basis, crossed, owed, changes>>

Work(c) == Read(c) \/ Lookup(c) \/ Write(c) \/ Alert(c) \/ AlertFails(c)

Next ==
  \/ \E c \in Checks : Verify(c) \/ Recheck(c) \/ Work(c) \/ Again(c)
  \/ Delete
  \/ \E s \in Selectors : Update(s) \/ EditZone(s)

Spec == Init /\ [][Next]_vars

\* The recheck runs every quarter of an hour and the queue has workers.
FairSpec ==
  /\ Spec
  /\ WF_vars(\E c \in Checks : Recheck(c))
  /\ \A c \in Checks : WF_vars(Work(c))

-----------------------------------------------------------------------------
(* Properties                                                              *)

\* A verified domain, through which mail is signed and sent, has had its
\* current selector found in DNS, unless a job that asked for an older one
\* wrote after the owner moved it.
VerdictIsCurrent == verified => basis = selector \/ crossed

\* Whatever the jobs overwrote of each other's, once the owner leaves the
\* selector and the zone alone the domain comes to be verified exactly if
\* its record is published, and stays so.
VerdictSettles == <>[](deleted \/ (verified <=> selector \in zone))

\* The owner is not alerted more often than the domain loses verification:
\* "the owner is alerted exactly once per loss".  The code does not keep this:
\* two checks that both read the verified row both flip it.
OneAlertPerLoss == owed >= 0
=============================================================================
