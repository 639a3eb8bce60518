----------------------------- MODULE SendLedger -----------------------------
(***************************************************************************)
(* What Outbound send promises the surfaces that call it, and nothing of   *)
(* how: under one idempotency key there is at most one record; it is       *)
(* claimed before it is decided, an undecided record may be dropped so the *)
(* same request can run again, a decided one never changes, and the        *)
(* email.sent Event is announced exactly when the record is decided Sent.  *)
(***************************************************************************)

CONSTANT Keys          \* idempotency keys of one Workspace

VARIABLES
  status,              \* status[k]: the record under k ("none": no record)
  announced            \* announced[k]: an email.sent Event was published for k

ledger == <<status, announced>>

Final == {"sent", "skipped", "failed"}
Statuses == {"none", "pending"} \cup Final

LedgerTypeOK ==
  /\ status \in [Keys -> Statuses]
  /\ announced \in [Keys -> BOOLEAN]

Init ==
  /\ status = [k \in Keys |-> "none"]
  /\ announced = [k \in Keys |-> FALSE]

\* A request takes the right to send under k before anything leaves.
Claim(k) ==
  /\ status[k] = "none"
  /\ status' = [status EXCEPT ![k] = "pending"]
  /\ UNCHANGED announced

\* A Deferral or a late Hold consumed nothing: the record is gone.
Drop(k) ==
  /\ status[k] = "pending"
  /\ status' = [status EXCEPT ![k] = "none"]
  /\ UNCHANGED announced

\* The one decision under k, announced iff it is Sent.
Decide(k, s) ==
  /\ status[k] = "pending"
  /\ status' = [status EXCEPT ![k] = s]
  /\ announced' = [announced EXCEPT ![k] = (s = "sent")]

Next == \E k \in Keys : Claim(k) \/ Drop(k) \/ \E s \in Final : Decide(k, s)

Spec == Init /\ [][Next]_ledger
=============================================================================
