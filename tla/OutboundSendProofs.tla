------------------------- MODULE OutboundSendProofs -------------------------
(***************************************************************************)
(* Theorems about OutboundSend, for every set of keys and callers, every   *)
(* lease and every bound: its types; that it implements SendLedger; what   *)
(* the record and the provider agree on; what a caller may rely on.        *)
(***************************************************************************)
EXTENDS OutboundSend, TLAPS

-----------------------------------------------------------------------------
(* Type correctness.                                                       *)

\* The parameters, as the module assumes them.
LEMMA Parameters ==
  /\ Kind \in [Keys -> Kinds] /\ OfContact \subseteq Keys
  /\ Lease \in Nat /\ Lease > 0
  /\ MaxTime \in Nat /\ MaxFaults \in Nat
  BY KindAssumption, ContactAssumption, LeaseAssumption, BoundAssumption

\* The values of a key without a row and of a call without a claim.
LEMMA Blanks == NoRow \in Row /\ NoClaim \in [id : Nat, token : Nat]
  BY DEF NoRow, NoClaim, Row, Final

\* The initial state is well typed.
LEMMA TypeInit == Init => TypeOK
  <1> SUFFICES ASSUME Init PROVE TypeOK
    OBVIOUS
  <1> USE Parameters, Blanks
  <1>1. StoreOK
    <2>1. now \in Nat /\ lastId \in Nat
      BY DEF Init
    <2>2. row \in [Keys -> Row] /\ published \in [Keys -> SUBSET Nat]
      BY DEF Init
    <2>3. accepted \in [Keys -> Nat] /\ outlived \in [Keys -> BOOLEAN]
      BY DEF Init
    <2> QED
      BY <2>1, <2>2, <2>3 DEF StoreOK
  <1>2. WorldOK
    BY DEF Init, WorldOK
  <1>3. CallOK
    <2>1. pc \in [Attempts -> Statements] /\ answer \in [Attempts -> Answers]
      BY DEF Init, Statements, Answers
    <2>2. key \in [Attempts -> Keys]
      BY DEF Init
    <2>3. seen \in [Attempts -> Row] /\ claim \in [Attempts -> [id : Nat, token : Nat]]
      BY DEF Init
    <2> QED
      BY <2>1, <2>2, <2>3 DEF CallOK
  <1> QED
    BY <1>1, <1>2, <1>3 DEF TypeOK

\* Moving to a statement of Send keeps the locals' types.
LEMMA GotoOK ==
  ASSUME CallOK, NEW a \in Attempts, NEW s \in Statements, Goto(a, s)
  PROVE  CallOK'
  BY DEF CallOK, Goto

\* Returning an answer keeps the locals' types.
LEMMA ReturnOK ==
  ASSUME CallOK, NEW a \in Attempts, NEW r \in Answers, Return(a, r)
  PROVE  CallOK'
  <1>1. pc' \in [Attempts -> Statements] /\ answer' \in [Attempts -> Answers]
    BY DEF CallOK, Return, Statements
  <1>2. seen' \in [Attempts -> Row] /\ claim' \in [Attempts -> [id : Nat, token : Nat]]
    BY Blanks DEF CallOK, Return
  <1> QED
    BY <1>1, <1>2 DEF CallOK, Return

\* Writing a well-typed row keeps the table's type.
LEMMA RowOK ==
  ASSUME StoreOK, NEW k \in Keys, NEW r \in Row, SetRow(k, r)
  PROVE  row' \in [Keys -> Row]
  BY DEF StoreOK, SetRow

\* The types survive every step.
LEMMA TypeStep == TypeOK /\ [Next]_vars => TypeOK'
  <1> SUFFICES ASSUME TypeOK, [Next]_vars PROVE TypeOK'
    OBVIOUS
  <1> USE Parameters, GotoOK, ReturnOK DEF TypeOK, world, erasure
  <1>answers. {"skipped", "error", "held", "deferral", "in_progress", "crashed", "none"} \cup Final
          \subseteq Answers
    BY DEF Answers, Final
  <1>statements. {"gate", "stamp", "takeover", "verify", "insert", "refind", "adopt", "check",
         "skip", "fail", "reserve", "provider", "record", "hold", "defer", "release"}
           \subseteq Statements
    BY DEF Statements, Unclaimed, Claimed
  <1>1. ASSUME NEW a \in Attempts, NEW k \in Keys, Begin(a, k) PROVE TypeOK'
    <2>1. StoreOK' /\ WorldOK'
      BY <1>1 DEF Begin, StoreOK, WorldOK
    <2>2. key' \in [Attempts -> Keys]
      BY <1>1 DEF Begin, CallOK
    <2>3. pc' \in [Attempts -> Statements]
      BY <1>1 DEF Begin, CallOK, Statements, Unclaimed
    <2>4. seen' \in [Attempts -> Row]
      BY <1>1 DEF Begin, CallOK, StoreOK
    <2>5. answer' \in [Attempts -> Answers] /\ claim' = claim
      BY <1>1 DEF Begin, CallOK, Answers
    <2> QED
      BY <2>1, <2>2, <2>3, <2>4, <2>5 DEF CallOK
  <1>2. ASSUME NEW a \in Attempts, CheckErased(a) \/ Gate(a) \/ VerifyRefs(a) PROVE TypeOK'
    <2>1. StoreOK' /\ WorldOK'
      BY <1>2 DEF CheckErased, Gate, VerifyRefs, StoreOK, WorldOK
    <2>2. CallOK'
      BY <1>2, <1>answers, <1>statements DEF CheckErased, Gate, VerifyRefs
    <2> QED
      BY <2>1, <2>2
  <1>19. ASSUME NEW a \in Attempts, Stamp(a) PROVE TypeOK'
    <2>1. StoreOK' /\ WorldOK'
      BY <1>19 DEF Stamp, StoreOK, WorldOK
    <2>2. CASE Return(a, "in_progress")
      BY <2>1, <2>2, <1>answers
    <2>3. CASE /\ \E s \in {"takeover", "verify"} : pc' = [pc EXCEPT ![a] = s]
               /\ claim' = [claim EXCEPT ![a].token = now]
               /\ UNCHANGED <<key, seen, answer>>
      <3>1. pc' \in [Attempts -> Statements]
        BY <2>3, <1>statements DEF CallOK
      <3>2. claim' \in [Attempts -> [id : Nat, token : Nat]]
        BY <2>3 DEF CallOK, StoreOK
      <3> QED
        BY <2>1, <2>3, <3>1, <3>2 DEF CallOK
    <2> QED
      BY <1>19, <2>2, <2>3 DEF Stamp
  <1>3. ASSUME NEW a \in Attempts, Insert(a) PROVE TypeOK'
    <2>1. CASE row[key[a]].status = "none"
      <3> DEFINE r == [id |-> lastId + 1, status |-> "pending",
                       claimedAt |-> claim[a].token, named |-> key[a] \in OfContact]
      <3>1. r \in Row /\ key[a] \in Keys
        BY DEF StoreOK, CallOK, Row
      <3>2. SetRow(key[a], r) /\ lastId' = lastId + 1
        BY <1>3, <2>1 DEF Insert
      <3>3. row' \in [Keys -> Row] /\ lastId' \in Nat
        BY <3>1, <3>2, RowOK DEF StoreOK
      <3>4. StoreOK' /\ WorldOK'
        BY <1>3, <3>3 DEF Insert, StoreOK, WorldOK
      <3>5. pc' \in [Attempts -> Statements]
        BY <1>3, <2>1, <1>statements DEF Insert, CallOK
      <3>6. claim' \in [Attempts -> [id : Nat, token : Nat]]
        BY <1>3, <2>1 DEF Insert, CallOK, StoreOK
      <3>7. UNCHANGED <<key, seen, answer>>
        BY <1>3, <2>1 DEF Insert
      <3> QED
        BY <3>4, <3>5, <3>6, <3>7 DEF CallOK
    <2>2. CASE row[key[a]].status # "none"
      <3>1. /\ pc' = [pc EXCEPT ![a] = "refind"] /\ claim' = [claim EXCEPT ![a] = NoClaim]
            /\ UNCHANGED <<lastId, row, key, seen, answer>>
        BY <1>3, <2>2 DEF Insert
      <3>2. StoreOK' /\ WorldOK'
        BY <1>3, <3>1 DEF Insert, StoreOK, WorldOK
      <3>3. pc' \in [Attempts -> Statements] /\ claim' \in [Attempts -> [id : Nat, token : Nat]]
        BY <3>1, <1>statements, Blanks DEF CallOK
      <3> QED
        BY <3>1, <3>2, <3>3 DEF CallOK
    <2> QED
      BY <2>1, <2>2
  <1>4. ASSUME NEW a \in Attempts, Refind(a) PROVE TypeOK'
    <2>1. StoreOK' /\ WorldOK'
      BY <1>4 DEF Refind, StoreOK, WorldOK
    <2> DEFINE other == row[key[a]]
    <2>2. other \in Row /\ other.status \in Final \cup {"none", "pending"}
      BY DEF StoreOK, CallOK, Row
    <2>3. CASE other.status = "none"
      BY <1>4, <2>1, <2>3, <1>answers DEF Refind, Final
    <2>4. CASE other.status \in Final
      <3>1. Return(a, other.status)
        BY <1>4, <2>4 DEF Refind, Final
      <3> QED
        BY <2>1, <2>4, <3>1, <1>answers
    <2>5. CASE other.status = "pending"
      <3>1. /\ pc' = [pc EXCEPT ![a] = "stamp"]
            /\ seen' = [seen EXCEPT ![a] = other]
            /\ UNCHANGED <<key, claim, answer>>
        BY <1>4, <2>5 DEF Refind, Final
      <3>2. pc' \in [Attempts -> Statements] /\ seen' \in [Attempts -> Row]
        BY <3>1, <2>2, <1>statements DEF CallOK
      <3> QED
        BY <2>1, <3>1, <3>2 DEF CallOK
    <2> QED
      BY <2>2, <2>3, <2>4, <2>5
  <1>5. ASSUME NEW a \in Attempts, TakeOver(a) PROVE TypeOK'
    <2> DEFINE k == key[a]
               mine == /\ Pending(k)
                       /\ row[k].id = seen[a].id
                       /\ row[k].claimedAt = seen[a].claimedAt
    <2>1. k \in Keys /\ row[k] \in Row
      BY DEF StoreOK, CallOK
    <2>2. CASE mine
      <3>1. /\ SetRow(k, [row[k] EXCEPT !.claimedAt = claim[a].token])
            /\ pc' = [pc EXCEPT ![a] = "adopt"]
            /\ claim' = [claim EXCEPT ![a].id = row[k].id]
            /\ seen' = [seen EXCEPT ![a] = NoRow]
            /\ outlived' = [outlived EXCEPT ![k] = @ \/ seen[a].claimedAt # 0]
            /\ UNCHANGED <<key, answer>>
        BY <1>5, <2>2 DEF TakeOver
      <3>2. [row[k] EXCEPT !.claimedAt = claim[a].token] \in Row
        BY <2>1 DEF CallOK, Row
      <3>3. row' \in [Keys -> Row]
        BY <2>1, <3>1, <3>2, RowOK
      <3>4. outlived' \in [Keys -> BOOLEAN]
        BY <3>1 DEF StoreOK
      <3>5. StoreOK' /\ WorldOK'
        BY <1>5, <3>3, <3>4 DEF TakeOver, StoreOK, WorldOK
      <3>6. claim' \in [Attempts -> [id : Nat, token : Nat]]
        BY <2>1, <3>1 DEF CallOK, StoreOK, Row
      <3>7. pc' \in [Attempts -> Statements]
        BY <3>1, <1>statements DEF CallOK
      <3> QED
        BY <3>1, <3>5, <3>6, <3>7, Blanks DEF CallOK
    <2>3. CASE ~mine
      <3>1. Return(a, "in_progress") /\ UNCHANGED <<row, outlived>>
        BY <1>5, <2>3 DEF TakeOver
      <3>2. StoreOK' /\ WorldOK'
        BY <1>5, <3>1 DEF TakeOver, StoreOK, WorldOK
      <3> QED
        BY <3>1, <3>2, <1>answers
    <2> QED
      BY <2>2, <2>3
  <1>6. ASSUME NEW a \in Attempts, Adopt(a) PROVE TypeOK'
    <2>1. StoreOK' /\ WorldOK'
      BY <1>6 DEF Adopt, StoreOK, WorldOK
    <2>2. CASE row[key[a]].id = claim[a].id
      <3>1. /\ pc' = [pc EXCEPT ![a] = "check"]
            /\ claim' = [claim EXCEPT ![a].token = row[key[a]].claimedAt]
            /\ UNCHANGED <<key, seen, answer>>
        BY <1>6, <2>2 DEF Adopt
      <3>2. row[key[a]].claimedAt \in Nat
        BY DEF StoreOK, CallOK, Row
      <3>3. claim' \in [Attempts -> [id : Nat, token : Nat]]
        BY <3>1, <3>2 DEF CallOK
      <3>4. pc' \in [Attempts -> Statements]
        BY <3>1, <1>statements DEF CallOK
      <3> QED
        BY <2>1, <3>1, <3>3, <3>4 DEF CallOK
    <2>3. CASE row[key[a]].id # claim[a].id
      BY <1>6, <2>1, <2>3, <1>answers DEF Adopt
    <2> QED
      BY <2>2, <2>3
  <1>7. ASSUME NEW a \in Attempts, Check(a) \/ Reserve(a) \/ ReserveWait(a) PROVE TypeOK'
    <2>1. StoreOK' /\ WorldOK'
      BY <1>7 DEF Check, Reserve, ReserveWait, Fault, StoreOK, WorldOK
    <2>2. \E s \in Statements : Goto(a, s)
      BY <1>7, <1>statements DEF Check, Reserve, ReserveWait
    <2> QED
      BY <2>1, <2>2
  <1>8. ASSUME NEW a \in Attempts, Finish(a) PROVE TypeOK'
    <2> DEFINE decided == IF At(a, "skip") THEN "skipped" ELSE "failed"
    <2>1. CASE Holds(a)
      <3>1. SetRow(key[a], [row[key[a]] EXCEPT !.status = decided]) /\ Return(a, decided)
        BY <1>8, <2>1 DEF Finish
      <3>2. decided \in Final
        BY DEF Final
      <3>6. key[a] \in Keys /\ row[key[a]] \in Row
        BY DEF StoreOK, CallOK
      <3>7. [row[key[a]] EXCEPT !.status = decided] \in Row
        BY <3>2, <3>6 DEF Row
      <3>3. row' \in [Keys -> Row]
        BY <3>1, <3>6, <3>7, RowOK
      <3>4. StoreOK' /\ WorldOK'
        BY <1>8, <3>3 DEF Finish, StoreOK, WorldOK
      <3>5. decided \in Answers
        BY DEF Answers, Final
      <3> QED
        BY <3>1, <3>4, <3>5
    <2>2. CASE ~Holds(a)
      <3>1. Return(a, "in_progress") /\ UNCHANGED row
        BY <1>8, <2>2 DEF Finish
      <3>2. StoreOK' /\ WorldOK'
        BY <1>8, <3>1 DEF Finish, StoreOK, WorldOK
      <3> QED
        BY <3>1, <3>2, <1>answers
    <2> QED
      BY <2>1, <2>2
  <1>9. ASSUME NEW a \in Attempts, Accept(a) \/ LoseReply(a) PROVE TypeOK'
    <2>1. accepted' \in [Keys -> Nat] /\ outlived' \in [Keys -> BOOLEAN]
      <3>1. key[a] \in Keys /\ accepted[key[a]] \in Nat
        BY DEF StoreOK, CallOK
      <3>2. accepted' = [accepted EXCEPT ![key[a]] = accepted[key[a]] + 1]
        BY <1>9 DEF Accept, LoseReply
      <3>3. outlived' = outlived \/ outlived' = [outlived EXCEPT ![key[a]] = TRUE]
        BY <1>9 DEF Accept, LoseReply
      <3>4. accepted' \in [Keys -> Nat]
        BY <3>1, <3>2 DEF StoreOK
      <3>5. outlived' \in [Keys -> BOOLEAN]
        BY <3>1, <3>3 DEF StoreOK
      <3> QED
        BY <3>4, <3>5
    <2>2. StoreOK' /\ WorldOK'
      BY <1>9, <2>1 DEF Accept, LoseReply, Fault, StoreOK, WorldOK
    <2>3. CallOK'
      BY <1>9, <1>statements DEF Accept, LoseReply
    <2> QED
      BY <2>2, <2>3
  <1>10. ASSUME NEW a \in Attempts, Refuse(a) PROVE TypeOK'
    <2>1. StoreOK' /\ WorldOK'
      BY <1>10 DEF Refuse, Fault, StoreOK, WorldOK
    <2>2. CallOK'
      BY <1>10, <1>statements DEF Refuse
    <2> QED
      BY <2>1, <2>2
  <1>11. ASSUME NEW a \in Attempts, Drop(a) PROVE TypeOK'
    <2>1. row' \in [Keys -> Row]
      BY <1>11, Blanks DEF Drop, StoreOK, CallOK
    <2>2. StoreOK' /\ WorldOK'
      BY <1>11, <2>1 DEF Drop, StoreOK, WorldOK
    <2>3. CallOK'
      BY <1>11, <1>answers DEF Drop
    <2> QED
      BY <2>2, <2>3
  <1>12. ASSUME NEW a \in Attempts, Release(a) PROVE TypeOK'
    <2>1. row' \in [Keys -> Row]
      <3>1. key[a] \in Keys /\ row[key[a]] \in Row
        BY DEF StoreOK, CallOK
      <3>2. PICK n \in Nat : row' = [row EXCEPT ![key[a]].claimedAt = n]
        BY <1>12, <3>1 DEF Release, Row
      <3>3. [row[key[a]] EXCEPT !.claimedAt = n] \in Row
        BY <3>1 DEF Row
      <3> QED
        BY <3>1, <3>2, <3>3 DEF StoreOK
    <2>2. StoreOK' /\ WorldOK'
      BY <1>12, <2>1 DEF Release, StoreOK, WorldOK
    <2>3. CallOK'
      BY <1>12, <1>answers DEF Release
    <2> QED
      BY <2>2, <2>3
  <1>13. ASSUME NEW a \in Attempts, CommitSent(a) PROVE
           row' \in [Keys -> Row] /\ published' \in [Keys -> SUBSET Nat]
    <2>1. key[a] \in Keys /\ [row[key[a]] EXCEPT !.status = "sent"] \in Row
      <3>1. key[a] \in Keys /\ row[key[a]] \in Row
        BY DEF StoreOK, CallOK
      <3> QED
        BY <3>1 DEF Row, Final
    <2>2. row' \in [Keys -> Row]
      BY <1>13, <2>1, RowOK DEF CommitSent
    <2>3. published' \in [Keys -> SUBSET Nat]
      BY <1>13, <2>1 DEF CommitSent, StoreOK, CallOK
    <2> QED
      BY <2>2, <2>3
  <1>14. ASSUME NEW a \in Attempts, RecordSent(a) \/ CommitReplyLost(a) PROVE TypeOK'
    <2>1. row' \in [Keys -> Row] /\ published' \in [Keys -> SUBSET Nat]
      BY <1>13, <1>14 DEF RecordSent, CommitReplyLost, StoreOK
    <2>2. StoreOK' /\ WorldOK'
      BY <1>14, <2>1 DEF RecordSent, CommitReplyLost, Fault, StoreOK, WorldOK
    <2>3. CallOK'
      BY <1>14, <1>answers DEF RecordSent, CommitReplyLost, Final
    <2> QED
      BY <2>2, <2>3
  <1>15. ASSUME NEW a \in Attempts, StatementFails(a) \/ Crash(a) PROVE TypeOK'
    <2>1. StoreOK' /\ WorldOK'
      BY <1>15 DEF StatementFails, Crash, Fault, StoreOK, WorldOK
    <2>2. CallOK'
      <3>1. \/ Goto(a, "release")
            \/ \E r \in Answers : Return(a, r)
        BY <1>15, <1>answers DEF StatementFails, Crash
      <3> QED
        BY <3>1, <1>statements
    <2> QED
      BY <2>1, <2>2
  <1>16. ASSUME NEW a \in Attempts, MarkFailed(a) PROVE TypeOK'
    <2> DEFINE k == key[a]
               abandoned == Pending(k) /\ row[k].claimedAt + Lease < now
    <2>1. k \in Keys /\ row[k] \in Row
      BY DEF StoreOK, CallOK
    <2>2. row' = [row EXCEPT ![k].status = IF abandoned THEN "failed" ELSE @]
      BY <1>16 DEF MarkFailed
    <2>3. row' \in [Keys -> Row]
      BY <2>1, <2>2 DEF StoreOK, Row, Final
    <2>4. outlived' \in [Keys -> BOOLEAN]
      BY <1>16 DEF MarkFailed, StoreOK
    <2>5. StoreOK' /\ WorldOK'
      BY <1>16, <2>3, <2>4 DEF MarkFailed, StoreOK, WorldOK
    <2>6. answer' \in [Attempts -> Answers] /\ UNCHANGED <<pc, key, seen, claim>>
      BY <1>16, <1>answers DEF MarkFailed, CallOK
    <2> QED
      BY <2>5, <2>6 DEF CallOK
  <1>17. ASSUME World PROVE TypeOK'
    <2>1. CASE Freeze
      BY <2>1 DEF Freeze, Fault, local, StoreOK, WorldOK, CallOK
    <2>2. CASE Unfreeze
      BY <2>2 DEF Unfreeze, local, StoreOK, WorldOK, CallOK
    <2>3. ASSUME NEW k \in Keys, Bar(k) PROVE TypeOK'
      BY <2>3 DEF Bar, local, StoreOK, WorldOK, CallOK
    <2>4. ASSUME NEW k \in Keys, Erase(k) PROVE TypeOK'
      <3>1. row' \in [Keys -> Row]
        <4>1. PICK n \in BOOLEAN : row' = [row EXCEPT ![k] = [row[k] EXCEPT !.named = n]]
          BY <2>4 DEF Erase, StoreOK, Row
        <4>2. [row[k] EXCEPT !.named = n] \in Row
          BY DEF StoreOK, Row
        <4> QED
          BY <4>1, <4>2 DEF StoreOK
      <3>2. erased' \in SUBSET OfContact /\ erasing' \in SUBSET OfContact
        BY <2>4 DEF Erase, WorldOK
      <3>3. crossed' \in SUBSET Keys
        BY <2>4 DEF Erase, WorldOK
      <3> QED
        BY <2>4, <3>1, <3>2, <3>3 DEF Erase, local, StoreOK, WorldOK, CallOK
    <2>6. ASSUME NEW k \in Keys, EraseScan(k) PROVE TypeOK'
      BY <2>6 DEF EraseScan, local, StoreOK, WorldOK, CallOK
    <2>5. CASE Tick
      BY <2>5 DEF Tick, local, StoreOK, WorldOK, CallOK
    <2> QED
      BY <1>17, <2>1, <2>2, <2>3, <2>4, <2>5, <2>6 DEF World
  <1>18. CASE UNCHANGED vars
    BY <1>18 DEF vars, local, StoreOK, WorldOK, CallOK
  <1> QED
    BY <1>1, <1>2, <1>3, <1>4, <1>5, <1>6, <1>7, <1>8, <1>9, <1>10, <1>11, <1>12,
       <1>14, <1>15, <1>16, <1>17, <1>18, <1>19
       DEF Next, Call, Mishap

\* Every variable keeps the type the schema and the Go code give it.
THEOREM TypeCorrect == Spec => []TypeOK
  <1>1. Init => TypeOK
    BY TypeInit
  <1>2. TypeOK /\ [Next]_vars => TypeOK'
    BY TypeStep
  <1> QED
    BY <1>1, <1>2, PTL DEF Spec

-----------------------------------------------------------------------------
(* OutboundSend implements SendLedger: every step moves at most one key's  *)
(* row, and moves it as the ledger's Claim, Drop or Decide, or not at all. *)

\* What one step may do to the row and the Events of a key.
Inserted(k) ==
  /\ row[k].status = "none" /\ row'[k].status = "pending"
  /\ published'[k] = published[k]
Touched(k) ==
  /\ row'[k].status = row[k].status /\ row'[k].id = row[k].id
  /\ published'[k] = published[k]
Dropped(k) ==
  /\ row[k].status = "pending" /\ row'[k].status = "none"
  /\ published'[k] = published[k]
Decided(k) ==
  /\ row[k].status = "pending" /\ row'[k].status \in {"skipped", "failed"}
  /\ published'[k] = published[k]
Committed(k) ==
  /\ row[k].status = "pending" /\ row'[k].status = "sent"
  /\ row'[k].id = row[k].id
  /\ published'[k] = published[k] \cup {row[k].id}

Moved(k) == Inserted(k) \/ Touched(k) \/ Dropped(k) \/ Decided(k) \/ Committed(k)

\* Only k's row and Events change, and as Moved says.
OnlyMoved(k) ==
  /\ Moved(k)
  /\ row' = [row EXCEPT ![k] = row'[k]]
  /\ published' = [published EXCEPT ![k] = published'[k]]

\* A step that leaves the rows and the Events alone moves nothing.
LEMMA StillMoves ==
  ASSUME TypeOK, NEW k \in Keys, UNCHANGED <<row, published>>
  PROVE  OnlyMoved(k)
  <1>1. row = [row EXCEPT ![k] = row[k]] /\ published = [published EXCEPT ![k] = published[k]]
    BY DEF TypeOK, StoreOK
  <1> QED
    BY <1>1 DEF OnlyMoved, Moved, Touched

\* A step that writes k's row and publishes nothing moves only k.
LEMMA WriteMoves ==
  ASSUME TypeOK, NEW k \in Keys, NEW r, SetRow(k, r), UNCHANGED published
  PROVE  /\ row'[k] = r
         /\ row' = [row EXCEPT ![k] = row'[k]]
         /\ published' = [published EXCEPT ![k] = published'[k]]
  BY DEF TypeOK, StoreOK, SetRow

\* A call's step moves the row of its own key, or nothing.
LEMMA CallMoves ==
  ASSUME TypeOK, NEW a \in Attempts, Call(a) \/ Mishap(a) \/ MarkFailed(a)
  PROVE  OnlyMoved(key[a])
  <1> DEFINE k == key[a]
  <1>k. k \in Keys /\ row[k] \in Row
    BY DEF TypeOK, StoreOK, CallOK
  <1>1. CASE CheckErased(a) \/ Gate(a) \/ Stamp(a) \/ VerifyRefs(a) \/ Refind(a) \/ Adopt(a) \/ Check(a)
             \/ Reserve(a) \/ Accept(a)
    <2>1. UNCHANGED <<row, published>>
      BY <1>1 DEF CheckErased, Gate, Stamp, VerifyRefs, Refind, Adopt, Check, Reserve, Accept
    <2> QED
      BY <2>1, <1>k, StillMoves
  <1>2. CASE ReserveWait(a) \/ LoseReply(a) \/ Refuse(a) \/ StatementFails(a) \/ Crash(a)
    <2>1. UNCHANGED <<row, published>>
      BY <1>2 DEF ReserveWait, LoseReply, Refuse, StatementFails, Crash
    <2> QED
      BY <2>1, <1>k, StillMoves
  <1>3. CASE Insert(a)
    <2>1. CASE row[k].status = "none"
      <3> DEFINE r == [id |-> lastId + 1, status |-> "pending",
                       claimedAt |-> claim[a].token, named |-> k \in OfContact]
      <3>1. SetRow(k, r) /\ UNCHANGED published
        BY <1>3, <2>1 DEF Insert
      <3>2. r.status = "pending"
        OBVIOUS
      <3> QED
        BY <1>k, <2>1, <3>1, <3>2, WriteMoves DEF OnlyMoved, Moved, Inserted
    <2>2. CASE row[k].status # "none"
      <3>1. UNCHANGED <<row, published>>
        BY <1>3, <2>2 DEF Insert
      <3> QED
        BY <3>1, <1>k, StillMoves
    <2> QED
      BY <2>1, <2>2
  <1>4. CASE TakeOver(a)
    <2>1. \/ UNCHANGED <<row, published>>
          \/ SetRow(k, [row[k] EXCEPT !.claimedAt = claim[a].token]) /\ UNCHANGED published
      BY <1>4 DEF TakeOver
    <2>2. LET r == [row[k] EXCEPT !.claimedAt = claim[a].token]
          IN  r.status = row[k].status /\ r.id = row[k].id
      BY <1>k DEF Row
    <2> QED
      BY <1>k, <2>1, <2>2, StillMoves, WriteMoves DEF OnlyMoved, Moved, Touched
  <1>5. CASE Finish(a)
    <2> DEFINE decided == IF At(a, "skip") THEN "skipped" ELSE "failed"
               r == [row[k] EXCEPT !.status = decided]
    <2>1. \/ UNCHANGED <<row, published>>
          \/ Holds(a) /\ SetRow(k, r) /\ UNCHANGED published
      BY <1>5 DEF Finish
    <2>2. r.status \in {"skipped", "failed"}
      BY <1>k DEF Row
    <2>3. Holds(a) => row[k].status = "pending"
      BY DEF Holds, Pending
    <2> QED
      BY <1>k, <2>1, <2>2, <2>3, StillMoves, WriteMoves DEF OnlyMoved, Moved, Decided
  <1>6. CASE Drop(a)
    <2>1. row' = [row EXCEPT ![k] = IF Holds(a) THEN NoRow ELSE row[k]] /\ UNCHANGED published
      BY <1>6 DEF Drop
    <2>2. CASE Holds(a)
      <3>1. SetRow(k, NoRow)
        BY <2>1, <2>2 DEF SetRow
      <3>2. row[k].status = "pending" /\ NoRow.status = "none"
        BY <2>2 DEF Holds, Pending, NoRow
      <3> QED
        BY <1>k, <2>1, <3>1, <3>2, WriteMoves DEF OnlyMoved, Moved, Dropped
    <2>3. CASE ~Holds(a)
      <3>1. UNCHANGED <<row, published>>
        BY <2>1, <2>3, <1>k DEF TypeOK, StoreOK
      <3> QED
        BY <3>1, <1>k, StillMoves
    <2> QED
      BY <2>2, <2>3
  <1>7. CASE Release(a)
    <2>1. PICK n : row' = [row EXCEPT ![k].claimedAt = n]
      BY <1>7 DEF Release
    <2>2. SetRow(k, [row[k] EXCEPT !.claimedAt = n]) /\ UNCHANGED published
      BY <1>7, <2>1 DEF SetRow, Release
    <2>3. LET r == [row[k] EXCEPT !.claimedAt = n]
          IN  r.status = row[k].status /\ r.id = row[k].id
      BY <1>k DEF Row
    <2> QED
      BY <1>k, <2>2, <2>3, WriteMoves DEF OnlyMoved, Moved, Touched
  <1>8. CASE RecordSent(a) \/ CommitReplyLost(a)
    <2>1. \/ UNCHANGED <<row, published>>
          \/ Holds(a) /\ CommitSent(a)
      BY <1>8 DEF RecordSent, CommitReplyLost
    <2>2. CASE Holds(a) /\ CommitSent(a)
      <3>1. row[k].status = "pending" /\ row[k].id = claim[a].id
        BY <2>2 DEF Holds, Pending
      <3>2. /\ row' = [row EXCEPT ![k] = [row[k] EXCEPT !.status = "sent"]]
            /\ published' = [published EXCEPT ![k] = published[k] \cup {row[k].id}]
        BY <2>2, <3>1 DEF CommitSent, SetRow
      <3>3. row'[k] = [row[k] EXCEPT !.status = "sent"] /\ published'[k] = published[k] \cup {row[k].id}
        BY <3>2, <1>k DEF TypeOK, StoreOK
      <3>4. row'[k].status = "sent" /\ row'[k].id = row[k].id
        BY <3>3, <1>k DEF Row
      <3> QED
        BY <3>1, <3>2, <3>3, <3>4 DEF OnlyMoved, Moved, Committed
    <2> QED
      BY <2>1, <2>2, <1>k, StillMoves
  <1>9. CASE MarkFailed(a)
    <2> DEFINE abandoned == Pending(k) /\ row[k].claimedAt + Lease < now
               s == IF abandoned THEN "failed" ELSE row[k].status
               r == [row[k] EXCEPT !.status = s]
    <2>1. SetRow(k, r) /\ UNCHANGED published
      BY <1>9 DEF MarkFailed, SetRow
    <2>2. r.status = s /\ r.id = row[k].id
      BY <1>k DEF Row
    <2>3. abandoned => row[k].status = "pending"
      BY DEF Pending
    <2> HIDE DEF abandoned
    <2> QED
      BY <1>k, <2>1, <2>2, <2>3, WriteMoves DEF OnlyMoved, Moved, Decided, Touched
  <1> QED
    BY <1>1, <1>2, <1>3, <1>4, <1>5, <1>6, <1>7, <1>8, <1>9 DEF Call, Mishap

\* Every step moves at most one row.
LEMMA OneMoves ==
  ASSUME TypeOK, [Next]_vars
  PROVE  UNCHANGED <<row, published>> \/ \E k \in Keys : OnlyMoved(k)
  <1>1. ASSUME NEW a \in Attempts, Call(a) \/ Mishap(a) \/ MarkFailed(a)
        PROVE  \E k \in Keys : OnlyMoved(k)
    <2>1. key[a] \in Keys
      BY DEF TypeOK, CallOK
    <2> QED
      BY <1>1, <2>1, CallMoves
  <1>2. ASSUME NEW a \in Attempts, NEW k \in Keys, Begin(a, k)
        PROVE  UNCHANGED <<row, published>>
    BY <1>2 DEF Begin
  <1>3. ASSUME NEW k \in Keys, Erase(k)
        PROVE  OnlyMoved(k)
    <2>1. PICK n \in BOOLEAN : SetRow(k, [row[k] EXCEPT !.named = n])
      BY <1>3 DEF Erase, SetRow, TypeOK, StoreOK, Row
    <2>3. UNCHANGED published
      BY <1>3 DEF Erase
    <2>2. LET r == [row[k] EXCEPT !.named = n]
          IN  r.status = row[k].status /\ r.id = row[k].id
      BY DEF TypeOK, StoreOK, Row
    <2> QED
      BY <2>1, <2>2, <2>3, WriteMoves DEF OnlyMoved, Moved, Touched
  <1>4. CASE Freeze \/ Unfreeze \/ Tick \/ \E k \in Keys : Bar(k) \/ EraseScan(k)
    BY <1>4 DEF Freeze, Unfreeze, Tick, Bar, EraseScan
  <1>5. CASE UNCHANGED vars
    BY <1>5 DEF vars
  <1> QED
    BY <1>1, <1>2, <1>3, <1>4, <1>5 DEF Next, World

-----------------------------------------------------------------------------

\* email.sent is published exactly with the record Sent.
LEMMA EventStep == TypeOK /\ EventIffSent /\ [Next]_vars => EventIffSent'
  <1> SUFFICES ASSUME TypeOK, EventIffSent, [Next]_vars, NEW j \in Keys
               PROVE  published'[j] = IF row'[j].status = "sent" THEN {row'[j].id} ELSE {}
    BY DEF EventIffSent
  <1>1. published[j] = IF row[j].status = "sent" THEN {row[j].id} ELSE {}
    BY DEF EventIffSent
  <1>2. CASE UNCHANGED <<row, published>>
    BY <1>1, <1>2
  <1>3. ASSUME NEW k \in Keys, OnlyMoved(k)
        PROVE  published'[j] = IF row'[j].status = "sent" THEN {row'[j].id} ELSE {}
    <2>1. CASE j # k
      BY <1>1, <1>3, <2>1 DEF OnlyMoved, TypeOK, StoreOK
    <2>2. CASE j = k
      BY <1>1, <1>3, <2>2 DEF OnlyMoved, Moved, Inserted, Touched, Dropped, Decided, Committed
    <2> QED
      BY <2>1, <2>2
  <1> QED
    BY <1>2, <1>3, OneMoves

\* The row and the Event log agree in every reachable state (recordSent).
THEOREM EventsMatchRecords == Spec => []EventIffSent
  <1>1. Init => TypeOK /\ EventIffSent
    <2>1. Init => EventIffSent
      BY DEF Init, EventIffSent, NoRow
    <2> QED
      BY <2>1, TypeInit
  <1>2. TypeOK /\ EventIffSent /\ [Next]_vars => (TypeOK /\ EventIffSent)'
    BY TypeStep, EventStep
  <1> QED
    BY <1>1, <1>2, PTL DEF Spec

\* The ledger's view of the state.
LEMMA LedgerInit == Init => Ledger!Init
  <1> SUFFICES ASSUME Init PROVE Ledger!Init
    OBVIOUS
  <1>1. \A k \in Keys : row[k].status = "none" /\ published[k] = {}
    BY DEF Init, NoRow
  <1>2. [k \in Keys |-> row[k].status] = [k \in Keys |-> "none"]
    BY <1>1
  <1>3. [k \in Keys |-> published[k] # {}] = [k \in Keys |-> FALSE]
    <2>1. \A k \in Keys : (published[k] # {}) = FALSE
      BY <1>1
    <2> QED
      BY <2>1
  <1> QED
    BY <1>2, <1>3 DEF Ledger!Init

\* A step of Outbound send is a step of the ledger, or none.
LEMMA LedgerStep ==
  TypeOK /\ EventIffSent /\ EventIffSent' /\ [Next]_vars => [Ledger!Next]_(Ledger!ledger)
  <1> SUFFICES ASSUME TypeOK, EventIffSent, EventIffSent', [Next]_vars
               PROVE  [Ledger!Next]_(Ledger!ledger)
    OBVIOUS
  <1> DEFINE status == [k \in Keys |-> row[k].status]
             announced == [k \in Keys |-> published[k] # {}]
  <1>1. CASE UNCHANGED <<row, published>>
    BY <1>1 DEF Ledger!ledger
  <1>2. ASSUME NEW k \in Keys, OnlyMoved(k) PROVE [Ledger!Next]_(Ledger!ledger)
    <2>1. /\ status' = [status EXCEPT ![k] = row'[k].status]
          /\ announced' = [announced EXCEPT ![k] = published'[k] # {}]
      BY <1>2 DEF OnlyMoved, TypeOK, StoreOK
    <2>2. status[k] = row[k].status /\ announced[k] = (published[k] # {})
      OBVIOUS
    <2>3. CASE published'[k] = published[k] /\ row'[k].status = row[k].status
      <3>1. status' = status /\ announced' = announced
        BY <2>1, <2>2, <2>3
      <3> QED
        BY <3>1 DEF Ledger!ledger
    <2>4. CASE Inserted(k)
      <3>1. announced' = announced
        BY <2>1, <2>2, <2>4 DEF Inserted
      <3>2. Ledger!Claim(k)
        BY <2>1, <2>2, <2>4, <3>1 DEF Inserted, Ledger!Claim
      <3> QED
        BY <3>2 DEF Ledger!Next
    <2>5. CASE Dropped(k)
      <3>1. announced' = announced
        BY <2>1, <2>2, <2>5 DEF Dropped
      <3>2. Ledger!Drop(k)
        BY <2>1, <2>2, <2>5, <3>1 DEF Dropped, Ledger!Drop
      <3> QED
        BY <3>2 DEF Ledger!Next
    <2>6. CASE Decided(k) \/ Committed(k)
      <3>1. PICK s \in Ledger!Final : row'[k].status = s
        BY <2>6 DEF Decided, Committed, Ledger!Final
      <3>2. status[k] = "pending"
        BY <2>2, <2>6 DEF Decided, Committed
      <3>3. (published'[k] # {}) = (s = "sent")
        BY <3>1 DEF EventIffSent
      <3>4. Ledger!Decide(k, s)
        BY <2>1, <3>1, <3>2, <3>3 DEF Ledger!Decide
      <3> QED
        BY <3>4 DEF Ledger!Next
    <2> QED
      BY <1>2, <2>3, <2>4, <2>5, <2>6 DEF OnlyMoved, Moved, Touched
  <1> QED
    BY <1>1, <1>2, OneMoves

\* Outbound send implements the ledger the sending surfaces rely on.
THEOREM ImplementsLedger == Spec => LedgerSpec
  <1>1. Init => TypeOK /\ EventIffSent /\ Ledger!Init
    <2>1. Init => EventIffSent
      BY DEF Init, EventIffSent, NoRow
    <2> QED
      BY <2>1, TypeInit, LedgerInit
  <1>2. TypeOK /\ EventIffSent /\ [Next]_vars => (TypeOK /\ EventIffSent)'
    BY TypeStep, EventStep
  <1>3. TypeOK /\ EventIffSent /\ EventIffSent' /\ [Next]_vars => [Ledger!Next]_(Ledger!ledger)
    BY LedgerStep
  <1> QED
    BY <1>1, <1>2, <1>3, PTL DEF Spec, LedgerSpec, Ledger!Spec

-----------------------------------------------------------------------------
(* The fence of claim.go: what Outbound send and the email provider agree  *)
(* on under a key whose claim never expired.                               *)

\* A call of key k that believes it holds the claim.
OnKey(a, k) == key[a] = k /\ pc[a] \in Claimed

\* Every such call passes the fence, with a token no release wrote, and there
\* is at most one.
Sole(k) ==
  /\ \A a \in Attempts : OnKey(a, k) => Holds(a) /\ claim[a].token > 0
  /\ \A a, b \in Attempts : OnKey(a, k) /\ OnKey(b, k) => a = b

\* An accepted message is recorded, or its row is claimed, and whoever may hold
\* the claim is about to record it.
Owed(k) ==
  \/ accepted[k] = 0
  \/ /\ accepted[k] = 1
     /\ \/ row[k].status = "sent"
        \/ /\ Pending(k) /\ row[k].claimedAt > 0
           /\ \A a \in Attempts : OnKey(a, k) => At(a, "record")

Fenced(k) == ~outlived[k] => Sole(k) /\ Owed(k)

\* Whoever records a message, and whatever is recorded, was accepted.
Backed ==
  /\ \A a \in Attempts : At(a, "record") => accepted[key[a]] > 0
  /\ \A k \in Keys : row[k].status = "sent" => accepted[k] > 0

\* A call that has read its clock carries a time of the past, a lease away from
\* the claim it means to take over.
Stamped(a) ==
  /\ pc[a] \in {"verify", "insert", "takeover"} => claim[a].token \in 1..now
  /\ At(a, "takeover") => seen[a].claimedAt + Lease <= claim[a].token

FenceInv ==
  /\ now > 0 /\ Backed
  /\ \A a \in Attempts : Stamped(a)
  /\ \A k \in Keys : Fenced(k)

\* A step of a's call leaves the other calls and the other keys alone.
Elsewhere(a) ==
  /\ key' = key /\ now' = now
  /\ \A b \in Attempts \ {a} : pc'[b] = pc[b] /\ claim'[b] = claim[b] /\ seen'[b] = seen[b]
  /\ \A k \in Keys \ {key[a]} :
       row'[k] = row[k] /\ accepted'[k] = accepted[k] /\ outlived'[k] = outlived[k]

Stepped(a) == Call(a) \/ Mishap(a) \/ MarkFailed(a)

\* What Goto and Return do to the calls.
LEMMA GotoSets ==
  ASSUME CallOK, NEW a \in Attempts, NEW s, Goto(a, s)
  PROVE  /\ pc'[a] = s /\ claim' = claim /\ key' = key /\ seen' = seen
         /\ \A b \in Attempts \ {a} : pc'[b] = pc[b]
  BY DEF CallOK, Goto

\* Returning makes the call idle and touches no other.
LEMMA ReturnSets ==
  ASSUME CallOK, NEW a \in Attempts, NEW r, Return(a, r)
  PROVE  /\ pc'[a] = "idle" /\ key' = key
         /\ \A b \in Attempts \ {a} : pc'[b] = pc[b] /\ claim'[b] = claim[b] /\ seen'[b] = seen[b]
  BY DEF CallOK, Return

\* A step of a call is local to the call and its key.
LEMMA Local ==
  ASSUME TypeOK, NEW a \in Attempts, Stepped(a)
  PROVE  Elsewhere(a)
  <1> USE DEF Stepped
  <1>t. StoreOK /\ CallOK
    BY DEF TypeOK
  <1>1. \A k \in Keys \ {key[a]} : row'[k] = row[k]
    BY CallMoves, <1>t DEF OnlyMoved, StoreOK
  <1>2. /\ key' = key
        /\ \A b \in Attempts \ {a} : pc'[b] = pc[b] /\ claim'[b] = claim[b] /\ seen'[b] = seen[b]
    <2> USE <1>t, GotoSets, ReturnSets
    <2>1. CASE CheckErased(a) \/ Gate(a) \/ VerifyRefs(a)
      BY <2>1 DEF CheckErased, Gate, VerifyRefs
    <2>10. CASE Stamp(a)
      BY <2>10 DEF Stamp, CallOK
    <2>2. CASE Insert(a)
      BY <2>2 DEF Insert, CallOK
    <2>3. CASE Refind(a)
      <3>1. \/ \E r : Return(a, r)
            \/ \E r : /\ pc' = [pc EXCEPT ![a] = "stamp"] /\ UNCHANGED <<key, claim>>
                      /\ seen' = [seen EXCEPT ![a] = r]
        BY <2>3 DEF Refind
      <3> QED
        BY <3>1 DEF CallOK
    <2>4. CASE TakeOver(a)
      <3>1. \/ Return(a, "in_progress")
            \/ /\ pc' = [pc EXCEPT ![a] = "adopt"] /\ UNCHANGED key
               /\ claim' = [claim EXCEPT ![a].id = row[key[a]].id]
               /\ seen' = [seen EXCEPT ![a] = NoRow]
        BY <2>4 DEF TakeOver
      <3> QED
        BY <3>1 DEF CallOK
    <2>5. CASE Adopt(a)
      <3>1. \/ Return(a, "error")
            \/ /\ pc' = [pc EXCEPT ![a] = "check"] /\ UNCHANGED <<key, seen>>
               /\ claim' = [claim EXCEPT ![a].token = row[key[a]].claimedAt]
        BY <2>5 DEF Adopt
      <3> QED
        BY <3>1 DEF CallOK
    <2>6. CASE Check(a) \/ Reserve(a) \/ ReserveWait(a) \/ Accept(a) \/ LoseReply(a) \/ Refuse(a)
      <3>1. \E s : Goto(a, s)
        BY <2>6 DEF Check, Reserve, ReserveWait, Accept, LoseReply, Refuse
      <3> QED
        BY <3>1
    <2>7. CASE Finish(a) \/ Drop(a) \/ Release(a) \/ RecordSent(a) \/ CommitReplyLost(a) \/ Crash(a)
      <3>1. \E r : Return(a, r)
        BY <2>7 DEF Finish, Drop, Release, RecordSent, CommitReplyLost, Crash
      <3> QED
        BY <3>1
    <2>8. CASE StatementFails(a)
      <3>1. Goto(a, "release") \/ \E r : Return(a, r)
        BY <2>8 DEF StatementFails
      <3> QED
        BY <3>1
    <2>9. CASE MarkFailed(a)
      BY <2>9 DEF MarkFailed
    <2> QED
      BY <2>1, <2>2, <2>3, <2>4, <2>5, <2>6, <2>7, <2>8, <2>9, <2>10 DEF Call, Mishap
  <1>3. now' = now
    BY DEF Call, Mishap, CheckErased, Gate, Stamp, VerifyRefs, Insert, Refind, TakeOver, Adopt, Check,
           Finish, Reserve, ReserveWait, Accept, LoseReply, Refuse, Drop, Release, RecordSent,
           CommitReplyLost, StatementFails, Crash, MarkFailed
  <1>4. \/ accepted' = accepted
        \/ accepted' = [accepted EXCEPT ![key[a]] = @ + 1]
    BY DEF Call, Mishap, CheckErased, Gate, Stamp, VerifyRefs, Insert, Refind, TakeOver, Adopt, Check,
           Finish, Reserve, ReserveWait, Accept, LoseReply, Refuse, Drop, Release, RecordSent,
           CommitReplyLost, StatementFails, Crash, MarkFailed
  <1>5. \/ outlived' = outlived
        \/ \E x : outlived' = [outlived EXCEPT ![key[a]] = x]
    BY DEF Call, Mishap, CheckErased, Gate, Stamp, VerifyRefs, Insert, Refind, TakeOver, Adopt, Check,
           Finish, Reserve, ReserveWait, Accept, LoseReply, Refuse, Drop, Release, RecordSent,
           CommitReplyLost, StatementFails, Crash, MarkFailed
  <1>6. \A k \in Keys \ {key[a]} : accepted'[k] = accepted[k] /\ outlived'[k] = outlived[k]
    BY <1>4, <1>5, <1>t DEF StoreOK
  <1> QED
    BY <1>1, <1>2, <1>3, <1>6 DEF Elsewhere
-----------------------------------------------------------------------------
(* Fenced, for the key of the call that steps.                             *)

\* The fence at other keys does not notice the step.
LEMMA OthersFenced ==
  ASSUME TypeOK, NEW a \in Attempts, Elsewhere(a), NEW k \in Keys \ {key[a]}, Fenced(k)
  PROVE  Fenced(k)'
  <1>1. \A b \in Attempts : OnKey(b, k) => b # a
    BY DEF OnKey
  <1>2. \A b \in Attempts : OnKey(b, k)' <=> OnKey(b, k)
    BY DEF OnKey, Elsewhere
  <1>3. \A b \in Attempts : OnKey(b, k) => (Holds(b)' <=> Holds(b)) /\ claim'[b] = claim[b]
    BY <1>1 DEF OnKey, Holds, Pending, Elsewhere
  <1>4. \A b \in Attempts : OnKey(b, k) => (At(b, "record")' <=> At(b, "record"))
    BY <1>1 DEF OnKey, At, Elsewhere
  <1>5. Sole(k) => Sole(k)'
    BY <1>2, <1>3 DEF Sole
  <1>6. Owed(k) => Owed(k)'
    BY <1>2, <1>4 DEF Owed, Pending, Elsewhere
  <1> QED
    BY <1>5, <1>6 DEF Fenced, Elsewhere

\* A call that is, after the step, not holding anything, and wrote nothing.
LEMMA FadesFenced ==
  ASSUME TypeOK, NEW a \in Attempts, Elsewhere(a), NEW k \in Keys, k = key[a], Fenced(k),
         pc'[a] \notin Claimed,
         row'[k] = row[k], accepted'[k] = accepted[k], outlived'[k] = outlived[k]
  PROVE  Fenced(k)'
  <1>2. \A b \in Attempts : OnKey(b, k)' => OnKey(b, k) /\ b # a
    BY DEF OnKey, Elsewhere
  <1>3. \A b \in Attempts : OnKey(b, k)' => (Holds(b)' <=> Holds(b)) /\ claim'[b] = claim[b]
    BY <1>2 DEF OnKey, Holds, Pending, Elsewhere
  <1>4. \A b \in Attempts : OnKey(b, k)' => (At(b, "record")' <=> At(b, "record"))
    BY <1>2 DEF OnKey, At, Elsewhere
  <1>5. Sole(k) => Sole(k)'
    BY <1>2, <1>3 DEF Sole
  <1>6. Owed(k) => Owed(k)'
    BY <1>2, <1>4 DEF Owed, Pending, Elsewhere
  <1> QED
    BY <1>5, <1>6 DEF Fenced, Elsewhere

\* Before it records, a call that holds its claim has nothing accepted.
LEMMA NothingAccepted ==
  ASSUME TypeOK, NEW a \in Attempts, NEW k \in Keys, OnKey(a, k), ~At(a, "record"),
         Sole(k), Owed(k)
  PROVE  accepted[k] = 0
  <1>1. row[k].status = "pending"
    BY DEF Sole, OnKey, Holds, Pending
  <1> QED
    BY <1>1 DEF Owed

\* A call that goes on with the claim it has.
LEMMA ProceedsFenced ==
  ASSUME TypeOK, NEW a \in Attempts, Elsewhere(a), NEW k \in Keys, OnKey(a, k), Fenced(k),
         ~At(a, "record"), pc'[a] \in Claimed, claim'[a] = claim[a],
         row'[k] = row[k], accepted'[k] = accepted[k], outlived'[k] = outlived[k]
  PROVE  Fenced(k)'
  <1> SUFFICES ASSUME ~outlived[k] PROVE Sole(k)' /\ Owed(k)'
    BY DEF Fenced
  <1>1. Sole(k) /\ Owed(k)
    BY DEF Fenced
  <1>2. \A b \in Attempts : OnKey(b, k)' <=> OnKey(b, k)
    BY DEF OnKey, Elsewhere
  <1>3. \A b \in Attempts : claim'[b] = claim[b]
    BY DEF Elsewhere
  <1>4. \A b \in Attempts : OnKey(b, k) => (Holds(b)' <=> Holds(b))
    BY <1>3 DEF OnKey, Holds, Pending, Elsewhere
  <1>5. Sole(k)'
    BY <1>1, <1>2, <1>3, <1>4 DEF Sole
  <1>6. accepted[k] = 0
    BY <1>1, NothingAccepted
  <1> QED
    BY <1>5, <1>6 DEF Owed

\* A call that gives its claim up, whatever it writes.
LEMMA EndsFenced ==
  ASSUME TypeOK, NEW a \in Attempts, Elsewhere(a), NEW k \in Keys, OnKey(a, k), Fenced(k),
         pc'[a] \notin Claimed, accepted'[k] = accepted[k], outlived'[k] = outlived[k],
         At(a, "record") => row'[k].status = "sent"
  PROVE  Fenced(k)'
  <1> SUFFICES ASSUME ~outlived[k] PROVE Sole(k)' /\ Owed(k)'
    BY DEF Fenced
  <1>1. Sole(k) /\ Owed(k)
    BY DEF Fenced
  <1>2. \A b \in Attempts : ~OnKey(b, k)'
    BY <1>1 DEF Sole, OnKey, Elsewhere
  <1>3. Sole(k)'
    BY <1>2 DEF Sole
  <1>4. At(a, "record") => Owed(k)'
    BY <1>1 DEF Owed
  <1>5. ~At(a, "record") => accepted[k] = 0
    BY <1>1, NothingAccepted
  <1>6. ~At(a, "record") => Owed(k)'
    BY <1>5 DEF Owed
  <1> QED
    BY <1>3, <1>4, <1>6

\* A row nobody can hold: absent, released, or decided without being sent.
LEMMA NobodyHolds ==
  ASSUME TypeOK, NEW k \in Keys, Sole(k), Owed(k), row[k].status # "sent",
         row[k].status = "pending" => row[k].claimedAt = 0
  PROVE  (\A b \in Attempts : ~OnKey(b, k)) /\ accepted[k] = 0
  <1>1. \A b \in Attempts : ~OnKey(b, k)
    BY DEF Sole, OnKey, Holds, Pending, TypeOK, CallOK
  <1> QED
    BY <1>1 DEF Owed, Pending

\* A call that takes a claim nobody can hold.
LEMMA TakesFenced ==
  ASSUME TypeOK, NEW a \in Attempts, Elsewhere(a), NEW k \in Keys, k = key[a], Fenced(k),
         row[k].status # "sent", row[k].status = "pending" => row[k].claimedAt = 0,
         pc'[a] \in Claimed, Holds(a)', claim'[a].token > 0,
         accepted'[k] = accepted[k], outlived'[k] = outlived[k]
  PROVE  Fenced(k)'
  <1> SUFFICES ASSUME ~outlived[k] PROVE Sole(k)' /\ Owed(k)'
    BY DEF Fenced
  <1>1. (\A b \in Attempts : ~OnKey(b, k)) /\ accepted[k] = 0
    BY NobodyHolds DEF Fenced
  <1>2. \A b \in Attempts : OnKey(b, k)' => b = a
    BY <1>1 DEF OnKey, Elsewhere
  <1> QED
    BY <1>1, <1>2 DEF Sole, Owed

\* The key of the call that steps stays fenced.
LEMMA OwnFenced ==
  ASSUME TypeOK, FenceInv, NEW a \in Attempts, Stepped(a), NEW k \in Keys, k = key[a]
  PROVE  Fenced(k)'
  <1>t. StoreOK /\ CallOK /\ k = key[a] /\ row[k] \in Row
    BY DEF TypeOK, StoreOK, CallOK
  <1>e. Elsewhere(a) /\ key' = key /\ Fenced(k)
    BY <1>t, Local DEF FenceInv, Elsewhere
  <1>c. pc[a] \in Claimed => OnKey(a, k)
    BY DEF OnKey
  <1> USE <1>t, <1>e, <1>c, GotoSets, ReturnSets, FadesFenced, ProceedsFenced, EndsFenced
  <1>u. /\ "idle" \notin Claimed
        /\ \A s \in Unclaimed : s \notin Claimed
    BY DEF Unclaimed, Claimed
  <1>1. CASE CheckErased(a) \/ Gate(a) \/ Stamp(a) \/ VerifyRefs(a)
    <2>1. pc'[a] \notin Claimed
      <3>1. CASE Stamp(a)
        BY <3>1, <1>u DEF Stamp, CallOK, Unclaimed
      <3>2. CASE ~Stamp(a)
        BY <1>1, <1>u, <3>2 DEF CheckErased, Gate, VerifyRefs, Unclaimed
      <3> QED
        BY <3>1, <3>2
    <2>2. row' = row /\ accepted' = accepted /\ outlived' = outlived
      BY <1>1 DEF CheckErased, Gate, Stamp, VerifyRefs
    <2> QED
      BY <2>1, <2>2
  <1>2. CASE Refind(a)
    <2>1. pc'[a] \notin Claimed
      <3>1. (\E r : Return(a, r)) \/ pc' = [pc EXCEPT ![a] = "stamp"]
        BY <1>2 DEF Refind
      <3> QED
        BY <3>1, <1>u DEF CallOK, Unclaimed
    <2>2. row' = row /\ accepted' = accepted /\ outlived' = outlived
      BY <1>2 DEF Refind
    <2> QED
      BY <2>1, <2>2
  <1>3. CASE Insert(a)
    <2>1. CASE row[k].status = "none"
      <3> DEFINE r == [id |-> lastId + 1, status |-> "pending",
                       claimedAt |-> claim[a].token, named |-> k \in OfContact]
      <3>1. /\ SetRow(k, r) /\ pc' = [pc EXCEPT ![a] = "check"]
            /\ claim' = [claim EXCEPT ![a].id = lastId + 1]
            /\ accepted' = accepted /\ outlived' = outlived /\ At(a, "insert")
        BY <1>3, <2>1 DEF Insert
      <3>2. row'[k] = r /\ claim'[a] = [id |-> lastId + 1, token |-> claim[a].token]
        BY <3>1 DEF SetRow, StoreOK, CallOK
      <3>3. Holds(a)'
        BY <3>2 DEF Holds, Pending
      <3>4. pc'[a] \in Claimed /\ claim'[a].token > 0
        BY <3>1, <3>2 DEF Claimed, CallOK, FenceInv, Stamped, At
      <3> QED
        BY <2>1, <3>1, <3>3, <3>4, TakesFenced
    <2>2. CASE row[k].status # "none"
      <3>1. /\ pc' = [pc EXCEPT ![a] = "refind"] /\ row' = row
            /\ accepted' = accepted /\ outlived' = outlived
        BY <1>3, <2>2 DEF Insert
      <3>2. pc'[a] \notin Claimed
        BY <3>1, <1>u DEF CallOK, Unclaimed
      <3> QED
        BY <3>1, <3>2
    <2> QED
      BY <2>1, <2>2
  <1>4. CASE TakeOver(a)
    <2> DEFINE r == [row[k] EXCEPT !.claimedAt = claim[a].token]
    <2>1. \/ Return(a, "in_progress") /\ row' = row /\ accepted' = accepted /\ outlived' = outlived
          \/ /\ SetRow(k, r) /\ pc' = [pc EXCEPT ![a] = "adopt"]
             /\ claim' = [claim EXCEPT ![a].id = row[k].id] /\ At(a, "takeover")
             /\ outlived' = [outlived EXCEPT ![k] = outlived[k] \/ row[k].claimedAt # 0]
             /\ row[k].status = "pending" /\ accepted' = accepted
      BY <1>4 DEF TakeOver, Pending
    <2>2. CASE Return(a, "in_progress") /\ row' = row /\ accepted' = accepted /\ outlived' = outlived
      BY <2>2, <1>u
    <2>3. CASE /\ SetRow(k, r) /\ pc' = [pc EXCEPT ![a] = "adopt"]
               /\ claim' = [claim EXCEPT ![a].id = row[k].id] /\ At(a, "takeover")
               /\ outlived' = [outlived EXCEPT ![k] = outlived[k] \/ row[k].claimedAt # 0]
               /\ row[k].status = "pending" /\ accepted' = accepted
      <3>1. row'[k] = r /\ claim'[a] = [id |-> row[k].id, token |-> claim[a].token]
        BY <2>3 DEF SetRow, StoreOK, CallOK
      <3>2. Holds(a)'
        BY <2>3, <3>1 DEF Holds, Pending, Row
      <3>3. pc'[a] \in Claimed /\ claim'[a].token > 0
        BY <2>3, <3>1 DEF Claimed, CallOK, FenceInv, Stamped, At
      <3>4. outlived'[k] = (outlived[k] \/ row[k].claimedAt # 0)
        BY <2>3 DEF StoreOK
      <3>5. CASE outlived[k] \/ row[k].claimedAt # 0
        BY <3>4, <3>5 DEF Fenced
      <3>6. CASE ~outlived[k] /\ row[k].claimedAt = 0
        <4>1. outlived'[k] = outlived[k] /\ accepted'[k] = accepted[k]
          <5>1. outlived[k] \in BOOLEAN /\ outlived'[k] = FALSE
            BY <3>4, <3>6 DEF StoreOK
          <5> QED
            BY <2>3, <3>6, <5>1
        <4>2. row[k].status # "sent" /\ row[k].claimedAt = 0
          BY <2>3, <3>6
        <4> QED
          BY <3>2, <3>3, <4>1, <4>2, TakesFenced
      <3> QED
        BY <3>5, <3>6
    <2> QED
      BY <2>1, <2>2, <2>3
  <1>5. CASE Adopt(a)
    <2>1. row' = row /\ accepted' = accepted /\ outlived' = outlived /\ At(a, "adopt")
      BY <1>5 DEF Adopt
    <2>2. CASE row[k].id = claim[a].id
      <3>1. /\ pc' = [pc EXCEPT ![a] = "check"]
            /\ claim' = [claim EXCEPT ![a].token = row[k].claimedAt]
        BY <1>5, <2>2 DEF Adopt
      <3>2. OnKey(a, k) /\ ~At(a, "record") /\ pc'[a] \in Claimed
        BY <2>1, <3>1 DEF At, OnKey, Claimed, CallOK
      <3>3. CASE outlived[k]
        BY <2>1, <3>3 DEF Fenced
      <3>4. CASE ~outlived[k]
        <4>1. row[k].claimedAt = claim[a].token
          <5>1. Sole(k)
            BY <3>4 DEF Fenced
          <5>2. Holds(a)
            BY <3>2, <5>1 DEF Sole
          <5> QED
            BY <5>2 DEF Holds
        <4>2. claim'[a] = claim[a]
          BY <3>1, <4>1 DEF CallOK
        <4> QED
          BY <2>1, <3>2, <4>2
      <3> QED
        BY <3>3, <3>4
    <2>3. CASE row[k].id # claim[a].id
      <3>1. Return(a, "error")
        BY <1>5, <2>3 DEF Adopt
      <3> QED
        BY <2>1, <3>1, <1>u
    <2> QED
      BY <2>2, <2>3
  <1>6. CASE Check(a) \/ Reserve(a) \/ ReserveWait(a) \/ Refuse(a)
    <2>1. /\ row' = row /\ accepted' = accepted /\ outlived' = outlived
          /\ pc[a] \in {"check", "reserve", "provider"}
          /\ \E s \in Claimed : Goto(a, s)
      BY <1>6 DEF Check, Reserve, ReserveWait, Refuse, At, Claimed
    <2>2. OnKey(a, k) /\ ~At(a, "record")
      BY <2>1 DEF OnKey, At, Claimed
    <2> QED
      BY <2>1, <2>2
  <1>7. CASE Accept(a)
    <2>1. /\ row' = row /\ outlived' = outlived /\ At(a, "provider") /\ Goto(a, "record")
          /\ accepted' = [accepted EXCEPT ![k] = accepted[k] + 1]
      BY <1>7 DEF Accept
    <2>2. OnKey(a, k) /\ ~At(a, "record")
      BY <2>1 DEF OnKey, At, Claimed
    <2> SUFFICES ASSUME ~outlived[k] PROVE Sole(k)' /\ Owed(k)'
      BY <2>1 DEF Fenced
    <2>3. Sole(k) /\ accepted[k] = 0
      BY <2>2, NothingAccepted DEF Fenced
    <2>4. \A b \in Attempts : OnKey(b, k)' <=> b = a
      BY <2>1, <2>2, <2>3 DEF Sole, OnKey, Elsewhere, Claimed
    <2>5. Holds(a)' /\ claim' = claim
      BY <2>1, <2>2, <2>3 DEF Sole, OnKey, Holds, Pending
    <2>6. Sole(k)'
      BY <2>2, <2>3, <2>4, <2>5 DEF Sole
    <2>7. accepted'[k] = 1 /\ At(a, "record")'
      BY <2>1, <2>3 DEF StoreOK, At
    <2>8. row[k].status = "pending" /\ row[k].claimedAt > 0
      BY <2>2, <2>3 DEF Sole, Holds, Pending, OnKey
    <2>9. Owed(k)'
      BY <2>1, <2>4, <2>7, <2>8 DEF Owed, Pending
    <2> QED
      BY <2>6, <2>9
  <1>8. CASE LoseReply(a)
    <2>1. outlived'[k] = TRUE
      BY <1>8 DEF LoseReply, StoreOK
    <2> QED
      BY <2>1 DEF Fenced
  <1>9. CASE Finish(a) \/ Drop(a) \/ Release(a)
    <2>1. /\ pc[a] \in {"skip", "fail", "hold", "defer", "release"}
          /\ accepted' = accepted /\ outlived' = outlived
          /\ \E r : Return(a, r)
      BY <1>9 DEF Finish, Drop, Release, At
    <2>2. OnKey(a, k) /\ ~At(a, "record") /\ pc'[a] \notin Claimed
      BY <2>1, <1>u DEF OnKey, At, Claimed
    <2> QED
      BY <2>1, <2>2
  <1>10. CASE RecordSent(a) \/ CommitReplyLost(a)
    <2>1. /\ At(a, "record") /\ accepted' = accepted /\ outlived' = outlived
          /\ \E r : Return(a, r)
          /\ row' = row \/ CommitSent(a)
      BY <1>10 DEF RecordSent, CommitReplyLost
    <2>2. OnKey(a, k) /\ pc'[a] \notin Claimed
      BY <2>1, <1>u DEF OnKey, At, Claimed
    <2>3. CASE CommitSent(a)
      <3>1. row'[k].status = "sent"
        BY <2>3 DEF CommitSent, SetRow, StoreOK, Row
      <3> QED
        BY <2>1, <2>2, <3>1
    <2>4. CASE row' = row
      BY <2>1, <2>2, <2>4
    <2> QED
      BY <2>1, <2>3, <2>4
  <1>11. CASE StatementFails(a)
    <2>1. /\ row' = row /\ accepted' = accepted /\ outlived' = outlived
          /\ \/ pc[a] \in {"check", "reserve"} /\ Goto(a, "release")
             \/ \E r : Return(a, r)
      BY <1>11 DEF StatementFails
    <2>2. CASE pc[a] \in {"check", "reserve"} /\ Goto(a, "release")
      <3>1. OnKey(a, k) /\ ~At(a, "record") /\ "release" \in Claimed
        BY <2>2 DEF OnKey, At, Claimed
      <3> QED
        BY <2>1, <2>2, <3>1
    <2>3. CASE \E r : Return(a, r)
      BY <2>1, <2>3, <1>u
    <2> QED
      BY <2>1, <2>2, <2>3
  <1>12. CASE Crash(a)
    <2>1. row' = row /\ accepted' = accepted /\ outlived' = outlived /\ \E r : Return(a, r)
      BY <1>12 DEF Crash
    <2> QED
      BY <2>1, <1>u
  <1>13. CASE MarkFailed(a)
    <2> DEFINE abandoned == Pending(k) /\ row[k].claimedAt + Lease < now
    <2>1. /\ row' = [row EXCEPT ![k].status = IF abandoned THEN "failed" ELSE row[k].status]
          /\ outlived' = [outlived EXCEPT ![k] = outlived[k] \/ (abandoned /\ row[k].claimedAt # 0)]
          /\ accepted' = accepted /\ At(a, "idle") /\ UNCHANGED <<pc, claim>>
      BY <1>13 DEF MarkFailed
    <2>2. /\ row'[k] = [row[k] EXCEPT !.status = IF abandoned THEN "failed" ELSE row[k].status]
          /\ outlived'[k] = (outlived[k] \/ (abandoned /\ row[k].claimedAt # 0))
      BY <2>1 DEF StoreOK
    <2>3. pc'[a] \notin Claimed
      BY <2>1, <1>u DEF At
    <2>4. CASE ~abandoned
      <3>1. row'[k] = row[k] /\ outlived'[k] = outlived[k]
        BY <2>2, <2>4 DEF Row, StoreOK
      <3> QED
        BY <2>1, <2>3, <3>1
    <2>5. CASE outlived[k] \/ (abandoned /\ row[k].claimedAt # 0)
      BY <2>2, <2>5 DEF Fenced
    <2>6. CASE abandoned /\ row[k].claimedAt = 0 /\ ~outlived[k]
      <3>1. (\A b \in Attempts : ~OnKey(b, k)) /\ accepted[k] = 0
        BY <2>6, NobodyHolds DEF Fenced, Pending
      <3>2. \A b \in Attempts : ~OnKey(b, k)'
        BY <3>1, <2>1 DEF OnKey
      <3> QED
        BY <2>1, <3>1, <3>2 DEF Fenced, Sole, Owed
    <2> QED
      BY <2>4, <2>5, <2>6
  <1> QED
    BY <1>1, <1>2, <1>3, <1>4, <1>5, <1>6, <1>7, <1>8, <1>9, <1>10, <1>11, <1>12, <1>13
       DEF Stepped, Call, Mishap

-----------------------------------------------------------------------------
(* The invariant is inductive.                                             *)

\* Only recordSent makes a row Sent.
LEMMA OnlyRecordSends ==
  ASSUME TypeOK, NEW a \in Attempts, Stepped(a), row'[key[a]].status = "sent"
  PROVE  row[key[a]].status = "sent" \/ At(a, "record")
  <1> DEFINE k == key[a]
  <1>t. StoreOK /\ k \in Keys /\ row[k] \in Row
    BY DEF TypeOK, StoreOK, CallOK
  <1> SUFFICES \/ row' = row \/ At(a, "record")
               \/ \E r : /\ row' = [row EXCEPT ![k] = r]
                       /\ r.status \in {row[k].status, "none", "pending", "skipped", "failed"}
    BY <1>t DEF StoreOK
  <1>1. CASE CheckErased(a) \/ Gate(a) \/ Stamp(a) \/ VerifyRefs(a) \/ Refind(a) \/ Adopt(a) \/ Check(a)
             \/ Reserve(a) \/ Accept(a) \/ ReserveWait(a) \/ LoseReply(a) \/ Refuse(a)
             \/ StatementFails(a) \/ Crash(a)
    BY <1>1 DEF CheckErased, Gate, Stamp, VerifyRefs, Refind, Adopt, Check, Reserve, Accept,
                ReserveWait, LoseReply, Refuse, StatementFails, Crash
  <1>2. CASE Insert(a)
    BY <1>2 DEF Insert, SetRow
  <1>3. CASE TakeOver(a)
    <2>1. row' = row \/ row' = [row EXCEPT ![k] = [row[k] EXCEPT !.claimedAt = claim[a].token]]
      BY <1>3 DEF TakeOver, SetRow
    <2>2. [row[k] EXCEPT !.claimedAt = claim[a].token].status = row[k].status
      BY <1>t DEF Row
    <2> QED
      BY <2>1, <2>2
  <1>4. CASE Finish(a)
    <2>1. PICK s \in {"skipped", "failed"} :
            row' = row \/ row' = [row EXCEPT ![k] = [row[k] EXCEPT !.status = s]]
      BY <1>4 DEF Finish, SetRow
    <2>2. [row[k] EXCEPT !.status = s].status = s
      BY <1>t DEF Row
    <2> QED
      BY <2>1, <2>2
  <1>5. CASE Drop(a)
    <2>1. row' = [row EXCEPT ![k] = NoRow] \/ row' = [row EXCEPT ![k] = row[k]]
      BY <1>5 DEF Drop
    <2>2. NoRow.status = "none"
      BY DEF NoRow
    <2> QED
      BY <2>1, <2>2
  <1>6. CASE Release(a)
    <2>1. PICK n : row' = [row EXCEPT ![k].claimedAt = n]
      BY <1>6 DEF Release
    <2>2. [row[k] EXCEPT !.claimedAt = n].status = row[k].status
      BY <1>t DEF Row
    <2> QED
      BY <2>1, <2>2
  <1>7. CASE RecordSent(a) \/ CommitReplyLost(a)
    BY <1>7 DEF RecordSent, CommitReplyLost
  <1>8. CASE MarkFailed(a)
    <2>1. PICK s \in {"failed", row[k].status} : row' = [row EXCEPT ![k].status = s]
      BY <1>8 DEF MarkFailed
    <2>2. [row[k] EXCEPT !.status = s].status = s
      BY <1>t DEF Row
    <2> QED
      BY <2>1, <2>2
  <1> QED
    BY <1>1, <1>2, <1>3, <1>4, <1>5, <1>6, <1>7, <1>8 DEF Stepped, Call, Mishap

\* Whoever records a message, and whatever is recorded, was accepted.
LEMMA BackedStep ==
  ASSUME TypeOK, FenceInv, NEW a \in Attempts, Stepped(a)
  PROVE  Backed'
  <1> DEFINE k == key[a]
  <1>t. StoreOK /\ CallOK /\ k \in Keys /\ row[k] \in Row
    BY DEF TypeOK, StoreOK, CallOK
  <1>e. Elsewhere(a) /\ key' = key
    BY Local DEF Elsewhere
  <1>b. /\ \A b \in Attempts : At(b, "record") => accepted[key[b]] > 0
        /\ \A j \in Keys : row[j].status = "sent" => accepted[j] > 0
    BY DEF FenceInv, Backed
  <1>1. accepted' = accepted \/ accepted' = [accepted EXCEPT ![k] = accepted[k] + 1]
    BY DEF Stepped, Call, Mishap, CheckErased, Gate, Stamp, VerifyRefs, Insert, Refind, TakeOver, Adopt,
           Check, Finish, Reserve, ReserveWait, Accept, LoseReply, Refuse, Drop, Release,
           RecordSent, CommitReplyLost, StatementFails, Crash, MarkFailed
  <1>2. \A j \in Keys : accepted[j] > 0 => accepted'[j] > 0
    BY <1>1, <1>t DEF StoreOK
  <1>3. At(a, "record")' => accepted'[k] > 0
    <2>1. CASE Accept(a)
      BY <2>1, <1>t DEF Accept, StoreOK
    <2>2. CASE MarkFailed(a)
      BY <2>2, <1>t DEF MarkFailed, At, CallOK
    <2>3. CASE Call(a) /\ ~Accept(a)
      <3>1. pc'[a] # "record"
        <4> USE <1>t, GotoSets, ReturnSets
        <4>1. CASE CheckErased(a) \/ Gate(a) \/ Stamp(a) \/ VerifyRefs(a) \/ Refind(a)
          <5>1. \/ \E s \in {"gate", "stamp", "takeover", "verify", "insert"} : Goto(a, s)
                \/ \E r : Return(a, r)
                \/ \E s \in {"stamp", "takeover", "verify"} : pc' = [pc EXCEPT ![a] = s]
            BY <4>1 DEF CheckErased, Gate, Stamp, VerifyRefs, Refind
          <5> QED
            BY <5>1 DEF CallOK
        <4>2. CASE Insert(a) \/ TakeOver(a) \/ Adopt(a)
          <5>1. \/ \E s \in {"check", "refind", "adopt"} : pc' = [pc EXCEPT ![a] = s]
                \/ \E r : Return(a, r)
            BY <4>2 DEF Insert, TakeOver, Adopt, Goto
          <5> QED
            BY <5>1 DEF CallOK
        <4>3. CASE Check(a) \/ Reserve(a)
          BY <4>3 DEF Check, Reserve
        <4>4. CASE Finish(a) \/ Drop(a) \/ Release(a) \/ RecordSent(a)
          <5>1. \E r : Return(a, r)
            BY <4>4 DEF Finish, Drop, Release, RecordSent
          <5> QED
            BY <5>1
        <4> QED
          BY <2>3, <4>1, <4>2, <4>3, <4>4 DEF Call
      <3> QED
        BY <3>1 DEF At
    <2>4. CASE Mishap(a)
      <3>1. (\E s \in {"defer", "release", "hold"} : Goto(a, s)) \/ \E r : Return(a, r)
        BY <2>4 DEF Mishap, ReserveWait, LoseReply, Refuse, CommitReplyLost, StatementFails, Crash
      <3> QED
        BY <3>1, <1>t, GotoSets, ReturnSets DEF At
    <2> QED
      BY <2>1, <2>2, <2>3, <2>4 DEF Stepped
  <1>4. row'[k].status = "sent" => accepted'[k] > 0
    BY OnlyRecordSends, <1>b, <1>2, <1>t
  <1>5. \A b \in Attempts : At(b, "record")' => accepted'[key'[b]] > 0
    BY <1>b, <1>e, <1>2, <1>3, <1>t DEF At, Elsewhere, CallOK
  <1>6. \A j \in Keys : row'[j].status = "sent" => accepted'[j] > 0
    BY <1>b, <1>e, <1>2, <1>4 DEF Elsewhere
  <1> QED
    BY <1>5, <1>6 DEF Backed

\* The tokens that calls carry to their statements stay as Stamp read them.
LEMMA StampedStep ==
  ASSUME TypeOK, FenceInv, NEW a \in Attempts, Stepped(a), NEW b \in Attempts
  PROVE  Stamped(b)'
  <1>t. StoreOK /\ CallOK /\ now \in Nat /\ now > 0 /\ Stamped(b)
    BY DEF TypeOK, StoreOK, FenceInv
  <1>e. Elsewhere(a) /\ now' = now
    BY Local DEF Elsewhere
  <1>1. CASE b # a
    BY <1>1, <1>t, <1>e DEF Elsewhere, Stamped, At
  <1>2. CASE b = a /\ Stamp(a)
    <2>1. CASE Return(a, "in_progress")
      BY <1>2, <1>t, <2>1, ReturnSets DEF Stamped, At
    <2>2. CASE /\ pc' = [pc EXCEPT ![a] =
                           IF seen[a].status = "pending" THEN "takeover" ELSE "verify"]
               /\ claim' = [claim EXCEPT ![a].token = now] /\ seen' = seen
               /\ ~(seen[a].status = "pending" /\ Live(seen[a].claimedAt))
      <3>1. claim'[a].token = now
        BY <2>2, <1>t DEF CallOK
      <3>2. seen[a].claimedAt \in Nat
        BY <1>t DEF CallOK, Row
      <3>3. pc'[a] = "takeover" => seen[a].claimedAt + Lease <= now
        BY <2>2, <1>t, <3>2, Parameters DEF CallOK, Live
      <3> QED
        BY <1>2, <1>e, <1>t, <2>2, <3>1, <3>3 DEF Stamped, At
    <2> QED
      BY <1>2, <2>1, <2>2 DEF Stamp
  <1>3. CASE b = a /\ ~Stamp(a)
    <2> USE <1>t, GotoSets, ReturnSets
    <2>1. CASE VerifyRefs(a)
      <3>1. (Goto(a, "insert") /\ At(a, "verify")) \/ Return(a, "error")
        BY <2>1 DEF VerifyRefs
      <3> QED
        BY <1>3, <1>e, <3>1 DEF Stamped, At
    <2>2. CASE ~VerifyRefs(a)
      <3>1. pc'[a] \notin {"verify", "insert", "takeover"}
        <4>1. CASE CheckErased(a) \/ Gate(a) \/ Refind(a) \/ Insert(a) \/ TakeOver(a) \/ Adopt(a)
          <5>1. \/ \E s \in {"gate", "stamp", "check", "refind", "adopt"} : pc' = [pc EXCEPT ![a] = s]
                \/ \E r : Return(a, r)
            BY <4>1 DEF CheckErased, Gate, Refind, Insert, TakeOver, Adopt, Goto
          <5> QED
            BY <5>1 DEF CallOK
        <4>2. CASE Check(a) \/ Reserve(a) \/ ReserveWait(a) \/ Accept(a) \/ LoseReply(a) \/ Refuse(a)
          <5>1. \E s \in Claimed : Goto(a, s)
            BY <4>2 DEF Check, Reserve, ReserveWait, Accept, LoseReply, Refuse, Claimed
          <5> QED
            BY <5>1 DEF Claimed
        <4>3. CASE Finish(a) \/ Drop(a) \/ Release(a) \/ RecordSent(a) \/ CommitReplyLost(a)
                   \/ StatementFails(a) \/ Crash(a)
          <5>1. Goto(a, "release") \/ \E r : Return(a, r)
            BY <4>3 DEF Finish, Drop, Release, RecordSent, CommitReplyLost, StatementFails, Crash
          <5> QED
            BY <5>1
        <4>4. CASE MarkFailed(a)
          BY <4>4 DEF MarkFailed, At
        <4> QED
          BY <1>3, <2>2, <4>1, <4>2, <4>3, <4>4 DEF Stepped, Call, Mishap
      <3> QED
        BY <1>3, <3>1 DEF Stamped, At
    <2> QED
      BY <2>1, <2>2
  <1> QED
    BY <1>1, <1>2, <1>3

\* A step of the Workspace, or of a call that begins, moves no claim.
LEMMA WorldFenced ==
  ASSUME TypeOK, FenceInv, World \/ \E a \in Attempts, k \in Keys : Begin(a, k)
  PROVE  FenceInv'
  <1>t. StoreOK /\ CallOK
    BY DEF TypeOK
  <1>f. now > 0 /\ Backed /\ (\A a \in Attempts : Stamped(a)) /\ \A k \in Keys : Fenced(k)
    BY DEF FenceInv
  <1>1. /\ \/ pc' = pc /\ key' = key
           \/ \E a \in Attempts : /\ pc[a] = "idle" /\ pc'[a] \in {"idle", "erasure"}
                                  /\ \A b \in Attempts \ {a} : pc'[b] = pc[b] /\ key'[b] = key[b]
        /\ claim' = claim /\ accepted' = accepted /\ outlived' = outlived
    <2>1. ASSUME NEW a \in Attempts, NEW k \in Keys, Begin(a, k)
          PROVE  /\ pc[a] = "idle" /\ pc'[a] \in {"idle", "erasure"}
                 /\ \A b \in Attempts \ {a} : pc'[b] = pc[b] /\ key'[b] = key[b]
                 /\ claim' = claim /\ accepted' = accepted /\ outlived' = outlived
      BY <2>1, <1>t DEF Begin, At, CallOK
    <2>2. World => /\ pc' = pc /\ key' = key
                   /\ claim' = claim /\ accepted' = accepted /\ outlived' = outlived
      BY DEF World, Freeze, Unfreeze, Bar, EraseScan, Erase, Tick, local
    <2> QED
      BY <2>1, <2>2
  <1>2. now' > 0
    <2>1. now' = now \/ now' = now + 1
      BY DEF World, Freeze, Unfreeze, Bar, EraseScan, Erase, Tick, Begin
    <2> QED
      BY <2>1, <1>t, <1>f DEF StoreOK
  <1>3. \A j \in Keys : /\ row'[j].status = row[j].status /\ row'[j].id = row[j].id
                        /\ row'[j].claimedAt = row[j].claimedAt
    <2>1. row' = row \/ \E k \in Keys, n \in BOOLEAN :
                           row' = [row EXCEPT ![k] = [row[k] EXCEPT !.named = n]]
      BY <1>t DEF World, Freeze, Unfreeze, Bar, EraseScan, Erase, Tick, Begin, StoreOK, Row
    <2> QED
      BY <2>1, <1>t DEF StoreOK, Row
  <1>4. \A a \in Attempts : pc'[a] \in Claimed => pc[a] = pc'[a] /\ key'[a] = key[a]
    BY <1>1 DEF Claimed
  <1>5. \A a \in Attempts : pc[a] \in Claimed => pc'[a] = pc[a] /\ key'[a] = key[a]
    BY <1>1 DEF Claimed
  <1>6. Backed'
    <2>1. \A a \in Attempts : At(a, "record")' => accepted'[key'[a]] > 0
      BY <1>f, <1>1, <1>4 DEF Backed, At, Claimed
    <2>2. \A j \in Keys : row'[j].status = "sent" => accepted'[j] > 0
      BY <1>f, <1>1, <1>3 DEF Backed
    <2> QED
      BY <2>1, <2>2 DEF Backed
  <1>7. ASSUME NEW k \in Keys PROVE Fenced(k)'
    <2>1. \A a \in Attempts : OnKey(a, k)' <=> OnKey(a, k)
      BY <1>4, <1>5 DEF OnKey
    <2>2. \A a \in Attempts : OnKey(a, k) => (Holds(a)' <=> Holds(a))
      BY <1>1, <1>3, <1>5 DEF OnKey, Holds, Pending
    <2>3. \A a \in Attempts : OnKey(a, k) => (At(a, "record")' <=> At(a, "record"))
      BY <1>5 DEF OnKey, At
    <2>4. Sole(k) => Sole(k)'
      BY <2>1, <2>2, <1>1 DEF Sole
    <2>5. Owed(k) => Owed(k)'
      BY <2>1, <2>3, <1>1, <1>3 DEF Owed, Pending
    <2> QED
      BY <2>4, <2>5, <1>1, <1>f DEF Fenced
  <1>8. ASSUME NEW a \in Attempts PROVE Stamped(a)'
    <2>1. Stamped(a) /\ now' \in {now, now + 1} /\ now \in Nat /\ claim[a].token \in Nat
      BY <1>t, <1>f DEF World, Freeze, Unfreeze, Bar, EraseScan, Erase, Tick, Begin, StoreOK, CallOK
    <2>2. pc'[a] \in {"verify", "insert", "takeover"} => pc'[a] = pc[a] /\ seen'[a] = seen[a]
      <3>1. ASSUME NEW b \in Attempts, NEW k \in Keys, Begin(b, k)
            PROVE  pc'[a] \in {"idle", "erasure"} \/ (pc'[a] = pc[a] /\ seen'[a] = seen[a])
        BY <1>t, <3>1 DEF Begin, At, CallOK
      <3>2. World => pc' = pc /\ seen' = seen
        BY DEF World, Freeze, Unfreeze, Bar, EraseScan, Erase, Tick, local
      <3> QED
        BY <3>1, <3>2
    <2> QED
      BY <1>1, <2>1, <2>2 DEF Stamped, At
  <1> QED
    BY <1>2, <1>6, <1>7, <1>8 DEF FenceInv

\* Nothing is claimed, accepted or recorded at first.
LEMMA FenceInit == Init => FenceInv
  <1> SUFFICES ASSUME Init PROVE FenceInv
    OBVIOUS
  <1>1. now > 0
    BY Parameters DEF Init
  <1>2. \A a \in Attempts : pc[a] = "idle"
    BY DEF Init
  <1>3. \A k \in Keys : accepted[k] = 0 /\ row[k].status = "none"
    BY DEF Init, NoRow
  <1> QED
    BY <1>1, <1>2, <1>3 DEF FenceInv, Stamped, Backed, Fenced, Sole, Owed, OnKey, At, Claimed

\* Every step keeps the fence.
LEMMA FenceStep == TypeOK /\ FenceInv /\ [Next]_vars => FenceInv'
  <1> SUFFICES ASSUME TypeOK, FenceInv, [Next]_vars PROVE FenceInv'
    OBVIOUS
  <1>1. ASSUME NEW a \in Attempts, Stepped(a) PROVE FenceInv'
    <2>1. Elsewhere(a)
      BY <1>1, Local
    <2>2. now' > 0 /\ Backed'
      BY <1>1, <2>1, BackedStep DEF FenceInv, Elsewhere
    <2>3. \A k \in Keys : Fenced(k)'
      <3> SUFFICES ASSUME NEW k \in Keys PROVE Fenced(k)'
        OBVIOUS
      <3>1. CASE k = key[a]
        BY <1>1, <3>1, OwnFenced
      <3>2. CASE k # key[a]
        BY <2>1, <3>2, OthersFenced DEF FenceInv
      <3> QED
        BY <3>1, <3>2
    <2>4. \A b \in Attempts : Stamped(b)'
      BY <1>1, StampedStep
    <2> QED
      BY <2>2, <2>3, <2>4 DEF FenceInv
  <1>2. CASE UNCHANGED vars
    BY <1>2 DEF vars, local, FenceInv, Stamped, Backed, Fenced, Sole, Owed, OnKey, At, Holds, Pending
  <1> QED
    BY <1>1, <1>2, WorldFenced DEF Next, Stepped

\* The invariant and the types, in every reachable state.
LEMMA FenceInvariant == Spec => [](TypeOK /\ FenceInv)
  <1>1. Init => TypeOK /\ FenceInv
    BY TypeInit, FenceInit
  <1>2. (TypeOK /\ FenceInv) /\ [Next]_vars => (TypeOK /\ FenceInv)'
    BY TypeStep, FenceStep
  <1> QED
    BY <1>1, <1>2, PTL DEF Spec

\* No key is accepted twice unless a claim expired or an answer was lost.
THEOREM AtMostOnce == Spec => []AtMostOnceUnlessOutlived
  <1>1. TypeOK /\ FenceInv => AtMostOnceUnlessOutlived
    BY DEF TypeOK, StoreOK, FenceInv, Fenced, Owed, AtMostOnceUnlessOutlived
  <1> QED
    BY <1>1, FenceInvariant, PTL

\* What is recorded is what the provider did, under the same condition.
THEOREM RecordsAreTrue == Spec => []RecordMatchesProvider
  <1>1. TypeOK /\ FenceInv => RecordMatchesProvider
    BY DEF FenceInv, Fenced, Owed, Pending, Backed, RecordMatchesProvider
  <1> QED
    BY <1>1, FenceInvariant, PTL

-----------------------------------------------------------------------------
(* What the callers of Outbound send may rely on: the answers they get,    *)
(* the erasure of a Contact, and who may move a claimed record.            *)

\* A decided record stays decided, with the same status.
LEMMA FinalStays ==
  ASSUME TypeOK, [Next]_vars, NEW k \in Keys, row[k].status \in Final
  PROVE  row'[k].status = row[k].status
  <1>1. CASE UNCHANGED <<row, published>>
    BY <1>1
  <1>2. ASSUME NEW j \in Keys, OnlyMoved(j) PROVE row'[k].status = row[k].status
    <2>1. CASE j = k
      BY <1>2, <2>1 DEF OnlyMoved, Moved, Inserted, Touched, Dropped, Decided, Committed, Final
    <2>2. CASE j # k
      BY <1>2, <2>2 DEF OnlyMoved, TypeOK, StoreOK
    <2> QED
      BY <2>1, <2>2
  <1> QED
    BY <1>1, <1>2, OneMoves

\* Erasure is for good.
LEMMA ErasedStays == ASSUME TypeOK, [Next]_vars PROVE erased \subseteq erased'
  BY DEF Next, Call, Mishap, World, CheckErased, Gate, Stamp, VerifyRefs, Insert, Refind, TakeOver,
         Adopt, Check, Finish, Reserve, ReserveWait, Accept, LoseReply, Refuse, Drop, Release,
         RecordSent, CommitReplyLost, StatementFails, Crash, MarkFailed, Begin, Freeze, Unfreeze,
         Bar, EraseScan, Erase, Tick, vars, world, erasure

\* The answer of a call is what is recorded when it is given.
Told(a, k, r) ==
  r \in Final => row'[k].status = r \/ (r = "skipped" /\ k \in erased)

\* What the step of a call answers.
LEMMA StepTells ==
  ASSUME TypeOK, NEW a \in Attempts, Stepped(a)
  PROVE  /\ key' = key
         /\ \A b \in Attempts \ {a} : answer'[b] = answer[b]
         /\ answer'[a] = answer[a] \/ Told(a, key[a], answer'[a])
  <1> DEFINE k == key[a]
  <1>t. StoreOK /\ CallOK /\ k \in Keys /\ row[k] \in Row
    BY DEF TypeOK, StoreOK, CallOK
  <1>r. ASSUME NEW r, Return(a, r)
        PROVE  /\ key' = key /\ answer'[a] = r
               /\ \A b \in Attempts \ {a} : answer'[b] = answer[b]
    BY <1>r, <1>t DEF Return, CallOK
  <1>g. ASSUME NEW s, Goto(a, s) PROVE key' = key /\ answer' = answer
    BY <1>g DEF Goto
  <1>0. \A r \in {"error", "held", "deferral", "in_progress", "crashed", "none"} : r \notin Final
    BY DEF Final
  <1>1. CASE \E s : Goto(a, s)
    BY <1>1, <1>g
  <1>2. CASE \E r \in {"error", "held", "deferral", "in_progress", "crashed"} : Return(a, r)
    BY <1>2, <1>r, <1>0 DEF Told
  <1>3. CASE UNCHANGED <<key, answer>>
    BY <1>3
  <1>4. CASE CheckErased(a)
    <2>1. (k \in erased /\ Return(a, "skipped")) \/ Goto(a, "gate")
      BY <1>4 DEF CheckErased
    <2>2. CASE k \in erased /\ Return(a, "skipped")
      BY <2>2, <1>r DEF Told
    <2> QED
      BY <2>1, <2>2, <1>1
  <1>5. CASE Gate(a) \/ Stamp(a) \/ VerifyRefs(a) \/ Adopt(a) \/ Insert(a) \/ TakeOver(a) \/ Check(a)
             \/ Reserve(a) \/ Accept(a) \/ ReserveWait(a) \/ LoseReply(a) \/ Refuse(a)
    <2>1. \/ \E s : Goto(a, s)
          \/ \E r \in {"error", "held", "in_progress"} : Return(a, r)
          \/ UNCHANGED <<key, answer>>
      BY <1>5 DEF Gate, Stamp, VerifyRefs, Adopt, Insert, TakeOver, Check, Reserve, Accept, ReserveWait,
                  LoseReply, Refuse
    <2> QED
      BY <2>1, <1>1, <1>2, <1>3
  <1>6. CASE Refind(a)
    <2>1. CASE row[k].status = "none"
      <3>1. Return(a, "error")
        BY <1>6, <2>1 DEF Refind, Final
      <3> QED
        BY <3>1, <1>2
    <2>2. CASE row[k].status \in Final
      <3>1. PICK r \in Final : r = row[k].status
        BY <2>2
      <3>2. Return(a, row[k].status) /\ row' = row
        BY <1>6, <2>2 DEF Refind, Final
      <3>3. Return(a, r)
        BY <3>1, <3>2 DEF Return
      <3>4. answer'[a] = r /\ key' = key /\ \A b \in Attempts \ {a} : answer'[b] = answer[b]
        BY <3>3, <1>r
      <3> QED
        BY <3>1, <3>2, <3>4 DEF Told
    <2>3. CASE row[k].status \notin {"none"} \cup Final
      BY <1>6, <2>3, <1>3 DEF Refind
    <2> QED
      BY <2>1, <2>2, <2>3
  <1>7. CASE Finish(a)
    <2>1. CASE Holds(a)
      <3>1. PICK decided \in {"skipped", "failed"} :
              SetRow(k, [row[k] EXCEPT !.status = decided]) /\ Return(a, decided)
        BY <1>7, <2>1 DEF Finish
      <3>2. row'[k].status = decided
        BY <3>1, <1>t DEF SetRow, StoreOK, Row
      <3>3. answer'[a] = decided /\ key' = key /\ \A b \in Attempts \ {a} : answer'[b] = answer[b]
        BY <3>1, <1>r
      <3> QED
        <4>1. row'[key[a]].status = answer'[a]
          BY <3>2, <3>3
        <4>2. Told(a, key[a], answer'[a])
          BY <4>1 DEF Told
        <4> QED
          BY <3>3, <4>2
    <2>2. CASE ~Holds(a)
      BY <1>7, <2>2, <1>2 DEF Finish
    <2> QED
      BY <2>1, <2>2
  <1>8. CASE Drop(a) \/ Release(a) \/ StatementFails(a) \/ Crash(a) \/ CommitReplyLost(a)
    <2>1. \/ Goto(a, "release")
          \/ \E r \in {"error", "held", "deferral", "in_progress", "crashed"} : Return(a, r)
      BY <1>8 DEF Drop, Release, StatementFails, Crash, CommitReplyLost
    <2> QED
      BY <2>1, <1>1, <1>2
  <1>9. CASE RecordSent(a)
    <2>1. CASE Holds(a)
      <3>1. SetRow(k, [row[k] EXCEPT !.status = "sent"]) /\ Return(a, "sent")
        BY <1>9, <2>1 DEF RecordSent, CommitSent
      <3>2. row'[k].status = "sent"
        BY <3>1, <1>t DEF SetRow, StoreOK, Row
      <3>3. answer'[a] = "sent" /\ key' = key /\ \A b \in Attempts \ {a} : answer'[b] = answer[b]
        BY <3>1, <1>r
      <3> QED
        BY <3>2, <3>3 DEF Told
    <2>2. CASE ~Holds(a)
      BY <1>9, <2>2, <1>2 DEF RecordSent
    <2> QED
      BY <2>1, <2>2
  <1>10. CASE MarkFailed(a)
    <2>1. key' = key /\ answer' = [answer EXCEPT ![a] = "none"]
      BY <1>10 DEF MarkFailed
    <2> QED
      BY <2>1, <1>t, <1>0 DEF CallOK, Told
  <1> QED
    BY <1>4, <1>5, <1>6, <1>7, <1>8, <1>9, <1>10 DEF Stepped, Call, Mishap

\* Whatever a caller was told stays recorded.
LEMMA AnswerStep == TypeOK /\ AnswerIsRecorded /\ [Next]_vars => AnswerIsRecorded'
  <1> SUFFICES ASSUME TypeOK, AnswerIsRecorded, [Next]_vars, NEW b \in Attempts,
                      answer'[b] \in Final
               PROVE  \/ row'[key'[b]].status = answer'[b]
                      \/ answer'[b] = "skipped" /\ key'[b] \in erased'
    BY DEF AnswerIsRecorded
  <1> DEFINE Goal == \/ row'[key'[b]].status = answer'[b]
                     \/ answer'[b] = "skipped" /\ key'[b] \in erased'
  <1>t. key[b] \in Keys /\ erased \subseteq erased'
    BY ErasedStays DEF TypeOK, CallOK
  <1>1. CASE key'[b] = key[b] /\ answer'[b] = answer[b]
    <2>1. \/ row[key[b]].status = answer[b]
          \/ answer[b] = "skipped" /\ key[b] \in erased
      BY <1>1 DEF AnswerIsRecorded
    <2>2. row[key[b]].status = answer[b] => row'[key[b]].status = answer[b]
      BY <1>1, <1>t, FinalStays
    <2> QED
      BY <1>1, <1>t, <2>1, <2>2
  <1>2. ASSUME NEW a \in Attempts, Stepped(a) PROVE Goal
    <2>1. CASE a # b
      BY <1>1, <1>2, <2>1, StepTells
    <2>2. CASE a = b
      BY <1>1, <1>2, <1>t, <2>2, StepTells DEF Told
    <2> QED
      BY <2>1, <2>2
  <1>3. ASSUME NEW a \in Attempts, NEW k \in Keys, Begin(a, k) PROVE Goal
    <2>1. CASE a # b
      BY <1>1, <1>3, <2>1 DEF Begin, TypeOK, CallOK
    <2>2. CASE a = b
      <3>1. key'[b] = k /\ row' = row
        BY <1>3, <2>2 DEF Begin, TypeOK, CallOK
      <3>2. answer'[b] = IF row[k].status \in Final THEN row[k].status ELSE "none"
        BY <1>3, <2>2 DEF Begin, TypeOK, CallOK
      <3> QED
        BY <3>1, <3>2 DEF Final
    <2> QED
      BY <2>1, <2>2
  <1>4. CASE World \/ UNCHANGED vars
    BY <1>1, <1>4 DEF World, Freeze, Unfreeze, Bar, EraseScan, Erase, Tick, local, vars
  <1> QED
    BY <1>2, <1>3, <1>4 DEF Next, Stepped

\* Every retry of a key hears what was recorded (replayResult).
THEOREM AnswersAreRecorded == Spec => []AnswerIsRecorded
  <1>1. Init => TypeOK /\ AnswerIsRecorded
    <2>1. Init => AnswerIsRecorded
      BY DEF Init, AnswerIsRecorded, Final
    <2> QED
      BY <2>1, TypeInit
  <1>2. (TypeOK /\ AnswerIsRecorded) /\ [Next]_vars => (TypeOK /\ AnswerIsRecorded)'
    BY TypeStep, AnswerStep
  <1> QED
    BY <1>1, <1>2, PTL DEF Spec

-----------------------------------------------------------------------------
(* Erasure.                                                                *)

\* Only an INSERT under way beside the Erasure may still bring the address back.
Clear(k) ==
  k \in erased =>
    /\ \A a \in Attempts : key[a] = k /\ At(a, "insert") => k \in crossed
    /\ row[k].named => k \in crossed

\* A call's step keeps it: past the Erasure, VerifyRefs finds no Contact.
LEMMA ClearCall ==
  ASSUME TypeOK, NEW a \in Attempts, Stepped(a), NEW k \in Keys, Clear(k)
  PROVE  Clear(k)'
  <1>t. StoreOK /\ CallOK /\ row[k] \in Row
    BY DEF TypeOK, StoreOK
  <1>e. Elsewhere(a)
    BY Local
  <1>w. erased' = erased /\ crossed' = crossed
    BY DEF Stepped, Call, Mishap, CheckErased, Gate, Stamp, VerifyRefs, Insert, Refind, TakeOver,
           Adopt, Check, Finish, Reserve, ReserveWait, Accept, LoseReply, Refuse, Drop, Release,
           RecordSent, CommitReplyLost, StatementFails, Crash, MarkFailed, world, erasure
  <1> SUFFICES ASSUME k \in erased, k \notin crossed
               PROVE  /\ \A b \in Attempts : key'[b] = k => ~At(b, "insert")'
                      /\ ~row'[k].named
    BY <1>w DEF Clear
  <1>1. ~row[k].named /\ \A b \in Attempts : key[b] = k => ~At(b, "insert")
    BY <1>t DEF Clear, Row
  <1>2. CASE key[a] # k
    <2>1. row'[k] = row[k]
      BY <1>2, <1>e DEF Elsewhere
    <2>2. \A b \in Attempts : key'[b] = k => b # a /\ key[b] = k /\ pc'[b] = pc[b]
      BY <1>2, <1>e DEF Elsewhere
    <2> QED
      BY <1>1, <2>1, <2>2 DEF At
  <1>3. CASE key[a] = k
    <2> USE <1>t, <1>3, GotoSets, ReturnSets
    <2>i. ~Insert(a)
      BY <1>1 DEF Insert
    <2>1. ~At(a, "insert")'
      <3>1. CASE Stamp(a)
        BY <3>1 DEF Stamp, At, CallOK
      <3>2. CASE CheckErased(a) \/ Gate(a) \/ VerifyRefs(a) \/ Refind(a) \/ TakeOver(a) \/ Adopt(a)
        <4>1. \/ \E s \in {"gate", "stamp", "check", "adopt"} : pc' = [pc EXCEPT ![a] = s]
              \/ \E r : Return(a, r)
          BY <3>2 DEF CheckErased, Gate, VerifyRefs, Refind, TakeOver, Adopt, Goto
        <4> QED
          BY <4>1 DEF CallOK, At
      <3>3. CASE Check(a) \/ Reserve(a) \/ ReserveWait(a) \/ Accept(a) \/ LoseReply(a) \/ Refuse(a)
        <4>1. \E s \in Claimed : Goto(a, s)
          BY <3>3 DEF Check, Reserve, ReserveWait, Accept, LoseReply, Refuse, Claimed
        <4> QED
          BY <4>1 DEF Claimed, At
      <3>4. CASE Finish(a) \/ Drop(a) \/ Release(a) \/ RecordSent(a) \/ CommitReplyLost(a)
                 \/ StatementFails(a) \/ Crash(a)
        <4>1. Goto(a, "release") \/ \E r : Return(a, r)
          BY <3>4 DEF Finish, Drop, Release, RecordSent, CommitReplyLost, StatementFails, Crash
        <4> QED
          BY <4>1 DEF At
      <3>5. CASE MarkFailed(a)
        BY <3>5, <1>1 DEF MarkFailed, At
      <3> QED
        BY <2>i, <3>1, <3>2, <3>3, <3>4, <3>5 DEF Stepped, Call, Mishap
    <2>2. row'[k].named \in {FALSE, row[k].named}
      <3>1. CASE TakeOver(a)
        <4>1. row' = row \/ row' = [row EXCEPT ![k] = [row[k] EXCEPT !.claimedAt = claim[a].token]]
          BY <3>1 DEF TakeOver, SetRow
        <4>2. [row[k] EXCEPT !.claimedAt = claim[a].token].named = row[k].named
          BY DEF Row
        <4> QED
          BY <4>1, <4>2 DEF StoreOK
      <3>2. CASE Drop(a) \/ Release(a)
        <4>1. \/ row'[k] = NoRow \/ row'[k] = row[k]
              \/ \E n : row'[k] = [row[k] EXCEPT !.claimedAt = n]
          <5>1. CASE Drop(a)
            BY <5>1 DEF Drop, StoreOK
          <5>2. CASE Release(a)
            <6>1. PICK n : row' = [row EXCEPT ![k] = [row[k] EXCEPT !.claimedAt = n]]
              BY <5>2 DEF Release
            <6> QED
              BY <6>1 DEF StoreOK
          <5> QED
            BY <3>2, <5>1, <5>2
        <4>2. CASE row'[k] = NoRow
          BY <4>2 DEF NoRow
        <4>3. ASSUME NEW n, row'[k] = [row[k] EXCEPT !.claimedAt = n]
              PROVE  row'[k].named = row[k].named
          BY <4>3 DEF Row
        <4> QED
          BY <4>1, <4>2, <4>3
      <3>3. CASE Finish(a) \/ RecordSent(a) \/ CommitReplyLost(a) \/ MarkFailed(a)
        <4>1. row' = row \/ \E s : row' = [row EXCEPT ![k] = [row[k] EXCEPT !.status = s]]
          BY <3>3 DEF Finish, RecordSent, CommitReplyLost, CommitSent, MarkFailed, SetRow
        <4>2. ASSUME NEW s, row' = [row EXCEPT ![k] = [row[k] EXCEPT !.status = s]]
              PROVE  row'[k].named = row[k].named
          BY <4>2 DEF StoreOK, Row
        <4> QED
          BY <4>1, <4>2
      <3>4. CASE \/ CheckErased(a) \/ Gate(a) \/ Stamp(a) \/ VerifyRefs(a) \/ Refind(a) \/ Adopt(a)
                 \/ Check(a) \/ Reserve(a) \/ ReserveWait(a) \/ Accept(a) \/ LoseReply(a)
                 \/ Refuse(a) \/ StatementFails(a) \/ Crash(a)
        BY <3>4 DEF CheckErased, Gate, Stamp, VerifyRefs, Refind, Adopt, Check, Reserve, ReserveWait,
                    Accept, LoseReply, Refuse, StatementFails, Crash
      <3> QED
        BY <2>i, <3>1, <3>2, <3>3, <3>4 DEF Stepped, Call, Mishap
    <2>3. \A b \in Attempts \ {a} : key'[b] = key[b] /\ pc'[b] = pc[b]
      BY <1>e DEF Elsewhere
    <2> QED
      BY <1>1, <2>1, <2>2, <2>3 DEF At
  <1> QED
    BY <1>2, <1>3

\* So do the Workspace's steps and a call that begins.
LEMMA ClearWorld ==
  ASSUME TypeOK, NEW k \in Keys, Clear(k),
         World \/ UNCHANGED vars \/ \E a \in Attempts, j \in Keys : Begin(a, j)
  PROVE  Clear(k)'
  <1>t. StoreOK /\ WorldOK /\ CallOK /\ row[k] \in Row
    BY DEF TypeOK, StoreOK
  <1>1. CASE Freeze \/ Unfreeze \/ Tick \/ (\E j \in Keys : Bar(j) \/ EraseScan(j)) \/ UNCHANGED vars
    <2>1. UNCHANGED <<erased, crossed, row, key, pc>>
      BY <1>1 DEF Freeze, Unfreeze, Tick, Bar, EraseScan, local, vars, world, erasure
    <2> QED
      BY <2>1 DEF Clear, At
  <1>2. ASSUME NEW a \in Attempts, NEW j \in Keys, Begin(a, j) PROVE Clear(k)'
    <2>1. UNCHANGED <<erased, crossed, row>>
      BY <1>2 DEF Begin, world, erasure
    <2>2. ~At(a, "insert")' /\ \A b \in Attempts \ {a} : key'[b] = key[b] /\ pc'[b] = pc[b]
      BY <1>2, <1>t DEF Begin, At, CallOK
    <2> QED
      BY <2>1, <2>2 DEF Clear, At
  <1>3. ASSUME NEW j \in Keys, Erase(j) PROVE Clear(k)'
    <2>1. /\ erased' = erased \cup {j} /\ crossed \subseteq crossed' /\ key' = key /\ pc' = pc
          /\ row' = [row EXCEPT ![j].named = row[j].named /\ j \in erasing]
      BY <1>3 DEF Erase, local
    <2>2. CASE j # k
      BY <1>t, <2>1, <2>2 DEF Clear, At, StoreOK
    <2>3. CASE j = k
      <3>1. row'[k].named = (row[k].named /\ k \in erasing)
        BY <1>t, <2>1, <2>3 DEF StoreOK, Row
      <3>2. \/ k \in erasing /\ row[k].named
            \/ \E a \in Attempts : key[a] = k /\ At(a, "insert")
            => k \in crossed'
        BY <1>3, <2>3 DEF Erase
      <3> QED
        BY <2>1, <3>1, <3>2 DEF Clear, At
    <2> QED
      BY <2>2, <2>3
  <1> QED
    BY <1>1, <1>2, <1>3 DEF World

\* What an Erasure leaves behind was being inserted beside it (VerifyRefs, and
\* the lock the Erasure takes on the rows it finds).
THEOREM ErasureClearsAddresses == Spec => []OnlyCrossingsKeepAddress
  <1> DEFINE Inv == TypeOK /\ \A k \in Keys : Clear(k)
  <1>1. Init => Inv
    <2>1. Init => \A k \in Keys : Clear(k)
      BY DEF Init, Clear
    <2> QED
      BY <2>1, TypeInit
  <1>2. Inv /\ [Next]_vars => Inv'
    <2> SUFFICES ASSUME Inv, [Next]_vars PROVE Inv'
      OBVIOUS
    <2>1. ASSUME NEW k \in Keys PROVE Clear(k)'
      BY <2>1, ClearCall, ClearWorld DEF Next, Stepped
    <2>2. TypeOK'
      BY TypeStep
    <2> QED
      BY <2>1, <2>2
  <1>3. Inv => OnlyCrossingsKeepAddress
    BY ContactAssumption DEF TypeOK, WorldOK, Clear, OnlyCrossingsKeepAddress
  <1> QED
    BY <1>1, <1>2, <1>3, PTL DEF Spec

-----------------------------------------------------------------------------
(* Who may move a claimed record.                                          *)

\* A live claim's record moves only under the call that holds it.
LEMMA LiveStep ==
  ASSUME TypeOK, FenceInv, [Next]_vars, NEW k \in Keys,
         Pending(k), Live(row[k].claimedAt), row'[k] # row[k]
  PROVE  \/ row'[k] = [row[k] EXCEPT !.named = FALSE]
         \/ \E a \in Attempts : /\ key[a] = k /\ pc[a] \in Claimed /\ Holds(a)
                                /\ pc'[a] = "idle"
  <1> DEFINE Goal == \/ row'[k] = [row[k] EXCEPT !.named = FALSE]
                     \/ \E a \in Attempts : /\ key[a] = k /\ pc[a] \in Claimed /\ Holds(a)
                                            /\ pc'[a] = "idle"
  <1>t. StoreOK /\ CallOK /\ row[k] \in Row
    BY DEF TypeOK, StoreOK
  <1>p. row[k].status = "pending"
    BY DEF Pending
  <1>1. ASSUME NEW a \in Attempts, Stepped(a) PROVE Goal
    <2>1. key[a] = k
      BY <1>1, Local DEF Elsewhere
    <2>2. row' # row
      OBVIOUS
    <2>3. CASE Insert(a)
      BY <1>p, <2>1, <2>2, <2>3 DEF Insert
    <2>4. CASE TakeOver(a)
      <3>1. row[k].claimedAt = seen[a].claimedAt /\ At(a, "takeover")
        BY <2>1, <2>2, <2>4 DEF TakeOver
      <3>2. seen[a].claimedAt + Lease <= claim[a].token /\ claim[a].token \in 1..now
        BY <3>1 DEF FenceInv, Stamped, At
      <3> QED
        BY <3>1, <3>2, <1>t, Parameters DEF Live, StoreOK, Row
    <2>5. CASE Finish(a) \/ Drop(a) \/ Release(a) \/ RecordSent(a) \/ CommitReplyLost(a)
      <3>1. \E r : Return(a, r)
        BY <2>5 DEF Finish, Drop, Release, RecordSent, CommitReplyLost
      <3>2. pc'[a] = "idle"
        BY <3>1, <1>t, ReturnSets
      <3>3. pc[a] \in {"skip", "fail", "hold", "defer", "release", "record"}
        BY <2>5 DEF Finish, Drop, Release, RecordSent, CommitReplyLost, At
      <3>4. Holds(a)
        <4> SUFFICES ASSUME ~Holds(a) PROVE row'[k] = row[k]
          OBVIOUS
        <4>1. CASE Finish(a) \/ RecordSent(a) \/ CommitReplyLost(a)
          BY <4>1 DEF Finish, RecordSent, CommitReplyLost
        <4>2. CASE Drop(a)
          BY <4>2, <1>t, <2>1 DEF Drop, StoreOK
        <4>3. CASE Release(a)
          <5>1. row' = [row EXCEPT ![k].claimedAt = row[k].claimedAt]
            BY <4>3, <2>1 DEF Release
          <5> QED
            BY <5>1, <1>t DEF StoreOK, Row
        <4> QED
          BY <2>5, <4>1, <4>2, <4>3
      <3> QED
        BY <2>1, <3>2, <3>3, <3>4 DEF Claimed
    <2>6. CASE MarkFailed(a)
      <3>1. ~(row[k].claimedAt + Lease < now)
        BY <1>t, Parameters DEF Live, StoreOK, Row
      <3>2. row' = [row EXCEPT ![k].status = row[k].status]
        BY <2>6, <2>1, <3>1 DEF MarkFailed
      <3> QED
        BY <3>2, <1>t DEF StoreOK, Row
    <2> QED
      BY <1>1, <2>2, <2>3, <2>4, <2>5, <2>6
         DEF Stepped, Call, Mishap, CheckErased, Gate, Stamp, VerifyRefs, Refind, Adopt, Check, Reserve,
             ReserveWait, Accept, LoseReply, Refuse, StatementFails, Crash
  <1>2. ASSUME NEW j \in Keys, Erase(j) PROVE Goal
    <2>1. row' = [row EXCEPT ![j] = [row[j] EXCEPT !.named = row[j].named /\ j \in erasing]]
      BY <1>2 DEF Erase
    <2>2. j = k /\ row'[k] = [row[k] EXCEPT !.named = row[k].named /\ k \in erasing]
      BY <1>t, <2>1 DEF StoreOK
    <2>3. row[k] = [row[k] EXCEPT !.named = row[k].named]
      BY <1>t DEF Row
    <2>4. row[k].named \in BOOLEAN
      BY <1>t DEF Row
    <2>5. CASE row[k].named /\ k \in erasing
      BY <2>2, <2>3, <2>5
    <2>6. CASE ~(row[k].named /\ k \in erasing)
      BY <2>2, <2>6
    <2> QED
      BY <2>5, <2>6
  <1>3. ASSUME NEW a \in Attempts, NEW j \in Keys, Begin(a, j) PROVE Goal
    BY <1>3 DEF Begin
  <1>4. CASE Freeze \/ Unfreeze \/ Tick \/ (\E j \in Keys : Bar(j) \/ EraseScan(j)) \/ UNCHANGED vars
    BY <1>4 DEF Freeze, Unfreeze, Tick, Bar, EraseScan, vars
  <1> QED
    BY <1>1, <1>2, <1>3, <1>4 DEF Next, World, Stepped

\* The fence and the lease protect a live claim from every other call.
THEOREM LiveClaimsAreProtected == Spec => LiveClaimProtected
  <1>1. TypeOK /\ FenceInv /\ [Next]_vars =>
          [\A k \in Keys :
             Pending(k) /\ Live(row[k].claimedAt) /\ row'[k] # row[k] =>
               \/ row'[k] = [row[k] EXCEPT !.named = FALSE]
               \/ \E a \in Attempts : /\ key[a] = k /\ pc[a] \in Claimed /\ Holds(a)
                                      /\ pc'[a] = "idle"]_vars
    BY LiveStep
  <1> QED
    BY <1>1, FenceInvariant, PTL DEF Spec, LiveClaimProtected

-----------------------------------------------------------------------------
(* One holder at a time, where takeOver takes less than a lease.           *)

\* Ids and tokens were handed out in the past.
PastRow(k) ==
  /\ row[k].id <= lastId /\ row[k].claimedAt <= now
  /\ IF row[k].status = "none" THEN row[k].id = 0 ELSE row[k].id > 0

\* A call's token is the row's, or was taken from it: then its lease is over, and
\* the row carries a younger token or, released, none.
PastClaim(a) ==
  pc[a] \in Claimed =>
    /\ claim[a].token \in 1..now /\ claim[a].id \in 1..lastId
    /\ Pending(key[a]) /\ row[key[a]].id = claim[a].id =>
         \/ claim[a].token = row[key[a]].claimedAt
         \/ /\ claim[a].token + Lease <= now
            /\ row[key[a]].claimedAt = 0 \/ claim[a].token < row[key[a]].claimedAt

\* From the clock it reads to its read-back takeOver's token is live, and once
\* written it is the row's.
PromptAdopt(a) ==
  /\ pc[a] \in {"takeover", "adopt"} => now < claim[a].token + Lease
  /\ At(a, "adopt") => Holds(a)

\* No token is given out twice for one row.
Distinct(a, b) ==
  (/\ pc[a] \in Claimed /\ pc[b] \in Claimed
   /\ key[a] = key[b] /\ claim[a].id = claim[b].id) => claim[a].token # claim[b].token

TokenInv ==
  /\ \A k \in Keys : PastRow(k)
  /\ \A a \in Attempts : PastClaim(a) /\ PromptAdopt(a)
  /\ \A a, b \in Attempts : a # b => Distinct(a, b)

\* The part of TokenInv about one call.
CallInv(b) == PastClaim(b) /\ PromptAdopt(b)

\* Tokens of the calls that do not step are as distinct as they were.
LEMMA DistinctElsewhere ==
  ASSUME TokenInv, NEW a \in Attempts, Elsewhere(a),
         NEW b \in Attempts \ {a}, NEW c \in Attempts \ {a}, b # c
  PROVE  Distinct(b, c)'
  BY DEF TokenInv, Elsewhere, Distinct

\* A call that does not step, whose row did not move.
LEMMA StillInv ==
  ASSUME TypeOK, TokenInv, NEW a \in Attempts, Elsewhere(a), lastId' \in {lastId, lastId + 1},
         NEW b \in Attempts \ {a}, row'[key[b]] = row[key[b]]
  PROVE  CallInv(b)'
  <1>t. lastId \in Nat /\ claim[b] \in [id : Nat, token : Nat]
    BY DEF TypeOK, StoreOK, CallOK
  <1>1. pc'[b] = pc[b] /\ key' = key /\ claim'[b] = claim[b] /\ now' = now
    BY DEF Elsewhere
  <1>2. PastClaim(b) /\ PromptAdopt(b)
    BY DEF TokenInv
  <1>3. pc[b] \in Claimed => claim[b].id \in 1..lastId'
    BY <1>2, <1>t DEF PastClaim
  <1>4. PastClaim(b)'
    BY <1>1, <1>2, <1>3 DEF PastClaim, Pending
  <1>5. PromptAdopt(b)'
    BY <1>1, <1>2 DEF PromptAdopt, At, Holds, Pending
  <1> QED
    BY <1>4, <1>5 DEF CallInv

\* TokenInv after the step of a, from its parts.
LEMMA TokensTogether ==
  ASSUME TypeOK, TokenInv, NEW a \in Attempts, Elsewhere(a), lastId' \in {lastId, lastId + 1},
         NEW k \in Keys, k = key[a], PastRow(k)', CallInv(a)',
         \A b \in Attempts \ {a} : key[b] = key[a] => CallInv(b)',
         \A b \in Attempts \ {a} : Distinct(a, b)'
  PROVE  TokenInv'
  <1>t. lastId \in Nat /\ key \in [Attempts -> Keys] /\ row \in [Keys -> Row]
    BY DEF TypeOK, StoreOK, CallOK
  <1>1. ASSUME NEW j \in Keys PROVE PastRow(j)'
    <2>1. CASE j = k
      BY <2>1
    <2>2. CASE j # k
      BY <1>t, <2>2 DEF TokenInv, PastRow, Elsewhere, Row
    <2> QED
      BY <2>1, <2>2
  <1>2. ASSUME NEW b \in Attempts PROVE CallInv(b)'
    <2>1. CASE b # a /\ key[b] # key[a]
      <3>1. row'[key[b]] = row[key[b]]
        BY <2>1, <1>t DEF Elsewhere
      <3> QED
        BY <2>1, <3>1, StillInv
    <2>2. CASE b = a
      BY <2>2
    <2> QED
      BY <2>1, <2>2
  <1>3. ASSUME NEW b \in Attempts, NEW c \in Attempts, b # c PROVE Distinct(b, c)'
    <2>1. CASE b # a /\ c # a
      BY <1>3, <2>1, DistinctElsewhere
    <2>2. CASE b = a
      BY <1>3, <2>2
    <2>3. CASE c = a
      <3>1. Distinct(a, b)'
        BY <1>3, <2>3
      <3> QED
        BY <2>3, <3>1 DEF Distinct
    <2> QED
      BY <2>1, <2>2, <2>3
  <1> QED
    BY <1>1, <1>2, <1>3 DEF TokenInv, CallInv

\* The step writes no row and gives out no token.
LEMMA KeptTokens ==
  ASSUME TypeOK, TokenInv, NEW a \in Attempts, Elsewhere(a), lastId' = lastId,
         row'[key[a]] = row[key[a]],
         \/ pc'[a] \notin Claimed
         \/ pc[a] \in Claimed /\ pc'[a] # "adopt" /\ claim'[a] = claim[a],
         pc'[a] = "takeover" => claim'[a].token = now
  PROVE  TokenInv'
  <1>t. key \in [Attempts -> Keys] /\ now \in Nat /\ Lease \in Nat /\ Lease > 0
    BY Parameters DEF TypeOK, StoreOK, CallOK
  <1>e. key' = key /\ now' = now
    BY DEF Elsewhere
  <1>k. PICK k \in Keys : k = key[a]
    BY <1>t
  <1>1. PastRow(k)'
    BY <1>k, <1>e DEF TokenInv, PastRow
  <1>2. CallInv(a)'
    <2>1. PromptAdopt(a)'
      BY <1>t, <1>e DEF PromptAdopt, At, Claimed
    <2>2. PastClaim(a)'
      BY <1>e DEF TokenInv, PastClaim, Pending
    <2> QED
      BY <2>1, <2>2 DEF CallInv
  <1>3. \A b \in Attempts \ {a} : key[b] = key[a] => CallInv(b)'
    BY StillInv
  <1>4. \A b \in Attempts \ {a} : Distinct(a, b)'
    BY <1>e DEF TokenInv, Distinct, Elsewhere
  <1> QED
    BY <1>k, <1>1, <1>2, <1>3, <1>4, TokensTogether

\* Holding the claim is one call's privilege.
LEMMA HoldersEqual ==
  ASSUME TokenInv, NEW a \in Attempts, NEW b \in Attempts, key[a] = key[b],
         pc[a] \in Claimed, pc[b] \in Claimed, Holds(a), Holds(b)
  PROVE  a = b
  BY DEF TokenInv, Distinct, Holds

\* The step decides, drops or releases the row of the claim it holds.
LEMMA EndedTokens ==
  ASSUME TypeOK, TokenInv, NEW a \in Attempts, Elsewhere(a), lastId' = lastId,
         NEW k \in Keys, k = key[a], pc[a] \in Claimed, Holds(a), pc'[a] = "idle",
         row'[k] \in Row,
         row'[k].claimedAt \in {0, row[k].claimedAt},
         row'[k].id = IF row'[k].status = "none" THEN 0 ELSE row[k].id,
         row'[k].status = "pending" => row'[k].claimedAt = 0
  PROVE  TokenInv'
  <1>t. /\ lastId \in Nat /\ now \in Nat /\ row[k] \in Row
        /\ \A b \in Attempts : claim[b] \in [id : Nat, token : Nat]
    BY DEF TypeOK, StoreOK, CallOK
  <1>e. key' = key /\ now' = now
    BY DEF Elsewhere
  <1>1. PastRow(k)'
    BY <1>t, <1>e DEF TokenInv, PastRow, Row, Holds, Pending
  <1>2. CallInv(a)' /\ \A b \in Attempts \ {a} : Distinct(a, b)'
    BY DEF CallInv, PastClaim, PromptAdopt, Distinct, At, Claimed
  <1>3. ASSUME NEW b \in Attempts \ {a}, key[b] = k PROVE CallInv(b)'
    <2>1. pc'[b] = pc[b] /\ claim'[b] = claim[b]
      BY DEF Elsewhere
    <2>2. pc[b] \in Claimed => ~Holds(b)
      BY <1>3, HoldersEqual
    <2>3. PromptAdopt(b)'
      BY <1>e, <2>1, <2>2 DEF PromptAdopt, At, TokenInv, Claimed
    <2>4. PastClaim(b)'
      <3> SUFFICES ASSUME pc[b] \in Claimed
                   PROVE  /\ claim[b].token \in 1..now /\ claim[b].id \in 1..lastId
                          /\ row'[k].status = "pending" /\ row'[k].id = claim[b].id =>
                               claim[b].token + Lease <= now
        BY <1>3, <1>e, <2>1 DEF PastClaim, Pending
      <3>1. /\ claim[b].token \in 1..now /\ claim[b].id \in 1..lastId
            /\ row[k].status = "pending" /\ row[k].id = claim[b].id =>
                 \/ claim[b].token = row[k].claimedAt
                 \/ claim[b].token + Lease <= now
        BY <1>3 DEF TokenInv, PastClaim, Pending
      <3>2. /\ row[k].status = "pending" /\ row[k].id = claim[a].id
            /\ row[k].claimedAt = claim[a].token
        BY DEF Holds, Pending
      <3>4. row[k].id = claim[b].id => claim[b].token # claim[a].token
        BY <1>3, <3>2 DEF TokenInv, Distinct
      <3>5. row[k].id = claim[b].id => claim[b].token + Lease <= now
        BY <3>1, <3>2, <3>4
      <3>6. row'[k].id = claim[b].id => row[k].id = claim[b].id
        BY <3>1, <1>t
      <3> QED
        BY <3>1, <3>5, <3>6
    <2> QED
      BY <2>3, <2>4 DEF CallInv
  <1> QED
    BY <1>1, <1>2, <1>3, TokensTogether

\* A call takes the claim: a new row, or one whose lease ran out or was released.
LEMMA TakenTokens ==
  ASSUME TypeOK, TokenInv, NEW a \in Attempts, Elsewhere(a),
         NEW k \in Keys, k = key[a], pc'[a] \in Claimed, row'[k].status = "pending",
         NEW t \in 1..now, row'[k].claimedAt = t, claim'[a] = [id |-> row'[k].id, token |-> t],
         pc'[a] = "adopt" => now < t + Lease,
         \/ lastId' = lastId + 1 /\ row'[k].id = lastId' /\ row[k].status = "none"
         \/ /\ lastId' = lastId /\ row'[k].id = row[k].id
            /\ row[k].status = "pending" /\ row[k].claimedAt + Lease <= t /\ now < t + Lease
  PROVE  TokenInv'
  <1>t. /\ lastId \in Nat /\ now \in Nat /\ row[k] \in Row /\ Lease \in Nat /\ Lease > 0
        /\ \A b \in Attempts : claim[b] \in [id : Nat, token : Nat]
    BY Parameters DEF TypeOK, StoreOK, CallOK
  <1>e. key' = key /\ now' = now
    BY DEF Elsewhere
  <1>1. PastRow(k)'
    BY <1>t, <1>e DEF TokenInv, PastRow, Row
  <1>2. CallInv(a)'
    <2>1. PastClaim(a)'
      <3>1. row'[k].id \in 1..lastId'
        BY <1>t DEF TokenInv, PastRow, Row
      <3> QED
        BY <1>t, <1>e, <3>1 DEF PastClaim, Pending
    <2>2. PromptAdopt(a)'
      BY <1>t, <1>e DEF PromptAdopt, Holds, Pending, At, Claimed
    <2> QED
      BY <2>1, <2>2 DEF CallInv
  <1>3. ASSUME NEW b \in Attempts \ {a}, key[b] = k, pc[b] \in Claimed
        PROVE  /\ claim[b].token \in 1..now /\ claim[b].id \in 1..lastId
               /\ row'[k].id = claim[b].id => claim[b].token + Lease <= now /\ claim[b].token < t
               /\ ~At(b, "adopt")
    <2>1. /\ claim[b].token \in 1..now /\ claim[b].id \in 1..lastId
          /\ row[k].status = "pending" /\ row[k].id = claim[b].id =>
               \/ claim[b].token = row[k].claimedAt
               \/ claim[b].token + Lease <= now
      BY <1>3 DEF TokenInv, PastClaim, Pending
    <2>2. row'[k].id = claim[b].id =>
            /\ row[k].status = "pending" /\ row[k].id = claim[b].id
            /\ row[k].claimedAt + Lease <= t /\ now < t + Lease
      BY <2>1, <1>t
    <2>3. row'[k].id = claim[b].id => claim[b].token + Lease <= now /\ claim[b].token < t
      BY <2>1, <2>2, <1>t DEF Row
    <2>4. ~At(b, "adopt")
      <3> SUFFICES ASSUME At(b, "adopt") PROVE FALSE
        OBVIOUS
      <3>1. now < claim[b].token + Lease /\ row[k].status = "pending"
            /\ row[k].claimedAt = claim[b].token
        BY <1>3 DEF TokenInv, PromptAdopt, Holds, Pending, At
      <3> QED
        BY <3>1, <1>t DEF Row
    <2> QED
      BY <2>1, <2>3, <2>4
  <1>4. ASSUME NEW b \in Attempts \ {a}, key[b] = k PROVE CallInv(b)'
    <2>1. pc'[b] = pc[b] /\ claim'[b] = claim[b]
      BY DEF Elsewhere
    <2>2. PromptAdopt(b)'
      BY <1>3, <1>4, <1>e, <2>1 DEF PromptAdopt, At, Claimed, TokenInv
    <2>3. lastId' \in Nat /\ lastId <= lastId'
      BY <1>t
    <2>4. PastClaim(b)'
      BY <1>3, <1>4, <1>e, <1>t, <2>1, <2>3 DEF PastClaim, Pending
    <2> QED
      BY <2>2, <2>4 DEF CallInv
  <1>5. ASSUME NEW b \in Attempts \ {a} PROVE Distinct(a, b)'
    <2>1. pc'[b] = pc[b] /\ claim'[b] = claim[b]
      BY DEF Elsewhere
    <2> QED
      BY <1>3, <1>e, <1>t, <2>1 DEF Distinct
  <1> QED
    BY <1>1, <1>2, <1>4, <1>5, TokensTogether

\* MarkFailed fails a row whose claim nobody is adopting.
LEMMA AbandonedTokens ==
  ASSUME TypeOK, TokenInv, NEW a \in Attempts, Elsewhere(a), lastId' = lastId,
         NEW k \in Keys, k = key[a], pc'[a] = "idle",
         row[k].status = "pending", row[k].claimedAt + Lease < now,
         row'[k] = [row[k] EXCEPT !.status = "failed"]
  PROVE  TokenInv'
  <1>t. /\ lastId \in Nat /\ now \in Nat /\ row[k] \in Row /\ Lease \in Nat
        /\ \A b \in Attempts : claim[b] \in [id : Nat, token : Nat]
    BY Parameters DEF TypeOK, StoreOK, CallOK
  <1>e. key' = key /\ now' = now
    BY DEF Elsewhere
  <1>r. row'[k].status = "failed" /\ row'[k].id = row[k].id /\ row'[k].claimedAt = row[k].claimedAt
    BY <1>t DEF Row
  <1>1. PastRow(k)'
    BY <1>r, <1>e DEF TokenInv, PastRow
  <1>2. CallInv(a)' /\ \A b \in Attempts \ {a} : Distinct(a, b)'
    BY DEF CallInv, PastClaim, PromptAdopt, Distinct, At, Claimed
  <1>3. ASSUME NEW b \in Attempts \ {a}, key[b] = k PROVE CallInv(b)'
    <2>1. pc'[b] = pc[b] /\ claim'[b] = claim[b]
      BY DEF Elsewhere
    <2>2. ~At(b, "adopt")
      <3> SUFFICES ASSUME At(b, "adopt") PROVE FALSE
        OBVIOUS
      <3>1. now < claim[b].token + Lease /\ row[k].claimedAt = claim[b].token
        BY <1>3 DEF TokenInv, PromptAdopt, Holds, At
      <3> QED
        BY <3>1, <1>t DEF Row
    <2>3. PromptAdopt(b)'
      BY <1>e, <2>1, <2>2 DEF PromptAdopt, At, TokenInv
    <2>4. PastClaim(b)'
      BY <1>3, <1>e, <1>r, <2>1 DEF TokenInv, PastClaim, Pending
    <2> QED
      BY <2>3, <2>4 DEF CallInv
  <1> QED
    BY <1>1, <1>2, <1>3, TokensTogether

\* Every step of a call keeps ids and tokens in the past, and apart.
LEMMA CallTokens ==
  ASSUME TypeOK, FenceInv, TokenInv, NEW a \in Attempts, Stepped(a)
  PROVE  TokenInv'
  <1>k. PICK k \in Keys : k = key[a]
    BY DEF TypeOK, CallOK
  <1>t. StoreOK /\ CallOK /\ row[k] \in Row /\ row' \in [Keys -> Row] /\ now \in Nat
    <2>1. TypeOK'
      BY TypeStep DEF Next, Stepped
    <2> QED
      BY <2>1 DEF TypeOK, StoreOK
  <1>e. Elsewhere(a)
    BY Local
  <1>c. "idle" \notin Claimed /\ \A s \in Unclaimed : s \notin Claimed
    BY DEF Claimed, Unclaimed
  <1> USE <1>k, <1>t, <1>e, GotoSets, ReturnSets
  <1>1. CASE /\ lastId' = lastId /\ row' = row
             /\ \/ pc'[a] \notin Claimed
                \/ pc[a] \in Claimed /\ pc'[a] # "adopt" /\ claim'[a] = claim[a]
             /\ pc'[a] = "takeover" => claim'[a].token = now
    <2>1. row'[key[a]] = row[key[a]]
      BY <1>1
    <2> QED
      BY <1>1, <2>1, KeptTokens
  <1>2. CASE lastId' = lastId /\ row' = row /\ \E r : Return(a, r)
    BY <1>1, <1>2, <1>c
  <1>3. CASE CheckErased(a) \/ Gate(a) \/ VerifyRefs(a)
    <2>1. /\ lastId' = lastId /\ row' = row
          /\ (\E s \in {"gate", "stamp", "insert"} : Goto(a, s)) \/ \E r : Return(a, r)
      BY <1>3 DEF CheckErased, Gate, VerifyRefs
    <2> QED
      BY <1>1, <2>1, <1>c DEF Unclaimed
  <1>12. CASE Stamp(a)
    <2>1. /\ lastId' = lastId /\ row' = row
          /\ \/ /\ \E s \in {"takeover", "verify"} : pc' = [pc EXCEPT ![a] = s]
                /\ claim' = [claim EXCEPT ![a].token = now]
             \/ \E r : Return(a, r)
      BY <1>12 DEF Stamp
    <2>2. pc'[a] \notin Claimed /\ (pc'[a] = "takeover" => claim'[a].token = now)
      BY <2>1, <1>c DEF CallOK, Unclaimed
    <2> QED
      BY <1>1, <2>1, <2>2
  <1>4. CASE Refind(a)
    <2>1. /\ lastId' = lastId /\ row' = row
          /\ pc' = [pc EXCEPT ![a] = "stamp"] \/ \E r : Return(a, r)
      BY <1>4 DEF Refind
    <2>2. pc'[a] \notin Claimed /\ pc'[a] # "takeover"
      BY <2>1, <1>c DEF CallOK, Unclaimed
    <2> QED
      BY <1>1, <2>1, <2>2
  <1>5. CASE Insert(a)
    <2>1. CASE row[k].status = "none"
      <3> DEFINE r == [id |-> lastId + 1, status |-> "pending",
                       claimedAt |-> claim[a].token, named |-> k \in OfContact]
      <3>1. /\ SetRow(k, r) /\ pc' = [pc EXCEPT ![a] = "check"] /\ lastId' = lastId + 1
            /\ claim' = [claim EXCEPT ![a].id = lastId + 1] /\ At(a, "insert")
        BY <1>5, <2>1 DEF Insert
      <3> DEFINE t == claim[a].token
      <3>t. t \in 1..now
        BY <3>1 DEF FenceInv, Stamped, At
      <3>2. row'[k] = r /\ claim'[a] = [id |-> lastId + 1, token |-> t] /\ pc'[a] = "check"
        BY <3>1 DEF SetRow, StoreOK, CallOK
      <3>3. /\ pc'[a] \in Claimed /\ row'[k].status = "pending" /\ row'[k].claimedAt = t
            /\ row'[k].id = lastId' /\ claim'[a] = [id |-> row'[k].id, token |-> t]
        BY <3>1, <3>2 DEF Claimed
      <3>4. pc'[a] # "adopt"
        BY <3>2
      <3> HIDE DEF t
      <3> QED
        BY <2>1, <3>1, <3>t, <3>3, <3>4, TakenTokens
    <2>2. CASE row[k].status # "none"
      <3>1. pc' = [pc EXCEPT ![a] = "refind"] /\ lastId' = lastId /\ row' = row
        BY <1>5, <2>2 DEF Insert
      <3>2. pc'[a] \notin Claimed /\ pc'[a] # "takeover"
        BY <3>1, <1>c DEF CallOK, Unclaimed
      <3> QED
        BY <1>1, <3>1, <3>2
    <2> QED
      BY <2>1, <2>2
  <1>6. CASE TakeOver(a)
    <2> DEFINE r == [row[k] EXCEPT !.claimedAt = claim[a].token]
    <2>1. \/ Return(a, "in_progress") /\ row' = row /\ lastId' = lastId
          \/ /\ SetRow(k, r) /\ pc' = [pc EXCEPT ![a] = "adopt"] /\ lastId' = lastId
             /\ claim' = [claim EXCEPT ![a].id = row[k].id] /\ At(a, "takeover")
             /\ row[k].status = "pending" /\ row[k].claimedAt = seen[a].claimedAt
      BY <1>6 DEF TakeOver, Pending
    <2>2. CASE /\ SetRow(k, r) /\ pc' = [pc EXCEPT ![a] = "adopt"] /\ lastId' = lastId
               /\ claim' = [claim EXCEPT ![a].id = row[k].id] /\ At(a, "takeover")
               /\ row[k].status = "pending" /\ row[k].claimedAt = seen[a].claimedAt
      <3> DEFINE t == claim[a].token
      <3>1. row'[k] = r /\ claim'[a] = [id |-> row[k].id, token |-> t] /\ pc'[a] = "adopt"
        BY <2>2 DEF SetRow, StoreOK, CallOK
      <3>2. row'[k].status = "pending" /\ row'[k].id = row[k].id /\ row'[k].claimedAt = t
        BY <2>2, <3>1 DEF Row
      <3>3. t \in 1..now /\ row[k].claimedAt + Lease <= t
        BY <2>2 DEF FenceInv, Stamped, At
      <3>4. now < t + Lease
        BY <2>2 DEF TokenInv, PromptAdopt, At
      <3>5. pc'[a] \in Claimed
        BY <3>1 DEF Claimed
      <3>6. claim'[a] = [id |-> row'[k].id, token |-> t]
        BY <3>1, <3>2
      <3> HIDE DEF t
      <3> QED
        BY <2>2, <3>2, <3>3, <3>4, <3>5, <3>6, TakenTokens
    <2> QED
      BY <1>2, <2>1, <2>2
  <1>7. CASE Adopt(a)
    <2>1. row' = row /\ lastId' = lastId /\ At(a, "adopt")
      BY <1>7 DEF Adopt
    <2>2. claim[a].token = row[k].claimedAt /\ pc[a] \in Claimed
      BY <2>1 DEF TokenInv, PromptAdopt, Holds, At, Claimed
    <2>3. CASE row[k].id = claim[a].id
      <3>1. /\ pc' = [pc EXCEPT ![a] = "check"]
            /\ claim' = [claim EXCEPT ![a].token = row[k].claimedAt]
        BY <1>7, <2>3 DEF Adopt
      <3>2. pc'[a] \notin {"adopt", "takeover"} /\ claim'[a] = claim[a]
        BY <2>2, <3>1 DEF CallOK
      <3> QED
        BY <1>1, <2>1, <2>2, <3>2
    <2>4. CASE row[k].id # claim[a].id
      BY <1>2, <1>7, <2>1, <2>4 DEF Adopt
    <2> QED
      BY <2>3, <2>4
  <1>8. CASE Check(a) \/ Reserve(a) \/ ReserveWait(a) \/ Accept(a) \/ LoseReply(a) \/ Refuse(a)
    <2>1. /\ row' = row /\ lastId' = lastId /\ pc[a] \in {"check", "reserve", "provider"}
          /\ \E s : s \notin {"adopt", "takeover"} /\ Goto(a, s)
      BY <1>8 DEF Check, Reserve, ReserveWait, Accept, LoseReply, Refuse, At
    <2> QED
      BY <1>1, <2>1 DEF Claimed
  <1>9. CASE StatementFails(a) \/ Crash(a)
    <2>1. /\ row' = row /\ lastId' = lastId
          /\ \/ pc[a] \in {"check", "reserve"} /\ Goto(a, "release")
             \/ \E r : Return(a, r)
      BY <1>9 DEF StatementFails, Crash
    <2> QED
      BY <1>1, <1>2, <2>1 DEF Claimed
  <1>10. CASE Finish(a) \/ Drop(a) \/ Release(a) \/ RecordSent(a) \/ CommitReplyLost(a)
    <2>1. /\ lastId' = lastId /\ \E r : Return(a, r)
          /\ pc[a] \in {"skip", "fail", "hold", "defer", "release", "record"}
      BY <1>10 DEF Finish, Drop, Release, RecordSent, CommitReplyLost, At
    <2>2. pc[a] \in Claimed /\ pc'[a] = "idle"
      BY <2>1 DEF Claimed
    <2>3. CASE Holds(a)
      <3>0. row'[k] \in Row
        OBVIOUS
      <3>1. CASE Drop(a)
        <4>1. row'[k] = NoRow
          BY <2>3, <3>1 DEF Drop, StoreOK
        <4> QED
          BY <2>1, <2>2, <2>3, <3>0, <4>1, EndedTokens DEF NoRow
      <3>2. CASE Release(a)
        <4>1. row'[k] = [row[k] EXCEPT !.claimedAt = 0]
          BY <2>3, <3>2 DEF Release, StoreOK
        <4>2. row'[k].claimedAt = 0 /\ row'[k].id = row[k].id /\ row'[k].status = row[k].status
          BY <4>1 DEF Row
        <4>3. row[k].status = "pending"
          BY <2>3 DEF Holds, Pending
        <4> QED
          BY <2>1, <2>2, <2>3, <3>0, <4>2, <4>3, EndedTokens
      <3>3. CASE Finish(a) \/ RecordSent(a) \/ CommitReplyLost(a)
        <4>1. PICK s \in Final : row' = [row EXCEPT ![k] = [row[k] EXCEPT !.status = s]]
          BY <2>3, <3>3 DEF Finish, RecordSent, CommitReplyLost, CommitSent, SetRow, Final
        <4>2. /\ row'[k].claimedAt = row[k].claimedAt /\ row'[k].id = row[k].id
              /\ row'[k].status \notin {"none", "pending"}
          BY <4>1 DEF StoreOK, Row, Final
        <4> QED
          BY <2>1, <2>2, <2>3, <3>0, <4>2, EndedTokens
      <3> QED
        BY <1>10, <3>1, <3>2, <3>3
    <2>4. CASE ~Holds(a)
      <3>1. row'[k] = row[k]
        <4>1. CASE Drop(a) \/ Finish(a) \/ RecordSent(a) \/ CommitReplyLost(a)
          BY <2>4, <4>1 DEF Drop, Finish, RecordSent, CommitReplyLost, StoreOK
        <4>2. CASE Release(a)
          <5>1. row' = [row EXCEPT ![k].claimedAt = row[k].claimedAt]
            BY <2>4, <4>2 DEF Release
          <5> QED
            BY <5>1 DEF StoreOK, Row
        <4> QED
          BY <1>10, <4>1, <4>2
      <3>2. row'[key[a]] = row[key[a]] /\ pc'[a] \notin Claimed /\ pc'[a] # "takeover"
        BY <2>2, <3>1, <1>c
      <3> QED
        BY <2>1, <3>2, KeptTokens
    <2> QED
      BY <2>3, <2>4
  <1>11. CASE MarkFailed(a)
    <2> DEFINE abandoned == row[k].status = "pending" /\ row[k].claimedAt + Lease < now
    <2>1. /\ row' = [row EXCEPT ![k].status = IF abandoned THEN "failed" ELSE row[k].status]
          /\ lastId' = lastId /\ At(a, "idle") /\ pc' = pc
      BY <1>11 DEF MarkFailed, Pending
    <2>2. pc'[a] = "idle" /\ pc'[a] \notin Claimed /\ pc'[a] # "takeover"
      BY <2>1, <1>c DEF At
    <2>3. CASE abandoned
      <3>1. row'[k] = [row[k] EXCEPT !.status = "failed"]
        BY <2>1, <2>3 DEF StoreOK
      <3> QED
        BY <2>1, <2>2, <2>3, <3>1, AbandonedTokens
    <2>4. CASE ~abandoned
      <3>1. row' = [row EXCEPT ![k].status = row[k].status]
        BY <2>1, <2>4
      <3>2. row'[key[a]] = row[key[a]]
        BY <3>1 DEF StoreOK, Row
      <3> QED
        BY <2>1, <2>2, <3>2, KeptTokens
    <2> QED
      BY <2>3, <2>4
  <1> QED
    BY <1>3, <1>4, <1>5, <1>6, <1>7, <1>8, <1>9, <1>10, <1>11, <1>12 DEF Stepped, Call, Mishap

\* The Workspace and calls that begin neither write a row nor a token.
LEMMA WorldTokens ==
  ASSUME TypeOK, TokenInv, ~stalled',
         World \/ \E a \in Attempts, k \in Keys : Begin(a, k)
  PROVE  TokenInv'
  <1>t. StoreOK /\ CallOK /\ now \in Nat
    BY DEF TypeOK, StoreOK
  <1>1. lastId' = lastId /\ claim' = claim /\ now' \in {now, now + 1}
    BY DEF World, Freeze, Unfreeze, Bar, EraseScan, Erase, Tick, Begin, local
  <1>2. \A j \in Keys : /\ row'[j].status = row[j].status /\ row'[j].id = row[j].id
                        /\ row'[j].claimedAt = row[j].claimedAt
    <2>1. row' = row \/ \E k \in Keys, n \in BOOLEAN :
                           row' = [row EXCEPT ![k] = [row[k] EXCEPT !.named = n]]
      BY <1>t DEF World, Freeze, Unfreeze, Bar, EraseScan, Erase, Tick, Begin, StoreOK, Row
    <2> QED
      BY <2>1, <1>t DEF StoreOK, Row
  <1>3. \A a \in Attempts :
          pc'[a] \in Claimed \cup {"takeover"} => pc'[a] = pc[a] /\ key'[a] = key[a]
    <2>1. ASSUME NEW b \in Attempts, NEW k \in Keys, Begin(b, k), NEW a \in Attempts,
                 pc'[a] \in Claimed \cup {"takeover"}
          PROVE  pc'[a] = pc[a] /\ key'[a] = key[a]
      <3>1. /\ key' = [key EXCEPT ![b] = k] /\ pc[b] = "idle"
            /\ pc' = pc \/ pc' = [pc EXCEPT ![b] = "erasure"]
        BY <2>1 DEF Begin, At
      <3> QED
        BY <2>1, <3>1, <1>t DEF CallOK, Claimed
    <2>2. World => pc' = pc /\ key' = key
      BY DEF World, Freeze, Unfreeze, Bar, EraseScan, Erase, Tick, local
    <2> QED
      BY <2>1, <2>2
  <1>4. now' = now + 1 =>
          \A a \in Attempts : pc[a] \in {"takeover", "adopt"} => now + 1 < claim[a].token + Lease
    <2>1. Tick \/ now' = now
      BY DEF World, Freeze, Unfreeze, Bar, EraseScan, Erase, Begin
    <2>2. Tick =>
            \A a \in Attempts : pc[a] \in {"takeover", "adopt"} => now + 1 < claim[a].token + Lease
      <3> SUFFICES ASSUME Tick, NEW a \in Attempts, pc[a] \in {"takeover", "adopt"}
                   PROVE  now + 1 < claim[a].token + Lease
        OBVIOUS
      <3>1. ~(now + 1 >= claim[a].token + Lease)
        BY Zenon DEF Tick
      <3>2. claim[a].token \in Nat
        BY <1>t DEF CallOK
      <3> QED
        BY <3>1, <3>2, <1>t, Parameters
    <2> QED
      BY <2>1, <2>2, <1>t
  <1>5. ASSUME NEW k \in Keys PROVE PastRow(k)'
    BY <1>t, <1>1, <1>2 DEF TokenInv, PastRow, StoreOK, Row
  <1>6. ASSUME NEW a \in Attempts PROVE PastClaim(a)'
    <2>1. key[a] \in Keys /\ claim[a] \in [id : Nat, token : Nat] /\ Lease \in Nat
      BY <1>t, Parameters DEF CallOK
    <2>2. PastClaim(a)
      BY DEF TokenInv
    <2> SUFFICES ASSUME pc'[a] \in Claimed
                 PROVE  /\ claim[a].token \in 1..now' /\ claim[a].id \in 1..lastId
                        /\ Pending(key[a]) /\ row[key[a]].id = claim[a].id =>
                             \/ claim[a].token = row[key[a]].claimedAt
                             \/ /\ claim[a].token + Lease <= now'
                                /\ \/ row[key[a]].claimedAt = 0
                                   \/ claim[a].token < row[key[a]].claimedAt
      BY <1>1, <1>2, <1>3, <2>1 DEF PastClaim, Pending
    <2>3. pc[a] \in Claimed
      BY <1>3
    <2> QED
      BY <1>t, <1>1, <2>1, <2>2, <2>3 DEF PastClaim
  <1>7. ASSUME NEW a \in Attempts PROVE PromptAdopt(a)'
    <2>1. key[a] \in Keys /\ PromptAdopt(a)
      BY <1>t DEF CallOK, TokenInv
    <2> QED
      BY <1>1, <1>2, <1>3, <1>4, <2>1 DEF PromptAdopt, At, Holds, Pending, Claimed
  <1>8. ASSUME NEW a \in Attempts, NEW b \in Attempts, a # b PROVE Distinct(a, b)'
    BY <1>1, <1>3, <1>8 DEF TokenInv, Distinct
  <1> QED
    BY <1>5, <1>6, <1>7, <1>8 DEF TokenInv

\* No token has been given out yet.
LEMMA TokenInit == Init => TokenInv
  <1> SUFFICES ASSUME Init PROVE TokenInv
    OBVIOUS
  <1>1. \A a \in Attempts : pc[a] = "idle"
    BY DEF Init
  <1>2. \A k \in Keys : row[k] = NoRow
    BY DEF Init
  <1>3. now > 0 /\ lastId = 0
    BY Parameters DEF Init
  <1>4. now \in Nat
    BY Parameters DEF Init
  <1> QED
    BY <1>1, <1>2, <1>3, <1>4
       DEF TokenInv, PastRow, PastClaim, PromptAdopt, Distinct, At, Claimed, NoRow

\* TokenInv is inductive, given the types and a clock past the epoch.
LEMMA TokenStep ==
  ~stalled' /\ TypeOK /\ FenceInv /\ TokenInv /\ [Next]_vars => TokenInv'
  <1> SUFFICES ASSUME ~stalled', TypeOK, FenceInv, TokenInv, [Next]_vars PROVE TokenInv'
    OBVIOUS
  <1>2. CASE UNCHANGED vars
    BY <1>2 DEF vars, local, TokenInv, PastRow, PastClaim, PromptAdopt, Distinct, At, Holds, Pending
  <1> QED
    BY <1>2, CallTokens, WorldTokens DEF Next, Stepped

\* A stall is never forgotten.
LEMMA StallsLatch == [Next]_vars => (stalled => stalled')
  <1> SUFFICES ASSUME [Next]_vars, stalled PROVE stalled'
    OBVIOUS
  <1>1. ASSUME NEW a \in Attempts, Call(a) PROVE stalled'
    BY <1>1 DEF Call, CheckErased, Gate, Stamp, VerifyRefs, Insert, Refind, TakeOver, Adopt, Check,
                Finish, Reserve, Accept, Drop, Release, RecordSent, world
  <1>2. ASSUME NEW a \in Attempts, Mishap(a) \/ MarkFailed(a) PROVE stalled'
    BY <1>2 DEF Mishap, ReserveWait, LoseReply, Refuse, CommitReplyLost, StatementFails, Crash,
                MarkFailed, world
  <1>3. ASSUME NEW a \in Attempts, NEW k \in Keys, Begin(a, k) PROVE stalled'
    BY <1>3 DEF Begin, world
  <1>4. World => stalled'
    <2>1. Tick => stalled'
      BY Zenon DEF Tick
    <2> QED
      BY <2>1 DEF World, Freeze, Unfreeze, Bar, EraseScan, Erase
  <1> QED
    BY <1>1, <1>2, <1>3, <1>4 DEF Next, vars, world

\* Until takeOver stalls, two calls never pass the fence of one key together.
THEOREM OneHolderAtATime == Spec => []OneHolderUnlessStalled
  <1> DEFINE Inv == TypeOK /\ FenceInv /\ (~stalled => TokenInv)
  <1>1. Init => Inv
    BY TypeInit, FenceInit, TokenInit
  <1>2. Inv /\ [Next]_vars => Inv'
    BY TypeStep, FenceStep, TokenStep, StallsLatch
  <1>3. Inv => OneHolderUnlessStalled
    BY DEF TokenInv, Distinct, OneHolderUnlessStalled, OneHolder, Holds
  <1> QED
    BY <1>1, <1>2, <1>3, PTL DEF Spec

=============================================================================
