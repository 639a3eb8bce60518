---------------------------- MODULE OutboundSend ----------------------------
(***************************************************************************)
(* Outbound send (internal/outbound): the one path every email of a        *)
(* Workspace takes.  Callers (job runs, API requests) are processes, each  *)
(* inside one call of Module.Send; every database statement, and the call  *)
(* of the provider, is a step of its own, so calls of one key interleave,  *)
(* stall, crash and outlive their lease anywhere between two statements.   *)
(*                                                                         *)
(* Time is a counter and a claim's token is the time the caller read from  *)
(* its clock before it sent the statement that writes it, as in claimed_at;*)
(* 0 is the epoch a released claim is set to.                              *)
(***************************************************************************)
EXTENDS Naturals, FiniteSets

CONSTANTS
  Keys,         \* idempotency keys
  Attempts,     \* callers of Send
  Kind,         \* Kind[k]: the surface the key belongs to
  OfContact,    \* keys whose Request carries a Contact
  Unrenderable, \* keys whose content may fail to render
  Lease,        \* how long a pending claim blocks other attempts
  MaxTime,      \* bound: the clock stops here
  MaxFaults     \* bound: failures, busy replies and holds in a run

Kinds == {"broadcast", "automation", "transactional"}

ASSUME KindAssumption == Kind \in [Keys -> Kinds]
ASSUME ContactAssumption == OfContact \subseteq Keys
ASSUME LeaseAssumption == Lease \in Nat \ {0}
ASSUME BoundAssumption == MaxTime \in Nat /\ MaxFaults \in Nat

VARIABLES
  now,         \* the clock
  lastId,      \* the last outbound_messages id handed out
  row,         \* row[k]: the Outbound message under k
  published,   \* published[k]: ids of the messages email.sent was published for
  frozen,      \* the gate answers with a Hold
  barred,      \* keys whose destination is ineligible
  erased,      \* keys whose Contact was erased
  erasing,     \* keys whose row an Erasure under way looked for and did not find
  faults,      \* failures so far
  pc,          \* pc[a]: the next statement of a's call
  key,         \* key[a]: the key of a's latest call
  seen,        \* seen[a]: the row a's replay check read
  claim,       \* claim[a]: row id and claimed_at token a believes it holds
  answer,      \* answer[a]: what a's latest call returned
  accepted,    \* history: how often the provider accepted a message under k
  outlived,    \* history: a claim under k expired, or its reply was lost, so
               \*   the provider may have accepted it unrecorded
  crossed,     \* history: keys an INSERT was under way for beside the Erasure
  stalled      \* history: a takeOver was a lease apart from its read-back

erasure == <<erased, erasing, crossed>>
world == <<frozen, barred, erasure, stalled>>
local == <<pc, key, seen, claim, answer>>
vars == <<now, lastId, row, published, world, faults, local, accepted, outlived>>

Final == {"sent", "skipped", "failed"}
Answers == Final \cup {"none", "held", "deferral", "in_progress", "error", "crashed"}

\* Statements of a call before, and after, it holds a claim.
Unclaimed == {"erasure", "gate", "stamp", "verify", "insert", "refind", "takeover"}
Claimed == {"adopt", "check", "skip", "fail", "reserve", "provider", "record",
            "hold", "defer", "release"}

NoRow == [id |-> 0, status |-> "none", claimedAt |-> 0, named |-> FALSE]
NoClaim == [id |-> 0, token |-> 0]

Row == [id : Nat, status : Final \cup {"none", "pending"}, claimedAt : Nat,
        named : BOOLEAN]

StoreOK ==
  /\ now \in Nat /\ lastId \in Nat
  /\ row \in [Keys -> Row]
  /\ published \in [Keys -> SUBSET Nat]
  /\ accepted \in [Keys -> Nat]
  /\ outlived \in [Keys -> BOOLEAN]

WorldOK ==
  /\ frozen \in BOOLEAN /\ barred \in SUBSET Keys
  /\ erased \in SUBSET OfContact /\ erasing \in SUBSET OfContact /\ crossed \in SUBSET Keys
  /\ faults \in Nat /\ stalled \in BOOLEAN

Statements == {"idle"} \cup Unclaimed \cup Claimed

CallOK ==
  /\ pc \in [Attempts -> Statements]
  /\ key \in [Attempts -> Keys]
  /\ seen \in [Attempts -> Row]
  /\ claim \in [Attempts -> [id : Nat, token : Nat]]
  /\ answer \in [Attempts -> Answers]

TypeOK == StoreOK /\ WorldOK /\ CallOK

\* The clock starts where the epoch of a released claim is past its lease.
Init ==
  /\ now = Lease + 1
  /\ lastId = 0 /\ faults = 0
  /\ row = [k \in Keys |-> NoRow]
  /\ published = [k \in Keys |-> {}]
  /\ frozen = FALSE /\ barred = {} /\ stalled = FALSE
  /\ erased = {} /\ erasing = {} /\ crossed = {}
  /\ pc = [a \in Attempts |-> "idle"]
  /\ key \in [Attempts -> Keys]
  /\ seen = [a \in Attempts |-> NoRow]
  /\ claim = [a \in Attempts |-> NoClaim]
  /\ answer = [a \in Attempts |-> "none"]
  /\ accepted = [k \in Keys |-> 0]
  /\ outlived = [k \in Keys |-> FALSE]

\* Something goes wrong; early enough that a claim left behind can still expire.
Fault ==
  /\ faults < MaxFaults
  /\ now + Lease <= MaxTime
  /\ faults' = faults + 1

Pending(k) == row[k].status = "pending"
\* Mutant of Live: a claim that was never released blocks for ever.
LiveForever(claimedAt) == claimedAt # 0
Live(claimedAt) == now < claimedAt + Lease

\* The fence of every write an attempt makes to its own claim.
Holds(a) ==
  /\ Pending(key[a])
  /\ row[key[a]].id = claim[a].id
  /\ row[key[a]].claimedAt = claim[a].token

At(a, statement) == pc[a] = statement
Goto(a, statement) ==
  /\ pc' = [pc EXCEPT ![a] = statement]
  /\ UNCHANGED <<key, seen, claim, answer>>

\* The call ends and its locals go with it.
Return(a, result) ==
  /\ pc' = [pc EXCEPT ![a] = "idle"]
  /\ answer' = [answer EXCEPT ![a] = result]
  /\ seen' = [seen EXCEPT ![a] = NoRow]
  /\ claim' = [claim EXCEPT ![a] = NoClaim]
  /\ UNCHANGED key

SetRow(k, r) == row' = [row EXCEPT ![k] = r]

-----------------------------------------------------------------------------
(* Send: replay check, erasure check, gate.                                *)

\* The replay check: a decided message answers at once, even while frozen.
Begin(a, k) ==
  /\ At(a, "idle")
  /\ key' = [key EXCEPT ![a] = k]
  /\ IF row[k].status \in Final
       THEN /\ answer' = [answer EXCEPT ![a] = row[k].status]
            /\ UNCHANGED <<pc, seen>>
       ELSE /\ answer' = [answer EXCEPT ![a] = "none"]
            /\ pc' = [pc EXCEPT ![a] = "erasure"]
            /\ seen' = [seen EXCEPT ![a] = row[k]]
  /\ UNCHANGED <<now, lastId, row, published, world, faults, claim, accepted, outlived>>

CheckErased(a) ==
  /\ At(a, "erasure")
  /\ IF key[a] \in erased THEN Return(a, "skipped") ELSE Goto(a, "gate")
  /\ UNCHANGED <<now, lastId, row, published, world, faults, accepted, outlived>>

Gate(a) ==
  /\ At(a, "gate")
  /\ IF frozen THEN Return(a, "held")
     ELSE Goto(a, "stamp")
  /\ UNCHANGED <<now, lastId, row, published, world, faults, accepted, outlived>>

-----------------------------------------------------------------------------
(* claim and takeOver.                                                     *)

\* The caller reads its clock: a live claim is left alone, and claimTime, the
\* token of the statement to come, is fixed before that statement is sent.
Stamp(a) ==
  /\ At(a, "stamp")
  /\ IF seen[a].status = "pending" /\ Live(seen[a].claimedAt)
       THEN Return(a, "in_progress")
       ELSE /\ pc' = [pc EXCEPT ![a] =
                       IF seen[a].status = "pending" THEN "takeover" ELSE "verify"]
            /\ claim' = [claim EXCEPT ![a].token = now]
            /\ UNCHANGED <<key, seen, answer>>
  /\ UNCHANGED <<now, lastId, row, published, world, faults, accepted, outlived>>

\* Mutant of VerifyRefs: the INSERT is sent without the reference check.
VerifyNothing(a) ==
  /\ At(a, "verify") /\ Goto(a, "insert")
  /\ UNCHANGED <<now, lastId, row, published, world, faults, accepted, outlived>>

\* The scoped client checks that the referenced Contact exists, in a
\* statement of its own, before the INSERT.
VerifyRefs(a) ==
  /\ At(a, "verify")
  /\ IF key[a] \in erased THEN Return(a, "error") ELSE Goto(a, "insert")
  /\ UNCHANGED <<now, lastId, row, published, world, faults, accepted, outlived>>

\* INSERT under the unique (workspace, key) index, with the token stamped before,
\* which the loser forgets.
Insert(a) ==
  /\ At(a, "insert")
  /\ IF row[key[a]].status = "none"
       THEN /\ lastId' = lastId + 1
            /\ SetRow(key[a], [id |-> lastId + 1, status |-> "pending",
                               claimedAt |-> claim[a].token,
                               named |-> key[a] \in OfContact])
            /\ pc' = [pc EXCEPT ![a] = "check"]
            /\ claim' = [claim EXCEPT ![a].id = lastId + 1]
            /\ UNCHANGED <<key, seen, answer>>
       ELSE /\ pc' = [pc EXCEPT ![a] = "refind"]
            /\ claim' = [claim EXCEPT ![a] = NoClaim]
            /\ UNCHANGED <<lastId, row, key, seen, answer>>
  /\ UNCHANGED <<now, published, world, faults, accepted, outlived>>

\* Mutant of Refind: a pending winner is replayed like a decided one.
RefindReplays(a) ==
  /\ At(a, "refind")
  /\ Return(a, IF row[key[a]].status = "none" THEN "error" ELSE row[key[a]].status)
  /\ UNCHANGED <<now, lastId, row, published, world, faults, accepted, outlived>>

\* The INSERT lost the race: treat the winner's row as one found up front.
Refind(a) ==
  /\ At(a, "refind")
  /\ LET other == row[key[a]] IN
       CASE other.status = "none" -> Return(a, "error")
         [] other.status \in Final -> Return(a, other.status)
         [] OTHER -> /\ pc' = [pc EXCEPT ![a] = "stamp"]
                     /\ seen' = [seen EXCEPT ![a] = other]
                     /\ UNCHANGED <<key, claim, answer>>
  /\ UNCHANGED <<now, lastId, row, published, world, faults, accepted, outlived>>

\* Mutant of TakeOver: the claimed_at that was read is not compared again.
TakeOverUnchecked(a) ==
  /\ At(a, "takeover")
  /\ LET k == key[a] IN
       IF Pending(k) /\ row[k].id = seen[a].id
         THEN /\ SetRow(k, [row[k] EXCEPT !.claimedAt = claim[a].token])
              /\ pc' = [pc EXCEPT ![a] = "adopt"]
              /\ claim' = [claim EXCEPT ![a].id = row[k].id]
              /\ seen' = [seen EXCEPT ![a] = NoRow]
              /\ outlived' = [outlived EXCEPT ![k] = @ \/ seen[a].claimedAt # 0]
              /\ UNCHANGED <<key, answer>>
         ELSE Return(a, "in_progress") /\ UNCHANGED <<row, outlived>>
  /\ UNCHANGED <<now, lastId, published, world, faults, accepted>>

\* The stale claim that was read is still the row's: adopt it, with the token
\* stamped before.
TakeOver(a) ==
  /\ At(a, "takeover")
  /\ LET k == key[a]
         mine == /\ Pending(k)
                 /\ row[k].id = seen[a].id
                 /\ row[k].claimedAt = seen[a].claimedAt
     IN IF mine
          THEN /\ SetRow(k, [row[k] EXCEPT !.claimedAt = claim[a].token])
               /\ pc' = [pc EXCEPT ![a] = "adopt"]
               /\ claim' = [claim EXCEPT ![a].id = row[k].id]
               /\ seen' = [seen EXCEPT ![a] = NoRow]
               /\ outlived' = [outlived EXCEPT ![k] = @ \/ seen[a].claimedAt # 0]
               /\ UNCHANGED <<key, answer>>
          ELSE Return(a, "in_progress") /\ UNCHANGED <<row, outlived>>
  /\ UNCHANGED <<now, lastId, published, world, faults, accepted>>

\* takeOver ends by reading the row back by id, and the attempt's token is
\* the claimed_at that this read returns.
Adopt(a) ==
  /\ At(a, "adopt")
  /\ IF row[key[a]].id = claim[a].id
       THEN /\ pc' = [pc EXCEPT ![a] = "check"]
            /\ claim' = [claim EXCEPT ![a].token = row[key[a]].claimedAt]
            /\ UNCHANGED <<key, seen, answer>>
       ELSE Return(a, "error")
  /\ UNCHANGED <<now, lastId, row, published, world, faults, accepted, outlived>>

-----------------------------------------------------------------------------
(* Eligibility, rendering, rate limit, provider.                           *)

\* Eligibility is asked per message, then the content, which may have been
\* edited since the last attempt, is composed.
Check(a) ==
  /\ At(a, "check")
  /\ IF key[a] \in barred THEN Goto(a, "skip")
     ELSE Goto(a, "reserve") \/ (key[a] \in Unrenderable /\ Goto(a, "fail"))
  /\ UNCHANGED <<now, lastId, row, published, world, faults, accepted, outlived>>

\* Mutant of Finish: the outcome is reported whether or not it was recorded.
FinishUnchecked(a) ==
  /\ At(a, "skip") \/ At(a, "fail")
  /\ LET decided == IF At(a, "skip") THEN "skipped" ELSE "failed" IN
       /\ SetRow(key[a], [row[key[a]] EXCEPT !.status = IF Holds(a) THEN decided ELSE @])
       /\ Return(a, decided)
  /\ UNCHANGED <<now, lastId, published, world, faults, accepted, outlived>>

\* finish: a final, non-sent status, if the claim is still held.
Finish(a) ==
  /\ At(a, "skip") \/ At(a, "fail")
  /\ LET decided == IF At(a, "skip") THEN "skipped" ELSE "failed" IN
       IF Holds(a)
         THEN /\ SetRow(key[a], [row[key[a]] EXCEPT !.status = decided])
              /\ Return(a, decided)
         ELSE Return(a, "in_progress") /\ UNCHANGED row
  /\ UNCHANGED <<now, lastId, published, world, faults, accepted, outlived>>

Reserve(a) ==
  /\ At(a, "reserve")
  /\ Goto(a, "provider")
  /\ UNCHANGED <<now, lastId, row, published, world, faults, accepted, outlived>>

\* The send rate limit is spent; transactional mail never waits for it.
ReserveWait(a) ==
  /\ At(a, "reserve") /\ Kind[key[a]] # "transactional" /\ Fault
  /\ Goto(a, "defer")
  /\ UNCHANGED <<now, lastId, row, published, world, accepted, outlived>>

Accept(a) ==
  /\ At(a, "provider")
  /\ accepted' = [accepted EXCEPT ![key[a]] = @ + 1]
  /\ Goto(a, "record")
  /\ UNCHANGED <<now, lastId, row, published, world, faults, outlived>>

\* The provider took the message but its answer was lost: to Send, an error.
LoseReply(a) ==
  /\ At(a, "provider") /\ Fault
  /\ accepted' = [accepted EXCEPT ![key[a]] = @ + 1]
  /\ outlived' = [outlived EXCEPT ![key[a]] = TRUE]
  /\ Goto(a, "release")
  /\ UNCHANGED <<now, lastId, row, published, world>>

\* Mutant of Refuse: an error of the provider is taken for its acceptance.
RefuseSwallowed(a) ==
  /\ At(a, "provider") /\ Fault
  /\ Goto(a, "record")
  /\ UNCHANGED <<now, lastId, row, published, world, accepted, outlived>>

\* A refusal: the domain lost verification (a Hold), too fast or over quota (a
\* Deferral, marketing only), or any other error, which releases the claim.
Refuse(a) ==
  /\ At(a, "provider") /\ Fault
  /\ \/ Goto(a, "hold") \/ Goto(a, "release")
     \/ Kind[key[a]] # "transactional" /\ Goto(a, "defer")
  /\ UNCHANGED <<now, lastId, row, published, world, accepted, outlived>>

\* Mutant of Drop: the row is deleted by key, without the fence.
DropUnfenced(a) ==
  /\ At(a, "hold") \/ At(a, "defer")
  /\ SetRow(key[a], NoRow)
  /\ Return(a, IF At(a, "hold") THEN "held" ELSE "deferral")
  /\ UNCHANGED <<now, lastId, published, world, faults, accepted, outlived>>

\* A Deferral or late Hold drops the claim, so the retry starts clean.
Drop(a) ==
  /\ At(a, "hold") \/ At(a, "defer")
  /\ row' = [row EXCEPT ![key[a]] = IF Holds(a) THEN NoRow ELSE @]
  /\ Return(a, IF At(a, "hold") THEN "held" ELSE "deferral")
  /\ UNCHANGED <<now, lastId, published, world, faults, accepted, outlived>>

Release(a) ==
  /\ At(a, "release")
  /\ row' = [row EXCEPT ![key[a]].claimedAt = IF Holds(a) THEN 0 ELSE @]
  /\ Return(a, "error")
  /\ UNCHANGED <<now, lastId, published, world, faults, accepted, outlived>>

-----------------------------------------------------------------------------
(* recordSent: the status and the email.sent Event in one transaction.     *)

\* Mutant of CommitSent: the Event is published outside the transaction, or not.
CommitSilently(a) ==
  /\ SetRow(key[a], [row[key[a]] EXCEPT !.status = "sent"])
  /\ \/ UNCHANGED published
     \/ published' = [published EXCEPT ![key[a]] = @ \cup {claim[a].id}]

CommitSent(a) ==
  /\ SetRow(key[a], [row[key[a]] EXCEPT !.status = "sent"])
  /\ published' = [published EXCEPT ![key[a]] = @ \cup {claim[a].id}]

RecordSent(a) ==
  /\ At(a, "record")
  /\ IF Holds(a) THEN CommitSent(a) /\ Return(a, "sent")
     ELSE Return(a, "in_progress") /\ UNCHANGED <<row, published>>
  /\ UNCHANGED <<now, lastId, world, faults, accepted, outlived>>

\* The transaction commits and the connection dies before saying so.
CommitReplyLost(a) ==
  /\ At(a, "record") /\ Holds(a) /\ Fault
  /\ CommitSent(a) /\ Return(a, "error")
  /\ UNCHANGED <<now, lastId, world, accepted, outlived>>

-----------------------------------------------------------------------------
(* Failures of the caller and its database, and giving up.                 *)

\* Mutant of StatementFails: a record that fails releases the claim.
FailureReleases(a) ==
  /\ ~At(a, "idle") /\ ~At(a, "provider") /\ Fault
  /\ CASE pc[a] \in {"check", "reserve", "record"} -> Goto(a, "release")
       [] At(a, "hold") -> Return(a, "held")
       [] At(a, "defer") -> Return(a, "deferral")
       [] OTHER -> Return(a, "error")
  /\ UNCHANGED <<now, lastId, row, published, world, accepted, outlived>>

\* A statement fails.  After the claim, a failed check or reservation releases
\* it; release and delete are best effort; every other error is returned.
StatementFails(a) ==
  /\ ~At(a, "idle") /\ ~At(a, "provider") /\ Fault
  /\ CASE pc[a] \in {"check", "reserve"} -> Goto(a, "release")
       [] At(a, "hold") -> Return(a, "held")
       [] At(a, "defer") -> Return(a, "deferral")
       [] OTHER -> Return(a, "error")
  /\ UNCHANGED <<now, lastId, row, published, world, accepted, outlived>>

Crash(a) ==
  /\ ~At(a, "idle") /\ Fault
  /\ Return(a, "crashed")
  /\ UNCHANGED <<now, lastId, row, published, world, accepted, outlived>>

\* Mutant of MarkFailed: any pending row is failed, its lease ignored.
MarkAnyFailed(a) ==
  /\ At(a, "idle") /\ answer[a] = "error" /\ Kind[key[a]] = "broadcast"
  /\ LET k == key[a] IN
       /\ row' = [row EXCEPT ![k].status = IF Pending(k) THEN "failed" ELSE @]
       /\ outlived' = [outlived EXCEPT ![k] = @ \/ (Pending(k) /\ row[k].claimedAt # 0)]
  /\ answer' = [answer EXCEPT ![a] = "none"]
  /\ UNCHANGED <<now, lastId, published, world, faults, pc, key, seen, claim, accepted>>

\* MarkFailed, by the Broadcast worker whose last try just returned an error:
\* only a claim nobody holds, released or past its lease, is failed.
MarkFailed(a) ==
  /\ At(a, "idle") /\ answer[a] = "error" /\ Kind[key[a]] = "broadcast"
  /\ LET k == key[a]
         abandoned == Pending(k) /\ row[k].claimedAt + Lease < now
     IN /\ row' = [row EXCEPT ![k].status = IF abandoned THEN "failed" ELSE @]
        /\ outlived' = [outlived EXCEPT ![k] = @ \/ (abandoned /\ row[k].claimedAt # 0)]
  /\ answer' = [answer EXCEPT ![a] = "none"]
  /\ UNCHANGED <<now, lastId, published, world, faults, pc, key, seen, claim, accepted>>

-----------------------------------------------------------------------------
(* The Workspace around the sends.                                         *)

Freeze ==
  /\ ~frozen /\ Fault /\ frozen' = TRUE
  /\ UNCHANGED <<now, lastId, row, published, barred, erasure, stalled, local, accepted, outlived>>

Unfreeze ==
  /\ frozen /\ frozen' = FALSE
  /\ UNCHANGED <<now, lastId, row, published, barred, erasure, stalled, faults, local,
                 accepted, outlived>>

\* A Suppression or Unsubscribe lands on the destination.
Bar(k) ==
  /\ k \notin barred /\ barred' = barred \cup {k}
  /\ UNCHANGED <<now, lastId, row, published, frozen, erasure, stalled, faults, local,
                 accepted, outlived>>

\* The Erasure's transaction clears the address from the Contact's messages and
\* finds none.  (A row it does find it keeps locked until it commits, and nobody
\* sees it in between: Erase.)
EraseScan(k) ==
  /\ k \in OfContact \ (erased \cup erasing) /\ row[k].status = "none"
  /\ erasing' = erasing \cup {k}
  /\ UNCHANGED <<now, lastId, row, published, frozen, barred, erased, crossed, stalled,
                 faults, local, accepted, outlived>>

\* The Erasure commits: the Contact is gone, and the address from the row it found.
Erase(k) ==
  /\ k \in OfContact \ erased
  /\ erased' = erased \cup {k} /\ erasing' = erasing \ {k}
  /\ row' = [row EXCEPT ![k].named = @ /\ k \in erasing]
  /\ crossed' = IF \/ k \in erasing /\ row[k].named
                   \/ \E a \in Attempts : key[a] = k /\ At(a, "insert")
                  THEN crossed \cup {k} ELSE crossed
  /\ UNCHANGED <<now, lastId, published, frozen, barred, stalled, faults, local,
                 accepted, outlived>>

Tick ==
  /\ now < MaxTime
  /\ now' = now + 1
  /\ stalled' = (stalled \/ \E a \in Attempts : /\ pc[a] \in {"takeover", "adopt"}
                                               /\ now + 1 >= claim[a].token + Lease)
  /\ UNCHANGED <<lastId, row, published, frozen, barred, erasure, faults, local, accepted, outlived>>

Call(a) ==
  \/ CheckErased(a) \/ Gate(a) \/ Stamp(a) \/ VerifyRefs(a) \/ Insert(a) \/ Refind(a)
  \/ TakeOver(a) \/ Adopt(a) \/ Check(a) \/ Finish(a) \/ Reserve(a) \/ Accept(a)
  \/ Drop(a) \/ Release(a) \/ RecordSent(a)

Mishap(a) ==
  \/ ReserveWait(a) \/ LoseReply(a) \/ Refuse(a) \/ CommitReplyLost(a)
  \/ StatementFails(a) \/ Crash(a)

World == Freeze \/ Unfreeze \/ Tick \/ \E k \in Keys : Bar(k) \/ EraseScan(k) \/ Erase(k)

Next ==
  \/ \E a \in Attempts : Call(a) \/ Mishap(a) \/ MarkFailed(a) \/ \E k \in Keys : Begin(a, k)
  \/ World

Spec == Init /\ [][Next]_vars

\* A call under way goes on, the queue retries every key, a hold is lifted
\* in the end and the clock moves.
Fairness ==
  /\ \A a \in Attempts : WF_vars(Call(a))
  /\ \A k \in Keys : SF_vars(\E a \in Attempts : Begin(a, k))
  /\ WF_vars(Unfreeze) /\ WF_vars(Tick)

FairSpec == Spec /\ Fairness

-----------------------------------------------------------------------------
(* Properties.                                                             *)

\* A claim never blocks two attempts at once: of the calls of one key at most
\* one passes the fence of claim.go at any time.
OneHolder ==
  \A a, b \in Attempts :
    (/\ a # b /\ key[a] = key[b]
     /\ pc[a] \in Claimed /\ pc[b] \in Claimed) => ~(Holds(a) /\ Holds(b))

\* OneHolder until a takeOver has stalled for a lease, from the clock it read
\* through its UPDATE to its read-back; a stall anywhere else changes nothing.
OneHolderUnlessStalled == ~stalled => OneHolder

\* The row and the Event log agree: email.sent is published exactly for the
\* message that is recorded Sent, once, and for no message dropped before it.
EventIffSent ==
  \A k \in Keys :
    published[k] = IF row[k].status = "sent" THEN {row[k].id} ELSE {}

\* At-least-once, and no worse: a key is accepted twice only when a claim
\* expired or the provider's answer was lost.
AtMostOnceUnlessOutlived ==
  \A k \in Keys : accepted[k] > 1 => outlived[k]

\* A message that is recorded as not sent, or not recorded at all, was not
\* accepted either, unless a claim expired or the provider's answer was lost;
\* one recorded Sent was.
RecordMatchesProvider ==
  \A k \in Keys :
    /\ row[k].status \in {"none", "skipped", "failed"} /\ ~outlived[k] => accepted[k] = 0
    /\ row[k].status = "sent" => accepted[k] > 0

\* Whatever final outcome a caller was told stays the recorded one, so every
\* retry and every concurrent caller of the key hears the same; only a Contact's
\* Erasure is answered Skipped without a record.
AnswerIsRecorded ==
  \A a \in Attempts :
    answer[a] \in Final =>
      \/ row[key[a]].status = answer[a]
      \/ answer[a] = "skipped" /\ key[a] \in erased

\* After a Contact's Erasure a message names it only if its INSERT ran beside the
\* Erasure, past the reference check or behind the Erasure's back; no retry,
\* take-over or re-insert brings the address back otherwise.
OnlyCrossingsKeepAddress == \A k \in erased : row[k].named => k \in crossed

\* While a claim is live only a call that holds it moves the record.
LiveClaimProtected ==
  [][\A k \in Keys :
       Pending(k) /\ Live(row[k].claimedAt) /\ row'[k] # row[k] =>
         \/ row'[k] = [row[k] EXCEPT !.named = FALSE]
         \/ \E a \in Attempts : /\ key[a] = k /\ pc[a] \in Claimed /\ Holds(a)
                                /\ pc'[a] = "idle"]_vars

\* The rows and published Events implement the ledger the surfaces rely on.
Ledger == INSTANCE SendLedger WITH
            status <- [k \in Keys |-> row[k].status],
            announced <- [k \in Keys |-> published[k] # {}]
LedgerSpec == Ledger!Spec

\* With retries and a provider that works in the end, every key is decided,
\* except one whose Contact is gone.
Settles == \A k \in Keys : <>(row[k].status \in Final \/ k \in erased)

-----------------------------------------------------------------------------
(* Promises of the documents that the code does not keep; the README says  *)
(* how each one is broken.                                                 *)

\* outbound_message.go: "a retried job or request never sends twice".
NeverSendsTwice == \A k \in Keys : accepted[k] <= 1

\* ADR 0021: after Erasure an OutboundMessage has lost its destination.
ErasedLeavesNoAddress == \A k \in erased : ~row[k].named
=============================================================================
