------------------------------ MODULE SendLimit ------------------------------
(***************************************************************************)
(* The send rate limit of one Integration (internal/sendlimit): two token  *)
(* buckets in one row, per second and per day, taken from by concurrent    *)
(* senders on hosts whose clocks differ, under limits that change.         *)
(*                                                                         *)
(* A bucket holds a fraction of its capacity.  Here a full one holds Unit, *)
(* a token of a bucket with capacity c is Token[c] of it and a tick gives  *)
(* back Rate[b]: fixed point, so the epsilon of the comparison is zero.    *)
(***************************************************************************)
EXTENDS Integers

CONSTANTS
  Senders,     \* callers of Reserve and Spend
  Ahead,       \* Ahead[p]: ticks the clock of p's host runs ahead
  Buckets,     \* the per-second and the per-day bucket
  Unit,        \* a full bucket
  Rate,        \* Rate[b]: what a tick refills
  Limits,      \* ceilings an operator or a provider may set
  NoLimit,     \* a bucket without one
  Token,       \* Token[c]: one message of a bucket with ceiling c
  MaxTime,     \* bound: ticks
  MaxDebt      \* bound: how far below zero Spend goes

ASSUME UnitAssumption == Unit \in Nat
ASSUME RateAssumption == Rate \in [Buckets -> Nat]
ASSUME TokenAssumption == Token \in [Limits -> Nat] /\ NoLimit \notin Limits
ASSUME AheadAssumption == Ahead \in [Senders -> Nat]

VARIABLES
  time,        \* the clock of a host that is not ahead
  limits,      \* limits[b]: the ceiling in force
  row,         \* whether the send_limiters row exists
  fill,        \* fill[b]: what a bucket holds; below zero after Spend
  refilledAt,  \* the time up to which both are refilled
  call,        \* call[p]: a call of Reserve or Spend
  since,       \* history: since[b]: beginning of a window anyone may look at
  spent,       \* history: spent[b]: what was taken in it
  granted      \* history: whether the last take was a Reserve's

bucketVars == <<row, fill, refilledAt, since, spent, granted>>
vars == <<time, limits, call, bucketVars>>

NoCall == [pc |-> "idle", guarded |-> FALSE, limits |-> [b \in Buckets |-> NoLimit], now |-> 0]

Calls == [pc : {"idle", "take", "ensure", "again"}, guarded : BOOLEAN,
          limits : [Buckets -> Limits \cup {NoLimit}], now : Nat]

TypeOK ==
  /\ time \in Nat /\ refilledAt \in Nat
  /\ limits \in [Buckets -> Limits \cup {NoLimit}]
  /\ row \in BOOLEAN /\ granted \in BOOLEAN
  /\ fill \in [Buckets -> Int]
  /\ since \in [Buckets -> Nat] /\ spent \in [Buckets -> Nat]
  /\ call \in [Senders -> Calls]

Init ==
  /\ time = 0 /\ limits \in [Buckets -> Limits \cup {NoLimit}]
  /\ row = FALSE /\ fill = [b \in Buckets |-> Unit] /\ refilledAt = 0
  /\ call = [p \in Senders |-> NoCall]
  /\ since = [b \in Buckets |-> 0] /\ spent = [b \in Buckets |-> 0] /\ granted = FALSE

AtMost(x, y) == IF x <= y THEN x ELSE y
AtLeast(x, y) == IF x >= y THEN x ELSE y

\* LEAST(1, fill + GREATEST(0, now - refilled_at) * fillPerSec)
Refilled(b, now) == AtMost(Unit, fill[b] + Rate[b] * AtLeast(0, now - refilledAt))

Enough(c) ==
  \A b \in Buckets : c.limits[b] # NoLimit => Refilled(b, c.now) >= Token[c.limits[b]]

-----------------------------------------------------------------------------

\* The caller has read its Integration and its clock.
Call(p, guarded) ==
  /\ call[p].pc = "idle" /\ \E b \in Buckets : limits[b] # NoLimit
  /\ guarded \/ \A b \in Buckets : fill[b] >= -MaxDebt
  /\ call' = [call EXCEPT ![p] = [pc |-> "take", guarded |-> guarded, limits |-> limits, now |-> time + Ahead[p]]]
  /\ UNCHANGED <<time, limits, bucketVars>>

\* Mutant of Spends: refilled_at is set to the caller's clock.
SpendsBackdated(c) ==
  /\ fill' = [b \in Buckets |-> IF c.limits[b] = NoLimit THEN Unit
                                ELSE Refilled(b, c.now) - Token[c.limits[b]]]
  /\ refilledAt' = c.now
  /\ spent' = [b \in Buckets |-> IF c.limits[b] = NoLimit THEN 0 ELSE spent[b] + Token[c.limits[b]]]
  /\ since' = [b \in Buckets |-> IF c.limits[b] = NoLimit THEN c.now ELSE since[b]]
  /\ granted' = c.guarded

\* The one UPDATE.  A bucket without a limit is kept full, and begins a window.
Spends(c) ==
  /\ fill' = [b \in Buckets |-> IF c.limits[b] = NoLimit THEN Unit
                                ELSE Refilled(b, c.now) - Token[c.limits[b]]]
  /\ refilledAt' = AtLeast(refilledAt, c.now)
  /\ spent' = [b \in Buckets |-> IF c.limits[b] = NoLimit THEN 0 ELSE spent[b] + Token[c.limits[b]]]
  /\ since' = [b \in Buckets |-> IF c.limits[b] = NoLimit THEN AtLeast(refilledAt, c.now) ELSE since[b]]
  /\ granted' = c.guarded

Takes(c) == row /\ (c.guarded => Enough(c))

\* The first try changes no row if there is none or a bucket is short.
Take(p) ==
  /\ call[p].pc = "take"
  /\ \/ Takes(call[p]) /\ Spends(call[p]) /\ call' = [call EXCEPT ![p] = NoCall]
     \/ /\ ~Takes(call[p])
        /\ call' = [call EXCEPT ![p].pc = "ensure"]
        /\ UNCHANGED <<fill, refilledAt, since, spent, granted>>
  /\ UNCHANGED <<time, limits, row>>

\* Insert or ignore.
Ensure(p) ==
  /\ call[p].pc = "ensure"
  /\ call' = [call EXCEPT ![p].pc = "again"]
  /\ \/ /\ ~row
        /\ row' = TRUE /\ fill' = [b \in Buckets |-> Unit] /\ refilledAt' = call[p].now
        /\ since' = [b \in Buckets |-> call[p].now] /\ spent' = [b \in Buckets |-> 0]
     \/ row /\ UNCHANGED <<row, fill, refilledAt, since, spent>>
  /\ UNCHANGED <<time, limits, granted>>

\* The second try is the last: a sender that is short is told to wait.
TakeAgain(p) ==
  /\ call[p].pc = "again"
  /\ call' = [call EXCEPT ![p] = NoCall]
  /\ \/ Takes(call[p]) /\ Spends(call[p])
     \/ ~Takes(call[p]) /\ UNCHANGED <<fill, refilledAt, since, spent, granted>>
  /\ UNCHANGED <<time, limits, row>>

SetLimits(l) ==
  /\ limits' = l
  /\ UNCHANGED <<time, call, bucketVars>>

Tick ==
  /\ time < MaxTime
  /\ time' = time + 1
  /\ UNCHANGED <<limits, call, bucketVars>>

\* An observer begins a window of its own.
Observe ==
  /\ since' = [b \in Buckets |-> refilledAt] /\ spent' = [b \in Buckets |-> 0]
  /\ UNCHANGED <<time, limits, call, row, fill, refilledAt, granted>>

Next ==
  \/ \E p \in Senders :
       \/ \E guarded \in BOOLEAN : Call(p, guarded)
       \/ Take(p) \/ Ensure(p) \/ TakeAgain(p)
  \/ \E l \in [Buckets -> Limits \cup {NoLimit}] : SetLimits(l)
  \/ Tick \/ Observe

Spec == Init /\ [][Next]_vars

-----------------------------------------------------------------------------

\* In no window that ends with a marketing send is more taken than a full
\* bucket and what the window refills, by any clock of any host, under
\* whatever limits, the transactional sends that do not wait included.
WithinRate ==
  granted => \A b \in Buckets : spent[b] <= Unit + Rate[b] * (refilledAt - since[b])
=============================================================================
