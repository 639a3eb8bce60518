--------------------------- MODULE SendLimitProofs ---------------------------
(***************************************************************************)
(* The bound on the send rate, for every unit, rate, set of ceilings,      *)
(* number of senders and difference between their clocks.                  *)
(*                                                                         *)
(* WithinRate speaks of the moment of a grant and is not inductive.  What  *)
(* every step keeps is a balance: what is left in a bucket and what was    *)
(* taken in the window never exceed a full bucket and the window's refill. *)
(***************************************************************************)
EXTENDS SendLimit, TLAPS

Balance(b) ==
  /\ since[b] <= refilledAt
  /\ fill[b] <= Unit
  /\ fill[b] + spent[b] <= Unit + Rate[b] * (refilledAt - since[b])
  /\ granted => fill[b] >= 0

IInv == TypeOK /\ \A b \in Buckets : Balance(b)

\* LEAST and GREATEST in the integers.
LEMMA Bounds ==
  ASSUME NEW x \in Int, NEW y \in Int
  PROVE  /\ AtMost(x, y) \in Int /\ AtMost(x, y) <= x /\ AtMost(x, y) <= y
         /\ AtLeast(x, y) \in Int /\ AtLeast(x, y) >= x /\ AtLeast(x, y) >= y
         /\ AtLeast(x, y) = x \/ AtLeast(x, y) = y
  BY DEF AtMost, AtLeast

LEMMA ProductOfNats == ASSUME NEW m \in Nat, NEW n \in Nat PROVE m * n \in Nat
  OBVIOUS

LEMMA Distribute ==
  ASSUME NEW m \in Nat, NEW x \in Int, NEW y \in Int
  PROVE  m * (x + y) = m * x + m * y
  OBVIOUS

\* Refilling up to a clock reading gives no more than the time it moves
\* refilled_at by, and never more than a full bucket.
LEMMA RefillIsPaidFor ==
  ASSUME NEW b \in Buckets, NEW now \in Nat, TypeOK
  PROVE  /\ Refilled(b, now) \in Int /\ Refilled(b, now) <= Unit
         /\ AtLeast(refilledAt, now) \in Nat /\ AtLeast(refilledAt, now) >= refilledAt
         /\ Refilled(b, now) <= fill[b] + Rate[b] * (AtLeast(refilledAt, now) - refilledAt)
<1> DEFINE elapsed == AtLeast(0, now - refilledAt)
<1>1. fill[b] \in Int /\ refilledAt \in Nat /\ Rate[b] \in Nat /\ Unit \in Nat
  BY UnitAssumption, RateAssumption DEF TypeOK
<1>2. elapsed \in Nat /\ AtLeast(refilledAt, now) = refilledAt + elapsed
  BY <1>1 DEF AtLeast
<1>3. Rate[b] * elapsed \in Nat
  BY <1>1, <1>2, ProductOfNats
<1> HIDE DEF elapsed
<1>4. Refilled(b, now) = AtMost(Unit, fill[b] + Rate[b] * elapsed)
  BY DEF Refilled, elapsed
<1>5. AtLeast(refilledAt, now) - refilledAt = elapsed
  BY <1>1, <1>2
<1>6. AtLeast(refilledAt, now) \in Nat /\ AtLeast(refilledAt, now) >= refilledAt
  BY <1>1, <1>2
<1>7. /\ Refilled(b, now) \in Int /\ Refilled(b, now) <= Unit
      /\ Refilled(b, now) <= fill[b] + Rate[b] * elapsed
  <2> DEFINE filled == fill[b] + Rate[b] * elapsed
  <2>1. filled \in Int
    BY <1>1, <1>3
  <2> HIDE DEF filled
  <2>2. AtMost(Unit, filled) \in Int /\ AtMost(Unit, filled) <= Unit /\ AtMost(Unit, filled) <= filled
    BY <1>1, <2>1 DEF AtMost
  <2> QED
    BY <1>4, <2>2 DEF filled
<1> QED
  BY <1>5, <1>6, <1>7

LEMMA CallType ==
  ASSUME TypeOK, NEW p \in Senders
  PROVE  /\ call[p].now \in Nat /\ call[p].guarded \in BOOLEAN
         /\ call[p].limits \in [Buckets -> Limits \cup {NoLimit}]
  BY DEF TypeOK, Calls

LEMMA NoCallType == NoCall \in Calls
  BY DEF NoCall, Calls

LEMMA StepOfCall ==
  ASSUME NEW c \in Calls, NEW pc \in {"ensure", "again"}
  PROVE  [c EXCEPT !.pc = pc] \in Calls
  BY DEF Calls

\* The UPDATE keeps the balance of both buckets.
LEMMA SpendsKeepsBalance ==
  ASSUME IInv, NEW p \in Senders, Takes(call[p]), Spends(call[p])
  PROVE  /\ refilledAt' \in Nat /\ granted' \in BOOLEAN
         /\ fill' \in [Buckets -> Int] /\ since' \in [Buckets -> Nat] /\ spent' \in [Buckets -> Nat]
         /\ \A b \in Buckets : Balance(b)'
<1> DEFINE c == call[p]
<1>1. c.now \in Nat /\ c.guarded \in BOOLEAN /\ c.limits \in [Buckets -> Limits \cup {NoLimit}]
  BY CallType DEF IInv
<1> HIDE DEF c
<1>2. ASSUME NEW b \in Buckets
      PROVE  /\ refilledAt' \in Nat /\ fill'[b] \in Int /\ since'[b] \in Nat /\ spent'[b] \in Nat
             /\ Balance(b)'
  <2>1. /\ Refilled(b, c.now) \in Int /\ Refilled(b, c.now) <= Unit
        /\ AtLeast(refilledAt, c.now) \in Nat /\ AtLeast(refilledAt, c.now) >= refilledAt
        /\ Refilled(b, c.now) <= fill[b] + Rate[b] * (AtLeast(refilledAt, c.now) - refilledAt)
    BY <1>1, RefillIsPaidFor DEF IInv
  <2>2. /\ fill[b] \in Int /\ since[b] \in Nat /\ spent[b] \in Nat /\ refilledAt \in Nat
        /\ Unit \in Nat /\ Rate[b] \in Nat /\ Balance(b)
    BY UnitAssumption, RateAssumption DEF IInv, TypeOK
  <2>3. /\ refilledAt' = AtLeast(refilledAt, c.now) /\ granted' = c.guarded
        /\ fill'[b] = IF c.limits[b] = NoLimit THEN Unit ELSE Refilled(b, c.now) - Token[c.limits[b]]
        /\ spent'[b] = IF c.limits[b] = NoLimit THEN 0 ELSE spent[b] + Token[c.limits[b]]
        /\ since'[b] = IF c.limits[b] = NoLimit THEN AtLeast(refilledAt, c.now) ELSE since[b]
    BY DEF Spends, c
  <2>4. CASE c.limits[b] = NoLimit
    <3>1. Rate[b] * (refilledAt' - since'[b]) = 0
      BY <2>1, <2>2, <2>3, <2>4
    <3> QED
      BY <2>1, <2>2, <2>3, <2>4, <3>1 DEF Balance
  <2>5. CASE c.limits[b] # NoLimit
    <3> DEFINE t == Token[c.limits[b]]
               moved == refilledAt' - refilledAt
               window == refilledAt - since[b]
    <3>1. t \in Nat
      BY <1>1, <2>5, TokenAssumption
    <3>2. /\ fill'[b] = Refilled(b, c.now) - t /\ spent'[b] = spent[b] + t /\ since'[b] = since[b]
      BY <2>3, <2>5
    <3>3. moved \in Nat /\ window \in Nat /\ refilledAt' - since'[b] = window + moved
      BY <2>1, <2>2, <2>3, <3>2 DEF Balance
    <3>4. c.guarded => Refilled(b, c.now) >= t
      BY <2>5 DEF Takes, Enough, c
    <3> HIDE DEF t
    <3>5. /\ fill[b] + spent[b] <= Unit + Rate[b] * window
          /\ Refilled(b, c.now) <= fill[b] + Rate[b] * moved
      BY <2>1, <2>2, <2>3 DEF Balance
    <3> HIDE DEF moved, window
    <3>6. Rate[b] * (window + moved) = Rate[b] * window + Rate[b] * moved
      BY <2>2, <3>3, Distribute
    <3>7. Rate[b] * window \in Nat /\ Rate[b] * moved \in Nat
      BY <2>2, <3>3, ProductOfNats
    <3>8. fill'[b] + spent'[b] <= Unit + Rate[b] * (refilledAt' - since'[b])
      <4>1. Rate[b] * (refilledAt' - since'[b]) = Rate[b] * window + Rate[b] * moved
        BY <3>3, <3>6
      <4> QED
        BY <2>1, <2>2, <3>1, <3>2, <3>5, <3>7, <4>1
    <3>9. since'[b] <= refilledAt' /\ fill'[b] <= Unit /\ (granted' => fill'[b] >= 0)
      BY <2>1, <2>2, <2>3, <3>1, <3>2, <3>4 DEF Balance
    <3> QED
      BY <2>1, <2>2, <2>3, <3>1, <3>2, <3>8, <3>9 DEF Balance
  <2> QED
    BY <2>4, <2>5
<1>3. granted' \in BOOLEAN /\ refilledAt' \in Nat
  BY <1>1, Bounds DEF Spends, c, IInv, TypeOK, AtLeast
<1>4. fill' \in [Buckets -> Int] /\ since' \in [Buckets -> Nat] /\ spent' \in [Buckets -> Nat]
  <2>1. /\ fill' = [b \in Buckets |-> fill'[b]] /\ since' = [b \in Buckets |-> since'[b]]
        /\ spent' = [b \in Buckets |-> spent'[b]]
    BY DEF Spends
  <2> QED
    BY <1>2, <2>1
<1> QED
  BY <1>2, <1>3, <1>4

LEMMA InitIInv == Init => IInv
<1> SUFFICES ASSUME Init PROVE IInv
  OBVIOUS
<1>1. TypeOK
  <2>1. call \in [Senders -> Calls]
    BY NoCallType DEF Init
  <2>2. row \in BOOLEAN /\ granted \in BOOLEAN
    BY DEF Init
  <2>3. /\ time \in Nat /\ refilledAt \in Nat /\ limits \in [Buckets -> Limits \cup {NoLimit}]
        /\ fill \in [Buckets -> Int] /\ since \in [Buckets -> Nat] /\ spent \in [Buckets -> Nat]
    BY UnitAssumption DEF Init
  <2> QED
    BY <2>1, <2>2, <2>3 DEF TypeOK
<1>2. ASSUME NEW b \in Buckets PROVE Balance(b)
  BY UnitAssumption, RateAssumption DEF Init, Balance
<1> QED
  BY <1>1, <1>2 DEF IInv

\* A step that leaves the buckets and their histories alone keeps the balance.
LEMMA BalanceIsOfTheBuckets ==
  ASSUME IInv, UNCHANGED bucketVars
  PROVE  \A b \in Buckets : Balance(b)'
  BY DEF IInv, Balance, bucketVars

LEMMA NextIInv == IInv /\ [Next]_vars => IInv'
<1> SUFFICES ASSUME IInv, [Next]_vars PROVE IInv'
  OBVIOUS
<1> USE DEF IInv
<1>1. ASSUME NEW p \in Senders, NEW guarded \in BOOLEAN, Call(p, guarded) PROVE IInv'
  <2>1. TypeOK'
    <3>1. time + Ahead[p] \in Nat
      BY AheadAssumption DEF TypeOK
    <3>2. [pc |-> "take", guarded |-> guarded, limits |-> limits, now |-> time + Ahead[p]] \in Calls
      BY <3>1 DEF TypeOK, Calls
    <3>3. call' \in [Senders -> Calls]
      BY <1>1, <3>2 DEF Call, TypeOK
    <3> QED
      BY <1>1, <3>3 DEF Call, TypeOK, bucketVars
  <2> QED
    BY <1>1, <2>1, BalanceIsOfTheBuckets DEF Call
<1>2. ASSUME NEW p \in Senders, Take(p) PROVE IInv'
  <2>1. CASE Takes(call[p]) /\ Spends(call[p]) /\ call' = [call EXCEPT ![p] = NoCall]
    <3>1. TypeOK'
      BY <1>2, <2>1, SpendsKeepsBalance, NoCallType DEF Take, TypeOK
    <3> QED
      BY <2>1, <3>1, SpendsKeepsBalance
  <2>2. CASE ~Takes(call[p]) /\ call' = [call EXCEPT ![p].pc = "ensure"]
             /\ UNCHANGED <<fill, refilledAt, since, spent, granted>>
    <3>1. call' \in [Senders -> Calls]
      BY <2>2, StepOfCall DEF TypeOK
    <3>2. TypeOK'
      BY <1>2, <2>2, <3>1 DEF Take, TypeOK
    <3> QED
      BY <1>2, <2>2, <3>2, BalanceIsOfTheBuckets DEF Take, bucketVars
  <2> QED
    BY <1>2, <2>1, <2>2 DEF Take
<1>3. ASSUME NEW p \in Senders, Ensure(p) PROVE IInv'
  <2>1. call[p].now \in Nat
    BY CallType
  <2>2. TypeOK'
    <3>1. call' \in [Senders -> Calls]
      BY <1>3, StepOfCall DEF Ensure, TypeOK
    <3>2. row' \in BOOLEAN
      BY <1>3, Zenon DEF Ensure, TypeOK
    <3>3. /\ refilledAt' \in Nat /\ fill' \in [Buckets -> Int]
          /\ since' \in [Buckets -> Nat] /\ spent' \in [Buckets -> Nat]
      <4>1. Unit \in Int
        BY UnitAssumption
      <4> QED
        BY <1>3, <2>1, <4>1 DEF Ensure, TypeOK
    <3> QED
      BY <1>3, <3>1, <3>2, <3>3 DEF Ensure, TypeOK
  <2>3. CASE /\ ~row
             /\ row' = TRUE /\ fill' = [b \in Buckets |-> Unit] /\ refilledAt' = call[p].now
             /\ since' = [b \in Buckets |-> call[p].now] /\ spent' = [b \in Buckets |-> 0]
    <3>1. ASSUME NEW b \in Buckets PROVE Balance(b)'
      BY <2>1, <2>3, UnitAssumption, RateAssumption DEF Balance
    <3> QED
      BY <2>2, <3>1
  <2>4. CASE row /\ UNCHANGED <<row, fill, refilledAt, since, spent>>
    BY <1>3, <2>2, <2>4, BalanceIsOfTheBuckets DEF Ensure, bucketVars
  <2> QED
    BY <1>3, <2>3, <2>4 DEF Ensure
<1>4. ASSUME NEW p \in Senders, TakeAgain(p) PROVE IInv'
  <2>1. CASE Takes(call[p]) /\ Spends(call[p])
    <3>1. TypeOK'
      BY <1>4, <2>1, SpendsKeepsBalance, NoCallType DEF TakeAgain, TypeOK
    <3> QED
      BY <2>1, <3>1, SpendsKeepsBalance
  <2>2. CASE ~Takes(call[p]) /\ UNCHANGED <<fill, refilledAt, since, spent, granted>>
    <3>1. TypeOK'
      BY <1>4, <2>2, NoCallType DEF TakeAgain, TypeOK
    <3> QED
      BY <1>4, <2>2, <3>1, BalanceIsOfTheBuckets DEF TakeAgain, bucketVars
  <2> QED
    BY <1>4, <2>1, <2>2 DEF TakeAgain
<1>5. ASSUME NEW l \in [Buckets -> Limits \cup {NoLimit}], SetLimits(l) PROVE IInv'
  BY <1>5, BalanceIsOfTheBuckets DEF SetLimits, TypeOK, bucketVars
<1>6. CASE Tick
  BY <1>6, BalanceIsOfTheBuckets DEF Tick, TypeOK, bucketVars
<1>7. CASE Observe
  <2>1. TypeOK'
    BY <1>7 DEF Observe, TypeOK
  <2>2. ASSUME NEW b \in Buckets PROVE Balance(b)'
    <3>1. refilledAt \in Nat /\ Unit \in Nat /\ Rate[b] \in Nat /\ fill[b] \in Int /\ Balance(b)
      BY UnitAssumption, RateAssumption DEF TypeOK
    <3>2. /\ since'[b] = refilledAt /\ spent'[b] = 0 /\ refilledAt' = refilledAt
          /\ fill'[b] = fill[b] /\ granted' = granted
      BY <1>7 DEF Observe
    <3>3. Rate[b] * (refilledAt' - since'[b]) = 0
      BY <3>1, <3>2
    <3> QED
      BY <3>1, <3>2, <3>3 DEF Balance
  <2> QED
    BY <2>1, <2>2
<1>8. CASE UNCHANGED vars
  BY <1>8, BalanceIsOfTheBuckets DEF vars, TypeOK, bucketVars
<1> QED
  BY <1>1, <1>2, <1>3, <1>4, <1>5, <1>6, <1>7, <1>8 DEF Next

\* The row, the calls and the histories always have their types: the fill of
\* a bucket is an integer that Spend may take below zero.
THEOREM TypeCorrect == Spec => []TypeOK
<1>1. IInv => TypeOK
  BY DEF IInv
<1> QED
  BY <1>1, InitIInv, NextIInv, PTL DEF Spec

\* take: whoever's clock it goes by, a marketing send is let through only if
\* every window it ends stays within a full bucket and the window's refill.
THEOREM RateIsKept == Spec => []WithinRate
<1>1. IInv => WithinRate
  <2> SUFFICES ASSUME IInv, granted, NEW b \in Buckets
               PROVE  spent[b] <= Unit + Rate[b] * (refilledAt - since[b])
    BY DEF WithinRate
  <2>1. /\ fill[b] \in Int /\ spent[b] \in Nat /\ refilledAt \in Nat /\ since[b] \in Nat
        /\ Unit \in Nat /\ Rate[b] \in Nat
    BY UnitAssumption, RateAssumption DEF IInv, TypeOK
  <2>2. /\ since[b] <= refilledAt /\ fill[b] >= 0
        /\ fill[b] + spent[b] <= Unit + Rate[b] * (refilledAt - since[b])
    BY DEF IInv, Balance
  <2> DEFINE refill == Rate[b] * (refilledAt - since[b])
  <2>3. refill \in Nat
    BY <2>1, <2>2, ProductOfNats
  <2> HIDE DEF refill
  <2>4. fill[b] + spent[b] <= Unit + refill
    BY <2>2 DEF refill
  <2>5. spent[b] <= Unit + refill
    BY <2>1, <2>2, <2>3, <2>4
  <2> QED
    BY <2>5 DEF refill
<1> QED
  BY <1>1, InitIInv, NextIInv, PTL DEF Spec
=============================================================================
