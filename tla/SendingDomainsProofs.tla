------------------------ MODULE SendingDomainsProofs ------------------------
(***************************************************************************)
(* What a verified domain stands for, for any number of checks, selectors, *)
(* edits and failures: VerdictIsCurrent is inductive on top of the types.  *)
(***************************************************************************)
EXTENDS SendingDomains, TLAPS

IInv == TypeOK /\ VerdictIsCurrent

LEMMA JobsAreJobs ==
  /\ Job("none") \in Jobs /\ Job("queued") \in Jobs /\ Job("alert") \in Jobs
  /\ \A s \in Selectors, v, f \in BOOLEAN :
       /\ [at |-> "read", selector |-> s, verified |-> v, found |-> FALSE] \in Jobs
       /\ [at |-> "looked", selector |-> s, verified |-> v, found |-> f] \in Jobs
  BY DefaultAssumption DEF Job, Jobs

LEMMA Fields ==
  ASSUME TypeOK, NEW c \in Checks
  PROVE  check[c].selector \in Selectors /\ check[c].verified \in BOOLEAN /\ check[c].found \in BOOLEAN
  BY DEF TypeOK, Jobs

LEMMA Initially == Init => IInv
<1> SUFFICES ASSUME Init PROVE IInv
  OBVIOUS
<1>1. check \in [Checks -> Jobs]
  BY JobsAreJobs DEF Init, NoCheck
<1>2. selector \in Selectors /\ basis \in Selectors /\ zone \subseteq Selectors
  BY DefaultAssumption DEF Init
<1>3. owed \in Int /\ changes \in 0 .. MaxChanges /\ faults \in 0 .. MaxFaults
  BY BoundsAssumption DEF Init
<1>4. verified \in BOOLEAN /\ deleted \in BOOLEAN /\ crossed \in BOOLEAN /\ VerdictIsCurrent
  BY Zenon DEF Init, VerdictIsCurrent
<1>5. QED
  BY <1>1, <1>2, <1>3, <1>4 DEF IInv, TypeOK

\* A job that is queued, runs or ends without a write leaves the row alone.
LEMMA RowStays ==
  ASSUME IInv, UNCHANGED <<row, basis, crossed>>
  PROVE  VerdictIsCurrent'
  BY DEF IInv, VerdictIsCurrent, row

LEMMA EnqueueStep == ASSUME IInv, NEW c \in Checks, Enqueue(c) PROVE IInv'
<1>1. TypeOK'
  BY JobsAreJobs, BoundsAssumption DEF IInv, TypeOK, Enqueue, NoCheck, row
<1>2. QED
  BY <1>1, RowStays DEF Enqueue, IInv

\* Only a lookup that found the record makes the domain verified.
LEMMA WriteStep == ASSUME IInv, NEW c \in Checks, Write(c) PROVE IInv'
<1>1. check' \in [Checks -> Jobs]
  BY JobsAreJobs DEF IInv, TypeOK, Write, Done, NoCheck
<1>2. verified' \in BOOLEAN /\ basis' \in Selectors /\ crossed' \in BOOLEAN
  BY Fields, Zenon DEF IInv, TypeOK, Write
<1>3. owed' \in Int
  BY DEF IInv, TypeOK, Write
<1>4. UNCHANGED <<selector, deleted, zone, changes, faults>>
  BY DEF Write
<1>5. TypeOK'
  BY <1>1, <1>2, <1>3, <1>4 DEF IInv, TypeOK
<1>6. VerdictIsCurrent'
  BY <1>4, Zenon DEF IInv, Write, VerdictIsCurrent
<1>7. QED
  BY <1>5, <1>6 DEF IInv

LEMMA WorkStep == ASSUME IInv, NEW c \in Checks, Work(c) PROVE IInv'
<1> USE DEF IInv
<1>1. CASE Read(c)
  <2>1. TypeOK'
    BY <1>1, JobsAreJobs, BoundsAssumption DEF TypeOK, Read, Done, NoCheck, row
  <2>2. QED
    BY <1>1, <2>1, RowStays DEF Read
<1>2. CASE Lookup(c)
  <2>1. (check[c].selector \in zone) \in BOOLEAN
    OBVIOUS
  <2>2. TypeOK'
    BY <1>2, <2>1, JobsAreJobs, Fields DEF TypeOK, Lookup, row
  <2>3. QED
    BY <1>2, <2>2, RowStays DEF Lookup
<1>3. CASE Write(c)
  BY <1>3, WriteStep
<1>4. CASE Alert(c)
  <2>1. TypeOK'
    BY <1>4, JobsAreJobs, BoundsAssumption DEF TypeOK, Alert, Done, NoCheck, row
  <2>2. QED
    BY <1>4, <2>1, RowStays DEF Alert
<1>5. CASE AlertFails(c)
  <2>1. TypeOK'
    BY <1>5, JobsAreJobs, BoundsAssumption DEF TypeOK, AlertFails, Fault, Done, NoCheck, row
  <2>2. QED
    BY <1>5, <2>1, RowStays DEF AlertFails
<1>6. QED
  BY <1>1, <1>2, <1>3, <1>4, <1>5 DEF Work

\* A selector that moves takes the verdict with it.
LEMMA OwnerStep ==
  ASSUME IInv, NEW s \in Selectors, Update(s) \/ EditZone(s) \/ Delete
  PROVE  IInv'
<1> USE DEF IInv
<1>1. CASE Update(s)
  <2>1. changes' \in 0 .. MaxChanges /\ selector' \in Selectors
    BY <1>1, BoundsAssumption DEF TypeOK, Update, Change
  <2>2. UNCHANGED <<deleted, zone, check, basis, crossed, owed, faults>>
    BY <1>1 DEF Update
  <2>3. verified' \in BOOLEAN /\ VerdictIsCurrent'
    BY <1>1, Zenon DEF Update, VerdictIsCurrent
  <2>4. QED
    BY <2>1, <2>2, <2>3 DEF TypeOK
<1>2. CASE EditZone(s)
  <2>1. TypeOK'
    BY <1>2, BoundsAssumption DEF TypeOK, EditZone, Change, row
  <2>2. QED
    BY <1>2, <2>1, RowStays DEF EditZone
<1>3. CASE Delete
  <2>1. TypeOK'
    BY <1>3, Zenon DEF TypeOK, Delete
  <2>2. VerdictIsCurrent'
    BY <1>3, Zenon DEF Delete, VerdictIsCurrent
  <2>3. QED
    BY <2>1, <2>2
<1>4. QED
  BY <1>1, <1>2, <1>3

LEMMA Inductive == IInv /\ [Next]_vars => IInv'
<1> SUFFICES ASSUME IInv, [Next]_vars PROVE IInv'
  OBVIOUS
<1>1. ASSUME NEW c \in Checks, Verify(c) \/ Recheck(c) PROVE IInv'
  BY <1>1, EnqueueStep DEF Verify, Recheck
<1>2. ASSUME NEW c \in Checks, Work(c) PROVE IInv'
  BY <1>2, WorkStep
<1>3. ASSUME NEW c \in Checks, Again(c) PROVE IInv'
  <2>1. TypeOK'
    BY <1>3, JobsAreJobs, BoundsAssumption DEF IInv, TypeOK, Again, Fault, NoCheck, row
  <2>2. QED
    BY <1>3, <2>1, RowStays DEF Again, IInv
<1>4. ASSUME NEW s \in Selectors, Update(s) \/ EditZone(s) PROVE IInv'
  BY <1>4, OwnerStep
<1>5. CASE Delete
  BY <1>5, DefaultAssumption, BoundsAssumption, OwnerStep
<1>6. CASE UNCHANGED vars
  BY <1>6 DEF vars, row, IInv, TypeOK, VerdictIsCurrent
<1>7. QED
  BY <1>1, <1>2, <1>3, <1>4, <1>5, <1>6 DEF Next

\* Mail is signed for a domain on a verdict about its current selector, but
\* for a job that wrote late (VerifySendingDomainByID, Update).
THEOREM VerifiedIsCurrent == Spec => []VerdictIsCurrent
<1>1. IInv => VerdictIsCurrent
  BY DEF IInv
<1>2. QED
  BY <1>1, Initially, Inductive, PTL DEF Spec
=============================================================================
