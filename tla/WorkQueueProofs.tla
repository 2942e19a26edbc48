--------------------------- MODULE WorkQueueProofs ---------------------------
(***************************************************************************)
(* Proofs about the work queue, for any keys, any policy of a kind and any  *)
(* number of producers' writes, retries, outages and losses.                *)
(***************************************************************************)
EXTENDS WorkQueue, TLAPS

(* What a row looks like to ColumnsAgree, and what keeps llmAttempts within *)
(* its type: an extraction that used up its budget is over.                 *)
Agrees(r) == /\ r.lease # NoLease <=> r.status = "processing"
             /\ r.code # "none" <=> r.status \in Terminal
             /\ r.llm < MaxLlm \/ r.status \in Terminal

USE DEF NoLease, Waits, Claimable, ClaimableStatuses, Terminal

-----------------------------------------------------------------------------
(* Every transaction of workQueue.js turns a row into a row whose columns   *)
(* agree.                                                                   *)

LEMMA RowFields ==
    ASSUME NEW r \in Row
    PROVE  /\ r.status \in Status /\ r.lease \in -1 .. Lease
           /\ r.wait \in 0 .. MaxWait /\ r.attempts \in Nat
           /\ r.parks \in 0 .. MaxDeferrals /\ r.llm \in 0 .. MaxLlm
           /\ r.age \in 0 .. MaxPark + 1 /\ r.code \in Code
BY DEF Row

LEMMA Constants == /\ MaxAttempts \in Nat /\ MaxLlm \in Nat \ {0}
                   /\ MaxDeferrals \in Nat /\ MaxPark \in Nat
                   /\ -1 \in -1 .. Lease /\ Lease \in -1 .. Lease
                   /\ Lease # -1 /\ Lease \in Nat
                   /\ MaxWait \in Nat
                   /\ 1 .. MaxWait \subseteq 0 .. MaxWait
BY RowAssumption

LEMMA NewRowIsRow == /\ NewRow \in Row /\ Agrees(NewRow)
                     /\ Absent \in Row /\ Agrees(Absent)
BY RowAssumption DEF NewRow, Absent, Row, Status, Code, Agrees

LEMMA ResetRowIsRow == ASSUME NEW r \in Row
                       PROVE  ResetRow(r) \in Row /\ Agrees(ResetRow(r))
BY RowAssumption DEF ResetRow, NewRow, Row, Status, Code, Agrees

LEMMA ClaimRowIsRow ==
    ASSUME NEW r \in Row, Due(r), Agrees(r)
    PROVE  ClaimRow(r) \in Row /\ Agrees(ClaimRow(r))
<1> DEFINE n == IF r.status = "processing" THEN r.attempts + 1 ELSE r.attempts
<1>1. n \in Nat
  BY RowFields
<1>2. ClaimRow(r) = [r EXCEPT !.status = "processing", !.lease = Lease,
                              !.attempts = n]
  BY DEF ClaimRow
<1> HIDE DEF n
<1>3. ClaimRow(r) \in Row
  BY <1>1, <1>2, Constants DEF Row, Status
<1>4. Agrees(ClaimRow(r))
  BY <1>2, Constants, RowFields DEF Row, Agrees, Due
<1> QED BY <1>3, <1>4

LEMMA TerminateRowIsRow ==
    ASSUME NEW r \in Row, Agrees(r),
           NEW s \in Terminal, NEW c \in Code \ {"none"}
    PROVE  TerminateRow(r, s, c) \in Row /\ Agrees(TerminateRow(r, s, c))
<1>1. TerminateRow(r, s, c) \in Row
  BY Constants DEF TerminateRow, Row, Status
<1>2. Agrees(TerminateRow(r, s, c))
  BY Constants DEF TerminateRow, Row, Agrees
<1> QED BY <1>1, <1>2

LEMMA RescheduleIsRow ==
    ASSUME NEW r \in Row, Claimable(r), Agrees(r), NEW w \in Waits,
           NEW s \in {"retry", "deferred"}
    PROVE  Reschedule(r, s, w) \in Row /\ Agrees(Reschedule(r, s, w))
<1>1. Reschedule(r, s, w) \in Row
  BY Constants DEF Reschedule, Row, Status
<1>2. Agrees(Reschedule(r, s, w))
  BY Constants DEF Reschedule, Row, Agrees
<1> QED BY <1>1, <1>2

LEMMA CountAttempt ==
    ASSUME NEW r \in Row, Agrees(r)
    PROVE  /\ [r EXCEPT !.attempts = @ + 1] \in Row
           /\ Agrees([r EXCEPT !.attempts = @ + 1])
<1>1. r.attempts + 1 \in Nat
  BY RowFields
<1>2. QED BY <1>1 DEF Row, Agrees

LEMMA RetryRowIsRow ==
    ASSUME NEW r \in Row, Agrees(r), NEW w \in Waits
    PROVE  RetryRow(r, w) \in Row /\ Agrees(RetryRow(r, w))
BY TerminateRowIsRow, RescheduleIsRow, CountAttempt DEF RetryRow, Code, Agrees

LEMMA RetryLlmRowIsRow ==
    ASSUME NEW r \in Row, Agrees(r), NEW w \in Waits
    PROVE  RetryLlmRow(r, w) \in Row /\ Agrees(RetryLlmRow(r, w))
<1> DEFINE c == [r EXCEPT !.llm = @ + 1]
<1>1. CASE ~Claimable(r)
  BY <1>1 DEF RetryLlmRow
<1>2. CASE Claimable(r)
  <2>1. r.llm + 1 \in 0 .. MaxLlm
    BY <1>2, Constants, RowFields DEF Agrees
  <2>2. /\ c \in Row /\ c.llm = r.llm + 1 /\ c.status = r.status
        /\ c.lease = r.lease /\ c.code = r.code
    BY <2>1 DEF Row
  <2> HIDE DEF c
  <2>3. CASE c.llm >= MaxLlm \/ r.age >= MaxPark
    <3>1. RetryLlmRow(r, w) = TerminateRow(c, "dead", "llm_unextractable")
      BY <1>2, <2>3 DEF RetryLlmRow, c
    <3>2. TerminateRow(c, "dead", "llm_unextractable") \in Row
      BY <2>2, Constants DEF TerminateRow, Row, Status, Code
    <3>3. Agrees(TerminateRow(c, "dead", "llm_unextractable"))
      BY <1>2, <2>2, Constants DEF TerminateRow, Row, Agrees
    <3> QED BY <3>1, <3>2, <3>3
  <2>4. CASE ~(c.llm >= MaxLlm \/ r.age >= MaxPark)
    <3>1. RetryLlmRow(r, w) = [Reschedule(c, "retry", w) EXCEPT !.attempts = @ + 1]
      BY <1>2, <2>4 DEF RetryLlmRow, c
    <3>2. Agrees(c) /\ Claimable(c)
      BY <1>2, <2>1, <2>2, <2>4, Constants DEF Agrees
    <3> QED BY <2>2, <3>1, <3>2, RescheduleIsRow, CountAttempt
  <2> QED BY <2>3, <2>4
<1> QED BY <1>1, <1>2

LEMMA ParkRowIsRow ==
    ASSUME NEW r \in Row, Agrees(r), NEW w \in Waits
    PROVE  ParkRow(r, w) \in Row /\ Agrees(ParkRow(r, w))
<1> DEFINE s == Reschedule(r, "deferred", w)
           n == IF s.parks < MaxDeferrals THEN s.parks + 1 ELSE s.parks
<1>1. CASE ~Claimable(r)
  BY <1>1 DEF ParkRow
<1>2. CASE Claimable(r)
  <2>1. s \in Row /\ Agrees(s)
    BY <1>2, RescheduleIsRow
  <2>2. ParkRow(r, w) = [s EXCEPT !.parks = n]
    BY <1>2 DEF ParkRow
  <2> HIDE DEF s
  <2>3. n \in 0 .. MaxDeferrals
    BY <2>1, Constants, RowFields
  <2> HIDE DEF n
  <2> QED BY <2>1, <2>2, <2>3 DEF Row, Agrees
<1> QED BY <1>1, <1>2

LEMMA DeferRowIsRow ==
    ASSUME NEW r \in Row, Agrees(r), NEW w \in Waits
    PROVE  DeferRow(r, w) \in Row /\ Agrees(DeferRow(r, w))
BY ParkRowIsRow, TerminateRowIsRow DEF DeferRow, Code

LEMMA AgeRowIsRow ==
    ASSUME NEW r \in Row, Agrees(r)
    PROVE  AgeRow(r) \in Row /\ Agrees(AgeRow(r))
<1> DEFINE a == IF r.age <= MaxPark THEN r.age + 1 ELSE r.age
<1>1. /\ Sooner(r.wait) \in 0 .. MaxWait /\ Sooner(r.lease) \in -1 .. Lease
      /\ r.lease = -1 <=> Sooner(r.lease) = -1
  BY Constants, RowFields DEF Sooner
<1>2. a \in 0 .. MaxPark + 1
  BY Constants, RowFields
<1>3. r.status # "absent" =>
         AgeRow(r) = [r EXCEPT !.wait = Sooner(r.wait),
                               !.lease = Sooner(r.lease), !.age = a]
  BY DEF AgeRow
<1> HIDE DEF a
<1>4. r.status # "absent" => AgeRow(r) \in Row
  BY <1>1, <1>2, <1>3 DEF Row
<1>5. r.status # "absent" => Agrees(AgeRow(r))
  BY <1>1, <1>3, RowFields DEF Row, Agrees
<1> QED BY <1>4, <1>5 DEF AgeRow

-----------------------------------------------------------------------------
(* The inductive invariant for types and columns.                           *)

RowsAgree == \A k \in Key : Agrees(rows[k])

TypeInv == TypeOK /\ RowsAgree

LEMMA WriteKeepsRows ==
    ASSUME TypeInv, NEW k \in Key, NEW r \in Row, Agrees(r), Write(k, r)
    PROVE  /\ rows' \in [Key -> Row] /\ RowsAgree'
           /\ ahead' \in [Key -> SUBSET Key]
<1>1. rows' \in [Key -> Row] /\ RowsAgree'
  BY DEF TypeInv, TypeOK, RowsAgree, Write
<1>2. Touched(k) \in [Key -> SUBSET Key]
  BY DEF TypeInv, TypeOK, Touched
<1> QED BY <1>1, <1>2 DEF TypeInv, TypeOK, Write

LEMMA RecordKeepsTypeInv ==
    ASSUME TypeInv, NEW k \in Key, NEW r \in Row, Agrees(r), Record(k, r)
    PROVE  TypeInv'
<1>1. Write(k, r)
  BY DEF Record
<1>2. running' \in Key \cup {NoKey} /\ left' \in 0 .. Timeout
  BY QueueAssumption DEF Record
<1> QED BY <1>1, <1>2, WriteKeepsRows DEF Record, TypeInv, TypeOK

LEMMA TypeInvInit == Init => TypeInv
BY NewRowIsRow, QueueAssumption DEF Init, TypeInv, TypeOK, RowsAgree

LEMMA TypeInvStep == TypeInv /\ [Next]_vars => TypeInv'
<1> SUFFICES ASSUME TypeInv, [Next]_vars PROVE TypeInv'
  OBVIOUS
<1>0. /\ \A k \in Key : rows[k] \in Row /\ Agrees(rows[k])
      /\ \A s \in {"done", "dead", "cancelled"} : s \in Terminal
  BY DEF TypeInv, TypeOK, RowsAgree
<1>1. ASSUME NEW k \in Key, Enqueue(k) PROVE TypeInv'
  <2>1. Write(k, NewRow)
    BY <1>1 DEF Enqueue
  <2> QED BY <1>1, <2>1, NewRowIsRow, WriteKeepsRows DEF Enqueue, TypeInv, TypeOK
<1>2. ASSUME NEW k \in Key, Reset(k) PROVE TypeInv'
  <2>1. ResetRow(rows[k]) \in Row /\ Agrees(ResetRow(rows[k]))
    BY <1>0, ResetRowIsRow
  <2>2. changes' \in 0 .. MaxChanges
    BY <1>2, QueueAssumption DEF Reset, TypeInv, TypeOK
  <2> QED BY <1>2, <2>1, <2>2, WriteKeepsRows DEF Reset, TypeInv, TypeOK
<1>3. ASSUME NEW k \in Key, Supersede(k) PROVE TypeInv'
  <2>1. CancelRow(rows[k]) \in Row /\ Agrees(CancelRow(rows[k]))
    BY <1>0, TerminateRowIsRow DEF CancelRow, Code
  <2> QED BY <1>3, <2>1, WriteKeepsRows DEF Supersede, TypeInv, TypeOK
<1>4. ASSUME NEW k \in Key, Claim(k) PROVE TypeInv'
  <2>1. ClaimRow(rows[k]) \in Row /\ Agrees(ClaimRow(rows[k]))
    BY <1>0, <1>4, ClaimRowIsRow DEF Claim, FirstDue
  <2>2. left' \in 0 .. Timeout
    BY <1>4, QueueAssumption DEF Claim
  <2> QED BY <1>4, <2>1, <2>2, WriteKeepsRows DEF Claim, TypeInv, TypeOK
<1>5. ASSUME NEW k \in Key, Handler(k) PROVE TypeInv'
  <2>1. CASE Completes(k)
    BY <1>0, <2>1, TerminateRowIsRow, RecordKeepsTypeInv
       DEF Completes, CompleteRow, Code
  <2>2. CASE Cancels(k)
    BY <1>0, <2>2, TerminateRowIsRow, RecordKeepsTypeInv
       DEF Cancels, CancelRow, Code
  <2>3. CASE Fails(k)
    BY <1>0, <2>3, RetryRowIsRow, RecordKeepsTypeInv DEF Fails
  <2>4. CASE FailsExtraction(k)
    BY <1>0, <2>4, RetryLlmRowIsRow, RecordKeepsTypeInv DEF FailsExtraction
  <2>5. CASE Parks(k)
    BY <1>0, <2>5, DeferRowIsRow, RecordKeepsTypeInv DEF Parks
  <2>6. CASE ParksForOutage(k)
    BY <1>0, <2>6, ParkRowIsRow, RecordKeepsTypeInv
       DEF ParksForOutage, DeferEnvironmentalRow
  <2>7. CASE FailsForGood(k)
    BY <1>0, <2>7, TerminateRowIsRow, RecordKeepsTypeInv
       DEF FailsForGood, AbandonRow, Code
  <2> QED BY <1>5, <2>1, <2>2, <2>3, <2>4, <2>5, <2>6, <2>7 DEF Handler
<1>6. ASSUME NEW k \in Key, DeadlineExpires(k) PROVE TypeInv'
  BY <1>0, <1>6, RetryRowIsRow, ParkRowIsRow, RecordKeepsTypeInv
     DEF DeadlineExpires, DeferEnvironmentalRow
<1>7. CASE ExecutionLost
  BY <1>7, QueueAssumption DEF ExecutionLost, TypeInv, TypeOK, RowsAgree
<1>8. CASE Tick
  <2>1. rows' \in [Key -> Row] /\ RowsAgree'
    BY <1>0, <1>8, AgeRowIsRow DEF Tick, RowsAgree
  <2>2. left' \in 0 .. Timeout
    BY <1>8, QueueAssumption DEF Tick, Sooner, TypeInv, TypeOK
  <2> QED BY <1>8, <2>1, <2>2 DEF Tick, TypeInv, TypeOK
<1>9. CASE OutageEnds
  BY <1>9 DEF OutageEnds, TypeInv, TypeOK, RowsAgree
<1>10. CASE UNCHANGED vars
  BY <1>10 DEF vars, TypeInv, TypeOK, RowsAgree
<1> QED BY <1>1, <1>2, <1>3, <1>4, <1>5, <1>6, <1>7, <1>8, <1>9, <1>10 DEF Next

LEMMA TypeInvAlways == Spec => []TypeInv
BY TypeInvInit, TypeInvStep, PTL DEF Spec

(* Rows, order and loop keep their types in every behaviour of the queue of *)
(* every kind of work.                                                      *)
THEOREM QueueTypeCorrect == Spec => []TypeOK
<1>1. TypeInv => TypeOK
  BY DEF TypeInv
<1> QED BY <1>1, TypeInvAlways, PTL

(* A lease is set exactly while its row is processing, and a reason exactly *)
(* when it ended: no order of resets, supersessions, claims, outcomes and   *)
(* losses leaves a row hidden behind a stale lease.                         *)
THEOREM ColumnsAlwaysAgree == Spec => []ColumnsAgree
<1>1. TypeInv => ColumnsAgree
  BY DEF TypeInv, RowsAgree, Agrees, ColumnsAgree
<1> QED BY <1>1, TypeInvAlways, PTL

-----------------------------------------------------------------------------
(* Attempts.  What an outcome may do to a row's attempts: leave them within *)
(* the kind's budget, or add one against an unusable answer.                *)

Thrifty(r, q) ==
    /\ q.status # "processing"
    /\ \/ q.attempts <= MaxAttempts - 1
       \/ q.attempts + r.llm <= r.attempts + q.llm

LEMMA StartIsThrifty ==
    ASSUME NEW r \in Row
    PROVE  Thrifty(r, NewRow) /\ Thrifty(r, ResetRow(r))
BY Constants, RowAssumption DEF Thrifty, NewRow, ResetRow

LEMMA TerminateIsThrifty ==
    ASSUME NEW r \in Row, NEW s \in Terminal, NEW c
    PROVE  Thrifty(r, TerminateRow(r, s, c))
<1>1. /\ TerminateRow(r, s, c).attempts = r.attempts
      /\ TerminateRow(r, s, c).llm = r.llm
      /\ TerminateRow(r, s, c).status # "processing"
  BY DEF TerminateRow, Row
<1> QED BY <1>1, RowFields DEF Thrifty

LEMMA RetryIsThrifty ==
    ASSUME NEW r \in Row, NEW w
    PROVE  Thrifty(r, RetryRow(r, w))
<1>1. CASE ~Claimable(r)
  BY <1>1, RowFields DEF RetryRow, Thrifty
<1>2. CASE Claimable(r) /\ r.attempts + 1 >= MaxAttempts
  <2>1. RetryRow(r, w) = TerminateRow(r, "dead", "attempts_exhausted")
    BY <1>2 DEF RetryRow
  <2> QED BY <2>1, TerminateIsThrifty
<1>3. CASE Claimable(r) /\ ~(r.attempts + 1 >= MaxAttempts)
  <2>1. /\ RetryRow(r, w).attempts = r.attempts + 1
        /\ RetryRow(r, w).status = "retry"
    BY <1>3 DEF RetryRow, Reschedule, Row
  <2> QED BY <1>3, <2>1, Constants, RowFields DEF Thrifty
<1> QED BY <1>1, <1>2, <1>3

LEMMA RetryLlmIsThrifty ==
    ASSUME NEW r \in Row, Agrees(r), NEW w
    PROVE  Thrifty(r, RetryLlmRow(r, w))
<1> DEFINE c == [r EXCEPT !.llm = @ + 1]
           q == RetryLlmRow(r, w)
<1>1. CASE ~Claimable(r)
  BY <1>1, RowFields DEF RetryLlmRow, Thrifty
<1>2. CASE Claimable(r)
  <2>1. /\ c.attempts = r.attempts /\ c.llm = r.llm + 1 /\ c.status = r.status
        /\ [c EXCEPT !.status = "dead", !.lease = -1, !.code = "llm_unextractable"].llm
              = r.llm + 1
    BY DEF Row
  <2>2. CASE c.llm >= MaxLlm \/ r.age >= MaxPark
    <3>1. q = [c EXCEPT !.status = "dead", !.lease = -1,
                        !.code = "llm_unextractable"]
      BY <1>2, <2>2 DEF RetryLlmRow, TerminateRow, Row
    <3>2. q.attempts = r.attempts /\ q.llm = r.llm + 1 /\ q.status = "dead"
      BY <3>1 DEF Row
    <3> QED BY <3>2, RowFields DEF Thrifty
  <2>3. CASE ~(c.llm >= MaxLlm \/ r.age >= MaxPark)
    <3>1. q = [[c EXCEPT !.status = "retry", !.lease = -1, !.wait = w]
                 EXCEPT !.attempts = @ + 1]
      BY <1>2, <2>3 DEF RetryLlmRow, Reschedule
    <3>2. q.attempts = r.attempts + 1 /\ q.llm = r.llm + 1 /\ q.status = "retry"
      BY <3>1 DEF Row
    <3> QED BY <3>2, RowFields DEF Thrifty
  <2> QED BY <2>2, <2>3
<1> QED BY <1>1, <1>2

LEMMA ParkIsThrifty ==
    ASSUME NEW r \in Row, NEW w
    PROVE  Thrifty(r, ParkRow(r, w))
<1>1. /\ ParkRow(r, w).attempts = r.attempts
      /\ ParkRow(r, w).llm = r.llm
      /\ ParkRow(r, w).status # "processing"
  BY DEF ParkRow, Reschedule, Row
<1> QED BY <1>1, RowFields DEF Thrifty

LEMMA DeferIsThrifty ==
    ASSUME NEW r \in Row, NEW w
    PROVE  Thrifty(r, DeferRow(r, w))
BY ParkIsThrifty, TerminateIsThrifty DEF DeferRow

Accounted(k) ==
    rows[k].attempts + (IF Orphaned(k) THEN 1 ELSE 0)
        <= (MaxAttempts - 1) + rows[k].llm + losses

AttemptsInv == TypeInv /\ \A k \in Key : Accounted(k)

(* A thrifty write of k by whoever is not running another key. *)
LEMMA ThriftyWrite ==
    ASSUME AttemptsInv, TypeInv', NEW k \in Key, NEW r, Thrifty(rows[k], r),
           Write(k, r), losses' = losses,
           running' = running \/ (running = k /\ running' = NoKey)
    PROVE  \A j \in Key : Accounted(j)'
<1> SUFFICES ASSUME NEW j \in Key PROVE Accounted(j)'
  OBVIOUS
<1>0. /\ rows[j] \in Row /\ rows'[j] \in Row /\ losses \in Nat
      /\ rows[k] \in Row /\ Accounted(j) /\ Accounted(k)
      /\ rows[k].attempts \in Nat /\ rows[k].llm \in Nat
      /\ rows'[j].attempts \in Nat /\ rows'[j].llm \in Nat
  BY Constants, RowFields, QueueAssumption DEF AttemptsInv, TypeInv, TypeOK
<1>1. CASE j = k
  <2>1. rows'[k] = r
    BY DEF Write, AttemptsInv, TypeInv, TypeOK
  <2>2. ~Orphaned(k)'
    BY <2>1 DEF Thrifty, Orphaned
  <2>3. \/ rows'[k].attempts <= MaxAttempts - 1
        \/ rows'[k].attempts + rows[k].llm <= rows[k].attempts + rows'[k].llm
    BY <2>1 DEF Thrifty
  <2>4. rows[k].attempts <= (MaxAttempts - 1) + rows[k].llm + losses
    BY <1>0, Constants DEF Accounted
  <2> QED BY <1>0, <1>1, <2>2, <2>3, <2>4, Constants DEF Accounted
<1>2. CASE j # k
  <2>1. rows'[j] = rows[j]
    BY <1>2 DEF Write, AttemptsInv, TypeInv, TypeOK
  <2>2. Orphaned(j)' <=> Orphaned(j)
    BY <1>2, <2>1, QueueAssumption DEF Orphaned
  <2> QED BY <1>0, <2>1, <2>2 DEF Accounted
<1> QED BY <1>1, <1>2

LEMMA AttemptsInit == Init => AttemptsInv
<1> SUFFICES ASSUME Init PROVE AttemptsInv
  OBVIOUS
<1>1. TypeInv
  BY TypeInvInit
<1>2. \A k \in Key : /\ rows[k].attempts = 0 /\ rows[k].llm = 0
                     /\ rows[k].status = "absent" /\ losses = 0
  BY DEF Init, Absent, NewRow
<1> QED BY <1>1, <1>2, RowAssumption DEF AttemptsInv, Accounted, Orphaned

LEMMA AttemptsStep == AttemptsInv /\ [Next]_vars => AttemptsInv'
<1> SUFFICES ASSUME AttemptsInv, [Next]_vars PROVE \A j \in Key : Accounted(j)'
  BY TypeInvStep DEF AttemptsInv
<1>0. /\ TypeInv /\ TypeInv' /\ losses \in Nat /\ losses' \in Nat
      /\ \A k \in Key : rows[k] \in Row /\ Agrees(rows[k]) /\ Accounted(k)
      /\ \A k \in Key : rows[k].attempts \in Nat /\ rows[k].llm \in Nat
  BY TypeInvStep, Constants, RowFields, QueueAssumption
     DEF AttemptsInv, TypeInv, TypeOK, RowsAgree
<1>1. ASSUME NEW k \in Key, Enqueue(k) \/ Reset(k)
      PROVE  \A j \in Key : Accounted(j)'
  BY <1>0, <1>1, StartIsThrifty, ThriftyWrite DEF Enqueue, Reset
<1>2. ASSUME NEW k \in Key, Supersede(k) PROVE \A j \in Key : Accounted(j)'
  BY <1>0, <1>2, TerminateIsThrifty, ThriftyWrite DEF Supersede, CancelRow
<1>3. ASSUME NEW k \in Key, Claim(k), NEW j \in Key PROVE Accounted(j)'
  <2>1. running = NoKey /\ running' = k /\ losses' = losses
    BY <1>3 DEF Claim
  <2>2. CASE j = k
    <3>1. rows'[k] = ClaimRow(rows[k])
      BY <1>0, <1>3 DEF Claim, Write, TypeInv, TypeOK
    <3>2. /\ rows'[k].llm = rows[k].llm
          /\ rows'[k].attempts = IF rows[k].status = "processing"
                                 THEN rows[k].attempts + 1
                                 ELSE rows[k].attempts
      BY <1>0, <3>1 DEF ClaimRow, Row
    <3>3. Orphaned(k) <=> rows[k].status = "processing"
      BY <2>1, QueueAssumption DEF Orphaned
    <3>4. ~Orphaned(k)'
      BY <2>1 DEF Orphaned
    <3> QED BY <1>0, <2>1, <2>2, <3>2, <3>3, <3>4, Constants DEF Accounted
  <2>3. CASE j # k
    <3>1. rows'[j] = rows[j]
      BY <1>0, <1>3, <2>3 DEF Claim, Write, TypeInv, TypeOK
    <3>2. Orphaned(j)' <=> Orphaned(j)
      BY <2>1, <2>3, <3>1, QueueAssumption DEF Orphaned
    <3> QED BY <1>0, <2>1, <3>1, <3>2 DEF Accounted
  <2> QED BY <2>2, <2>3
<1>4. ASSUME NEW k \in Key, NEW r, Record(k, r), Thrifty(rows[k], r)
      PROVE  \A j \in Key : Accounted(j)'
  BY <1>0, <1>4, ThriftyWrite DEF Record
<1>5. ASSUME NEW k \in Key, Handler(k) PROVE \A j \in Key : Accounted(j)'
  <2>1. CASE Completes(k) \/ Cancels(k) \/ FailsForGood(k)
    BY <1>0, <1>4, <2>1, TerminateIsThrifty
       DEF Completes, Cancels, FailsForGood, CompleteRow, CancelRow, AbandonRow
  <2>2. CASE Fails(k)
    BY <1>0, <1>4, <2>2, RetryIsThrifty DEF Fails
  <2>3. CASE FailsExtraction(k)
    BY <1>0, <1>4, <2>3, RetryLlmIsThrifty DEF FailsExtraction
  <2>4. CASE Parks(k)
    BY <1>0, <1>4, <2>4, DeferIsThrifty DEF Parks
  <2>5. CASE ParksForOutage(k)
    BY <1>0, <1>4, <2>5, ParkIsThrifty DEF ParksForOutage, DeferEnvironmentalRow
  <2> QED BY <1>5, <2>1, <2>2, <2>3, <2>4, <2>5 DEF Handler
<1>6. ASSUME NEW k \in Key, DeadlineExpires(k)
      PROVE  \A j \in Key : Accounted(j)'
  BY <1>0, <1>4, <1>6, RetryIsThrifty, ParkIsThrifty
     DEF DeadlineExpires, DeferEnvironmentalRow
<1>7. ASSUME ExecutionLost, NEW j \in Key PROVE Accounted(j)'
  <2>1. rows' = rows /\ losses' = losses + 1
    BY <1>7 DEF ExecutionLost
  <2> QED BY <1>0, <2>1, Constants DEF Accounted
<1>8. ASSUME Tick, NEW j \in Key PROVE Accounted(j)'
  <2>1. /\ rows'[j] = AgeRow(rows[j]) /\ running' = running /\ losses' = losses
    BY <1>8 DEF Tick
  <2>2. /\ rows'[j].attempts = rows[j].attempts /\ rows'[j].llm = rows[j].llm
        /\ rows'[j].status = rows[j].status
    BY <1>0, <2>1 DEF AgeRow, Row
  <2> QED BY <1>0, <2>1, <2>2 DEF Accounted, Orphaned
<1>9. CASE OutageEnds \/ UNCHANGED vars
  BY <1>0, <1>9 DEF OutageEnds, vars, Accounted, Orphaned
<1> QED BY <1>1, <1>2, <1>3, <1>5, <1>6, <1>7, <1>8, <1>9 DEF Next

(* However producers, retries, outages and crashes interleave, a row's      *)
(* attempts stay within its two retry budgets plus the executions that were *)
(* lost: a loss costs one attempt and never more.                           *)
THEOREM AttemptsAreAccounted == Spec => []AttemptsAccounted
<1>1. AttemptsInv => AttemptsAccounted
  BY DEF AttemptsInv, Accounted, AttemptsAccounted
<1> QED BY <1>1, AttemptsInit, AttemptsStep, PTL DEF Spec

-----------------------------------------------------------------------------
(* Refinement.  What an outcome does to a row, as the job queue sees it.    *)

Outcome(r, q) == /\ q.status \in {"retry", "deferred"} \cup Terminal
                 /\ r.status = "cancelled" => q.status = "cancelled"

LEMMA OutcomesEnd ==
    ASSUME NEW r \in Row, r.status # "absent", NEW w
    PROVE  /\ \A s \in Terminal : \A c : Outcome(r, TerminateRow(r, s, c))
           /\ Outcome(r, RetryRow(r, w))
           /\ Outcome(r, RetryLlmRow(r, w))
           /\ Outcome(r, ParkRow(r, w))
           /\ Outcome(r, DeferRow(r, w))
<1>0. r.status \in ClaimableStatuses \cup Terminal
  BY DEF Row, Status
<1>1. \A s \in Terminal : \A c : Outcome(r, TerminateRow(r, s, c))
  BY <1>0 DEF TerminateRow, Outcome, Row
<1>2. Outcome(r, RetryRow(r, w))
  <2>1. CASE Claimable(r) /\ ~(r.attempts + 1 >= MaxAttempts)
    BY <1>0, <2>1 DEF RetryRow, Reschedule, Outcome, Row
  <2>2. CASE ~Claimable(r)
    BY <1>0, <2>2 DEF RetryRow, Outcome, Row
  <2> QED BY <1>1, <2>1, <2>2 DEF RetryRow
<1>3. Outcome(r, RetryLlmRow(r, w))
  <2> DEFINE c == [r EXCEPT !.llm = @ + 1]
  <2>0. c.status = r.status
    BY DEF Row
  <2>1. CASE ~Claimable(r)
    BY <1>0, <2>1 DEF RetryLlmRow, Outcome, Row
  <2>2. CASE Claimable(r) /\ (c.llm >= MaxLlm \/ r.age >= MaxPark)
    <3>1. RetryLlmRow(r, w) = [c EXCEPT !.status = "dead", !.lease = NoLease,
                                        !.code = "llm_unextractable"]
      BY <2>0, <2>2 DEF RetryLlmRow, TerminateRow
    <3>2. RetryLlmRow(r, w).status = "dead"
      BY <3>1 DEF Row
    <3> QED BY <2>2, <3>2 DEF Outcome
  <2>3. CASE Claimable(r) /\ ~(c.llm >= MaxLlm \/ r.age >= MaxPark)
    <3>1. RetryLlmRow(r, w) =
             [[c EXCEPT !.status = "retry", !.lease = NoLease, !.wait = w]
                EXCEPT !.attempts = @ + 1]
      BY <2>3 DEF RetryLlmRow, Reschedule
    <3>2. RetryLlmRow(r, w).status = "retry"
      BY <3>1 DEF Row
    <3> QED BY <2>3, <3>2 DEF Outcome
  <2> QED BY <2>1, <2>2, <2>3
<1>4. Outcome(r, ParkRow(r, w))
  BY <1>0 DEF ParkRow, Reschedule, Outcome, Row
<1>5. Outcome(r, DeferRow(r, w))
  BY <1>1, <1>4 DEF DeferRow
<1> QED BY <1>1, <1>2, <1>3, <1>4, <1>5

(* The loop never awaits a handler of a row that is not there. *)
RunningInv == TypeInv /\ (running # NoKey => rows[running].status # "absent")

LEMMA WriteIs ==
    ASSUME TypeInv, NEW k \in Key, NEW r, Write(k, r)
    PROVE  rows' = [rows EXCEPT ![k] = r] /\ rows'[k] = r
BY DEF Write, TypeInv, TypeOK

(* Every outcome the loop records for k, as one row q. *)
LEMMA HandlerRecords ==
    ASSUME RunningInv, NEW k \in Key, Handler(k) \/ DeadlineExpires(k)
    PROVE  \E q : Record(k, q) /\ Outcome(rows[k], q)
<1> running = k
  BY DEF Handler, DeadlineExpires, Record, Completes, Cancels, Fails,
         FailsExtraction, Parks, ParksForOutage, FailsForGood
<1>0. /\ rows[k] \in Row /\ rows[k].status # "absent"
      /\ \A s \in {"done", "dead", "cancelled"} : s \in Terminal
  BY QueueAssumption DEF RunningInv, TypeInv, TypeOK
<1>1. CASE Completes(k) \/ Cancels(k) \/ FailsForGood(k)
  BY <1>0, <1>1, OutcomesEnd
     DEF Completes, Cancels, FailsForGood, CompleteRow, CancelRow, AbandonRow
<1>2. CASE Fails(k)
  BY <1>0, <1>2, OutcomesEnd DEF Fails
<1>3. CASE FailsExtraction(k)
  BY <1>0, <1>3, OutcomesEnd DEF FailsExtraction
<1>4. CASE Parks(k)
  BY <1>0, <1>4, OutcomesEnd DEF Parks
<1>5. CASE ParksForOutage(k)
  BY <1>0, <1>5, OutcomesEnd DEF ParksForOutage, DeferEnvironmentalRow
<1>6. CASE DeadlineExpires(k)
  BY <1>0, <1>6, OutcomesEnd DEF DeadlineExpires, DeferEnvironmentalRow
<1> QED BY <1>1, <1>2, <1>3, <1>4, <1>5, <1>6 DEF Handler

LEMMA RunningInit == Init => RunningInv
BY TypeInvInit DEF RunningInv, Init

LEMMA RunningStep == RunningInv /\ [Next]_vars => RunningInv'
<1> SUFFICES ASSUME RunningInv, [Next]_vars
             PROVE  running' # NoKey => rows'[running'].status # "absent"
  BY TypeInvStep DEF RunningInv
<1>0. TypeInv /\ rows \in [Key -> Row] /\ running \in Key \cup {NoKey}
  BY DEF RunningInv, TypeInv, TypeOK
<1>1. ASSUME NEW k \in Key, NEW r, Write(k, r), r.status # "absent",
             running' = running
      PROVE  running' # NoKey => rows'[running'].status # "absent"
  BY <1>0, <1>1, WriteIs DEF RunningInv
<1>2. ASSUME NEW k \in Key, Enqueue(k) \/ Reset(k)
      PROVE  running' # NoKey => rows'[running'].status # "absent"
  <2>1. NewRow.status # "absent" /\ ResetRow(rows[k]).status # "absent"
    BY DEF NewRow, ResetRow
  <2> QED BY <1>1, <1>2, <2>1 DEF Enqueue, Reset
<1>3. ASSUME NEW k \in Key, Supersede(k)
      PROVE  running' # NoKey => rows'[running'].status # "absent"
  <2>1. CancelRow(rows[k]).status # "absent"
    BY <1>0, <1>3 DEF Supersede, CancelRow, TerminateRow, Row
  <2> QED BY <1>1, <1>3, <2>1 DEF Supersede
<1>4. ASSUME NEW k \in Key, Claim(k)
      PROVE  running' # NoKey => rows'[running'].status # "absent"
  <2>1. ClaimRow(rows[k]).status # "absent"
    BY <1>0 DEF ClaimRow, Row
  <2> QED BY <1>0, <1>4, <2>1, WriteIs DEF Claim
<1>5. ASSUME NEW k \in Key, Handler(k) \/ DeadlineExpires(k)
      PROVE  running' = NoKey
  BY <1>5, HandlerRecords DEF Record
<1>6. CASE ExecutionLost
  BY <1>6 DEF ExecutionLost
<1>7. CASE Tick
  <2>1. \A k \in Key : rows'[k].status = rows[k].status
    BY <1>0, <1>7 DEF Tick, AgeRow, Row
  <2> QED BY <1>0, <1>7, <2>1 DEF Tick, RunningInv
<1>8. CASE OutageEnds \/ UNCHANGED vars
  BY <1>8 DEF OutageEnds, vars, RunningInv
<1> QED BY <1>2, <1>3, <1>4, <1>5, <1>6, <1>7, <1>8 DEF Next

LEMMA JobsInit == Init => Jobs!JInit
BY DEF Init, Jobs!JInit, JobState, Absent, NewRow

JobStates == [k \in Key |-> JobState(rows[k])]

LEMMA WriteIsJobWrite ==
    ASSUME TypeInv, NEW k \in Key, NEW r, Write(k, r)
    PROVE  JobStates' = [JobStates EXCEPT ![k] = JobState(r)]
BY WriteIs DEF JobStates, TypeInv, TypeOK

LEMMA JobsStep == RunningInv /\ [Next]_vars => [Jobs!JNext]_(Jobs!jvars)
<1> SUFFICES ASSUME RunningInv, [Next]_vars
             PROVE  Jobs!JNext \/ UNCHANGED <<JobStates, running>>
  BY DEF Jobs!jvars, JobStates
<1>0. TypeInv /\ rows \in [Key -> Row]
  BY DEF RunningInv, TypeInv, TypeOK
<1>1. ASSUME NEW k \in Key, Enqueue(k) \/ Reset(k) PROVE Jobs!JNext
  <2>1. JobState(NewRow) = "waiting" /\ JobState(ResetRow(rows[k])) = "waiting"
    BY DEF JobState, NewRow, ResetRow
  <2>2. JobStates' = [JobStates EXCEPT ![k] = "waiting"] /\ running' = running
    BY <1>0, <1>1, <2>1, WriteIsJobWrite DEF Enqueue, Reset
  <2>3. Jobs!Submit(k)
    BY <2>2 DEF Jobs!Submit, JobStates
  <2> QED BY <2>3 DEF Jobs!JNext
<1>2. ASSUME NEW k \in Key, Supersede(k) PROVE Jobs!JNext
  <2>1. CancelRow(rows[k]).status = "cancelled"
    BY <1>0, <1>2 DEF Supersede, CancelRow, TerminateRow, Row
  <2>2. JobState(CancelRow(rows[k])) = "withdrawn"
    BY <2>1 DEF JobState
  <2>3. JobState(rows[k]) \in {"waiting", "started"}
    BY <1>2 DEF Supersede, JobState
  <2>4. JobStates' = [JobStates EXCEPT ![k] = "withdrawn"] /\ running' = running
    BY <1>0, <1>2, <2>2, WriteIsJobWrite DEF Supersede
  <2>5. Jobs!Withdraw(k)
    BY <2>3, <2>4 DEF Jobs!Withdraw, Jobs!Open, JobStates
  <2> QED BY <2>5 DEF Jobs!JNext
<1>3. ASSUME NEW k \in Key, Claim(k) PROVE Jobs!JNext
  <2>1. ClaimRow(rows[k]).status = "processing"
    BY <1>0 DEF ClaimRow, Row
  <2>2. JobState(ClaimRow(rows[k])) = "started"
    BY <2>1 DEF JobState
  <2>3. JobState(rows[k]) \in {"waiting", "started"}
    BY <1>3 DEF Claim, FirstDue, Due, JobState
  <2>4. JobStates' = [JobStates EXCEPT ![k] = "started"] /\ running' = k
           /\ running = NoKey
    BY <1>0, <1>3, <2>2, WriteIsJobWrite DEF Claim
  <2>5. Jobs!Begin(k)
    BY <2>3, <2>4 DEF Jobs!Begin, Jobs!Open, JobStates
  <2> QED BY <2>5 DEF Jobs!JNext
<1>4. ASSUME NEW k \in Key, Handler(k) \/ DeadlineExpires(k) PROVE Jobs!JNext
  <2>1. PICK q : Record(k, q) /\ Outcome(rows[k], q)
    BY <1>4, HandlerRecords
  <2>2. /\ JobStates' = [JobStates EXCEPT ![k] = JobState(q)]
        /\ running = k /\ running' = NoKey
    BY <1>0, <2>1, WriteIsJobWrite DEF Record
  <2>3. JobState(q) \in {"waiting"} \cup Jobs!Closed
    BY <2>1 DEF Outcome, JobState, Jobs!Closed
  <2>4. JobState(rows[k]) = "withdrawn" => JobState(q) = "withdrawn"
    <3>1. JobState(rows[k]) = "withdrawn" => rows[k].status = "cancelled"
      <4>1. rows[k].status \in Status
        BY <1>0 DEF Row
      <4> QED BY <4>1 DEF JobState, Status
    <3> QED BY <2>1, <3>1 DEF Outcome, JobState
  <2>5. JobStates \in [Key -> {JobState(rows[j]) : j \in Key}]
           /\ JobStates[k] = JobState(rows[k])
    BY DEF JobStates
  <2>6. JobStates[k] = "withdrawn" => JobStates' = JobStates
    BY <2>2, <2>4, <2>5
  <2>7. JobStates' = IF JobStates[k] = "withdrawn" THEN JobStates
                     ELSE [JobStates EXCEPT ![k] = JobState(q)]
    BY <2>2, <2>6
  <2>8. Jobs!End(k)
    BY <2>2, <2>3, <2>7 DEF Jobs!End, JobStates
  <2> QED BY <2>8 DEF Jobs!JNext
<1>5. ASSUME ExecutionLost PROVE Jobs!JNext
  BY <1>5 DEF ExecutionLost, Jobs!JNext, Jobs!Lose
<1>6. ASSUME Tick PROVE UNCHANGED <<JobStates, running>>
  <2>1. \A k \in Key : rows'[k].status = rows[k].status
    BY <1>0, <1>6 DEF Tick, AgeRow, Row
  <2>2. \A k \in Key : JobState(rows'[k]) = JobState(rows[k])
    BY <2>1 DEF JobState
  <2> QED BY <1>6, <2>2 DEF Tick, JobStates
<1>7. CASE OutageEnds \/ UNCHANGED vars
  BY <1>7 DEF OutageEnds, vars, JobStates
<1> QED BY <1>1, <1>2, <1>3, <1>4, <1>5, <1>6, <1>7 DEF Next

(* The work queue implements the abstract job queue: one execution at a     *)
(* time, begun only for open work; only the handler's own outcome ends work *)
(* that was not withdrawn; and what was superseded while its handler ran is *)
(* not revived by that handler.                                             *)
THEOREM QueueImplementsJobQueue == Spec => ImplementsJobQueue
BY RunningInit, RunningStep, JobsInit, JobsStep, PTL
   DEF Spec, ImplementsJobQueue, Jobs!JSpec

(* Types, columns and attempts together, for any keys, limits and losses.   *)
THEOREM RowsAreConsistent == Spec => []RowsConsistent
<1>1. TypeOK /\ ColumnsAgree /\ AttemptsAccounted => RowsConsistent
  BY DEF RowsConsistent
<1> QED BY <1>1, QueueTypeCorrect, ColumnsAlwaysAgree, AttemptsAreAccounted, PTL
=============================================================================
