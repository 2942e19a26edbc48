------------------------------- MODULE WorkRow -------------------------------
(***************************************************************************)
(* One row of the pipeline_work table and every way the work queue          *)
(* (lib/services/pipeline/workQueue.js) rewrites it.  Each operator is the  *)
(* transaction of one exported function, as a function from the old row to  *)
(* the new one; the modules that run handlers choose which applies.         *)
(*                                                                         *)
(* Time is kept as what is left of it, in ticks: `wait` until               *)
(* next_attempt_at <= now, `lease` until lease_until < now, and `age` since *)
(* created_at, which stops at MaxPark + 1 because the code only compares it *)
(* with FREDY_WORK_MAX_PARK_MS.  `parks` stops at MaxDeferrals for the same *)
(* reason.  The payload is kept only where the queue reads it: llmAttempts. *)
(***************************************************************************)
EXTENDS Integers

CONSTANTS
    MaxAttempts,   \* the kind's maxAttempts()
    MaxLlm,        \* FREDY_LLM_MAX_LISTING_FAILURES
    MaxDeferrals,  \* FREDY_WORK_MAX_DEFERRALS
    MaxPark,       \* FREDY_WORK_MAX_PARK_MS, in ticks
    Lease,         \* ticks from a claim until lease_until < now
    MaxWait        \* the longest back-off or park, in ticks

ASSUME RowAssumption ==
    /\ MaxAttempts \in Nat \ {0}
    /\ MaxLlm \in Nat \ {0}
    /\ MaxDeferrals \in Nat
    /\ MaxPark \in Nat
    /\ Lease \in Nat \ {0}
    /\ MaxWait \in Nat \ {0}

ClaimableStatuses == {"pending", "retry", "deferred", "processing"}
Terminal == {"done", "dead", "cancelled"}
Status == {"absent"} \cup ClaimableStatuses \cup Terminal

(* Why a row ended: the outcome terminate gives it, with its code.  Why one *)
(* waits, which reschedule keeps in the same column, is left out.           *)
Code == {"none", "completed", "cancelled", "attempts_exhausted",
         "llm_unextractable", "parked_out", "provider_permanent"}

NoLease == -1   \* lease_until IS NULL
Waits == 1 .. MaxWait

Row == [status   : Status,
        lease    : NoLease .. Lease,
        wait     : 0 .. MaxWait,
        attempts : Nat,
        parks    : 0 .. MaxDeferrals,
        llm      : 0 .. MaxLlm,
        age      : 0 .. MaxPark + 1,
        code     : Code]

NewRow == [status |-> "pending", lease |-> NoLease, wait |-> 0, attempts |-> 0,
           parks |-> 0, llm |-> 0, age |-> 0, code |-> "none"]

Absent == [NewRow EXCEPT !.status = "absent"]

Claimable(r) == r.status \in ClaimableStatuses

-----------------------------------------------------------------------------
(* Mutants: forms of the definitions below with one plausible slip each. *)

(* terminate without "AND status != 'cancelled'". *)
TerminateUnguarded(r, status, code) ==
    [r EXCEPT !.status = status, !.lease = NoLease, !.code = code]

(* retryWork with the limit checked after one attempt too many. *)
RetryOffByOne(r, w) ==
    IF Claimable(r)
    THEN IF r.attempts > MaxAttempts
         THEN [r EXCEPT !.status = "dead", !.lease = NoLease,
                        !.code = "attempts_exhausted"]
         ELSE [r EXCEPT !.status = "retry", !.lease = NoLease, !.wait = w,
                        !.attempts = @ + 1]
    ELSE r

(* deferWork without the count of parks. *)
DeferForever(r, w) ==
    IF Claimable(r)
    THEN [r EXCEPT !.status = "deferred", !.lease = NoLease, !.wait = w]
    ELSE r

-----------------------------------------------------------------------------
(* enqueueWork on an existing row, when neither 'ignore' nor an equal       *)
(* fingerprint leaves it alone: the row starts over, but for created_at.    *)
ResetRow(r) == [NewRow EXCEPT !.age = r.age]

(* The claim query's condition on a row. *)
Due(r) == /\ Claimable(r)
          /\ r.wait = 0
          /\ r.lease <= 0

(* takeClaim: a reclaim, of a row whose lease ran out, costs an attempt. *)
ClaimRow(r) ==
    [r EXCEPT !.status = "processing",
              !.lease = Lease,
              !.attempts = IF r.status = "processing" THEN @ + 1 ELSE @]

(* terminate, with guardCancelled as every caller leaves or sets it. *)
TerminateRow(r, status, code) ==
    IF r.status \in {"cancelled", "absent"}
    THEN r
    ELSE [r EXCEPT !.status = status, !.lease = NoLease, !.code = code]

CompleteRow(r) == TerminateRow(r, "done", "completed")
CancelRow(r) == TerminateRow(r, "cancelled", "cancelled")
AbandonRow(r) == TerminateRow(r, "dead", "provider_permanent")

(* reschedule: back to the queue for w ticks, unless the row left it. *)
Reschedule(r, status, w) ==
    [r EXCEPT !.status = status, !.lease = NoLease, !.wait = w]

(* retryWork against maxFailures, counting attempt_count. *)
RetryRow(r, w) ==
    IF ~Claimable(r) THEN r
    ELSE IF r.attempts + 1 >= MaxAttempts
    THEN TerminateRow(r, "dead", "attempts_exhausted")
    ELSE [Reschedule(r, "retry", w) EXCEPT !.attempts = @ + 1]

(* retryWork with counter llmAttempts: the counter and the row's age decide, *)
(* attempt_count still goes up.                                              *)
RetryLlmRow(r, w) ==
    LET counted == [r EXCEPT !.llm = @ + 1]
    IN  IF ~Claimable(r) THEN r
        ELSE IF counted.llm >= MaxLlm \/ r.age >= MaxPark
        THEN TerminateRow(counted, "dead", "llm_unextractable")
        ELSE [Reschedule(counted, "retry", w) EXCEPT !.attempts = @ + 1]

(* reschedule with park: TRUE. *)
ParkRow(r, w) ==
    IF ~Claimable(r) THEN r
    ELSE [Reschedule(r, "deferred", w) EXCEPT
             !.parks = IF @ < MaxDeferrals THEN @ + 1 ELSE @]

(* deferWork for a reason of the item's own. *)
DeferRow(r, w) ==
    IF r.parks + 1 > MaxDeferrals \/ r.age > MaxPark
    THEN TerminateRow(r, "dead", "parked_out")
    ELSE ParkRow(r, w)

(* deferWork with environmental: TRUE. *)
DeferEnvironmentalRow(r, w) == ParkRow(r, w)

(* A tick of the clock, as a row sees it. *)
Sooner(n) == IF n > 0 THEN n - 1 ELSE n

AgeRow(r) ==
    IF r.status = "absent" THEN r
    ELSE [r EXCEPT !.wait = Sooner(@),
                   !.lease = Sooner(@),
                   !.age = IF @ <= MaxPark THEN @ + 1 ELSE @]
=============================================================================
