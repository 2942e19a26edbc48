------------------------------ MODULE WorkQueue ------------------------------
(***************************************************************************)
(* The durable work queue of one kind of work: the rows of that kind in     *)
(* pipeline_work, the producers that enqueue and supersede them, and the    *)
(* kind's one worker loop (workQueue.js: drain), which claims a due row,    *)
(* runs the kind's handler on it under a deadline and records how it went.  *)
(*                                                                         *)
(* Every transaction is synchronous on the one SQLite connection of the one *)
(* Node process, so a stretch between two awaits is one action.  The loop   *)
(* awaits its handler: between the claim and the handler's outcome other    *)
(* producers write, time passes, the deadline may fire and the process may  *)
(* die.  An aborted handler writes nothing any more (each checks its signal *)
(* after every await and before it writes), so it needs no state here.      *)
(*                                                                         *)
(* The kinds differ in their policy, which never changes: which outcomes a  *)
(* handler has, whether its deadline parks or retries, from which states    *)
(* producers may start a row over, and whether rows can be superseded.      *)
(***************************************************************************)
EXTENDS WorkRow

CONSTANTS
    Key,           \* the keys of this kind
    NoKey,         \* the loop is on no item
    Policies,      \* the policies of the kinds that are looked at
    Timeout,       \* the handler's deadline, in ticks
    MaxChanges,    \* bound: how often producers start rows over
    MaxLosses      \* bound: crashes and failures to record an outcome

Policy == [outcomes      : SUBSET {"complete", "cancel", "transient", "llm",
                                   "park", "environment", "permanent"},
           deadlineParks : BOOLEAN,
           resetFrom     : SUBSET (ClaimableStatuses \cup Terminal),
           canSupersede  : BOOLEAN,
           claimFilter   : BOOLEAN]

ASSUME QueueAssumption ==
    /\ NoKey \notin Key
    /\ Policies \subseteq Policy
    /\ Timeout \in Nat \ {0}
    /\ MaxChanges \in Nat
    /\ MaxLosses \in Nat

(* detail: a fetch is refused (park), fails or is gone for good; a new   *)
(* observation starts the row over in any state.                            *)
DetailPolicy ==
    [outcomes      |-> {"complete", "cancel", "transient", "park",
                        "environment", "permanent"},
     deadlineParks |-> FALSE,
     resetFrom     |-> ClaimableStatuses \cup Terminal,
     canSupersede  |-> FALSE,
     claimFilter   |-> FALSE]

(* parse: unusable answers have a budget of their own and the deadline      *)
(* counts as an outage of the model; a newer capture supersedes the row;    *)
(* without the model only rows with a saved extraction are claimed.         *)
ParsePolicy ==
    [outcomes      |-> {"complete", "cancel", "transient", "llm", "environment"},
     deadlineParks |-> TRUE,
     resetFrom     |-> {},
     canSupersede  |-> TRUE,
     claimFilter   |-> TRUE]

VARIABLES
    policy,   \* of the kind these rows are of
    rows,     \* pipeline_work, by key
    ahead,    \* for each key, those updated before it (updated_at)
    running,  \* the item the loop awaits the handler of
    left,     \* ticks until that handler's deadline
    outage,   \* a resource the handler needs is down
    changes,  \* how often producers started a row over
    losses    \* how often an execution was lost

vars == <<policy, rows, ahead, running, left, outage, changes, losses>>

TypeOK == /\ policy \in Policies
          /\ rows \in [Key -> Row]
          /\ ahead \in [Key -> SUBSET Key]
          /\ running \in Key \cup {NoKey}
          /\ left \in 0 .. Timeout
          /\ outage \in BOOLEAN
          /\ changes \in 0 .. MaxChanges
          /\ losses \in 0 .. MaxLosses

Init == /\ policy \in Policies
        /\ rows = [k \in Key |-> Absent]
        /\ ahead = [k \in Key |-> {}]
        /\ running = NoKey
        /\ left = 0
        /\ outage \in BOOLEAN
        /\ changes = 0
        /\ losses = 0
-----------------------------------------------------------------------------
(* A mutant: ORDER BY updated_at DESC, the row touched last first. *)
FirstDueNewest(k) ==
    /\ Due(rows[k])
    /\ \A j \in Key : k \in ahead[j] => ~Due(rows[j])
-----------------------------------------------------------------------------
(* updated_at = now: k is now the last of all. *)
Touched(k) == [j \in Key |-> IF j = k THEN Key \ {k} ELSE ahead[j] \ {k}]

Write(k, r) == /\ rows' = [rows EXCEPT ![k] = r]
               /\ ahead' = IF r = rows[k] THEN ahead ELSE Touched(k)

(* Producers. *)

(* enqueueWork of a key that has no row. *)
Enqueue(k) == /\ rows[k].status = "absent"
              /\ Write(k, NewRow)
              /\ UNCHANGED <<policy, running, left, outage, changes, losses>>

(* enqueueWork of a key that has one, in a mode that starts it over: also   *)
(* when the row is claimed and its handler is running.                      *)
Reset(k) == /\ rows[k].status \in policy.resetFrom
            /\ changes < MaxChanges
            /\ Write(k, ResetRow(rows[k]))
            /\ changes' = changes + 1
            /\ UNCHANGED <<policy, running, left, outage, losses>>

(* cancelWork by a producer (supersedeOlderCaptures): claimable rows only. *)
Supersede(k) == /\ policy.canSupersede
                /\ Claimable(rows[k])
                /\ Write(k, CancelRow(rows[k]))
                /\ UNCHANGED <<policy, running, left, outage, changes, losses>>
-----------------------------------------------------------------------------
(* The worker loop. *)

(* The claim filter is on: it may hold back any row that has nothing saved. *)
Filtering == policy.claimFilter /\ outage

(* ORDER BY updated_at: the due row that was touched longest ago, among     *)
(* those the filter leaves.  Rows of one millisecond, which the code orders *)
(* by age and key, are ordered here by the order of their updates.          *)
FirstDue(k) == /\ Due(rows[k])
               /\ Filtering \/ \A j \in ahead[k] : ~Due(rows[j])

(* claimWork and the start of the handler. *)
Claim(k) == /\ running = NoKey
            /\ FirstDue(k)
            /\ Write(k, ClaimRow(rows[k]))
            /\ running' = k
            /\ left' = Timeout
            /\ UNCHANGED <<policy, outage, changes, losses>>

(* The handler, or failWork for it, records row r and the loop goes on. *)
Record(k, r) == /\ running = k
                /\ Write(k, r)
                /\ running' = NoKey
                /\ left' = 0
                /\ UNCHANGED <<policy, outage, changes, losses>>

Completes(k) == "complete" \in policy.outcomes /\ Record(k, CompleteRow(rows[k]))

Cancels(k) == "cancel" \in policy.outcomes /\ Record(k, CancelRow(rows[k]))

(* A transient error or a timeout of the handler's own. *)
Fails(k) == /\ "transient" \in policy.outcomes
            /\ \E w \in Waits : Record(k, RetryRow(rows[k], w))

(* The model's answer was unusable. *)
FailsExtraction(k) == /\ "llm" \in policy.outcomes
                      /\ \E w \in Waits : Record(k, RetryLlmRow(rows[k], w))

(* A challenge or a rate limit. *)
Parks(k) == /\ "park" \in policy.outcomes
            /\ \E w \in Waits : Record(k, DeferRow(rows[k], w))

(* The provider is paused, the budget is used up, the model is down. *)
ParksForOutage(k) ==
    /\ "environment" \in policy.outcomes
    /\ outage
    /\ \E w \in Waits : Record(k, DeferEnvironmentalRow(rows[k], w))

FailsForGood(k) == "permanent" \in policy.outcomes /\ Record(k, AbandonRow(rows[k]))

(* withOperationDeadline gives up on the handler. *)
DeadlineExpires(k) ==
    /\ running = k
    /\ left = 0
    /\ \E w \in Waits :
          Record(k, IF policy.deadlineParks THEN DeferEnvironmentalRow(rows[k], w)
                                     ELSE RetryRow(rows[k], w))

(* The execution is lost and the row keeps its claim: failWork itself threw *)
(* and the loop goes on, or the process died and started again.             *)
ExecutionLost == /\ running # NoKey
                 /\ losses < MaxLosses
                 /\ losses' = losses + 1
                 /\ running' = NoKey
                 /\ left' = 0
                 /\ UNCHANGED <<policy, rows, ahead, outage, changes>>

Handler(k) == \/ Completes(k) \/ Cancels(k) \/ Fails(k) \/ FailsExtraction(k)
              \/ Parks(k) \/ ParksForOutage(k) \/ FailsForGood(k)
-----------------------------------------------------------------------------
(* The environment.  An outage only allows parks, so one that lasts from   *)
(* the start until it ends allows whatever a later or shorter one would.   *)

Tick == /\ rows' = [k \in Key |-> AgeRow(rows[k])]
        /\ left' = Sooner(left)
        /\ <<rows', left'>> # <<rows, left>>
        /\ UNCHANGED <<policy, ahead, running, outage, changes, losses>>

OutageEnds == /\ outage
              /\ outage' = FALSE
              /\ UNCHANGED <<policy, rows, ahead, running, left, changes, losses>>

Next == \/ \E k \in Key : \/ Enqueue(k) \/ Reset(k) \/ Supersede(k)
                          \/ Claim(k) \/ Handler(k) \/ DeadlineExpires(k)
        \/ ExecutionLost
        \/ Tick
        \/ OutageEnds

Spec == Init /\ [][Next]_vars

(* Timers fire, the loop polls, an outage is repaired; no handler owes an   *)
(* answer, and no producer has to produce.                                  *)
FairSpec == /\ Spec
            /\ WF_vars(Tick)
            /\ WF_vars(OutageEnds)
            /\ WF_vars(~Filtering /\ \E k \in Key : Claim(k))
            /\ WF_vars(\E k \in Key : DeadlineExpires(k))
-----------------------------------------------------------------------------
(* The columns of a row agree, whatever producers and the loop did to it in *)
(* whatever order: a lease is set exactly while the row is processing (a    *)
(* stale one would hide a row that was started over until it ran out), and  *)
(* a reason to have ended exactly when it ended.                            *)
ColumnsAgree ==
    \A k \in Key : /\ rows[k].lease # NoLease <=> rows[k].status = "processing"
                   /\ rows[k].code # "none" <=> rows[k].status \in Terminal

(* A row whose execution was lost: claimed, and nobody is running it. *)
Orphaned(k) == rows[k].status = "processing" /\ running # k

(* Attempts are bounded by what the budgets allow and the executions that   *)
(* were lost: one lost execution costs one attempt, whatever else happens   *)
(* between the loss and the reclaim.                                        *)
AttemptsAccounted ==
    \A k \in Key :
        rows[k].attempts + (IF Orphaned(k) THEN 1 ELSE 0)
            <= (MaxAttempts - 1) + rows[k].llm + losses

(* The rows of a kind are consistent whatever happened to them. *)
RowsConsistent == TypeOK /\ ColumnsAgree /\ AttemptsAccounted

(* The queue implements the abstract job queue: in particular nothing but   *)
(* the handler's own outcome ends a claimed row, and the outcome of a       *)
(* handler whose row was superseded in the meantime does not revive it.     *)
JobState(r) ==
    CASE r.status = "absent"                          -> "none"
      [] r.status \in {"pending", "retry", "deferred"} -> "waiting"
      [] r.status = "processing"                      -> "started"
      [] r.status = "done"                            -> "succeeded"
      [] r.status = "dead"                            -> "failed"
      [] r.status = "cancelled"                       -> "withdrawn"

Jobs == INSTANCE JobQueue WITH Job       <- Key,
                               NoJob     <- NoKey,
                               jobs      <- [k \in Key |-> JobState(rows[k])],
                               executing <- running

ImplementsJobQueue == Jobs!JSpec

(* No due row waits for ever, however many others are retried or enqueued   *)
(* around it: the queue's order brings it to the front.                     *)
NotStarved ==
    \A k \in Key : Due(rows[k]) ~> (running = k \/ ~Claimable(rows[k]))

(* Every row ends: the budgets bound what a handler that keeps failing or   *)
(* hanging, an item that keeps being refused, an outage that ends and       *)
(* finitely many crashes can do to it.  The one way not to end is to run    *)
(* for ever into a deadline that parks, as the parser's does.               *)
Settles ==
    \A k \in Key :
        \/ Claimable(rows[k]) ~> ~Claimable(rows[k])
        \/ []<>(policy.deadlineParks /\ running = k /\ left = 0)
=============================================================================
