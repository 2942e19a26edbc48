------------------------------- MODULE LlmBudget -------------------------------
(***************************************************************************)
(* Calls of the language model (lib/services/pipeline/openRouterClient.js)  *)
(* and what limits them (llmBudget.js): a daily count in the database, the  *)
(* request slots of one process, the block that the upstream imposes, and   *)
(* the pause after failures, which belongs to a credential.                 *)
(*                                                                         *)
(* The parser awaits one call at a time; the client is written for any      *)
(* number of callers, and so is this module.  A call is under way between   *)
(* its reservation and its answer; the day of its reservation goes with it. *)
(* Times are kept as what is left of them, in ticks.                        *)
(*                                                                         *)
(* What a call does between two awaits nothing else of the process sees in  *)
(* parts, and what other processes do in between could as well come before  *)
(* or after; but each write is a commit of its own, and the process may die *)
(* between any two of them.                                                 *)
(***************************************************************************)
EXTENDS Integers, Sequences, FiniteSets

CONSTANTS
    Callers,      \* who may call at the same time
    DailyLimit,   \* FREDY_LLM_DAILY_LIMIT
    Rate,         \* FREDY_OPENROUTER_REQUESTS_PER_MINUTE
    Window,       \* the minute of waitForRateSlot, in ticks
    DayLength,    \* a UTC day, in ticks
    Backoff,      \* FREDY_LLM_UPSTREAM_BACKOFF_MS, in ticks
    MaxBackoff,   \* FREDY_LLM_UPSTREAM_MAX_BACKOFF_MS, in ticks
    MaxReset,     \* the latest reset the upstream names, in ticks
    Saturated,    \* more failures lengthen no pause any more
    Keys,         \* credentials (OPENROUTER_API_KEY) that come into use
    MaxDeaths     \* bound: deaths between two writes of a call

ASSUME CallersAssumption == IsFiniteSet(Callers)

ASSUME BudgetAssumption ==
    /\ DailyLimit \in Nat
    /\ {Rate, Window, DayLength, Backoff, MaxReset, Saturated} \subseteq Nat \ {0}
    /\ MaxBackoff \in Nat /\ MaxBackoff >= Backoff
    /\ MaxDeaths \in Nat

(* The backoff, doubled n times; the code doubles no more than ten times.   *)
Doubled[n \in 0 .. 10] == IF n = 0 THEN Backoff ELSE 2 * Doubled[n - 1]

(* Failures are counted up to where they lengthen no delay.                 *)
ASSUME SaturationAssumption ==
    /\ Saturated <= 11
    /\ Saturated = 11 \/ Doubled[Saturated - 1] >= MaxBackoff

VARIABLES
    calls,     \* caller -> how far its call is
    usage,     \* llm_budget_usage: the count of today and of the day before
    pause,     \* llm_service_pause: the row of pipeline_control
    blocked,   \* llm_blocked_until: what is left of the upstream's block
    slots,     \* requestTimes: the age of each slot taken, oldest first
    dayLeft,   \* ticks to midnight
    key,       \* the credential this process was started with
    started,   \* llm_call_audit: rows still 'started', by day of reservation
    answered,  \* llm_call_audit: rows completed and not refunded, by that day
    sent,      \* history: the ages of this process's recent requests
    torn,      \* history: reservations less refunds of each day whose audit
               \* rows a death kept from being written
    deaths     \* history: those deaths

history == <<torn, deaths>>
accounts == <<calls, usage, started, answered, history>>
limits == <<pause, blocked, key>>
times == <<slots, dayLeft, sent>>
vars == <<calls, usage, pause, blocked, slots, dayLeft, key, started, answered, sent, history>>

Day == {"today", "yesterday"}
Permanent == -1
MaxPause == IF MaxBackoff >= MaxReset THEN MaxBackoff ELSE MaxReset

(* left = 0 is a pause that is over but still counts its failures. *)
Pause == [key : Keys, failures : 0 .. Saturated, left : {Permanent} \cup 0 .. MaxPause]
NoPause(k) == [key |-> k, failures |-> 0, left |-> 0]

AccountsOK ==
    /\ calls \in [Callers -> {"idle", "slot"} \cup Day]
    /\ {usage, started, answered} \subseteq [Day -> Nat]
    /\ deaths \in 0 .. MaxDeaths
    /\ torn \in [Day -> -deaths .. deaths]

TypeOK ==
    /\ AccountsOK
    /\ pause \in Pause
    /\ blocked \in 0 .. MaxReset
    /\ slots \in Seq(0 .. Window) /\ Len(slots) <= Rate
    /\ dayLeft \in 1 .. DayLength
    /\ key \in Keys
    /\ sent \in Seq(0 .. Window - 1)

Init ==
    /\ calls = [c \in Callers |-> "idle"]
    /\ usage = [d \in Day |-> 0]
    /\ key \in Keys
    /\ pause = NoPause(key)
    /\ blocked = 0
    /\ slots = <<>>
    /\ dayLeft = DayLength
    /\ started = [d \in Day |-> 0]
    /\ answered = [d \in Day |-> 0]
    /\ sent = <<>>
    /\ torn = [d \in Day |-> 0]
    /\ deaths = 0
-----------------------------------------------------------------------------
(* Mutants: plausible slips in the code above. *)

(* What comes back is booked on the day it comes back. *)
RefundedToday(c) == [usage EXCEPT !["today"] = IF @ > 0 THEN @ - 1 ELSE 0]

(* Calls are let through on the budget alone, as reserveLlmCall sees it. *)
CanExtractUnpaused == blocked = 0 /\ usage["today"] < DailyLimit

(* A block is set and never read as over. *)
LessOfNever(left) == left
-----------------------------------------------------------------------------
Lesser(m, n) == IF m <= n THEN m ELSE n
Greater(m, n) == IF m >= n THEN m ELSE n

(* A pause that another credential earned is none. *)
ServiceState == IF pause.key = key THEN pause ELSE NoPause(key)

CanSpend == blocked = 0 /\ usage["today"] < DailyLimit

CanExtract == ServiceState.left = 0 /\ CanSpend

(* How many of the ages, oldest first, are at the front and a minute or more. *)
Outdated(ages) ==
    CHOOSE n \in 0 .. Len(ages) :
        /\ \A i \in 1 .. n : ages[i] >= Window
        /\ n < Len(ages) => ages[n + 1] < Window

Recent(ages) == SubSeq(ages, Outdated(ages) + 1, Len(ages))

(* requestTimes after old slots were shifted from its front. *)
Live == Recent(slots)

SlotFree == Len(Live) < Rate

UnderWay(d) == {c \in Callers : calls[c] = d}

Refunded(c) ==
    [usage EXCEPT ![calls[c]] = IF @ > 0 THEN @ - 1 ELSE 0]

Delay(failures) == Lesser(MaxBackoff, Doubled[failures - 1])

(* The reset that an answer names (parseResetMs), in ticks from now: none,  *)
(* or one that is past, is 0.                                               *)
Reset == 0 .. MaxReset

(* pauseExtraction: a reset may prolong the delay. *)
Pauses(permanent) ==
    LET failures == Lesser(ServiceState.failures + 1, Saturated)
    IN \E reset \in Reset :
          pause' = [key |-> key, failures |-> failures,
                    left |-> IF permanent THEN Permanent
                             ELSE Greater(Delay(failures), reset)]
-----------------------------------------------------------------------------
(* Once it has a slot a call looks again, reserves, begins its audit row    *)
(* and sends.  The slot is gone in any case; where the audit row cannot be  *)
(* written the reservation is given back.  DiesReserving is the death       *)
(* between the two writes.                                                  *)
Proceeds(c) ==
    /\ SlotFree
    /\ slots' = Append(Live, 0)
    /\ \/ /\ CanExtract
          /\ calls' = [calls EXCEPT ![c] = "today"]
          /\ usage' = [usage EXCEPT !["today"] = @ + 1]
          /\ started' = [started EXCEPT !["today"] = @ + 1]
          /\ sent' = Append(sent, 0)
       \/ /\ calls' = [calls EXCEPT ![c] = "idle"]
          /\ UNCHANGED <<usage, started, sent>>
    /\ UNCHANGED <<limits, dayLeft, answered, history>>

(* openRouterToolCall up to its first await: refused where extraction is    *)
(* not available, else at once or after the wait for a slot.                *)
Request(c) ==
    /\ calls[c] = "idle" /\ CanExtract
    /\ \/ Proceeds(c)
       \/ /\ ~SlotFree
          /\ calls' = [calls EXCEPT ![c] = "slot"]
          /\ slots' = Live
          /\ UNCHANGED <<usage, started, answered, history, limits, dayLeft, sent>>

Wakes(c) == calls[c] = "slot" /\ Proceeds(c)

(* The deadline of the item ends the wait for a slot: nothing is reserved.  *)
Abandons(c) ==
    /\ calls[c] = "slot"
    /\ calls' = [calls EXCEPT ![c] = "idle"]
    /\ UNCHANGED <<usage, started, answered, history, limits, times>>

(* The audit row of a call is completed (finishLlmAudit). *)
Completed(c) == [started EXCEPT ![calls[c]] = @ - 1]

(* The upstream answered, well or badly formed: the reservation is spent    *)
(* and every pause is over (clearExtractionPause, then finishLlmAudit).     *)
Answers(c) ==
    /\ calls[c] \in Day
    /\ calls' = [calls EXCEPT ![c] = "idle"]
    /\ started' = Completed(c)
    /\ answered' = [answered EXCEPT ![calls[c]] = @ + 1]
    /\ pause' = NoPause(key)
    /\ UNCHANGED <<usage, blocked, key, times, history>>

(* The reservation goes back (refundLlmCall) and the audit row is completed *)
(* (finishLlmAudit), after the block or the pause was written.  DiesEnding  *)
(* is the death between any two of these.                                   *)
GivesBack(c) ==
    /\ calls[c] \in Day
    /\ calls' = [calls EXCEPT ![c] = "idle"]
    /\ usage' = Refunded(c)
    /\ started' = Completed(c)
    /\ UNCHANGED <<answered, key, times, history>>

(* 429: the upstream blocks, until a reset that is clamped to the future    *)
(* (noteUpstreamExhausted).                                                 *)
Blocks ==
    /\ blocked' \in {Greater(reset, 1) : reset \in Reset}
    /\ UNCHANGED pause

RateLimited(c) == GivesBack(c) /\ Blocks

(* No answer for a reason that passes (a timeout, the item's deadline, the  *)
(* network, the upstream's errors) or that only an operator can mend        *)
(* (classifyOpenRouterError).                                               *)
Fails(c, permanent) ==
    /\ GivesBack(c)
    /\ Pauses(permanent)
    /\ UNCHANGED blocked

Unavailable(c) == Fails(c, FALSE)
Misconfigured(c) == Fails(c, TRUE)

(* The fetch was aborted by neither deadline. *)
Aborted(c) == GivesBack(c) /\ UNCHANGED <<pause, blocked>>

(* A process starts after one that died, perhaps with another credential.   *)
StartsAgain(k) ==
    /\ key' = k
    /\ calls' = [c \in Callers |-> "idle"]
    /\ slots' = <<>> /\ sent' = <<>>
    /\ UNCHANGED <<started, answered, dayLeft>>

(* It died during its awaits, or before the first write of a stretch:       *)
(* reservations and started audit rows stay as they are.                    *)
Restart(k) ==
    /\ StartsAgain(k)
    /\ UNCHANGED <<usage, pause, blocked, history>>

Dies == deaths < MaxDeaths /\ deaths' = deaths + 1

(* It died after reserveLlmCall and before beginLlmAudit, or before the     *)
(* refund where that failed.                                                *)
DiesReserving(c, k) ==
    /\ calls[c] \notin Day
    /\ SlotFree /\ CanExtract
    /\ usage' = [usage EXCEPT !["today"] = @ + 1]
    /\ torn' = [torn EXCEPT !["today"] = @ + 1]
    /\ Dies
    /\ StartsAgain(k)
    /\ UNCHANGED <<pause, blocked>>

(* It died while a call ended: with the pause cleared, the block or the     *)
(* pause written, or the refund as well, and the audit row still started.   *)
DiesEnding(c, k) ==
    /\ calls[c] \in Day
    /\ \/ /\ pause' = NoPause(key)
          /\ UNCHANGED <<usage, blocked, torn>>
       \/ /\ \/ Blocks
             \/ \E permanent \in BOOLEAN : Pauses(permanent) /\ UNCHANGED blocked
             \/ UNCHANGED <<pause, blocked>>
          /\ \/ /\ usage' = Refunded(c)
                /\ torn' = [torn EXCEPT ![calls[c]] = @ - 1]
             \/ UNCHANGED <<usage, torn>>
    /\ Dies
    /\ StartsAgain(k)

(* yarn maintenance resume-llm, a process of its own. *)
Resume ==
    /\ pause' = NoPause(key)
    /\ UNCHANGED <<accounts, blocked, key, times>>

Less(left) == IF left > 0 THEN left - 1 ELSE left

Older(ages) == [i \in DOMAIN ages |-> Lesser(ages[i] + 1, Window)]

NextDay(count) == [count EXCEPT !["today"] = 0, !["yesterday"] = count["today"]]

(* At midnight today's calls become yesterday's; a call's deadline is far   *)
(* shorter than a day.                                                      *)
Midnight ==
    /\ UnderWay("yesterday") = {}
    /\ calls' = [c \in Callers |-> IF calls[c] = "today" THEN "yesterday" ELSE calls[c]]
    /\ usage' = NextDay(usage)
    /\ started' = NextDay(started)
    /\ answered' = NextDay(answered)
    /\ torn' = NextDay(torn)
    /\ UNCHANGED deaths

Tick ==
    /\ \/ /\ dayLeft > 1
          /\ dayLeft' = dayLeft - 1
          /\ UNCHANGED accounts
       \/ /\ dayLeft = 1
          /\ dayLeft' = DayLength
          /\ Midnight
    /\ pause' = [pause EXCEPT !.left = Less(@)]
    /\ blocked' = Less(blocked)
    /\ slots' = Older(slots)
    /\ sent' = Recent(Older(sent))
    /\ UNCHANGED key

Ends(c) == Answers(c) \/ RateLimited(c) \/ Unavailable(c) \/ Misconfigured(c) \/ Aborted(c)

Next ==
    \/ \E c \in Callers : Request(c) \/ Wakes(c) \/ Abandons(c) \/ Ends(c)
    \/ \E k \in Keys : \/ Restart(k)
                      \/ \E c \in Callers : DiesReserving(c, k) \/ DiesEnding(c, k)
    \/ Resume
    \/ Tick

Spec == Init /\ [][Next]_vars

(* The clock, the timer behind the wait for a slot and the request's own    *)
(* deadline.                                                                *)
FairSpec ==
    /\ Spec
    /\ WF_vars(Tick)
    /\ \A c \in Callers : WF_vars(Wakes(c)) /\ WF_vars(Ends(c))
-----------------------------------------------------------------------------
(* A day's count is what its audit rows say was not refunded: answers, and  *)
(* rows still started, which are the calls under way and those a death took *)
(* along.  It departs from them by one for each death between the two       *)
(* writes of a reservation (one too many) or of a refund (one too few), and *)
(* never falls below the answers and the calls under way.  No refund is     *)
(* lost, taken twice or booked on another day, across midnight, restarts    *)
(* and parallel callers.                                                    *)
UsageAccounted ==
    \A d \in Day : /\ usage[d] = answered[d] + started[d] + torn[d]
                  /\ Cardinality(UnderWay(d)) <= started[d]
                  /\ answered[d] + Cardinality(UnderWay(d)) <= usage[d]

(* Parallel callers do not overshoot the day's limit together, whatever     *)
(* comes back late (the comment on refundLlmCall).                          *)
BudgetKept ==
    \A d \in Day : answered[d] + Cardinality(UnderWay(d)) <= DailyLimit

(* The accounts add up and the limit holds. *)
AccountsKept == UsageAccounted /\ BudgetKept

(* A process sends no more than Rate requests in any minute. *)
RateKept == Len(sent) <= Rate

(* While extraction is paused and no call is under way none is sent, and    *)
(* the pause ends by time, by an operator or for another credential: a call *)
(* that waited for its slot when the pause began is stopped, and a          *)
(* configuration failure stays paused across midnights and crashes.         *)
Quiet == \A d \in Day : UnderWay(d) = {}

PauseKept ==
    [][Quiet /\ ServiceState.left # 0
         => /\ Quiet'
            /\ Resume \/ key' # key \/ ServiceState'.left \in {pause.left, Less(pause.left)}]_vars

(* A request is sent only when rate and pause allow it, and no delay is     *)
(* longer than its ceiling (TypeOK).                                        *)
SendsWhenAllowed == [](TypeOK /\ RateKept) /\ PauseKept

(* Whatever fails, extraction becomes available again and again, unless the *)
(* upstream rejected the configuration.                                     *)
Recovers == []<>(CanExtract \/ ServiceState.left = Permanent)
=============================================================================
