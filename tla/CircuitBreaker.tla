---------------------------- MODULE CircuitBreaker ----------------------------
(***************************************************************************)
(* The circuit breaker of the portals                                       *)
(* (lib/services/jobs/providerCircuitBreaker.js) and those who ask it       *)
(* before they ask a portal: discoveries and detail fetches, which report   *)
(* what they got when it may long be paused.  A key is a portal in one      *)
(* market.                                                                  *)
(*                                                                         *)
(* A score is kept as its whole part.  Every signal weighs one and the      *)
(* limits are whole, so that is what decides; how much of it is gone after  *)
(* a tick, at most half as long as a tick is no longer than the half-life,  *)
(* and the fraction the cooldown grows by, are left open.  The pause is     *)
(* kept as the ticks that are left of it.                                   *)
(***************************************************************************)
EXTENDS Integers

CONSTANTS
    Key,             \* a portal and a market
    FailureLimit,    \* FREDY_PROVIDER_BREAKER_FAILURES
    ChallengeLimit,  \* FREDY_PROVIDER_BREAKER_ITEM_CHALLENGES
    Cooldown,        \* FREDY_PROVIDER_BREAKER_COOLDOWN_MS, in ticks
    MaxCooldown,     \* FREDY_PROVIDER_BREAKER_MAX_COOLDOWN_MS, in ticks
    MaxScore         \* bound: a higher score changes nothing any more

ASSUME BreakerAssumption ==
    /\ {FailureLimit, ChallengeLimit, Cooldown} \subseteq Nat \ {0}
    /\ MaxCooldown \in Nat /\ MaxCooldown >= Cooldown
    /\ MaxScore \in Nat /\ MaxScore >= ChallengeLimit /\ MaxScore >= FailureLimit
    /\ Cooldown * 2 ^ (MaxScore - FailureLimit) >= MaxCooldown

VARIABLES
    breaker,   \* the rows of provider_breaker_state
    asking     \* who awaits a portal's answer

vars == <<breaker, asking>>

Scope == {"discovery", "item"}
Asker == Key \X Scope
Score == 0 .. MaxScore

Breaker == [failure : Score, challenge : Score, pause : 0 .. MaxCooldown]

Closed == [failure |-> 0, challenge |-> 0, pause |-> 0]

TypeOK == breaker \in [Key -> Breaker] /\ asking \subseteq Asker

Init == breaker = [k \in Key |-> Closed] /\ asking = {}
-----------------------------------------------------------------------------
(* Mutants: plausible slips in the code above. *)

(* A detail capture zeroes the discovery score and the pause, too. *)
ClearedAll(b, scope) == Closed

(* A detail capture leaves the challenges. *)
ClearedLess(b, scope) == IF scope = "discovery" THEN Closed ELSE b

(* Nobody looks at the pause. *)
MayAskAlways(a) == TRUE

-----------------------------------------------------------------------------
Lesser(m, n) == IF m <= n THEN m ELSE n
Greater(m, n) == IF m >= n THEN m ELSE n

(* What a discovery can report: "ok" also for an empty page, "failed" for   *)
(* the systemic signals, "refused" for a challenge, a rate limit or an      *)
(* advert that is gone.  Of the items only challenges and captures report.  *)
Signal(scope) == IF scope = "discovery" THEN {"ok", "failed", "refused"}
                                        ELSE {"ok", "refused"}

Counted(score) == Lesser(score + 1, MaxScore)

(* A success clears the evidence it contradicts. *)
Cleared(b, scope) == IF scope = "discovery" THEN Closed
                                            ELSE [b EXCEPT !.challenge = 0]

Weighed(b, scope, signal) ==
    IF scope = "discovery" /\ signal = "failed"
    THEN [b EXCEPT !.failure = Counted(@)]
    ELSE [b EXCEPT !.challenge = Counted(@)]

Tripped(b) == b.failure >= FailureLimit \/ b.challenge >= ChallengeLimit

(* The cooldown doubles with each unit of the failure score over its limit, *)
(* fractions included, whatever the signal that trips it.                   *)
Cooldowns(b) ==
    IF b.failure < FailureLimit THEN {Cooldown}
    ELSE LET doubled(n) == Lesser(Cooldown * 2 ^ n, MaxCooldown)
             over == b.failure - FailureLimit
         IN {c \in Cooldown .. MaxCooldown : doubled(over) <= c /\ c <= doubled(over + 1)}

(* recordProviderSignal: the rows it may write. *)
Recorded(b, scope, signal) ==
    IF signal = "ok" THEN {Cleared(b, scope)}
    ELSE LET w == Weighed(b, scope, signal) IN
         IF Tripped(w)
         THEN {[w EXCEPT !.pause = Greater(@, c)] : c \in Cooldowns(w)}
         ELSE {w}

Remains(score) == (score \div 2) .. score

(* decayed, and openUntil coming nearer. *)
Aged(b) == {[failure |-> f, challenge |-> c, pause |-> Greater(b.pause - 1, 0)] :
               f \in Remains(b.failure), c \in Remains(b.challenge)}

(* isProviderPaused. *)
Paused(k) == breaker[k].pause > 0

(* Those who may ask: executeJobProvider and the detail handler look at the *)
(* pause at the last moment before they do.                                 *)
MayAsk(a) == ~Paused(a[1])
-----------------------------------------------------------------------------
(* A tick of the scheduler begins several discoveries, the detail worker one *)
(* fetch.                                                                   *)
Begin == /\ asking' \in SUBSET Asker /\ asking \subseteq asking'
         /\ \A a \in asking' \ asking : MayAsk(a)
         /\ UNCHANGED breaker

(* The answer is there, or the deadline; the one asking may go on to its    *)
(* next search, where it looks at the pause again.                          *)
Reports(a, signal) ==
    /\ a \in asking
    /\ \E b \in Recorded(breaker[a[1]], a[2], signal) :
          breaker' = [breaker EXCEPT ![a[1]] = b]
    /\ \/ asking' = asking \ {a}
       \/ MayAsk(a)' /\ UNCHANGED asking

(* A detail fetch ends in something that says nothing of the portal. *)
EndsUnreported(a) == /\ a \in asking /\ a[2] = "item"
                     /\ asking' = asking \ {a}
                     /\ UNCHANGED breaker

Tick == /\ breaker' \in {f \in [Key -> UNION {Aged(breaker[k]) : k \in Key}] :
                            \A k \in Key : f[k] \in Aged(breaker[k])}
        /\ UNCHANGED asking

(* The process dies; the rows stay. *)
Crash == asking' = {} /\ UNCHANGED breaker

Next == \/ Begin
        \/ \E a \in Asker : \/ \E signal \in Signal(a[2]) : Reports(a, signal)
                            \/ EndsUnreported(a)
        \/ Tick
        \/ Crash

Spec == Init /\ [][Next]_vars

(* The clock alone is owed. *)
FairSpec == Spec /\ WF_vars(Tick)
-----------------------------------------------------------------------------
(* A pause ends: while a portal is paused nobody starts to ask it, so only  *)
(* the answers under way can prolong it, and the evidence that accumulates  *)
(* in the meantime never makes a cooldown longer than its ceiling.          *)
PauseEnds == \A k \in Key : Paused(k) ~> ~Paused(k)

(* A pause ends before its time only by the answer to a discovery of that   *)
(* portal in that market.                                                   *)
PauseIsKept ==
    [][\A k \in Key : breaker'[k].pause < breaker[k].pause - 1
                         => <<k, "discovery">> \in asking]_vars
=============================================================================
