------------------------------- MODULE Scheduler -------------------------------
(***************************************************************************)
(* The scheduler of the discovery runs (lib/services/jobs/                  *)
(* jobExecutionService.js, run-state.js): at every tick it goes through the *)
(* pairs of a job and a portal in the order of the jobs' names and starts   *)
(* those that are due and find a free lane; a run asks the portal once for  *)
(* each of the job's searches on it.  The lanes live in memory, the time of *)
(* the last run in the database, and the breaker stands between a run and   *)
(* its portal, which the detail worker asks as well.                        *)
(*                                                                         *)
(* One unit of time is a period of setInterval.  Instead of the time of the *)
(* last run its age is kept, in ticks; from Interval on the pair is due     *)
(* whatever its phase.                                                      *)
(***************************************************************************)
EXTENDS Integers, FiniteSets, Sequences

CONSTANTS
    Order,        \* the pairs <<job, portal>>, as getJobs returns them
    Interval,     \* a job's interval, in ticks
    Offset,       \* pairOffsetMs
    Day,          \* a multiple of Interval: when working hours come round
    Hours,        \* the ticks of the day in each job's working hours
    Market,       \* each job's
    Searches,     \* how many searches of the job are on the portal
    Lanes,        \* FREDY_DISCOVERY_CONCURRENCY
    Gap,          \* FREDY_DISCOVERY_MIN_PORTAL_GAP_MS, rounded up to ticks
    Deadline,     \* FREDY_DISCOVERY_TIMEOUT_MS
    FailureLimit, ChallengeLimit, Cooldown, MaxCooldown, MaxScore,
    MaxTrouble,   \* bound: signals of failure or refusal
    MaxCrashes    \* bound: times the process dies

Pair == {Order[i] : i \in 1 .. Len(Order)}
Portal == {p[2] : p \in Pair}
KeyOf(p) == <<p[2], Market[p[1]]>>
Key == {KeyOf(p) : p \in Pair}

ASSUME OrderAssumption == Order \in Seq(Pair)

ASSUME SchedulerAssumption ==
    /\ {Interval, Deadline} \subseteq Nat \ {0}
    /\ {Gap, Lanes, MaxTrouble, MaxCrashes} \subseteq Nat
    /\ Day \in Nat \ {0} /\ Day % Interval = 0
    /\ Offset \in [Pair -> 0 .. Interval - 1]
    /\ Searches \in [Pair -> Nat \ {0}]
    /\ \A p \in Pair : Hours[p[1]] \subseteq 0 .. Day - 1

(* BreakerAssumption. *)
ASSUME LimitsAssumption ==
    /\ {FailureLimit, ChallengeLimit, Cooldown} \subseteq Nat \ {0}
    /\ MaxCooldown \in Nat /\ MaxCooldown >= Cooldown
    /\ MaxScore \in Nat /\ MaxScore >= ChallengeLimit /\ MaxScore >= FailureLimit
    /\ Cooldown * 2 ^ (MaxScore - FailureLimit) >= MaxCooldown

VARIABLES
    clock,     \* the tick of the day
    ticking,   \* whether the tick is still to come
    age,       \* job_provider_schedule: ticks since the end of the last run
    run,       \* the search each pair's run is at, 0 if none runs (run-state.js)
    left,      \* ticks until its deadline
    inFlight, busyProviders,
    rest,      \* providerLastStartedAt: ticks until a portal's gap is over
    breaker,   \* provider_breaker_state
    fetching,  \* the key the detail worker asks, if it does
    trouble, crashes,
    ended      \* history: the pairs with a run that ended in their window

svars == <<clock, ticking, age, run, left, inFlight, busyProviders, rest,
           breaker, fetching, trouble, crashes, ended>>

Running == {p \in Pair : run[p] > 0}

(* The breaker sees discoveries and detail fetches. *)
Asking == {<<KeyOf(p), "discovery">> : p \in Running} \cup (fetching \X {"item"})

Breaker == INSTANCE CircuitBreaker WITH asking <- Asking

SInit == /\ clock = 0 /\ ticking = TRUE
         /\ age = [p \in Pair |-> Interval]
         /\ run = [p \in Pair |-> 0] /\ left = [p \in Pair |-> 0]
         /\ inFlight = 0 /\ busyProviders = {}
         /\ rest = [x \in Portal |-> 0]
         /\ breaker = [k \in Key |-> Breaker!Closed]
         /\ fetching = {}
         /\ trouble = 0 /\ crashes = 0 /\ ended = {}

STypeOK == /\ clock \in 0 .. Day - 1 /\ ticking \in BOOLEAN
           /\ age \in [Pair -> 0 .. Interval]
           /\ run \in [Pair -> Nat] /\ \A p \in Pair : run[p] <= Searches[p]
           /\ left \in [Pair -> 0 .. Deadline]
           /\ inFlight \in 0 .. Lanes /\ busyProviders \subseteq Portal
           /\ rest \in [Portal -> 0 .. Gap]
           /\ breaker \in [Key -> Breaker!Breaker]
           /\ fetching \subseteq Key /\ \A j, k \in fetching : j = k
           /\ trouble \in 0 .. MaxTrouble /\ crashes \in 0 .. MaxCrashes
           /\ ended \subseteq Pair
-----------------------------------------------------------------------------
(* Mutants: plausible slips in the code below. *)

(* A run that ended right at the beginning of the window, or in it, does    *)
(* not count.                                                               *)
DueAgain(p) == age[p] >= (clock + Interval - Offset[p]) % Interval

(* A pair is due at its moment and not for the rest of its window. *)
DueOnTime(p) == age[p] > 0 /\ (clock + Interval - Offset[p]) % Interval = 0

(* The lane is the pair's and not the portal's. *)
LaneOfPair(l, p) == l.rest[p[2]] = 0 /\ l.inFlight < Lanes

(* The breaker is asked by the detail worker alone. *)
MayAskAnyway(p) == TRUE
-----------------------------------------------------------------------------
(* windowStart, as ticks since then. *)
WindowAge(p, t) == (t + Interval - Offset[p]) % Interval

(* isDue: the last run ended before the window began. *)
Due(p) == age[p] > WindowAge(p, clock)

InHours(p) == clock \in Hours[p[1]]

(* A lane is what the tick has left so far: the portals that are busy and   *)
(* those whose gap is not over, how many runs are in flight, and the pairs  *)
(* it started.                                                              *)
FindsLane(l, p) == /\ p[2] \notin l.busy
                   /\ l.rest[p[2]] = 0
                   /\ l.inFlight < Lanes

(* attemptPair. *)
Attempt(l, p) ==
    IF Due(p) /\ InHours(p) /\ run[p] = 0 /\ FindsLane(l, p)
    THEN [inFlight |-> l.inFlight + 1, busy |-> l.busy \cup {p[2]},
          rest |-> [l.rest EXCEPT ![p[2]] = Gap], started |-> l.started \cup {p}]
    ELSE l

(* executeJobProvider asks the breaker for each search. *)
MayAsk(p) == Breaker!MayAsk(<<KeyOf(p), "discovery">>)

Free == [inFlight |-> inFlight, busy |-> busyProviders, rest |-> rest, started |-> {}]

(* What the round leaves of the lanes after the first i pairs. *)
Round[i \in 0 .. Len(Order)] == IF i = 0 THEN Free ELSE Attempt(Round[i - 1], Order[i])

(* tick: the runs it starts of a portal that is paused end without asking,  *)
(* but only after it is done with its round, and hold their lanes until     *)
(* then.                                                                    *)
Tick ==
    /\ ticking
    /\ \E lanes \in {Round[Len(Order)]} :
       LET skipped == {p \in lanes.started : ~MayAsk(p)}
           opened == lanes.started \ skipped
       IN /\ run' = [p \in Pair |-> IF p \in opened THEN 1 ELSE run[p]]
          /\ left' = [p \in Pair |-> IF p \in opened THEN Deadline ELSE left[p]]
          /\ rest' = lanes.rest
          /\ inFlight' = lanes.inFlight - Cardinality(skipped)
          /\ busyProviders' = lanes.busy \ {p[2] : p \in skipped}
          /\ age' = [p \in Pair |-> IF p \in skipped THEN 0 ELSE age[p]]
          /\ ended' = ended \cup skipped
    /\ ticking' = FALSE
    /\ UNCHANGED <<clock, breaker, fetching, trouble, crashes>>

Before(n) == IF n = 0 THEN 0 ELSE n - 1

(* The period of setInterval, which no deadline outlives. *)
Clock == /\ ~ticking /\ ticking' = TRUE
         /\ \A p \in Running : left[p] > 0
         /\ clock' = (clock + 1) % Day
         /\ age' = [p \in Pair |-> IF age[p] = Interval THEN Interval ELSE age[p] + 1]
         /\ left' = [p \in Pair |-> Before(left[p])]
         /\ rest' = [x \in Portal |-> Before(rest[x])]
         /\ ended' = {p \in ended : WindowAge(p, clock') # 0}
         /\ UNCHANGED <<run, inFlight, busyProviders, fetching, trouble, crashes>>
         /\ Breaker!Tick

(* recordProviderSignal, for a success or as far as the bound allows. *)
Records(k, scope, signal) ==
    /\ signal # "ok" => trouble < MaxTrouble
    /\ trouble' = IF signal = "ok" THEN trouble ELSE trouble + 1
    /\ \E b \in Breaker!Recorded(breaker[k], scope, signal) :
          breaker' = [breaker EXCEPT ![k] = b]

(* The finally of a run, which is recorded at its end. *)
RunFinishes(p) == /\ run' = [run EXCEPT ![p] = 0]
                  /\ left' = [left EXCEPT ![p] = 0]
                  /\ inFlight' = inFlight - 1
                  /\ busyProviders' = busyProviders \ {p[2]}
                  /\ age' = [age EXCEPT ![p] = 0]
                  /\ ended' = ended \cup {p}

GoesOn(p) == /\ run' = [run EXCEPT ![p] = @ + 1]
             /\ left' = [left EXCEPT ![p] = Deadline]
             /\ UNCHANGED <<inFlight, busyProviders, age, ended>>

(* A search ends, by itself or by its deadline.  The next one is asked      *)
(* unless the portal is paused by now, as then are all that follow.         *)
SearchEnds(p) ==
    /\ p \in Running
    /\ \E signal \in Breaker!Signal("discovery") : Records(KeyOf(p), "discovery", signal)
    /\ IF run[p] < Searches[p] /\ MayAsk(p)' THEN GoesOn(p) ELSE RunFinishes(p)
    /\ UNCHANGED <<clock, ticking, rest, fetching, crashes>>

(* The detail worker, one advert at a time. *)
FetchBegins(k) ==
    /\ fetching = {} /\ Breaker!MayAsk(<<k, "item">>)
    /\ fetching' = {k}
    /\ UNCHANGED <<clock, ticking, age, run, left, inFlight, busyProviders, rest,
                   breaker, trouble, crashes, ended>>

FetchEnds(k) ==
    /\ k \in fetching /\ fetching' = {}
    /\ \/ \E signal \in Breaker!Signal("item") : Records(k, "item", signal)
       \/ UNCHANGED <<breaker, trouble>>
    /\ UNCHANGED <<clock, ticking, age, run, left, inFlight, busyProviders, rest,
                   crashes, ended>>

(* The process dies and starts again, with a tick at once. *)
Crash == /\ crashes < MaxCrashes /\ crashes' = crashes + 1
         /\ ticking' = TRUE
         /\ run' = [p \in Pair |-> 0] /\ left' = [p \in Pair |-> 0]
         /\ inFlight' = 0 /\ busyProviders' = {} /\ fetching' = {}
         /\ rest' = [x \in Portal |-> 0]
         /\ UNCHANGED <<clock, age, breaker, trouble, ended>>

Turns == Tick \/ Clock \/ \E p \in Pair : SearchEnds(p)

SNext == \/ Turns \/ Crash
         \/ \E k \in Key : FetchBegins(k) \/ FetchEnds(k)

SSpec == SInit /\ [][SNext]_svars

(* setInterval goes on, and the deadline of each search falls between two   *)
(* of its periods.                                                          *)
SFairSpec == SSpec /\ WF_svars(Turns)
-----------------------------------------------------------------------------
(* The counters of the lanes are what runs: one discovery per portal at     *)
(* most, and no more than the cap, whatever ended in one tick or died.      *)
LanesAgree ==
    /\ inFlight = Cardinality(Running)
    /\ busyProviders = {p[2] : p \in Running}
    /\ \A p, q \in Running : p[2] = q[2] => p = q

(* The state is well formed and the lanes are what runs. *)
LanesConsistent == STypeOK /\ LanesAgree

(* However late a pair finds its lane, however long it runs and however     *)
(* many windows that takes, it starts once in a window: not again after a   *)
(* run that ended in it, be it one that the breaker turned away.            *)
Starts(p) == run[p] = 0 /\ (run'[p] > 0 \/ age'[p] < age[p])
OncePerWindow == [][\A p \in Pair : Starts(p) => p \notin ended]_svars

(* Discoveries and detail fetches keep to the breaker: none is begun while  *)
(* its portal is paused in its market, and a run of several searches stops  *)
(* at the one that paused it.                                               *)
KeepsToBreaker == Breaker!Spec

(* A pair that is due waits its turn and gets it, over and over, though the *)
(* order of the round is always the same: the lane, the gap, the cap and    *)
(* the working hours leave it a tick in the end.                            *)
EveryPairRuns == \A p \in Pair : []<>(age[p] = 0)
=============================================================================
