----------------------------- MODULE BreakerProofs -----------------------------
(***************************************************************************)
(* Proofs about the circuit breaker, for any keys, limits and cooldowns.    *)
(* The scores never exceed the number of signals they stand for, since      *)
(* decay only takes from them and what resets the number resets them; a     *)
(* pause begins where a score reached its limit.  A discovery that walks    *)
(* through pages, for any pages and adverts, is to the breaker one of those *)
(* who ask it, so that what holds of the breaker holds of Discovery.        *)
(***************************************************************************)
EXTENDS Discovery, FiniteSetTheorems, TLAPS

LEMMA LesserType == \A m, n \in Int : /\ Lesser(m, n) \in {m, n}
                                      /\ Lesser(m, n) <= m /\ Lesser(m, n) <= n
BY DEF Lesser

LEMMA GreaterType == \A m, n \in Int : /\ Greater(m, n) \in {m, n}
                                       /\ Greater(m, n) >= m /\ Greater(m, n) >= n
BY DEF Greater

(* A counted signal raises a score by one, up to the bound. *)
LEMMA CountedType == \A s \in Score : Counted(s) \in Score /\ Counted(s) <= s + 1
BY BreakerAssumption DEF Counted, Score, Lesser

LEMMA CooldownsType == \A b \in Breaker : Cooldowns(b) \subseteq Cooldown .. MaxCooldown
BY BreakerAssumption DEF Cooldowns

(* Everything a row and the limits hold is a whole number. *)
LEMMA Numbers ==
    /\ Score \subseteq Int /\ 0 .. MaxCooldown \subseteq Int
    /\ FailureLimit \in Int /\ ChallengeLimit \in Int
    /\ \A b \in Breaker : /\ b.failure \in Score /\ b.challenge \in Score
                          /\ b.pause \in 0 .. MaxCooldown
<1>1. Score \subseteq Int /\ 0 .. MaxCooldown \subseteq Int
  BY BreakerAssumption DEF Score
<1>2. FailureLimit \in Int /\ ChallengeLimit \in Int  BY BreakerAssumption
<1>3. QED  BY <1>1, <1>2 DEF Breaker

LEMMA ClosedType == Closed \in Breaker
BY BreakerAssumption DEF Closed, Breaker, Score

LEMMA WeighedType ==
    ASSUME NEW b \in Breaker, NEW scope \in Scope, NEW signal \in Signal(scope)
    PROVE  /\ Weighed(b, scope, signal) \in Breaker
           /\ Weighed(b, scope, signal).pause = b.pause
BY CountedType DEF Weighed, Breaker

(* recordProviderSignal writes a row of the table's type. *)
LEMMA RecordedType ==
    ASSUME NEW b \in Breaker, NEW scope \in Scope, NEW signal \in Signal(scope)
    PROVE  Recorded(b, scope, signal) \subseteq Breaker
<1>1. CASE signal = "ok"
  <2>1. [b EXCEPT !.challenge = 0] \in Breaker
    BY BreakerAssumption DEF Breaker, Score
  <2>2. QED  BY <1>1, <2>1, ClosedType DEF Recorded, Cleared
<1>2. CASE signal # "ok"
  <2> DEFINE w == Weighed(b, scope, signal)
  <2>1. w \in Breaker  BY WeighedType
  <2>2. \A c \in Cooldowns(w) : Greater(w.pause, c) \in 0 .. MaxCooldown
    <3>1. w.pause \in 0 .. MaxCooldown  BY <2>1 DEF Breaker
    <3>2. Cooldowns(w) \subseteq 0 .. MaxCooldown
      BY <2>1, CooldownsType, BreakerAssumption
    <3>3. QED  BY <3>1, <3>2, BreakerAssumption DEF Greater
  <2>3. \A c \in Cooldowns(w) : [w EXCEPT !.pause = Greater(@, c)] \in Breaker
    BY <2>1, <2>2 DEF Breaker
  <2>4. QED  BY <1>2, <2>1, <2>3 DEF Recorded
<1>3. QED  BY <1>1, <1>2

LEMMA AgedType ==
    ASSUME NEW b \in Breaker, NEW c \in Aged(b)
    PROVE  /\ c \in Breaker
           /\ c.failure <= b.failure /\ c.challenge <= b.challenge
           /\ c.pause <= b.pause /\ c.pause >= b.pause - 1
<1>1. b.failure \in Score /\ b.challenge \in Score /\ b.pause \in 0 .. MaxCooldown
  BY DEF Breaker
<1>2. \A s \in Score : Remains(s) \subseteq Score /\ \A r \in Remains(s) : r <= s
  BY BreakerAssumption DEF Remains, Score
<1>3. PICK f \in Remains(b.failure), g \in Remains(b.challenge) :
         c = [failure |-> f, challenge |-> g, pause |-> Greater(b.pause - 1, 0)]
  BY DEF Aged
<1>4. /\ Greater(b.pause - 1, 0) \in 0 .. MaxCooldown
      /\ Greater(b.pause - 1, 0) <= b.pause
      /\ Greater(b.pause - 1, 0) >= b.pause - 1
  BY <1>1, BreakerAssumption DEF Greater
<1>5. QED  BY <1>1, <1>2, <1>3, <1>4 DEF Breaker

LEMMA ScopeOfAsker == \A a \in Asker : a[1] \in Key /\ a[2] \in Scope
BY DEF Asker

LEMMA TypeStep == TypeOK /\ [Next]_vars => TypeOK'
<1> SUFFICES ASSUME TypeOK, [Next]_vars PROVE TypeOK'
  OBVIOUS
<1> USE DEF TypeOK
<1>1. CASE Begin  BY <1>1 DEF Begin
<1>2. ASSUME NEW a \in Asker, NEW signal \in Signal(a[2]), Reports(a, signal)
      PROVE TypeOK'
  <2>1. a[1] \in Key /\ a[2] \in Scope  BY ScopeOfAsker
  <2>2. Recorded(breaker[a[1]], a[2], signal) \subseteq Breaker
    BY <2>1, RecordedType
  <2>3. breaker' \in [Key -> Breaker]  BY <1>2, <2>1, <2>2 DEF Reports
  <2>4. QED  BY <1>2, <2>3 DEF Reports
<1>3. ASSUME NEW a \in Asker, EndsUnreported(a) PROVE TypeOK'
  BY <1>3 DEF EndsUnreported
<1>4. CASE Tick
  <2>1. /\ DOMAIN breaker' = Key /\ breaker' = [k \in Key |-> breaker'[k]]
        /\ \A k \in Key : breaker'[k] \in Aged(breaker[k])
    BY <1>4 DEF Tick
  <2>2. \A k \in Key : breaker'[k] \in Breaker  BY <2>1, AgedType
  <2>3. QED  BY <1>4, <2>1, <2>2 DEF Tick
<1>5. CASE Crash  BY <1>5 DEF Crash
<1>6. CASE UNCHANGED vars  BY <1>6 DEF vars
<1>7. QED  BY <1>1, <1>2, <1>3, <1>4, <1>5, <1>6 DEF Next

(* The rows of provider_breaker_state keep their types: whatever signals    *)
(* come in, scores stay scores and no pause is longer than its ceiling.     *)
THEOREM BreakerTypeCorrect == Spec => []TypeOK
<1>1. Init => TypeOK  BY ClosedType DEF Init, TypeOK
<1>2. QED  BY <1>1, TypeStep, PTL DEF Spec
-----------------------------------------------------------------------------
(* Only a success of discovery shortens a pause; a refusal or a failure     *)
(* leaves it or prolongs it.                                                *)
LEMMA RecordedPause ==
    ASSUME NEW b \in Breaker, NEW scope \in Scope, NEW signal \in Signal(scope),
           NEW c \in Recorded(b, scope, signal)
    PROVE  /\ c.pause >= b.pause \/ (scope = "discovery" /\ signal = "ok")
           /\ c.pause > b.pause => signal # "ok" /\ Tripped(Weighed(b, scope, signal))
<1> DEFINE w == Weighed(b, scope, signal)
<1>1. b.pause \in 0 .. MaxCooldown  BY DEF Breaker
<1>2. CASE signal = "ok"
  <2>1. c = Cleared(b, scope)  BY <1>2 DEF Recorded
  <2>2. CASE scope = "discovery"
    BY <1>1, <1>2, <2>1, <2>2, BreakerAssumption DEF Cleared, Closed
  <2>3. CASE scope # "discovery"
    <3>1. c.pause = b.pause  BY <2>1, <2>3 DEF Cleared, Breaker
    <3>2. QED  BY <1>1, <3>1, BreakerAssumption
  <2>4. QED  BY <2>2, <2>3
<1>3. CASE signal # "ok"
  <2>1. w \in Breaker /\ w.pause = b.pause  BY WeighedType
  <2>2. CASE Tripped(w)
    <3>1. PICK n \in Cooldowns(w) : c = [w EXCEPT !.pause = Greater(@, n)]
      BY <1>3, <2>2 DEF Recorded
    <3>2. c.pause = Greater(b.pause, n)  BY <2>1, <3>1 DEF Breaker
    <3>3. n \in Int  BY <2>1, CooldownsType, BreakerAssumption
    <3>4. QED  BY <1>1, <1>3, <2>2, <3>2, <3>3, GreaterType, BreakerAssumption
  <2>3. CASE ~Tripped(w)
    <3>1. c = w  BY <1>3, <2>3 DEF Recorded
    <3>2. QED  BY <1>1, <2>1, <3>1, BreakerAssumption
  <2>4. QED  BY <2>2, <2>3
<1>4. QED  BY <1>2, <1>3

(* The row of another portal or market is left alone by a report. *)
LEMMA OtherRows ==
    ASSUME TypeOK, NEW a \in Asker, NEW signal \in Signal(a[2]), Reports(a, signal)
    PROVE  /\ a[1] \in Key /\ a[2] \in Scope
           /\ breaker'[a[1]] \in Recorded(breaker[a[1]], a[2], signal)
           /\ \A k \in Key \ {a[1]} : breaker'[k] = breaker[k]
BY ScopeOfAsker DEF Reports, TypeOK

LEMMA PauseStep ==
    ASSUME TypeOK, [Next]_vars, NEW k \in Key
    PROVE  breaker'[k].pause < breaker[k].pause - 1 => <<k, "discovery">> \in asking
<1>1. breaker[k] \in Breaker /\ breaker[k].pause \in 0 .. MaxCooldown
  BY DEF TypeOK, Breaker
<1>2. CASE breaker' = breaker  BY <1>1, <1>2, BreakerAssumption
<1>3. CASE Tick
  <2>1. breaker'[k] \in Aged(breaker[k])  BY <1>3 DEF Tick
  <2>2. breaker'[k] \in Breaker /\ breaker'[k].pause >= breaker[k].pause - 1
    BY <1>1, <2>1, AgedType
  <2>3. breaker'[k].pause \in 0 .. MaxCooldown  BY <2>2 DEF Breaker
  <2>4. QED  BY <1>1, <2>2, <2>3, BreakerAssumption
<1>4. ASSUME NEW a \in Asker, NEW signal \in Signal(a[2]), Reports(a, signal)
      PROVE  breaker'[k].pause < breaker[k].pause - 1 => <<k, "discovery">> \in asking
  <2>1. CASE a[1] # k  BY <1>1, <1>4, <2>1, OtherRows, BreakerAssumption
  <2>2. CASE a[1] = k
    <3>1. breaker'[k] \in Recorded(breaker[k], a[2], signal) /\ a[2] \in Scope
      BY <1>4, <2>2, OtherRows
    <3>2. breaker'[k].pause >= breaker[k].pause \/ a[2] = "discovery"
      BY <1>1, <3>1, RecordedPause
    <3>3. breaker'[k] \in Breaker  BY <1>1, <3>1, RecordedType
    <3>4. breaker'[k].pause \in 0 .. MaxCooldown  BY <3>3 DEF Breaker
    <3>5. a = <<a[1], a[2]>> /\ a \in asking  BY <1>4 DEF Asker, Reports
    <3>6. QED  BY <1>1, <2>2, <3>2, <3>4, <3>5, BreakerAssumption
  <2>3. QED  BY <2>1, <2>2
<1>5. QED
  BY <1>2, <1>3, <1>4 DEF Next, Begin, EndsUnreported, Crash, vars

(* A pause ends before its time only while a discovery of the same portal   *)
(* and market awaits its answer: no detail capture and no other market      *)
(* lifts it.                                                                *)
THEOREM PausesAreKept == Spec => PauseIsKept
<1>1. TypeOK /\ [Next]_vars =>
        [\A k \in Key : breaker'[k].pause < breaker[k].pause - 1
                           => <<k, "discovery">> \in asking]_vars
  BY PauseStep
<1>2. QED  BY <1>1, BreakerTypeCorrect, PTL DEF Spec, PauseIsKept
-----------------------------------------------------------------------------
HTypeOK == TypeOK /\ failed \in [Key -> Score] /\ refused \in [Key -> Score]

(* The score of a row never exceeds the signals it stands for. *)
Backed == \A k \in Key : /\ breaker[k].failure <= failed[k]
                         /\ breaker[k].challenge <= refused[k]

HInv == HTypeOK /\ Backed

LEMMA CountedMonotone ==
    \A m, n \in Score : m <= n => Counted(m) <= Counted(n)
BY BreakerAssumption DEF Counted, Lesser, Score

(* What one signal does to a score and to the count of the signals. *)
LEMMA ReportBacked ==
    ASSUME NEW b \in Breaker, NEW scope \in Scope, NEW signal \in Signal(scope),
           NEW c \in Recorded(b, scope, signal),
           NEW f \in Score, NEW r \in Score, b.failure <= f, b.challenge <= r,
           NEW f1, NEW r1,
           f1 = (IF scope = "discovery" /\ signal = "ok" THEN 0
                 ELSE IF signal = "failed" THEN Counted(f) ELSE f),
           r1 = (IF signal = "ok" THEN 0
                 ELSE IF signal = "refused" THEN Counted(r) ELSE r)
    PROVE  /\ f1 \in Score /\ r1 \in Score
           /\ c.failure <= f1 /\ c.challenge <= r1
           /\ c.pause > b.pause => f1 >= FailureLimit \/ r1 >= ChallengeLimit
<1> DEFINE w == Weighed(b, scope, signal)
<1>1. /\ b.failure \in Score /\ b.challenge \in Score
      /\ 0 \in Score /\ Score \subseteq Int /\ \A s \in Score : 0 <= s
  BY BreakerAssumption DEF Breaker, Score
<1>2. f1 \in Score /\ r1 \in Score  BY <1>1, CountedType
<1>3. CASE signal = "ok"
  <2>1. c = Cleared(b, scope)  BY <1>3 DEF Recorded
  <2>2. ~ (c.pause > b.pause)  BY <1>3, RecordedPause
  <2>3. CASE scope = "discovery"
    <3>1. c.failure = 0 /\ c.challenge = 0  BY <2>1, <2>3 DEF Cleared, Closed
    <3>2. QED  BY <1>1, <1>2, <2>2, <3>1
  <2>4. CASE scope # "discovery"
    <3>1. c.failure = b.failure /\ c.challenge = 0
      BY <2>1, <2>4 DEF Cleared, Breaker
    <3>2. f1 = f /\ r1 = 0  BY <1>3, <2>4
    <3>3. QED  BY <1>1, <1>2, <2>2, <3>1, <3>2
  <2>5. QED  BY <2>3, <2>4
<1>4. CASE signal # "ok"
  <2>1. w \in Breaker  BY WeighedType
  <2>2. c.failure = w.failure /\ c.challenge = w.challenge
    BY <1>4, <2>1 DEF Recorded, Breaker
  <2>3. c.pause > b.pause => w.failure >= FailureLimit \/ w.challenge >= ChallengeLimit
    BY RecordedPause DEF Tripped
  <2>4. /\ w.failure \in Int /\ w.challenge \in Int /\ f1 \in Int /\ r1 \in Int
        /\ FailureLimit \in Int /\ ChallengeLimit \in Int
    BY <1>2, <2>1, Numbers
  <2>5. CASE signal = "failed"
    <3>1. scope = "discovery"  BY <2>5 DEF Signal
    <3>2. w.failure = Counted(b.failure) /\ w.challenge = b.challenge
      BY <2>5, <3>1 DEF Weighed, Breaker
    <3>3. f1 = Counted(f) /\ r1 = r  BY <2>5
    <3>4. w.failure <= f1 /\ w.challenge <= r1
      BY <1>1, <3>2, <3>3, CountedMonotone
    <3>5. QED  BY <3>4, <2>2, <2>3, <2>4, <1>2
  <2>6. CASE signal # "failed"
    <3>1. signal = "refused"  BY <1>4, <2>6 DEF Signal
    <3>2. w.failure = b.failure /\ w.challenge = Counted(b.challenge)
      BY <3>1 DEF Weighed, Breaker
    <3>3. f1 = f /\ r1 = Counted(r)  BY <3>1
    <3>4. w.failure <= f1 /\ w.challenge <= r1
      BY <1>1, <3>2, <3>3, CountedMonotone
    <3>5. QED  BY <3>4, <2>2, <2>3, <2>4, <1>2
  <2>7. QED  BY <2>5, <2>6
<1>5. QED  BY <1>3, <1>4

Cause == \A k \in Key : breaker'[k].pause > breaker[k].pause
                          => \/ failed'[k] >= FailureLimit
                             \/ refused'[k] >= ChallengeLimit

LEMMA HReportsStep ==
    ASSUME HInv, NEW a \in Asker, NEW signal \in Signal(a[2]), HReports(a, signal)
    PROVE  HInv' /\ Cause
<1>1. TypeOK /\ Reports(a, signal)  BY DEF HInv, HTypeOK, HReports
<1>2. TypeOK'  BY <1>1, TypeStep DEF Next
<1>3. /\ a[1] \in Key /\ a[2] \in Scope
      /\ breaker'[a[1]] \in Recorded(breaker[a[1]], a[2], signal)
      /\ \A k \in Key \ {a[1]} : breaker'[k] = breaker[k]
  BY <1>1, OtherRows
<1>4. \A k \in Key : /\ breaker[k] \in Breaker
                     /\ failed[k] \in Score /\ refused[k] \in Score
                     /\ breaker[k].failure <= failed[k]
                     /\ breaker[k].challenge <= refused[k]
  BY DEF HInv, HTypeOK, TypeOK, Backed
<1>5. \A k \in Key \ {a[1]} : failed'[k] = failed[k] /\ refused'[k] = refused[k]
  BY DEF HReports, HInv, HTypeOK
<1>6. /\ failed'[a[1]] = (IF a[2] = "discovery" /\ signal = "ok" THEN 0
                          ELSE IF signal = "failed" THEN Counted(failed[a[1]])
                               ELSE failed[a[1]])
      /\ refused'[a[1]] = (IF signal = "ok" THEN 0
                           ELSE IF signal = "refused" THEN Counted(refused[a[1]])
                                ELSE refused[a[1]])
  BY <1>3 DEF HReports, HInv, HTypeOK
<1>7. /\ failed'[a[1]] \in Score /\ refused'[a[1]] \in Score
      /\ breaker'[a[1]].failure <= failed'[a[1]]
      /\ breaker'[a[1]].challenge <= refused'[a[1]]
      /\ breaker'[a[1]].pause > breaker[a[1]].pause
           => failed'[a[1]] >= FailureLimit \/ refused'[a[1]] >= ChallengeLimit
  BY <1>3, <1>4, <1>6, ReportBacked
<1>8. /\ failed' = [failed EXCEPT ![a[1]] = failed'[a[1]]]
      /\ refused' = [refused EXCEPT ![a[1]] = refused'[a[1]]]
  BY <1>3 DEF HReports, HInv, HTypeOK
<1>9. failed' \in [Key -> Score] /\ refused' \in [Key -> Score]
  BY <1>7, <1>8 DEF HInv, HTypeOK
<1>10. Backed'  BY <1>3, <1>4, <1>5, <1>7 DEF Backed
<1>11. Cause
  <2>1. \A k \in Key : breaker[k].pause \in Int
    BY <1>4, Numbers
  <2>2. QED  BY <1>3, <1>7, <2>1 DEF Cause
<1>12. QED  BY <1>2, <1>9, <1>10, <1>11 DEF HInv, HTypeOK

LEMMA HStep == HInv /\ [HNext]_hvars => HInv' /\ (Cause \/ UNCHANGED hvars)
<1> SUFFICES ASSUME HInv, [HNext]_hvars PROVE HInv' /\ (Cause \/ UNCHANGED hvars)
  OBVIOUS
<1>1. CASE UNCHANGED hvars
  BY <1>1 DEF HInv, HTypeOK, TypeOK, Backed, hvars, vars
<1>2. CASE \E a \in Asker : \E signal \in Signal(a[2]) : HReports(a, signal)
  BY <1>2, HReportsStep
<1>3. CASE HOther
  <2>1. TypeOK /\ TypeOK'
    BY <1>3, TypeStep DEF HInv, HTypeOK, HOther, Next
  <2>2. failed' = failed /\ refused' = refused  BY <1>3 DEF HOther
  <2>3. \A k \in Key : /\ breaker[k] \in Breaker /\ breaker'[k] \in Breaker
                       /\ breaker'[k].failure <= breaker[k].failure
                       /\ breaker'[k].challenge <= breaker[k].challenge
                       /\ ~ (breaker'[k].pause > breaker[k].pause)
    <3>1. CASE Tick
      <4>1. \A k \in Key : breaker[k] \in Breaker /\ breaker'[k] \in Aged(breaker[k])
        BY <2>1, <3>1 DEF Tick, TypeOK
      <4>2. \A k \in Key : /\ breaker[k].pause \in Int
                           /\ breaker'[k].pause <= breaker[k].pause
                           /\ breaker'[k].pause \in Int
        BY <4>1, AgedType, BreakerAssumption DEF Breaker
      <4>3. QED  BY <4>1, <4>2, AgedType
    <3>2. CASE breaker' = breaker
      <4>1. \A k \in Key : /\ breaker[k] \in Breaker
                           /\ breaker[k].failure \in Int
                           /\ breaker[k].challenge \in Int
                           /\ breaker[k].pause \in Int
        BY <2>1, BreakerAssumption DEF TypeOK, Breaker, Score
      <4>2. QED  BY <3>2, <4>1
    <3>3. QED  BY <1>3, <3>1, <3>2 DEF HOther, Begin, EndsUnreported, Crash
  <2>4. Backed'
    <3>1. \A k \in Key : /\ breaker[k].failure \in Int /\ breaker'[k].failure \in Int
                         /\ breaker[k].challenge \in Int /\ breaker'[k].challenge \in Int
                         /\ failed[k] \in Int /\ refused[k] \in Int
      BY <2>3, BreakerAssumption DEF HInv, HTypeOK, Breaker, Score
    <3>2. QED  BY <2>2, <2>3, <3>1 DEF HInv, Backed
  <2>5. QED  BY <2>1, <2>2, <2>3, <2>4 DEF HInv, HTypeOK, Cause
<1>4. QED  BY <1>1, <1>2, <1>3 DEF HNext

(* A pause begins, or is prolonged, only on enough failed discoveries or    *)
(* enough refused requests of that portal in that market with no success    *)
(* between them that contradicts them, for any limits and any decay.        *)
THEOREM PausesHaveCause == HSpec => PausedForCause
<1>1. HInit => HInv
  <2>1. 0 \in Score  BY BreakerAssumption DEF Score
  <2>2. QED  BY <2>1, ClosedType DEF HInit, Init, HInv, HTypeOK, TypeOK, Backed, Closed
<1>2. HInv /\ [HNext]_hvars => HInv' /\ [Cause]_hvars  BY HStep
<1>3. QED  BY <1>1, <1>2, PTL DEF HSpec, PausedForCause, Cause
-----------------------------------------------------------------------------
(* Only a walk that read its first page has seen an unchanged one.          *)
WalkInv == /\ walk.page >= 0
           /\ walk.page = 0 => walk = NoWalk
           /\ walk.page <= 1 => walk.unchanged = 0

DInv == DTypeOK /\ WalkInv

LEMMA FirstPages == /\ FirstPage \in [page : 0 .. MaxPages, unchanged : 0 .. 1]
                    /\ NoWalk \in [page : 0 .. MaxPages, unchanged : 0 .. 1]
                    /\ FirstPage.page = 1 /\ FirstPage.unchanged = 0
                    /\ NoWalk.page = 0 /\ NoWalk.unchanged = 0
                    /\ FirstPage # NoWalk
BY DiscoveryAssumption DEF FirstPage, NoWalk

LEMMA DiscovererAsks == Discoverer \in Asker
BY DiscoveryAssumption DEF Discoverer, Asker, Scope
-----------------------------------------------------------------------------
(* What a step does to the breaker is a step of the breaker.                *)
LEMMA FinishesReports ==
    ASSUME NEW signal \in {"ok", "failed", "refused"}, Finishes(signal)
    PROVE  HNext /\ HReports(Discoverer, signal)
<1>1. Discoverer[2] = "discovery"  BY DEF Discoverer
<1>2. signal \in Signal(Discoverer[2])  BY <1>1 DEF Signal
<1>3. QED  BY <1>2, DiscovererAsks DEF Finishes, HNext

LEMMA BreakerSteps == [DNext]_dvars => [HNext]_hvars
<1> SUFFICES ASSUME [DNext]_dvars PROVE [HNext]_hvars
  OBVIOUS
<1>1. CASE UNCHANGED dvars  BY <1>1 DEF dvars
<1>2. CASE Begins  BY <1>2 DEF Begins, HNext, HOther
<1>3. CASE ReadsNoCards  BY <1>3, FinishesReports DEF ReadsNoCards
<1>4. CASE ReadsCards  BY <1>4, FinishesReports DEF ReadsCards
<1>5. CASE PageFails  BY <1>5, FinishesReports DEF PageFails
<1>6. CASE OthersReport  BY <1>6 DEF OthersReport, HNext, HOther
<1>7. CASE DTick  BY <1>7 DEF DTick, HNext, HOther
<1>8. CASE DCrash  BY <1>8 DEF DCrash, HNext, HOther
<1>9. CASE Publishes \/ \E a \in online : TakesDown(a) \/ Edits(a)
  BY <1>9 DEF Publishes, TakesDown, Edits
<1>10. QED
  BY <1>1, <1>2, <1>3, <1>4, <1>5, <1>6, <1>7, <1>8, <1>9 DEF DNext

(* A discovery that walks through pages uses the breaker as the breaker     *)
(* expects: it asks before each search and reports once for each.           *)
THEOREM DiscoveryUsesBreaker == DSpec => HSpec
<1>1. DInit => HInit  BY DEF DInit
<1>2. QED  BY <1>1, BreakerSteps, PTL DEF DSpec, HSpec

(* Beside discoveries that walk, fail and crash, a pause begins only on     *)
(* enough evidence that no success contradicts.                             *)
THEOREM DiscoveryPausesForCause == DSpec => PausedForCause
BY DiscoveryUsesBreaker, PausesHaveCause, PTL

(* Nothing but the answer to a discovery ends a pause before its time.      *)
THEOREM DiscoveryKeepsPauses == DSpec => PauseIsKept
<1>1. HInit => Init  BY DEF HInit
<1>2. [HNext]_hvars => [Next]_vars
  BY DEF HNext, HOther, HReports, Next, hvars
<1>3. HSpec => Spec  BY <1>1, <1>2, PTL DEF HSpec, Spec
<1>4. QED  BY <1>3, DiscoveryUsesBreaker, PausesAreKept, PTL
-----------------------------------------------------------------------------
(* The discovery awaits a page exactly while it asks.                       *)
LEMMA FinishesWalk ==
    ASSUME DInv, NEW signal \in {"ok", "failed", "refused"}, Finishes(signal)
    PROVE  /\ walk' \in [page : 0 .. MaxPages, unchanged : 0 .. 1]
           /\ WalkInv'
           /\ walk' # NoWalk <=> Discoverer \in asking'
BY FirstPages DEF Finishes, WalkInv

LEMMA TypeKept ==
    ASSUME DInv, [DNext]_dvars
    PROVE  TypeOK'
BY BreakerSteps, TypeStep DEF DInv, DTypeOK, HNext, HOther, HReports, Next, hvars

LEMMA CardsAreFew ==
    ASSUME DInv, NEW dropped \in SUBSET Cards(walk.page)
    PROVE  Cardinality(dropped) \in Nat
<1>1. IsFiniteSet(1 .. published)
  BY FS_Interval DEF DInv, DTypeOK
<1>2. dropped \subseteq 1 .. published
  BY DEF DInv, DTypeOK, Cards
<1>3. QED  BY <1>1, <1>2, FS_Subset, FS_CardinalityType

(* A page that does not end the walk leads to the next one.                 *)
LEMMA GoesOn ==
    ASSUME DInv, walk # NoWalk, NEW unchanged \in {0, walk.unchanged + 1},
           ~Ends(walk.page, unchanged),
           walk' = [page |-> walk.page + 1, unchanged |-> unchanged]
    PROVE  /\ walk' \in [page : 0 .. MaxPages, unchanged : 0 .. 1]
           /\ WalkInv'
           /\ walk' # NoWalk
<1>1. walk.page \in 1 .. MaxPages /\ walk.unchanged \in 0 .. 1
  BY DiscoveryAssumption DEF DInv, DTypeOK, WalkInv
<1>2. walk.page # MaxPages /\ (walk.page > 1 => unchanged < 2)
  BY <1>1 DEF Ends
<1>3. walk.page = 1 => unchanged \in 0 .. 1
  BY DEF DInv, WalkInv
<1>4. walk'.page \in 2 .. MaxPages /\ walk'.unchanged \in 0 .. 1
  BY <1>1, <1>2, <1>3, DiscoveryAssumption
<1>5. QED  BY <1>4, FirstPages, DiscoveryAssumption DEF WalkInv

LEMMA DStep == DInv /\ [DNext]_dvars => DInv'
<1> SUFFICES ASSUME DInv, [DNext]_dvars PROVE DInv'
  OBVIOUS
<1>0. TypeOK'  BY TypeKept
<1> USE DEF DInv, DTypeOK
<1>1. CASE UNCHANGED dvars
  BY <1>0, <1>1 DEF dvars, search, hvars, vars, WalkInv
<1>2. CASE Begins
  BY <1>0, <1>2, FirstPages DEF Begins, Begin, search, WalkInv
<1>3. CASE ReadsNoCards
  BY <1>0, <1>3, FinishesWalk DEF ReadsNoCards, search
<1>4. CASE ReadsCards
  <2>1. PICK dropped \in SUBSET Cards(walk.page) :
          LET recorded  == Cards(walk.page) \ dropped
              unchanged == IF recorded \subseteq queued THEN walk.unchanged + 1 ELSE 0
          IN /\ faults' = faults + Cardinality(dropped) /\ faults' <= MaxFaults
             /\ queued' = queued \cup recorded
             /\ IF Ends(walk.page, unchanged)
                THEN Finishes("ok")
                ELSE walk' = [page |-> walk.page + 1, unchanged |-> unchanged] /\ UNCHANGED hvars
    BY <1>4 DEF ReadsCards
  <2> DEFINE recorded  == Cards(walk.page) \ dropped
             unchanged == IF recorded \subseteq queued THEN walk.unchanged + 1 ELSE 0
  <2>2. walk # NoWalk /\ published' = published /\ online' = online
    BY <1>4 DEF ReadsCards
  <2>3. faults' \in 0 .. MaxFaults
    BY <2>1, CardsAreFew, DiscoveryAssumption
  <2>4. queued' \subseteq online
    BY <2>1 DEF Cards
  <2>5. CASE Ends(walk.page, unchanged)
    <3>1. Finishes("ok")  BY <2>1, <2>5
    <3>2. QED  BY <1>0, <2>2, <2>3, <2>4, <3>1, FinishesWalk
  <2>6. CASE ~Ends(walk.page, unchanged)
    <3>1. /\ walk' = [page |-> walk.page + 1, unchanged |-> unchanged]
          /\ asking' = asking
      BY <2>1, <2>6 DEF hvars, vars
    <3>2. unchanged \in {0, walk.unchanged + 1}  OBVIOUS
    <3>3. /\ walk' \in [page : 0 .. MaxPages, unchanged : 0 .. 1]
          /\ WalkInv' /\ walk' # NoWalk
      BY <2>2, <2>6, <3>1, <3>2, GoesOn
    <3>4. QED  BY <1>0, <2>2, <2>3, <2>4, <3>1, <3>3
  <2>7. QED  BY <2>5, <2>6
<1>5. CASE PageFails
  BY <1>0, <1>5, FinishesWalk DEF PageFails, search
<1>6. CASE OthersReport
  <2>1. Discoverer \in asking' <=> Discoverer \in asking
    BY <1>6 DEF OthersReport, HReports, Reports, EndsUnreported
  <2>2. QED  BY <1>0, <1>6, <2>1 DEF OthersReport, search, WalkInv
<1>7. CASE DTick
  BY <1>0, <1>7 DEF DTick, Tick, search, WalkInv
<1>8. CASE DCrash
  BY <1>0, <1>8, FirstPages DEF DCrash, Crash, search, WalkInv
<1>9. CASE Publishes
  <2>1. /\ published' = published + 1 /\ published < MaxAdverts
        /\ online' = online \cup {published'}
        /\ asking' = asking /\ queued' = queued /\ walk' = walk /\ faults' = faults
    BY <1>9 DEF Publishes, hvars, vars
  <2>2. published \in 0 .. MaxAdverts /\ MaxAdverts \in Nat
    BY DiscoveryAssumption
  <2>3. published' \in 0 .. MaxAdverts  BY <2>1, <2>2
  <2>4. 1 .. published \subseteq 1 .. published' /\ published' \in 1 .. published'
    BY <2>1, <2>2
  <2>5. online' \subseteq 1 .. published'  BY <2>1, <2>4
  <2>6. queued' \subseteq online'  BY <2>1
  <2>7. /\ walk' \in [page : 0 .. MaxPages, unchanged : 0 .. 1]
        /\ walk' # NoWalk <=> Discoverer \in asking'
        /\ faults' \in 0 .. MaxFaults
        /\ WalkInv'
    BY <2>1 DEF WalkInv
  <2>8. QED  BY <1>0, <2>3, <2>5, <2>6, <2>7
<1>10. ASSUME NEW a \in online, TakesDown(a) \/ Edits(a) PROVE DInv'
  <2>1. /\ published' = published /\ asking' = asking /\ walk' = walk
        /\ \/ online' = online \ {a} /\ faults' = faults
           \/ online' = online /\ faults < MaxFaults /\ faults' = faults + 1
        /\ queued' = queued \ {a}
    BY <1>10 DEF TakesDown, Edits, hvars, vars
  <2>2. online' \subseteq 1 .. published' /\ queued' \subseteq online'
    BY <2>1
  <2>3. faults' \in 0 .. MaxFaults  BY <2>1, DiscoveryAssumption
  <2>4. /\ walk' \in [page : 0 .. MaxPages, unchanged : 0 .. 1]
        /\ walk' # NoWalk <=> Discoverer \in asking'
        /\ published' \in 0 .. MaxAdverts
        /\ WalkInv'
    BY <2>1 DEF WalkInv
  <2>5. QED  BY <1>0, <2>2, <2>3, <2>4
<1>11. QED
  BY <1>1, <1>2, <1>3, <1>4, <1>5, <1>6, <1>7, <1>8, <1>9, <1>10 DEF DNext

(* The walk stays within maxPages, what is queued is in the results, and a  *)
(* page is awaited exactly while the discovery asks its portal.             *)
THEOREM DiscoveryTypeCorrect == DSpec => []DTypeOK
<1>1. DInit => DInv
  BY FirstPages, ClosedType, DiscoveryAssumption
  DEF DInit, HInit, Init, DInv, DTypeOK, TypeOK, WalkInv
<1>2. DInv => DTypeOK  BY DEF DInv
<1>3. QED  BY <1>1, <1>2, DStep, PTL DEF DSpec
=============================================================================
