------------------------------- MODULE RunProofs -------------------------------
(***************************************************************************)
(* The discovery runs: the scheduler that starts them and the browser that  *)
(* they share with the detail captures.                                     *)
(*                                                                         *)
(* The scheduler, for any jobs, portals and limits: by induction over the   *)
(* pairs that a round goes through, the lanes it leaves are what ran before *)
(* and what it started; a run that ended in a window is no older than the   *)
(* window; and the lanes keep to the circuit breaker.                       *)
(*                                                                         *)
(* The lock of the browser, for any number of callers: its types, mutual    *)
(* exclusion, and that it implements the abstract Mutex.  All three follow  *)
(* from the shape of the chain: the resolved links are a prefix of it, and  *)
(* a caller past its wait has everything before its own link resolved.      *)
(*                                                                         *)
(* The session: it uses the lock as the lock's specification says, and so   *)
(* one caller at a time is past its wait.  That caller alone launches,      *)
(* forgets and closes, so there is one browser, and its operation's.        *)
(***************************************************************************)
EXTENDS Scheduler, BrowserSession, FiniteSetTheorems, SequenceTheorems,
        WellFoundedInduction, TLAPS

(**************************** The scheduler ****************************)

(* Induction over the natural numbers, for sets. *)
LEMMA LeastNatural ==
    ASSUME NEW T, T \subseteq Nat, T # {}
    PROVE  \E m \in T : \A k \in T : m <= k
<1> DEFINE R == OpToRel(<, Nat)
<1>1. IsWellFoundedOn(R, Nat)
  BY NatLessThanWellFounded
<1>2. \A x, y \in Nat : x < y => <<x, y>> \in R
  BY DEF OpToRel
<1> HIDE DEF R
<1>3. PICK m \in T : \A k \in T : ~(<<k, m>> \in R)
  BY <1>1, WFMin
<1>4. ASSUME NEW k \in T PROVE m <= k
  <2>1. k \in Nat /\ m \in Nat /\ ~(k < m)
    BY <1>2, <1>3
  <2> QED
    BY <2>1
<1> QED
  BY <1>4

LEMMA SetInduction ==
    ASSUME NEW n \in Nat, NEW S, 0 \in S, \A i \in 0 .. n - 1 : i \in S => i + 1 \in S
    PROVE  0 .. n \subseteq S
<1> SUFFICES ASSUME ~(0 .. n \subseteq S) PROVE FALSE
  OBVIOUS
<1> DEFINE T == 0 .. n \ S
<1>1. T # {} /\ T \subseteq Nat
  OBVIOUS
<1>2. PICK m \in T : \A k \in T : m <= k
  BY <1>1, LeastNatural
<1>3. m \in 0 .. n /\ m # 0 /\ m - 1 \in 0 .. n - 1 /\ m - 1 \in 0 .. n /\ (m - 1) + 1 = m
  OBVIOUS
<1>4. m - 1 \in S
  BY <1>2, <1>3
<1> QED
  BY <1>3, <1>4

LEMMA DivMod ==
    ASSUME NEW x \in Int, NEW n \in Nat \ {0}
    PROVE  /\ x \div n \in Int /\ x % n \in 0 .. n - 1
           /\ x = n * (x \div n) + (x % n)
OBVIOUS

LEMMA Remainder ==
    ASSUME NEW n \in Nat \ {0}, NEW q \in Int, NEW r \in 0 .. n - 1, NEW x \in Int,
           x = n * q + r
    PROVE  x % n = r
OBVIOUS

LEMMA NextRemainder ==
    ASSUME NEW x \in Int, NEW n \in Nat \ {0}
    PROVE  (x + 1) % n = IF x % n = n - 1 THEN 0 ELSE (x % n) + 1
<1> DEFINE q == x \div n
           r == x % n
<1>1. q \in Int /\ r \in 0 .. n - 1 /\ x = n * q + r
  BY DivMod
<1> HIDE DEF q, r
<1>2. CASE r = n - 1
  <2>1. x + 1 = n * (q + 1) + 0
    BY <1>1, <1>2
  <2>2. 0 \in 0 .. n - 1 /\ q + 1 \in Int /\ x + 1 \in Int
    BY <1>1
  <2>3. (x + 1) % n = 0
    BY <2>1, <2>2, Remainder
  <2> QED
    BY <1>2, <2>3 DEF r
<1>3. CASE r # n - 1
  <2>1. x + 1 = n * q + (r + 1) /\ r + 1 \in 0 .. n - 1 /\ x + 1 \in Int
    BY <1>1, <1>3
  <2>2. (x + 1) % n = r + 1
    BY <1>1, <2>1, Remainder
  <2> QED
    BY <1>3, <2>2 DEF r
<1> QED
  BY <1>2, <1>3

(* A whole number of periods later. *)
LEMMA PeriodLater ==
    ASSUME NEW x \in Int, NEW n \in Nat \ {0}, NEW d \in Int, d % n = 0
    PROVE  (x + d) % n = x % n
<1> DEFINE q == x \div n
           r == x % n
           e == d \div n
<1>1. q \in Int /\ r \in 0 .. n - 1 /\ x = n * q + r
  BY DivMod
<1>2. e \in Int /\ d = n * e + 0
  BY DivMod
<1> HIDE DEF q, r, e
<1>3. x + d = n * (q + e) + r
  BY <1>1, <1>2
<1>4. q + e \in Int /\ x + d \in Int
  BY <1>1, <1>2
<1>5. (x + d) % n = r
  BY <1>1, <1>3, <1>4, Remainder
<1> QED
  BY <1>5 DEF r
-----------------------------------------------------------------------------
LEMMA PairsAreFinite == IsFiniteSet(Pair) /\ \A S \in SUBSET Pair : IsFiniteSet(S)
<1>1. Len(Order) \in Nat /\ Order \in [1 .. Len(Order) -> Pair]
  BY OrderAssumption, LenProperties
<1>2. IsFiniteSet(1 .. Len(Order))
  BY <1>1, FS_Interval
<1>3. IsFiniteSet(Pair)
  <2>1. Order \in Surjection(1 .. Len(Order), Pair)
    BY <1>1 DEF Surjection, Pair
  <2> QED
    BY <1>2, <2>1, FS_Surjection
<1> QED
  BY <1>3, FS_Subset

LEMMA RoundIsDefined ==
    Round = [i \in 0 .. Len(Order) |->
               IF i = 0 THEN Free ELSE Attempt(Round[i - 1], Order[i])]
<1> DEFINE Body(g, n) == [i \in 0 .. n |-> IF i = 0 THEN Free ELSE Attempt(g[i - 1], Order[i])]
           S == {n \in Nat : \E g : g = Body(g, n)}
<1>1. 0 \in S
  <2> DEFINE g == [i \in 0 .. 0 |-> Free]
  <2>1. g = Body(g, 0)
    OBVIOUS
  <2> QED
    BY <2>1
<1>2. ASSUME NEW n \in Nat, n \in S
      PROVE  n + 1 \in S
  <2>1. PICK g : g = Body(g, n)
    BY <1>2
  <2> DEFINE h == [i \in 0 .. n + 1 |-> IF i = n + 1 THEN Attempt(g[n], Order[n + 1]) ELSE g[i]]
  <2>2. \A i \in 0 .. n : h[i] = g[i]
    OBVIOUS
  <2>3. \A i \in 0 .. n + 1 : h[i] = IF i = 0 THEN Free ELSE Attempt(h[i - 1], Order[i])
    <3> SUFFICES ASSUME NEW i \in 0 .. n + 1
                 PROVE  h[i] = IF i = 0 THEN Free ELSE Attempt(h[i - 1], Order[i])
      OBVIOUS
    <3>1. CASE i = n + 1
      <4>1. h[i] = Attempt(g[n], Order[i]) /\ i # 0 /\ i - 1 = n /\ n \in 0 .. n
        BY <3>1
      <4>2. h[n] = g[n]
        BY <2>2, <4>1
      <4> HIDE DEF h
      <4> QED
        BY <4>1, <4>2
    <3>2. CASE i # n + 1
      <4>1. i \in 0 .. n /\ (i # 0 => i - 1 \in 0 .. n)
        BY <3>2
      <4>2. g[i] = IF i = 0 THEN Free ELSE Attempt(g[i - 1], Order[i])
        BY <2>1, <4>1
      <4>3. h[i] = g[i] /\ (i # 0 => h[i - 1] = g[i - 1])
        BY <2>2, <4>1
      <4> HIDE DEF h
      <4> QED
        BY <4>2, <4>3
    <3> QED
      BY <3>1, <3>2
  <2>4. h = Body(h, n + 1)
    <3>1. DOMAIN h = 0 .. n + 1 /\ h = [i \in 0 .. n + 1 |-> h[i]]
      OBVIOUS
    <3> HIDE DEF h
    <3>2. DOMAIN Body(h, n + 1) = 0 .. n + 1
      OBVIOUS
    <3>3. \A i \in 0 .. n + 1 : Body(h, n + 1)[i] = h[i]
      BY <2>3
    <3>4. Body(h, n + 1) = [i \in 0 .. n + 1 |-> Body(h, n + 1)[i]]
      OBVIOUS
    <3> HIDE DEF Body
    <3> QED
      BY <3>1, <3>3, <3>4, Zenon
  <2> HIDE DEF h, Body
  <2>5. \E f : f = Body(f, n + 1)
    BY <2>4
  <2> QED
    BY <2>5
<1>3. Len(Order) \in Nat
  BY OrderAssumption, LenProperties
<1> HIDE DEF S
<1>4. Len(Order) \in S
  <2>1. \A i \in 0 .. Len(Order) - 1 : i \in S => i + 1 \in S
    BY <1>2, <1>3
  <2>2. 0 .. Len(Order) \subseteq S
    BY <1>1, <1>3, <2>1, SetInduction
  <2> QED
    BY <1>3, <2>2
<1>5. PICK g : g = Body(g, Len(Order))
  BY <1>4 DEF S
<1> QED
  BY <1>5 DEF Round
-----------------------------------------------------------------------------
(* The round: whatever it has gone through, the lanes are what ran before   *)
(* and what it started.                                                     *)
Lane == [inFlight : 0 .. Lanes, busy : SUBSET Portal, rest : [Portal -> 0 .. Gap],
         started : SUBSET Pair]

StartedRightly(l) ==
    /\ \A p \in l.started : run[p] = 0 /\ Due(p) /\ p[2] \notin busyProviders
    /\ \A p, q \in l.started : p[2] = q[2] => p = q

LaneInv(l) ==
    /\ l \in Lane
    /\ l.inFlight = inFlight + Cardinality(l.started)
    /\ l.busy = busyProviders \cup {p[2] : p \in l.started}
    /\ StartedRightly(l)

LEMMA AttemptKeeps ==
    ASSUME STypeOK, NEW l, LaneInv(l), NEW p \in Pair
    PROVE  LaneInv(Attempt(l, p))
<1>1. CASE ~(Due(p) /\ InHours(p) /\ run[p] = 0 /\ FindsLane(l, p))
  BY <1>1 DEF Attempt
<1>2. CASE Due(p) /\ InHours(p) /\ run[p] = 0 /\ FindsLane(l, p)
  <2> DEFINE m == [inFlight |-> l.inFlight + 1, busy |-> l.busy \cup {p[2]},
                   rest |-> [l.rest EXCEPT ![p[2]] = Gap], started |-> l.started \cup {p}]
  <2>1. Attempt(l, p) = m
    BY <1>2 DEF Attempt
  <2>2. /\ l.inFlight \in 0 .. Lanes /\ l.busy \subseteq Portal
        /\ l.rest \in [Portal -> 0 .. Gap] /\ l.started \subseteq Pair
    BY DEF LaneInv, Lane
  <2>3. p[2] \notin l.busy /\ l.inFlight < Lanes /\ p[2] \in Portal
    BY <1>2 DEF FindsLane, Portal
  <2>4. p \notin l.started /\ p[2] \notin busyProviders /\ \A q \in l.started : q[2] # p[2]
    BY <2>3 DEF LaneInv
  <2>5. Gap \in 0 .. Gap /\ Lanes \in Nat
    BY SchedulerAssumption
  <2>6. l.inFlight + 1 \in 0 .. Lanes
    BY <2>2, <2>3, <2>5
  <2>7. [l.rest EXCEPT ![p[2]] = Gap] \in [Portal -> 0 .. Gap]
    BY <2>2, <2>3, <2>5
  <2>8. m \in Lane
    BY <2>2, <2>3, <2>6, <2>7 DEF Lane
  <2>9. IsFiniteSet(l.started)
    BY <2>2, PairsAreFinite
  <2>10. /\ Cardinality(l.started) \in Nat
         /\ Cardinality(l.started \cup {p}) = Cardinality(l.started) + 1
    BY <2>4, <2>9, FS_CardinalityType, FS_AddElement
  <2>11. m.inFlight = inFlight + Cardinality(m.started)
    BY <2>10 DEF LaneInv, STypeOK
  <2>12. m.busy = busyProviders \cup {q[2] : q \in m.started}
    BY DEF LaneInv
  <2>13. StartedRightly(m)
    BY <1>2, <2>4 DEF LaneInv, StartedRightly
  <2> HIDE DEF m
  <2> QED
    BY <2>1, <2>8, <2>11, <2>12, <2>13 DEF LaneInv
<1> QED
  BY <1>1, <1>2

LEMMA FreeKeeps == ASSUME STypeOK PROVE LaneInv(Free)
<1>1. Free \in Lane
  BY DEF STypeOK, Free, Lane
<1>2. Cardinality({}) = 0
  BY FS_EmptySet
<1> QED
  BY <1>1, <1>2 DEF Free, LaneInv, StartedRightly, STypeOK

LEMMA RoundKeeps == ASSUME STypeOK PROVE LaneInv(Round[Len(Order)])
<1> DEFINE n == Len(Order)
           S == {i \in 0 .. n : LaneInv(Round[i])}
<1>1. n \in Nat /\ \A i \in 1 .. n : Order[i] \in Pair
  BY OrderAssumption, LenProperties DEF Pair
<1> HIDE DEF n
<1>2. \A i \in 0 .. n : Round[i] = IF i = 0 THEN Free ELSE Attempt(Round[i - 1], Order[i])
  BY RoundIsDefined DEF n
<1>3. 0 \in S
  BY <1>1, <1>2, FreeKeeps
<1>4. ASSUME NEW i \in 0 .. n - 1, i \in S
      PROVE  i + 1 \in S
  <2>1. i + 1 \in 1 .. n /\ i + 1 \in 0 .. n /\ i + 1 # 0 /\ (i + 1) - 1 = i
    BY <1>1
  <2>2. Round[i + 1] = Attempt(Round[i], Order[i + 1])
    BY <1>2, <2>1
  <2>3. LaneInv(Round[i]) /\ Order[i + 1] \in Pair
    BY <1>1, <1>4, <2>1
  <2>4. LaneInv(Round[i + 1])
    BY <2>2, <2>3, AttemptKeeps
  <2> QED
    BY <2>1, <2>4
<1> HIDE DEF S
<1>5. 0 .. n \subseteq S
  BY <1>1, <1>3, <1>4, SetInduction
<1>6. n \in S
  BY <1>1, <1>5
<1> QED
  BY <1>6 DEF S, n
-----------------------------------------------------------------------------
(* The rows of the breaker, as the scheduler's constants make them. *)
LEMMA RowsRecorded ==
    ASSUME NEW b \in Breaker!Breaker, NEW scope \in Breaker!Scope,
           NEW signal \in Breaker!Signal(scope)
    PROVE  Breaker!Recorded(b, scope, signal) \subseteq Breaker!Breaker
<1>1. /\ MaxScore \in Nat /\ MaxCooldown \in Nat /\ Cooldown \in Nat
      /\ 0 \in 0 .. MaxScore /\ 0 \in 0 .. MaxCooldown
  BY LimitsAssumption
<1>2. b.failure \in 0 .. MaxScore /\ b.challenge \in 0 .. MaxScore /\ b.pause \in 0 .. MaxCooldown
  BY DEF Breaker!Breaker, Breaker!Score
<1>3. CASE signal = "ok"
  <2>1. Breaker!Cleared(b, scope) \in Breaker!Breaker
    BY <1>1 DEF Breaker!Cleared, Breaker!Closed, Breaker!Breaker, Breaker!Score
  <2> QED
    BY <1>3, <2>1 DEF Breaker!Recorded
<1>4. CASE signal # "ok"
  <2> DEFINE w == Breaker!Weighed(b, scope, signal)
  <2>1. \A n \in 0 .. MaxScore : Breaker!Counted(n) \in 0 .. MaxScore
    BY <1>1 DEF Breaker!Counted, Breaker!Lesser
  <2>2. w \in Breaker!Breaker
    BY <1>2, <2>1 DEF Breaker!Weighed, Breaker!Breaker, Breaker!Score
  <2>3. Breaker!Cooldowns(w) \subseteq 0 .. MaxCooldown
    <3>1. Cooldown \in 0 .. MaxCooldown /\ Cooldown .. MaxCooldown \subseteq 0 .. MaxCooldown
      BY LimitsAssumption
    <3> QED
      BY <3>1 DEF Breaker!Cooldowns
  <2>4. w.pause \in 0 .. MaxCooldown
    BY <2>2 DEF Breaker!Breaker
  <2> HIDE DEF w
  <2>5. \A c \in 0 .. MaxCooldown : Breaker!Greater(w.pause, c) \in 0 .. MaxCooldown
    BY <2>4 DEF Breaker!Greater
  <2>6. \A n \in 0 .. MaxCooldown : [w EXCEPT !.pause = n] \in Breaker!Breaker
    BY <2>2 DEF Breaker!Breaker
  <2>7. Breaker!Recorded(b, scope, signal) \subseteq
          {w} \cup {[w EXCEPT !.pause = Breaker!Greater(w.pause, c)] : c \in Breaker!Cooldowns(w)}
    BY <1>4 DEF Breaker!Recorded, w
  <2> QED
    BY <2>2, <2>3, <2>5, <2>6, <2>7
<1> QED
  BY <1>3, <1>4

LEMMA RowsAged ==
    ASSUME NEW b \in Breaker!Breaker
    PROVE  Breaker!Aged(b) \subseteq Breaker!Breaker
<1>1. b.failure \in 0 .. MaxScore /\ b.challenge \in 0 .. MaxScore /\ b.pause \in 0 .. MaxCooldown
  BY DEF Breaker!Breaker, Breaker!Score
<1>2. \A n \in 0 .. MaxScore : Breaker!Remains(n) \subseteq 0 .. MaxScore
  BY LimitsAssumption DEF Breaker!Remains
<1>3. Breaker!Greater(b.pause - 1, 0) \in 0 .. MaxCooldown
  BY <1>1, LimitsAssumption DEF Breaker!Greater
<1> QED
  BY <1>1, <1>2, <1>3 DEF Breaker!Aged, Breaker!Breaker, Breaker!Score

LEMMA RecordsRows ==
    ASSUME STypeOK, NEW k \in Key, NEW scope \in Breaker!Scope,
           NEW signal \in Breaker!Signal(scope), Records(k, scope, signal)
    PROVE  breaker' \in [Key -> Breaker!Breaker] /\ trouble' \in 0 .. MaxTrouble
<1>1. breaker[k] \in Breaker!Breaker
  BY DEF STypeOK
<1>2. PICK b \in Breaker!Recorded(breaker[k], scope, signal) : breaker' = [breaker EXCEPT ![k] = b]
  BY DEF Records
<1>3. b \in Breaker!Breaker
  BY <1>1, <1>2, RowsRecorded
<1>4. breaker' \in [Key -> Breaker!Breaker]
  BY <1>2, <1>3 DEF STypeOK
<1>5. MaxTrouble \in Nat /\ trouble \in 0 .. MaxTrouble
  BY SchedulerAssumption DEF STypeOK
<1>6. trouble < MaxTrouble => trouble + 1 \in 0 .. MaxTrouble
  BY <1>5
<1>7. trouble' \in 0 .. MaxTrouble
  BY <1>5, <1>6 DEF Records
<1> QED
  BY <1>4, <1>7
-----------------------------------------------------------------------------
(* The windows. *)
LEMMA WindowAges ==
    ASSUME NEW p \in Pair, NEW t \in Int
    PROVE  WindowAge(p, t) \in 0 .. Interval - 1
<1>1. Interval \in Nat \ {0} /\ Offset[p] \in 0 .. Interval - 1
  BY SchedulerAssumption
<1>2. t + Interval - Offset[p] \in Int
  BY <1>1
<1> QED
  BY <1>1, <1>2, DivMod DEF WindowAge

LEMMA WindowsPass ==
    ASSUME NEW p \in Pair, NEW t \in 0 .. Day - 1
    PROVE  /\ (t + 1) % Day \in 0 .. Day - 1
           /\ WindowAge(p, (t + 1) % Day) = IF WindowAge(p, t) = Interval - 1 THEN 0
                                            ELSE WindowAge(p, t) + 1
<1> DEFINE x == t + Interval - Offset[p]
<1>1. /\ Interval \in Nat \ {0} /\ Offset[p] \in 0 .. Interval - 1
      /\ Day \in Nat \ {0} /\ Day % Interval = 0
  BY SchedulerAssumption
<1>2. x \in Int /\ x + 1 \in Int
  BY <1>1
<1>3. WindowAge(p, t) = x % Interval
  BY DEF WindowAge
<1>4. (x + 1) % Interval = IF x % Interval = Interval - 1 THEN 0 ELSE (x % Interval) + 1
  BY <1>1, <1>2, NextRemainder
<1>5. /\ (t + 1) % Day \in 0 .. Day - 1
      /\ WindowAge(p, (t + 1) % Day) = (x + 1) % Interval
  <2>1. CASE t = Day - 1
    <3>1. (t + 1) % Day = 0
      <4>1. t + 1 = Day * 1 + 0 /\ 0 \in 0 .. Day - 1 /\ t + 1 \in Int
        BY <1>1, <2>1
      <4> QED
        BY <1>1, <4>1, Remainder
    <3> DEFINE y == 0 + Interval - Offset[p]
    <3>2. y \in Int /\ y + Day = x + 1
      BY <1>1, <2>1
    <3> HIDE DEF x, y
    <3>3. (y + Day) % Interval = y % Interval
      <4>1. Day \in Int /\ Day % Interval = 0 /\ Interval \in Nat \ {0} /\ y \in Int
        BY <1>1, <3>2
      <4> QED
        BY <4>1, PeriodLater, Zenon
    <3>4. WindowAge(p, 0) = y % Interval
      BY DEF WindowAge, y
    <3>5. 0 \in 0 .. Day - 1
      BY <1>1
    <3> QED
      BY <3>1, <3>2, <3>3, <3>4, <3>5
  <2>2. CASE t # Day - 1
    <3>1. t + 1 \in 0 .. Day - 1 /\ t + 1 = Day * 0 + (t + 1) /\ t + 1 \in Int
      BY <1>1, <2>2
    <3>2. (t + 1) % Day = t + 1
      BY <1>1, <3>1, Remainder
    <3>3. (t + 1) + Interval - Offset[p] = x + 1
      BY <1>1
    <3> QED
      BY <3>1, <3>2, <3>3 DEF WindowAge
  <2> QED
    BY <2>1, <2>2
<1> QED
  BY <1>3, <1>4, <1>5
-----------------------------------------------------------------------------
(* A run that ended in this window is no older than the window. *)
EndedIsRecent == \A p \in ended : age[p] <= WindowAge(p, clock)

SInv == STypeOK /\ LanesAgree /\ EndedIsRecent

LEMMA SInvInit == SInit => SInv
<1> SUFFICES ASSUME SInit PROVE SInv
  OBVIOUS
<1>1. /\ 0 \in 0 .. Day - 1 /\ Interval \in 0 .. Interval /\ 0 \in 0 .. Deadline
      /\ 0 \in 0 .. Lanes /\ 0 \in 0 .. Gap /\ 0 \in 0 .. MaxTrouble /\ 0 \in 0 .. MaxCrashes
  BY SchedulerAssumption
<1>2. Breaker!Closed \in Breaker!Breaker
  BY LimitsAssumption DEF Breaker!Closed, Breaker!Breaker, Breaker!Score
<1>3. \A p \in Pair : 0 <= Searches[p]
  BY SchedulerAssumption
<1>4. STypeOK
  BY <1>1, <1>2, <1>3 DEF SInit, STypeOK
<1>5. Running = {} /\ Cardinality({}) = 0
  BY FS_EmptySet DEF SInit, Running
<1>6. LanesAgree
  BY <1>5 DEF SInit, LanesAgree
<1> QED
  BY <1>4, <1>6 DEF SInit, EndedIsRecent, SInv

(* What a tick does, by the lanes it leaves and the runs it turns away. *)
LEMMA TickDoes ==
    ASSUME STypeOK, Tick
    PROVE  \E l, skipped :
             /\ LaneInv(l) /\ skipped \subseteq l.started
             /\ \A p \in l.started \ skipped : MayAsk(p)
             /\ run' = [p \in Pair |-> IF p \in l.started \ skipped THEN 1 ELSE run[p]]
             /\ left' = [p \in Pair |-> IF p \in l.started \ skipped THEN Deadline ELSE left[p]]
             /\ rest' = l.rest
             /\ inFlight' = l.inFlight - Cardinality(skipped)
             /\ busyProviders' = l.busy \ {p[2] : p \in skipped}
             /\ age' = [p \in Pair |-> IF p \in skipped THEN 0 ELSE age[p]]
             /\ ended' = ended \cup skipped
             /\ ticking' = FALSE
             /\ UNCHANGED <<clock, breaker, fetching, trouble, crashes>>
<1> DEFINE l == Round[Len(Order)]
           skipped == {p \in l.started : ~MayAsk(p)}
<1>1. LaneInv(l)
  BY RoundKeeps
<1>2. skipped \subseteq l.started /\ \A p \in l.started \ skipped : MayAsk(p)
  OBVIOUS
<1>3. /\ run' = [p \in Pair |-> IF p \in l.started \ skipped THEN 1 ELSE run[p]]
      /\ left' = [p \in Pair |-> IF p \in l.started \ skipped THEN Deadline ELSE left[p]]
      /\ rest' = l.rest
      /\ inFlight' = l.inFlight - Cardinality(skipped)
      /\ busyProviders' = l.busy \ {p[2] : p \in skipped}
      /\ age' = [p \in Pair |-> IF p \in skipped THEN 0 ELSE age[p]]
      /\ ended' = ended \cup skipped
      /\ ticking' = FALSE
      /\ UNCHANGED <<clock, breaker, fetching, trouble, crashes>>
  BY DEF Tick
<1> HIDE DEF l, skipped
<1> QED
  BY <1>1, <1>2, <1>3

(* Of what a tick starts, what is not turned away runs. *)
LEMMA TickRuns ==
    ASSUME SInv, NEW l, LaneInv(l), NEW skipped \in SUBSET l.started,
           run' = [p \in Pair |-> IF p \in l.started \ skipped THEN 1 ELSE run[p]]
    PROVE  /\ Running' = Running \cup (l.started \ skipped)
           /\ Running \cap l.started = {}
           /\ Cardinality(Running') = Cardinality(Running) + Cardinality(l.started)
                                        - Cardinality(skipped)
           /\ Cardinality(Running) \in Nat /\ Cardinality(skipped) \in 0 .. Cardinality(l.started)
           /\ Cardinality(l.started) \in Nat
<1>1. l.started \subseteq Pair /\ \A p \in l.started : run[p] = 0
  BY DEF LaneInv, Lane, StartedRightly
<1>2. Running' = Running \cup (l.started \ skipped) /\ Running \cap l.started = {}
  BY <1>1 DEF Running, SInv, STypeOK
<1>3. Running \subseteq Pair
  BY DEF Running
<1>4. IsFiniteSet(Running) /\ IsFiniteSet(l.started) /\ IsFiniteSet(skipped)
      /\ IsFiniteSet(l.started \ skipped)
  BY <1>1, <1>3, PairsAreFinite
<1>5. Cardinality(l.started \ skipped) = Cardinality(l.started) - Cardinality(l.started \cap skipped)
  BY <1>4, FS_Difference
<1>6. l.started \cap skipped = skipped
  OBVIOUS
<1>7. Cardinality(Running \cup (l.started \ skipped))
        = Cardinality(Running) + Cardinality(l.started \ skipped)
            - Cardinality(Running \cap (l.started \ skipped))
  BY <1>4, FS_Union
<1>8. Running \cap (l.started \ skipped) = {} /\ Cardinality({}) = 0
  BY <1>2, FS_EmptySet
<1>9. /\ Cardinality(Running) \in Nat /\ Cardinality(l.started) \in Nat
      /\ Cardinality(skipped) \in Nat /\ Cardinality(l.started \ skipped) \in Nat
  BY <1>4, FS_CardinalityType
<1>10. Cardinality(skipped) <= Cardinality(l.started)
  BY <1>4, FS_Subset
<1>11. Cardinality(Running') = Cardinality(Running) + Cardinality(l.started) - Cardinality(skipped)
  <2>1. Cardinality(Running') = Cardinality(Running) + Cardinality(l.started \ skipped) - 0
    BY <1>2, <1>7, <1>8
  <2>2. Cardinality(l.started \ skipped) = Cardinality(l.started) - Cardinality(skipped)
    BY <1>5, <1>6
  <2> QED
    BY <1>9, <2>1, <2>2
<1>12. Cardinality(skipped) \in 0 .. Cardinality(l.started)
  BY <1>9, <1>10
<1> QED
  BY <1>2, <1>9, <1>11, <1>12

LEMMA TickKeeps == ASSUME SInv, Tick PROVE SInv'
<1>1. PICK l, skipped :
        /\ LaneInv(l) /\ skipped \subseteq l.started
        /\ run' = [p \in Pair |-> IF p \in l.started \ skipped THEN 1 ELSE run[p]]
        /\ left' = [p \in Pair |-> IF p \in l.started \ skipped THEN Deadline ELSE left[p]]
        /\ rest' = l.rest
        /\ inFlight' = l.inFlight - Cardinality(skipped)
        /\ busyProviders' = l.busy \ {p[2] : p \in skipped}
        /\ age' = [p \in Pair |-> IF p \in skipped THEN 0 ELSE age[p]]
        /\ ended' = ended \cup skipped
        /\ ticking' = FALSE
        /\ UNCHANGED <<clock, breaker, fetching, trouble, crashes>>
  BY TickDoes DEF SInv
<1>2. /\ l.inFlight \in 0 .. Lanes /\ l.busy \subseteq Portal
      /\ l.rest \in [Portal -> 0 .. Gap] /\ l.started \subseteq Pair
      /\ l.inFlight = inFlight + Cardinality(l.started)
      /\ l.busy = busyProviders \cup {p[2] : p \in l.started}
      /\ \A p \in l.started : run[p] = 0 /\ p[2] \notin busyProviders
      /\ \A p, q \in l.started : p[2] = q[2] => p = q
  BY <1>1 DEF LaneInv, Lane, StartedRightly
<1>3. /\ Running' = Running \cup (l.started \ skipped)
      /\ Cardinality(Running') = Cardinality(Running) + Cardinality(l.started)
                                   - Cardinality(skipped)
      /\ Cardinality(Running) \in Nat /\ Cardinality(skipped) \in 0 .. Cardinality(l.started)
      /\ Cardinality(l.started) \in Nat
  BY <1>1, TickRuns
<1>4. LanesAgree'
  <2>1. inFlight' = Cardinality(Running')
    BY <1>1, <1>2, <1>3 DEF SInv, LanesAgree
  <2>2. busyProviders = {p[2] : p \in Running}
    BY DEF SInv, LanesAgree
  <2>3. busyProviders' = {p[2] : p \in Running'}
    <3>1. ASSUME NEW x \in busyProviders' PROVE \E p \in Running' : x = p[2]
      <4>1. x \notin {p[2] : p \in skipped} /\ (x \in busyProviders \/ \E p \in l.started : x = p[2])
        BY <1>1, <1>2, <3>1
      <4> QED
        BY <1>3, <2>2, <4>1
    <3>2. ASSUME NEW p \in Running' PROVE p[2] \in busyProviders'
      <4>1. CASE p \in Running
        <5>1. p[2] \in busyProviders
          BY <2>2, <4>1
        <5> QED
          BY <1>1, <1>2, <5>1
      <4>2. CASE p \in l.started \ skipped
        BY <1>1, <1>2, <4>2
      <4> QED
        BY <1>3, <4>1, <4>2
    <3> QED
      BY <3>1, <3>2
  <2>4. \A p, q \in Running' : p[2] = q[2] => p = q
    <3>1. \A p \in Running : p[2] \in busyProviders
      BY <2>2
    <3> QED
      BY <1>2, <1>3, <3>1 DEF SInv, LanesAgree
  <2> QED
    BY <2>1, <2>3, <2>4 DEF LanesAgree
<1>5. STypeOK'
  <2>1. inFlight' \in 0 .. Lanes
    <3>1. inFlight' = l.inFlight - Cardinality(skipped) /\ inFlight \in Nat /\ Lanes \in Nat
      BY <1>1, SchedulerAssumption DEF SInv, STypeOK
    <3> QED
      BY <1>2, <1>3, <3>1
  <2>2. run' \in [Pair -> Nat] /\ \A p \in Pair : run'[p] <= Searches[p]
    <3>1. \A p \in Pair : 1 <= Searches[p]
      BY SchedulerAssumption
    <3> QED
      BY <1>1, <3>1 DEF SInv, STypeOK
  <2>3. Deadline \in 0 .. Deadline /\ 0 \in 0 .. Interval
    BY SchedulerAssumption
  <2>4. left' \in [Pair -> 0 .. Deadline] /\ age' \in [Pair -> 0 .. Interval]
    BY <1>1, <2>3 DEF SInv, STypeOK
  <2>5. busyProviders' \subseteq Portal /\ rest' \in [Portal -> 0 .. Gap]
        /\ ended' \subseteq Pair /\ ticking' \in BOOLEAN
    BY <1>1, <1>2 DEF SInv, STypeOK
  <2> QED
    BY <1>1, <2>1, <2>2, <2>4, <2>5 DEF SInv, STypeOK
<1>6. EndedIsRecent'
  <2> SUFFICES ASSUME NEW p \in ended' PROVE age'[p] <= WindowAge(p, clock)'
    BY DEF EndedIsRecent
  <2>1. p \in Pair /\ clock' = clock /\ clock \in Int /\ WindowAge(p, clock)' = WindowAge(p, clock)
    BY <1>1, <1>2 DEF SInv, STypeOK, WindowAge
  <2>2. 0 <= WindowAge(p, clock)
    BY <2>1, WindowAges
  <2> QED
    BY <1>1, <2>1, <2>2 DEF SInv, EndedIsRecent
<1> QED
  BY <1>4, <1>5, <1>6 DEF SInv
-----------------------------------------------------------------------------
LEMMA ClockKeeps == ASSUME SInv, Clock PROVE SInv'
<1>1. clock' \in 0 .. Day - 1
  <2>1. clock + 1 \in Int /\ Day \in Nat \ {0}
    BY SchedulerAssumption DEF SInv, STypeOK
  <2>2. (clock + 1) % Day \in 0 .. Day - 1
    BY <2>1, DivMod
  <2> QED
    BY <2>2 DEF Clock
<1>2. /\ \A n \in 0 .. Interval : n # Interval => n + 1 \in 0 .. Interval
      /\ \A n \in 0 .. Deadline : Before(n) \in 0 .. Deadline
      /\ \A n \in 0 .. Gap : Before(n) \in 0 .. Gap
  BY SchedulerAssumption DEF Before
<1>3. /\ age' \in [Pair -> 0 .. Interval] /\ left' \in [Pair -> 0 .. Deadline]
      /\ rest' \in [Portal -> 0 .. Gap]
  BY <1>2 DEF Clock, SInv, STypeOK
<1>4. breaker' \in [Key -> Breaker!Breaker]
  <2>1. PICK f \in [Key -> UNION {Breaker!Aged(breaker[k]) : k \in Key}] :
          breaker' = f /\ \A k \in Key : f[k] \in Breaker!Aged(breaker[k])
    BY DEF Clock, Breaker!Tick
  <2>2. \A k \in Key : f[k] \in Breaker!Breaker
    BY <2>1, RowsAged DEF SInv, STypeOK
  <2> QED
    BY <2>1, <2>2
<1>5. STypeOK'
  BY <1>1, <1>3, <1>4 DEF Clock, SInv, STypeOK
<1>6. LanesAgree'
  BY DEF Clock, SInv, LanesAgree, Running
<1>7. EndedIsRecent'
  <2> SUFFICES ASSUME NEW p \in ended' PROVE age'[p] <= WindowAge(p, clock')
    BY DEF EndedIsRecent, WindowAge
  <2>1. p \in ended /\ p \in Pair /\ WindowAge(p, clock') # 0 /\ clock \in 0 .. Day - 1
        /\ clock' = (clock + 1) % Day /\ age[p] \in 0 .. Interval
    BY DEF Clock, SInv, STypeOK
  <2>2. WindowAge(p, clock') = WindowAge(p, clock) + 1
    BY <2>1, WindowsPass
  <2>3. WindowAge(p, clock) \in 0 .. Interval - 1 /\ age[p] <= WindowAge(p, clock)
    BY <2>1, WindowAges DEF SInv, EndedIsRecent
  <2>4. age[p] # Interval
    BY <2>1, <2>3, SchedulerAssumption
  <2>5. age'[p] = age[p] + 1
    BY <2>1, <2>4 DEF Clock
  <2> QED
    BY <2>1, <2>2, <2>3, <2>5
<1> QED
  BY <1>5, <1>6, <1>7 DEF SInv

(* The run of a pair is over. *)
LEMMA RunFinishesKeeps ==
    ASSUME SInv, NEW p \in Running, RunFinishes(p),
           breaker' \in [Key -> Breaker!Breaker], trouble' \in 0 .. MaxTrouble,
           UNCHANGED <<clock, ticking, rest, fetching, crashes>>
    PROVE  SInv'
<1>1. p \in Pair /\ run[p] > 0
  BY DEF Running
<1>2. Running' = Running \ {p}
  BY <1>1 DEF Running, RunFinishes, SInv, STypeOK
<1>3. IsFiniteSet(Running)
  BY PairsAreFinite DEF Running
<1>4. Cardinality(Running \ {p}) = Cardinality(Running) - 1
  BY <1>3, FS_RemoveElement
<1>5. LanesAgree'
  <2>1. inFlight' = Cardinality(Running')
    BY <1>2, <1>4 DEF RunFinishes, SInv, LanesAgree
  <2>2. busyProviders' = {q[2] : q \in Running'}
    BY <1>2 DEF RunFinishes, SInv, LanesAgree
  <2> QED
    BY <1>2, <2>1, <2>2 DEF SInv, LanesAgree
<1>6. STypeOK'
  <2>1. 0 \in 0 .. Deadline /\ 0 \in 0 .. Interval /\ Lanes \in Nat
    BY SchedulerAssumption
  <2>2. inFlight' \in 0 .. Lanes
    <3>1. Cardinality(Running') \in Nat
      BY <1>2, <1>3, FS_Subset, FS_CardinalityType
    <3>2. inFlight' \in Nat /\ inFlight' = inFlight - 1 /\ inFlight \in 0 .. Lanes
      BY <1>5, <3>1 DEF RunFinishes, SInv, STypeOK, LanesAgree
    <3> QED
      BY <2>1, <3>2
  <2>3. run' \in [Pair -> Nat] /\ \A q \in Pair : run'[q] <= Searches[q]
    <3>1. \A q \in Pair : 0 <= Searches[q]
      BY SchedulerAssumption
    <3> QED
      BY <1>1, <3>1 DEF RunFinishes, SInv, STypeOK
  <2> QED
    BY <1>1, <2>1, <2>2, <2>3 DEF RunFinishes, SInv, STypeOK
<1>7. EndedIsRecent'
  <2> SUFFICES ASSUME NEW q \in ended' PROVE age'[q] <= WindowAge(q, clock)'
    BY DEF EndedIsRecent
  <2>1. q \in Pair /\ clock \in Int /\ WindowAge(q, clock)' = WindowAge(q, clock)
    BY <1>1 DEF RunFinishes, SInv, STypeOK, WindowAge
  <2>2. 0 <= WindowAge(q, clock)
    BY <2>1, WindowAges
  <2> QED
    BY <1>1, <2>1, <2>2 DEF RunFinishes, SInv, STypeOK, EndedIsRecent
<1> QED
  BY <1>5, <1>6, <1>7 DEF SInv

LEMMA GoesOnKeeps ==
    ASSUME SInv, NEW p \in Running, GoesOn(p), run[p] < Searches[p],
           breaker' \in [Key -> Breaker!Breaker], trouble' \in 0 .. MaxTrouble,
           UNCHANGED <<clock, ticking, rest, fetching, crashes>>
    PROVE  SInv'
<1>1. p \in Pair /\ run[p] > 0 /\ Searches[p] \in Nat /\ Deadline \in 0 .. Deadline
  BY SchedulerAssumption DEF Running
<1>2. Running' = Running
  BY <1>1 DEF Running, GoesOn, SInv, STypeOK
<1>3. STypeOK'
  <2>1. run' \in [Pair -> Nat] /\ \A q \in Pair : run'[q] <= Searches[q]
    BY <1>1 DEF GoesOn, SInv, STypeOK
  <2> QED
    BY <1>1, <2>1 DEF GoesOn, SInv, STypeOK
<1>4. LanesAgree'
  BY <1>2 DEF GoesOn, SInv, LanesAgree
<1>5. EndedIsRecent'
  BY DEF GoesOn, SInv, EndedIsRecent, WindowAge
<1> QED
  BY <1>3, <1>4, <1>5 DEF SInv

LEMMA SInvStep == SInv /\ [SNext]_svars => SInv'
<1> SUFFICES ASSUME SInv, [SNext]_svars PROVE SInv'
  OBVIOUS
<1>1. CASE Tick
  BY <1>1, TickKeeps
<1>2. CASE Clock
  BY <1>2, ClockKeeps
<1>3. ASSUME NEW p \in Pair, SearchEnds(p)
      PROVE  SInv'
  <2>1. PICK signal \in Breaker!Signal("discovery") : Records(KeyOf(p), "discovery", signal)
    BY <1>3 DEF SearchEnds
  <2>2. KeyOf(p) \in Key /\ "discovery" \in Breaker!Scope
    BY DEF Key, Breaker!Scope
  <2>3. breaker' \in [Key -> Breaker!Breaker] /\ trouble' \in 0 .. MaxTrouble
    BY <2>1, <2>2, RecordsRows DEF SInv
  <2>4. p \in Running /\ UNCHANGED <<clock, ticking, rest, fetching, crashes>>
        /\ (RunFinishes(p) \/ (run[p] < Searches[p] /\ GoesOn(p)))
    BY <1>3 DEF SearchEnds
  <2> QED
    BY <2>3, <2>4, RunFinishesKeeps, GoesOnKeeps
<1>4. ASSUME NEW k \in Key, FetchBegins(k)
      PROVE  SInv'
  BY <1>4 DEF FetchBegins, SInv, STypeOK, LanesAgree, Running, EndedIsRecent, WindowAge
<1>5. ASSUME NEW k \in Key, FetchEnds(k)
      PROVE  SInv'
  <2>1. breaker' \in [Key -> Breaker!Breaker] /\ trouble' \in 0 .. MaxTrouble
    <3>1. CASE UNCHANGED <<breaker, trouble>>
      BY <3>1 DEF SInv, STypeOK
    <3>2. ASSUME NEW signal \in Breaker!Signal("item"), Records(k, "item", signal)
          PROVE  breaker' \in [Key -> Breaker!Breaker] /\ trouble' \in 0 .. MaxTrouble
      <4>1. "item" \in Breaker!Scope
        BY DEF Breaker!Scope
      <4> QED
        BY <3>2, <4>1, RecordsRows DEF SInv
    <3> QED
      BY <1>5, <3>1, <3>2 DEF FetchEnds
  <2> QED
    BY <1>5, <2>1 DEF FetchEnds, SInv, STypeOK, LanesAgree, Running, EndedIsRecent, WindowAge
<1>6. CASE Crash
  <2>1. /\ 0 \in 0 .. Deadline /\ 0 \in 0 .. Lanes /\ 0 \in 0 .. Gap /\ MaxCrashes \in Nat
        /\ \A p \in Pair : 0 <= Searches[p]
    BY SchedulerAssumption
  <2>2. crashes' \in 0 .. MaxCrashes
    BY <1>6, <2>1 DEF Crash, SInv, STypeOK
  <2>3. STypeOK'
    BY <1>6, <2>1, <2>2 DEF Crash, SInv, STypeOK
  <2>4. Running' = {} /\ Cardinality({}) = 0
    BY <1>6, FS_EmptySet DEF Crash, Running
  <2>5. LanesAgree'
    BY <1>6, <2>4 DEF Crash, LanesAgree
  <2> QED
    BY <1>6, <2>3, <2>5 DEF Crash, SInv, EndedIsRecent, WindowAge
<1>7. CASE UNCHANGED svars
  BY <1>7 DEF svars, SInv, STypeOK, LanesAgree, Running, EndedIsRecent, WindowAge
<1> QED
  BY <1>1, <1>2, <1>3, <1>4, <1>5, <1>6, <1>7 DEF SNext, Turns

LEMMA SInvAlways == SSpec => []SInv
BY SInvInit, SInvStep, PTL DEF SSpec

(* The lanes are what runs, one discovery of a portal at a time and no more *)
(* than the cap, for any jobs, portals, intervals and limits.               *)
THEOREM LanesStayConsistent == SSpec => []LanesConsistent
<1>1. SInv => LanesConsistent
  BY DEF SInv, LanesConsistent
<1> QED
  BY <1>1, SInvAlways, PTL

(* A pair runs once in a window, for any interval and offset: whatever ran  *)
(* long, was turned away or died, none that ended in the window starts      *)
(* again in it (isDue, windowStart).                                        *)
THEOREM RunsOncePerWindow == SSpec => OncePerWindow
<1>1. SInv /\ [SNext]_svars => [\A p \in Pair : Starts(p) => p \notin ended]_svars
  <2> SUFFICES ASSUME SInv, SNext, NEW p \in Pair, Starts(p) PROVE p \notin ended
    OBVIOUS
  <2>1. CASE Tick
    <3>1. PICK l, skipped :
            /\ LaneInv(l) /\ skipped \subseteq l.started
            /\ \A q \in l.started \ skipped : MayAsk(q)
            /\ run' = [q \in Pair |-> IF q \in l.started \ skipped THEN 1 ELSE run[q]]
            /\ left' = [q \in Pair |-> IF q \in l.started \ skipped THEN Deadline ELSE left[q]]
            /\ rest' = l.rest
            /\ inFlight' = l.inFlight - Cardinality(skipped)
            /\ busyProviders' = l.busy \ {q[2] : q \in skipped}
            /\ age' = [q \in Pair |-> IF q \in skipped THEN 0 ELSE age[q]]
            /\ ended' = ended \cup skipped
            /\ ticking' = FALSE
            /\ UNCHANGED <<clock, breaker, fetching, trouble, crashes>>
      BY <2>1, TickDoes DEF SInv
    <3>2. p \in l.started
      BY <3>1 DEF Starts, SInv, STypeOK
    <3>3. age[p] > WindowAge(p, clock)
      BY <3>1, <3>2 DEF LaneInv, StartedRightly, Due
    <3>4. age[p] \in Int /\ WindowAge(p, clock) \in Int
      BY WindowAges, SchedulerAssumption DEF SInv, STypeOK
    <3> QED
      BY <3>3, <3>4 DEF SInv, EndedIsRecent
  <2>2. CASE run' = run /\ age' = age
    BY <2>2 DEF Starts, SInv, STypeOK
  <2>3. CASE Clock
    BY <2>3 DEF Clock, Starts, SInv, STypeOK
  <2>4. ASSUME NEW q \in Pair, SearchEnds(q)
        PROVE  p \notin ended
    <3>1. q # p
      BY <2>4 DEF SearchEnds, Running, Starts
    <3> QED
      BY <2>4, <3>1 DEF SearchEnds, RunFinishes, GoesOn, Starts, SInv, STypeOK
  <2>5. CASE Crash
    BY <2>5 DEF Crash, Starts, SInv, STypeOK
  <2> QED
    BY <2>1, <2>2, <2>3, <2>4, <2>5 DEF SNext, Turns, FetchBegins, FetchEnds
<1> QED
  BY <1>1, SInvAlways, PTL DEF SSpec, OncePerWindow
-----------------------------------------------------------------------------
(* Runs and detail fetches are to the breaker some of those who ask it. *)
LEMMA KeysTellRuns ==
    ASSUME LanesAgree, NEW p \in Running, NEW q \in Running, KeyOf(p) = KeyOf(q)
    PROVE  p = q
BY DEF LanesAgree, KeyOf

(* Nobody else asks, or nobody stops. *)
LEMMA AskingKept ==
    ASSUME Running' = Running, fetching' = fetching
    PROVE  Asking' = Asking
BY DEF Asking

LEMMA TickAsks ==
    ASSUME SInv, Tick
    PROVE  Breaker!Begin
<1>1. PICK l, skipped :
        /\ LaneInv(l) /\ skipped \subseteq l.started
        /\ \A q \in l.started \ skipped : MayAsk(q)
        /\ run' = [q \in Pair |-> IF q \in l.started \ skipped THEN 1 ELSE run[q]]
        /\ left' = [q \in Pair |-> IF q \in l.started \ skipped THEN Deadline ELSE left[q]]
        /\ rest' = l.rest
        /\ inFlight' = l.inFlight - Cardinality(skipped)
        /\ busyProviders' = l.busy \ {q[2] : q \in skipped}
        /\ age' = [q \in Pair |-> IF q \in skipped THEN 0 ELSE age[q]]
        /\ ended' = ended \cup skipped
        /\ ticking' = FALSE
        /\ UNCHANGED <<clock, breaker, fetching, trouble, crashes>>
  BY TickDoes DEF SInv
<1>2. Running' = Running \cup (l.started \ skipped)
  BY <1>1, TickRuns
<1>3. Asking' = Asking \cup {<<KeyOf(p), "discovery">> : p \in l.started \ skipped}
  BY <1>1, <1>2 DEF Asking
<1>4. Asking' \subseteq Breaker!Asker
  <2>1. fetching' \subseteq Key
    BY <1>1 DEF SInv, STypeOK
  <2>2. \A p \in Running' : p \in Pair
    BY DEF Running
  <2> QED
    BY <2>1, <2>2 DEF Asking, Key, Breaker!Asker, Breaker!Scope
<1>5. \A a \in Asking' \ Asking : Breaker!MayAsk(a)
  BY <1>1, <1>3 DEF MayAsk
<1> QED
  BY <1>1, <1>3, <1>4, <1>5 DEF Breaker!Begin

LEMMA SearchReports ==
    ASSUME SInv, NEW p \in Pair, SearchEnds(p)
    PROVE  Breaker!Next
<1> DEFINE a == <<KeyOf(p), "discovery">>
<1>1. p \in Running /\ a \in Asking /\ KeyOf(p) \in Key /\ a[1] = KeyOf(p) /\ a[2] = "discovery"
  BY DEF SearchEnds, Asking, Key
<1>2. a \in Breaker!Asker
  BY <1>1 DEF Breaker!Asker, Breaker!Scope
<1>3. PICK signal \in Breaker!Signal("discovery") : Records(KeyOf(p), "discovery", signal)
  BY DEF SearchEnds
<1>4. \E b \in Breaker!Recorded(breaker[KeyOf(p)], "discovery", signal) :
         breaker' = [breaker EXCEPT ![KeyOf(p)] = b]
  BY <1>3 DEF Records
<1>5. Asking' = Asking \ {a} \/ (MayAsk(p)' /\ Asking' = Asking)
  <2>1. CASE RunFinishes(p)
    <3>1. Running' = Running \ {p} /\ fetching' = fetching
      BY <1>1, <2>1 DEF RunFinishes, SearchEnds, Running, SInv, STypeOK
    <3>2. \A q \in Running : KeyOf(q) = KeyOf(p) => q = p
      BY <1>1, KeysTellRuns DEF SInv
    <3>3. Asking' = Asking \ {a}
      BY <1>1, <3>1, <3>2 DEF Asking
    <3> QED
      BY <3>3
  <2>2. CASE run[p] < Searches[p] /\ MayAsk(p)' /\ GoesOn(p)
    <3>1. Running' = Running /\ fetching' = fetching
      BY <1>1, <2>2 DEF GoesOn, SearchEnds, Running, SInv, STypeOK
    <3> QED
      BY <2>2, <3>1, AskingKept
  <2> QED
    BY <2>1, <2>2 DEF SearchEnds
<1>6. MayAsk(p)' <=> Breaker!MayAsk(a)'
  BY DEF MayAsk
<1>7. Breaker!Reports(a, signal)
  BY <1>1, <1>4, <1>5, <1>6 DEF Breaker!Reports
<1> QED
  BY <1>1, <1>2, <1>3, <1>7 DEF Breaker!Next

LEMMA FetchReports ==
    ASSUME SInv, NEW k \in Key, FetchEnds(k)
    PROVE  Breaker!Next
<1> DEFINE a == <<k, "item">>
<1>1. fetching = {k} /\ fetching' = {} /\ run' = run
  BY DEF FetchEnds, SInv, STypeOK
<1>2. a \in Asking /\ a[1] = k /\ a[2] = "item"
  BY <1>1 DEF Asking
<1>3. a \in Breaker!Asker
  BY DEF Breaker!Asker, Breaker!Scope
<1>4. Running' = Running
  BY <1>1 DEF Running
<1>5. Asking' = Asking \ {a}
  BY <1>1, <1>4 DEF Asking
<1>6. CASE UNCHANGED breaker
  <2>1. Breaker!EndsUnreported(a)
    BY <1>2, <1>5, <1>6 DEF Breaker!EndsUnreported
  <2> QED
    BY <1>3, <2>1 DEF Breaker!Next
<1>7. ASSUME NEW signal \in Breaker!Signal("item"), Records(k, "item", signal)
      PROVE  Breaker!Next
  <2>1. \E b \in Breaker!Recorded(breaker[k], "item", signal) : breaker' = [breaker EXCEPT ![k] = b]
    BY <1>7 DEF Records
  <2>2. Breaker!Reports(a, signal)
    BY <1>2, <1>5, <2>1 DEF Breaker!Reports
  <2> QED
    BY <1>2, <1>3, <2>2 DEF Breaker!Next
<1> QED
  BY <1>6, <1>7 DEF FetchEnds

LEMMA BreakerStep == SInv /\ [SNext]_svars => [Breaker!Next]_(Breaker!vars)
<1> SUFFICES ASSUME SInv, [SNext]_svars
             PROVE  Breaker!Next \/ UNCHANGED <<breaker, Asking>>
  BY DEF Breaker!vars
<1>1. CASE Tick
  BY <1>1, TickAsks DEF Breaker!Next
<1>2. CASE Clock
  BY <1>2 DEF Clock, Breaker!Next
<1>3. ASSUME NEW p \in Pair, SearchEnds(p)
      PROVE  Breaker!Next
  BY <1>3, SearchReports
<1>4. ASSUME NEW k \in Key, FetchBegins(k)
      PROVE  Breaker!Begin
  <2>1. /\ fetching = {} /\ fetching' = {k} /\ Running' = Running /\ breaker' = breaker
        /\ Breaker!MayAsk(<<k, "item">>)
    BY <1>4 DEF FetchBegins, Running
  <2>2. Asking' = Asking \cup {<<k, "item">>}
    BY <2>1 DEF Asking
  <2>3. Asking' \subseteq Breaker!Asker
    BY <2>1 DEF Asking, Running, Key, Breaker!Asker, Breaker!Scope
  <2> QED
    BY <2>1, <2>2, <2>3 DEF Breaker!Begin
<1>5. ASSUME NEW k \in Key, FetchEnds(k)
      PROVE  Breaker!Next
  BY <1>5, FetchReports
<1>6. CASE Crash
  <2>1. Running' = {} /\ fetching' = {} /\ breaker' = breaker
    BY <1>6 DEF Crash, Running
  <2>2. Asking' = {}
    BY <2>1 DEF Asking
  <2> QED
    BY <2>1, <2>2 DEF Breaker!Crash, Breaker!Next
<1>7. CASE UNCHANGED svars
  <2>1. Running' = Running /\ fetching' = fetching /\ breaker' = breaker
    BY <1>7 DEF svars, Running
  <2> QED
    BY <2>1, AskingKept
<1> QED
  BY <1>1, <1>2, <1>3, <1>4, <1>5, <1>6, <1>7 DEF SNext, Turns, Breaker!Next

(* Discoveries of the lanes and detail fetches keep to the breaker, for any *)
(* jobs and limits: every behaviour of the scheduler is one of the breaker  *)
(* with those who ask it, which ask only where their portal is not paused.  *)
THEOREM SchedulerKeepsToBreaker == SSpec => KeepsToBreaker
<1>1. SInit => Breaker!Init
  BY DEF SInit, Breaker!Init, Asking, Running
<1> QED
  BY <1>1, BreakerStep, SInvAlways, PTL DEF SSpec, KeepsToBreaker, Breaker!Spec
-----------------------------------------------------------------------------
(***************************** The browser *****************************)

(* The inductive invariant. *)
PrefixResolved == \A i, j \in Link : i < j /\ j \in resolved => i \in resolved

WaitsForPrevious ==
    \A i \in Caller :
        phase[i] \in {"holding", "released", "passed"} => i - 1 \in resolved

ResolvedOnce ==
    \A i \in Caller : i \in resolved => phase[i] \in {"released", "passed"}

NotYetAsked == \A i \in Caller : i > tail => phase[i] = "idle"

ChainInv == /\ TypeOK
            /\ PrefixResolved
            /\ WaitsForPrevious
            /\ ResolvedOnce
            /\ NotYetAsked

LEMMA PreviousLink == ASSUME NEW i \in Caller
                      PROVE  i \in Link /\ i - 1 \in Link /\ i \in Int
  BY LockAssumption DEF Caller, Link

LEMMA ChainInit == Init => ChainInv
  <1> SUFFICES ASSUME Init PROVE ChainInv
    OBVIOUS
  <1>1. TypeOK
    BY LockAssumption DEF Init, TypeOK, Phase, Link
  <1>2. PrefixResolved
    BY LockAssumption DEF Init, PrefixResolved, Link
  <1>3. WaitsForPrevious
    BY DEF Init, WaitsForPrevious
  <1>4. ResolvedOnce
    BY LockAssumption DEF Init, ResolvedOnce, Caller
  <1>5. NotYetAsked
    BY DEF Init, NotYetAsked
  <1> QED
    BY <1>1, <1>2, <1>3, <1>4, <1>5 DEF ChainInv

(* A step that only moves caller i on, and resolves nothing. *)
LEMMA ChainMoved ==
    ASSUME ChainInv, NEW i \in Caller, NEW p \in Phase,
           phase[i] \in {"idle", "waiting"},
           p = "holding" => i - 1 \in resolved,
           p \notin {"released", "passed"},
           phase' = [phase EXCEPT ![i] = p], resolved' = resolved, tail' \in Link,
           tail' >= tail, i <= tail'
    PROVE  ChainInv'
  <1>1. TypeOK'
    BY DEF ChainInv, TypeOK
  <1>2. PrefixResolved'
    BY DEF ChainInv, PrefixResolved
  <1>3. WaitsForPrevious'
    BY DEF ChainInv, TypeOK, WaitsForPrevious
  <1>4. ResolvedOnce'
    BY DEF ChainInv, TypeOK, ResolvedOnce
  <1>5. NotYetAsked'
    <2> SUFFICES ASSUME NEW j \in Caller, j > tail' PROVE phase'[j] = "idle"
      BY DEF NotYetAsked
    <2>1. j # i /\ j > tail
      BY PreviousLink DEF ChainInv, TypeOK, Caller, Link
    <2> QED
      BY <2>1 DEF ChainInv, TypeOK, NotYetAsked
  <1> QED
    BY <1>1, <1>2, <1>3, <1>4, <1>5 DEF ChainInv

(* A step that resolves the link of caller i, the one before it being. *)
LEMMA ChainResolved ==
    ASSUME ChainInv, NEW i \in Caller, NEW p \in {"released", "passed"},
           i - 1 \in resolved, phase' = [phase EXCEPT ![i] = p],
           resolved' = resolved \cup {i}, tail' = tail, i <= tail
    PROVE  ChainInv'
  <1>1. TypeOK'
    BY PreviousLink DEF ChainInv, TypeOK, Phase
  <1>2. PrefixResolved'
    <2> SUFFICES ASSUME NEW j \in Link, NEW k \in Link, j < k, k \in resolved'
                 PROVE  j \in resolved'
      BY DEF PrefixResolved
    <2>1. CASE k \in resolved
      BY <2>1 DEF ChainInv, PrefixResolved
    <2>2. CASE k = i
      <3>1. j = i - 1 \/ j < i - 1
        BY <2>2, PreviousLink, LockAssumption DEF Link
      <3> QED
        BY <3>1, PreviousLink DEF ChainInv, PrefixResolved
    <2> QED
      BY <2>1, <2>2
  <1>3. WaitsForPrevious'
    BY DEF ChainInv, TypeOK, WaitsForPrevious
  <1>4. ResolvedOnce'
    BY DEF ChainInv, TypeOK, ResolvedOnce
  <1>5. NotYetAsked'
    <2> SUFFICES ASSUME NEW j \in Caller, j > tail' PROVE phase'[j] = "idle"
      BY DEF NotYetAsked
    <2>1. j # i /\ j > tail
      BY PreviousLink DEF ChainInv, TypeOK, Caller, Link
    <2> QED
      BY <2>1 DEF ChainInv, TypeOK, NotYetAsked
  <1> QED
    BY <1>1, <1>2, <1>3, <1>4, <1>5 DEF ChainInv

LEMMA ChainStep == ChainInv /\ [Next]_vars => ChainInv'
  <1> SUFFICES ASSUME ChainInv, [Next]_vars PROVE ChainInv'
    OBVIOUS
  <1>0. /\ tail \in Int /\ tail \in Link /\ tail <= tail
        /\ \A i \in Caller : phase[i] # "idle" => i <= tail
    BY PreviousLink DEF ChainInv, TypeOK, NotYetAsked, Link
  <1>1. ASSUME NEW i \in Caller, Acquire(i) PROVE ChainInv'
    <2>1. i > tail /\ i = tail'
      BY <1>0, <1>1 DEF Acquire
    <2>2. phase[i] = "idle"
      BY <2>1 DEF ChainInv, NotYetAsked
    <2>3. tail' \in Link /\ tail' >= tail /\ i <= tail'
      BY <1>0, <2>1, PreviousLink
    <2> QED
      BY <1>1, <2>2, <2>3, ChainMoved DEF Acquire, Phase
  <1>2. ASSUME NEW i \in Caller, Enter(i) PROVE ChainInv'
    <2>1. i <= tail /\ tail' \in Link /\ tail' >= tail /\ i <= tail'
      BY <1>0, <1>2 DEF Enter
    <2> QED
      BY <1>2, <2>1, ChainMoved DEF Enter, Phase
  <1>3. ASSUME NEW i \in Caller, GiveUp(i) PROVE ChainInv'
    <2>1. i <= tail /\ tail' \in Link /\ tail' >= tail /\ i <= tail'
      BY <1>0, <1>3 DEF GiveUp
    <2> QED
      BY <1>3, <2>1, ChainMoved DEF GiveUp, Phase
  <1>4. ASSUME NEW i \in Caller, PassOn(i) PROVE ChainInv'
    BY <1>0, <1>4, ChainResolved DEF PassOn, Chained, Resolve
  <1>5. ASSUME NEW i \in Caller, Release(i) PROVE ChainInv'
    BY <1>0, <1>5, ChainResolved DEF Release, Resolve, ChainInv, WaitsForPrevious
  <1>6. CASE UNCHANGED vars
    BY <1>6 DEF vars, ChainInv, TypeOK, PrefixResolved, WaitsForPrevious,
                ResolvedOnce, NotYetAsked
  <1> QED
    BY <1>1, <1>2, <1>3, <1>4, <1>5, <1>6 DEF Next

LEMMA ChainInvariant == Spec => []ChainInv
  BY ChainInit, ChainStep, PTL DEF Spec

(* TypeOK: every step keeps the variables in their types. *)
THEOREM LockTypeCorrect == Spec => []TypeOK
  <1>1. ChainInv => TypeOK
    BY DEF ChainInv
  <1> QED
    BY <1>1, ChainInvariant, PTL
-----------------------------------------------------------------------------
(* Who holds the lock has every caller before it done, and none after it is *)
(* past its wait.                                                           *)
LEMMA HolderIsFirst ==
    ASSUME ChainInv, NEW i \in Caller, i \notin resolved, i - 1 \in resolved,
           NEW j \in Caller, phase[j] \in {"holding", "released", "passed"}
    PROVE  /\ j <= i
           /\ phase[j] = "holding" => j = i
  <1>1. j - 1 \in resolved
    BY DEF ChainInv, WaitsForPrevious
  <1>2. j <= i
    <2> SUFFICES ASSUME j > i PROVE FALSE
      BY PreviousLink
    <2>1. i = j - 1 \/ i < j - 1
      BY PreviousLink
    <2> QED
      BY <1>1, <2>1, PreviousLink DEF ChainInv, PrefixResolved
  <1>3. ASSUME phase[j] = "holding", j < i PROVE FALSE
    <2>1. j = i - 1 \/ j < i - 1
      BY <1>3, PreviousLink
    <2>2. j \in resolved
      BY <2>1, PreviousLink DEF ChainInv, PrefixResolved
    <2> QED
      BY <1>3, <2>2 DEF ChainInv, ResolvedOnce
  <1> QED
    BY <1>2, <1>3, PreviousLink

LEMMA OneHolder == ChainInv => MutualExclusion
  <1> SUFFICES ASSUME ChainInv, NEW i \in Caller, NEW j \in Caller,
                      phase[i] = "holding", phase[j] = "holding"
               PROVE  i = j
    BY DEF MutualExclusion
  <1>1. i \notin resolved /\ i - 1 \in resolved
    BY DEF ChainInv, WaitsForPrevious, ResolvedOnce
  <1> QED
    BY <1>1, HolderIsFirst

(* MutualExclusion: two sessions never have the browser at once. *)
THEOREM LockExcludes == Spec => []MutualExclusion
  BY OneHolder, ChainInvariant, PTL
-----------------------------------------------------------------------------
(* The step of the abstract mutex, with its variables spelled out. *)
Holders == {i \in Caller : phase[i] = "holding"}
Past == {i \in Caller : phase[i] \in {"holding", "released"}}

(* ImplementsMutex: the lock serves one caller at a time, in the order of   *)
(* their acquires, and no other way.                                        *)
THEOREM LockImplementsMutex == Spec => ImplementsMutex
  <1>1. Init => Abstract!XInit
    BY DEF Init, Abstract!XInit
  <1>2. ASSUME ChainInv, [Next]_vars
        PROVE  [Abstract!Free \/ \E i \in Caller : Abstract!Grant(i)]_<<Holders, Past>>
    <2>0. phase \in [Caller -> Phase]
      BY <1>2 DEF ChainInv, TypeOK
    <2>1. ASSUME NEW i \in Caller, Acquire(i) PROVE UNCHANGED <<Holders, Past>>
      <3>1. i > tail
        BY <1>2, <2>1 DEF Acquire, ChainInv, TypeOK, Link
      <3>2. phase[i] = "idle"
        BY <1>2, <3>1 DEF ChainInv, NotYetAsked
      <3> QED
        BY <2>0, <2>1, <3>2 DEF Acquire, Holders, Past
    <2>2. ASSUME NEW i \in Caller, Enter(i) PROVE Abstract!Grant(i)
      <3>1. i \notin resolved /\ i - 1 \in resolved
        BY <1>2, <2>2 DEF Enter, ChainInv, ResolvedOnce
      <3>2. Holders = {}
        BY <1>2, <2>2, <3>1, HolderIsFirst DEF Enter, Holders
      <3>3. \A j \in Past : j < i
        BY <1>2, <2>2, <3>1, HolderIsFirst, PreviousLink DEF Enter, Past
      <3>4. Holders' = {i}
        BY <2>0, <2>2, <3>2 DEF Enter, Holders
      <3>5. Past' = Past \cup {i}
        BY <2>0, <2>2 DEF Enter, Past
      <3> QED
        BY <3>2, <3>3, <3>4, <3>5 DEF Abstract!Grant, Holders, Past
    <2>3. ASSUME NEW i \in Caller, GiveUp(i) PROVE UNCHANGED <<Holders, Past>>
      BY <2>0, <2>3 DEF GiveUp, Holders, Past
    <2>4. ASSUME NEW i \in Caller, PassOn(i) PROVE UNCHANGED <<Holders, Past>>
      BY <2>0, <2>4 DEF PassOn, Holders, Past
    <2>5. ASSUME NEW i \in Caller, Release(i) PROVE Abstract!Free
      <3>1. i \notin resolved /\ i - 1 \in resolved
        BY <1>2, <2>5 DEF Release, ChainInv, ResolvedOnce, WaitsForPrevious
      <3>2. Holders = {i}
        BY <1>2, <2>5, <3>1, HolderIsFirst DEF Release, Holders
      <3>3. Holders' = {}
        BY <2>0, <2>5, <3>2 DEF Release, Holders
      <3>4. Past' = Past
        BY <2>0, <2>5 DEF Release, Past
      <3> QED
        BY <3>2, <3>3, <3>4 DEF Abstract!Free, Holders, Past
    <2>6. CASE UNCHANGED vars
      BY <2>6 DEF vars, Holders, Past
    <2> QED
      BY <1>2, <2>1, <2>2, <2>3, <2>4, <2>5, <2>6 DEF Next
  <1> QED
    BY <1>1, <1>2, ChainInvariant, PTL
    DEF Spec, ImplementsMutex, Abstract!XSpec, Holders, Past
-----------------------------------------------------------------------------
(* The session's use of the lock. *)

LEMMA BrowserLockStep == [BNext]_bvars => [Next]_vars
  <1> SUFFICES ASSUME [BNext]_bvars PROVE [Next]_vars
    OBVIOUS
  <1>1. ASSUME NEW i \in Caller,
               Call(i) \/ ReapTimerFires(i) \/ Busy(i) \/ LinkPasses(i) \/ Leaves(i)
        PROVE  Next
    BY <1>1 DEF Call, ReapTimerFires, Busy, LinkPasses, Leaves, Next
  <1>2. ASSUME NEW i \in Caller, Enters(i) PROVE Next
    BY <1>2 DEF Enters, SessionEnters, ReaperEnters, Next
  <1>3. ASSUME NEW i \in Caller, Opens(i) PROVE UNCHANGED vars
    BY <1>3 DEF Opens, Recycle, Launch, LaunchFails, Reuse, lock
  <1>4. ASSUME NEW i \in Caller, Ends(i) PROVE UNCHANGED vars
    BY <1>4 DEF Ends, Succeeds, Fails, Unwinds, Finishes, Closes, lock
  <1>5. CASE BrowserDies \/ UNCHANGED bvars
    BY <1>5 DEF BrowserDies, bvars, lock
  <1> QED
    BY <1>1, <1>2, <1>3, <1>4, <1>5 DEF BNext

(* Sessions and reaps use the lock, and only so: seen at the lock, they are *)
(* some of its callers.                                                     *)
THEOREM SessionsUseTheLock == BSpec => Spec
  <1>1. BInit => Init
    BY DEF BInit
  <1> QED
    BY <1>1, BrowserLockStep, PTL DEF BSpec, Spec

(* Sessions and reaps have the browser one at a time, in the order in which *)
(* they asked for it.                                                       *)
THEOREM SessionsImplementMutex == BSpec => ImplementsMutex
  BY SessionsUseTheLock, LockImplementsMutex, PTL
-----------------------------------------------------------------------------
(* The inductive invariant of the session. *)

Active == {"opening", "running", "unwinding", "finishing", "closing", "leaving"}

(* Who holds the lock is on its way through the session, nobody else is. *)
StagesFollowLock ==
    \A i \in Caller : /\ stage[i] \in Active <=> phase[i] = "holding"
                      /\ stage[i] = "left" => phase[i] = "released"

RolesFollowLock ==
    \A i \in Caller : /\ phase[i] = "idle" => role[i] = "none"
                      /\ stage[i] = "opening" => Session(i)

(* What runs is the shared browser, or is being closed. *)
AliveIsKnown ==
    \A b \in alive : b = browser \/ \E i \in Caller : stage[i] = "closing" /\ on[i] = b

ClosingForgets == \A i \in Caller : stage[i] = "closing" => browser = 0

(* A session launches once at most. *)
Sessions == {i \in Caller : Session(i)}
Opened == {i \in Caller : Session(i) /\ stage[i] \notin {"none", "opening"}}

LaunchesCounted == /\ Cardinality(Sessions) <= Calls
                   /\ launches <= Cardinality(Opened)

BInv == /\ BTypeOK
        /\ ChainInv
        /\ StagesFollowLock
        /\ RolesFollowLock
        /\ AliveIsKnown
        /\ ClosingForgets
        /\ OperationUndisturbed
        /\ LaunchesCounted

LEMMA OneActive ==
    ASSUME BInv, NEW i \in Caller, stage[i] \in Active
    PROVE  \A j \in Caller : stage[j] \in Active => j = i
  BY OneHolder DEF BInv, StagesFollowLock, MutualExclusion

LEMMA OneBrowserRuns == BInv => OneBrowser
  <1> SUFFICES ASSUME BInv, NEW b \in alive, NEW c \in alive PROVE b = c
    BY DEF OneBrowser
  <1>1. b # 0 /\ c # 0
    <2>1. b \in Browser /\ c \in Browser
      BY DEF BInv, BTypeOK
    <2> QED
      BY <2>1, SessionAssumption DEF Browser
  <1>2. CASE browser # 0
    <2>1. \A i \in Caller : stage[i] # "closing"
      BY <1>2 DEF BInv, ClosingForgets
    <2> QED
      BY <2>1 DEF BInv, AliveIsKnown
  <1>3. CASE browser = 0
    <2>1. PICK i \in Caller : stage[i] = "closing" /\ on[i] = b
      BY <1>1, <1>3 DEF BInv, AliveIsKnown
    <2>2. PICK j \in Caller : stage[j] = "closing" /\ on[j] = c
      BY <1>1, <1>3 DEF BInv, AliveIsKnown
    <2>3. i = j
      BY <2>1, <2>2, OneActive DEF Active
    <2> QED
      BY <2>1, <2>2, <2>3
  <1> QED
    BY <1>2, <1>3

LEMMA FiniteCallers ==
    /\ \A S \in SUBSET Caller : IsFiniteSet(S) /\ Cardinality(S) \in Nat
    /\ \A S, T \in SUBSET Caller : S \subseteq T => Cardinality(S) <= Cardinality(T)
    /\ \A S \in SUBSET Caller : \A i \in Caller \ S :
          Cardinality(S \cup {i}) = Cardinality(S) + 1
  <1>1. IsFiniteSet(Caller)
    BY LockAssumption, FS_Interval DEF Caller
  <1>2. \A S \in SUBSET Caller : IsFiniteSet(S) /\ Cardinality(S) \in Nat
    BY <1>1, FS_Subset, FS_CardinalityType
  <1>3. ASSUME NEW S \in SUBSET Caller, NEW T \in SUBSET Caller, S \subseteq T
        PROVE  Cardinality(S) <= Cardinality(T)
    BY <1>2, <1>3, FS_Subset
  <1>4. ASSUME NEW S \in SUBSET Caller, NEW i \in Caller \ S
        PROVE  Cardinality(S \cup {i}) = Cardinality(S) + 1
    BY <1>2, <1>4, FS_AddElement
  <1> QED
    BY <1>2, <1>3, <1>4
-----------------------------------------------------------------------------
(* Steps at the lock, before it is held. *)

LEMMA CallersKeepTypes ==
    ASSUME BInv, TypeOK',
           UNCHANGED <<stage, on, browser, alive, launches, uses>>,
           role' \in [Caller -> {"none", "session", "closing session", "reaper"}],
           timer' \in BOOLEAN
    PROVE  BTypeOK'
  BY DEF BInv, BTypeOK

LEMMA BeforeTheLock ==
    ASSUME BInv, ChainInv', NEW i \in Caller,
           UNCHANGED <<stage, on, browser, alive, launches, uses>>,
           timer' \in BOOLEAN,
           NEW p \in {"waiting", "gaveup", "passed"}, phase[i] # "holding",
           phase[i] # "released", phase' = [phase EXCEPT ![i] = p],
           \/ role' = role
           \/ /\ phase[i] = "idle"
              /\ \/ role' = [role EXCEPT ![i] = "reaper"]
                 \/ /\ Cardinality(Sessions) < Calls
                    /\ \E r \in SessionRoles : role' = [role EXCEPT ![i] = r]
    PROVE  BInv'
  <1>0. stage[i] \notin Active /\ stage[i] # "left"
    BY DEF BInv, StagesFollowLock
  <1>1. role' \in [Caller -> {"none", "session", "closing session", "reaper"}]
    BY DEF BInv, BTypeOK, SessionRoles
  <1>2. BTypeOK'
    BY <1>1, CallersKeepTypes DEF ChainInv
  <1>3. StagesFollowLock'
    BY <1>0 DEF BInv, ChainInv, TypeOK, StagesFollowLock
  <1>4. \A j \in Caller : j # i => role'[j] = role[j] /\ phase'[j] = phase[j]
    BY DEF BInv, BTypeOK, ChainInv, TypeOK
  <1>5. RolesFollowLock'
    <2>1. phase'[i] # "idle" /\ stage'[i] # "opening"
      BY <1>0 DEF BInv, ChainInv, TypeOK, Active
    <2> QED
      BY <1>4, <2>1 DEF BInv, RolesFollowLock, Session
  <1>6. AliveIsKnown' /\ ClosingForgets' /\ OperationUndisturbed'
    BY DEF BInv, AliveIsKnown, ClosingForgets, OperationUndisturbed
  <1>7. LaunchesCounted'
    <2>1. stage[i] = "none"
      BY <1>0 DEF Active, BInv, BTypeOK
    <2>2. Opened' = Opened
      BY <1>4, <2>1 DEF Opened, Session
    <2>3. CASE role' = role
      <3>1. Sessions' = Sessions
        BY <2>3 DEF Sessions, Session
      <3> QED
        BY <2>2, <3>1 DEF BInv, LaunchesCounted
    <2>4. CASE role' # role
      <3>1. role[i] = "none" /\ phase[i] = "idle"
        BY <2>4 DEF BInv, RolesFollowLock
      <3>2. i \notin Sessions /\ Sessions \in SUBSET Caller
        BY <3>1 DEF Sessions, Session, SessionRoles
      <3>3. CASE role' = [role EXCEPT ![i] = "reaper"]
        <4>1. Sessions' = Sessions
          BY <1>4, <3>2, <3>3 DEF Sessions, Session, SessionRoles, BInv, BTypeOK
        <4> QED
          BY <2>2, <4>1 DEF BInv, LaunchesCounted
      <3>4. CASE /\ Cardinality(Sessions) < Calls
                 /\ \E r \in SessionRoles : role' = [role EXCEPT ![i] = r]
        <4>1. Sessions' = Sessions \cup {i}
          BY <1>4, <3>2, <3>4 DEF Sessions, Session, BInv, BTypeOK
        <4>2. Cardinality(Sessions') = Cardinality(Sessions) + 1
          BY <3>2, <4>1, FiniteCallers
        <4>3. Cardinality(Sessions') <= Calls
          BY <3>2, <3>4, <4>2, FiniteCallers, SessionAssumption
        <4> QED
          BY <2>2, <4>3 DEF BInv, LaunchesCounted
      <3> QED
        BY <2>4, <3>3, <3>4
    <2> QED
      BY <2>3, <2>4
  <1> QED
    BY <1>2, <1>3, <1>5, <1>6, <1>7 DEF BInv
-----------------------------------------------------------------------------
(* Steps of the one that holds the lock. *)

LEMMA LaunchesAreNumbers == BInv => launches \in 0 .. Calls /\ launches \in Nat
  <1> SUFFICES ASSUME BInv PROVE launches \in 0 .. Calls /\ launches \in Nat
    OBVIOUS
  <1>1. launches \in 0 .. Calls
    BY DEF BInv, BTypeOK
  <1> QED
    BY <1>1, SessionAssumption

LEMMA Opener ==
    ASSUME BInv, NEW i \in Caller, stage[i] = "opening"
    PROVE  /\ i \notin Opened /\ Opened \cup {i} \subseteq Sessions
           /\ Opened \in SUBSET Caller
           /\ launches + 1 \in 1 .. Calls /\ launches \in Nat
  <1>1. /\ i \notin Opened /\ Opened \cup {i} \subseteq Sessions
        /\ Sessions \in SUBSET Caller /\ Opened \in SUBSET Caller
    BY DEF BInv, RolesFollowLock, Sessions, Opened
  <1>2. Cardinality(Opened \cup {i}) = Cardinality(Opened) + 1
    BY <1>1, FiniteCallers
  <1>3. Cardinality(Opened \cup {i}) <= Cardinality(Sessions)
    BY <1>1, FiniteCallers
  <1>4. launches \in Nat
    BY LaunchesAreNumbers
  <1>5. Cardinality(Sessions) <= Calls /\ launches <= Cardinality(Opened)
    BY DEF BInv, LaunchesCounted
  <1>6. Cardinality(Sessions) \in Nat /\ Cardinality(Opened) \in Nat
    BY <1>1, FiniteCallers
  <1>7. launches + 1 \in 1 .. Calls
    BY <1>2, <1>3, <1>4, <1>5, <1>6, SessionAssumption
  <1> QED
    BY <1>1, <1>4, <1>7

(* It is at s of its way: what still runs is then the shared browser, or    *)
(* what it closes; and it has launched as it opened, if at all.             *)
LEMMA HolderGoesOn ==
    ASSUME BInv, BTypeOK', ChainInv', NEW i \in Caller, phase'[i] = "holding",
           \A j \in Caller : j # i => stage[j] \notin Active /\ phase'[j] = phase[j],
           role' = role, NEW s \in Active, stage' = [stage EXCEPT ![i] = s],
           s = "opening" => Session(i) /\ stage[i] \in {"none", "opening"},
           \A b \in alive' : b = browser' \/ (s = "closing" /\ on'[i] = b),
           s = "closing" => browser' = 0,
           s = "running" => browser' = on'[i],
           \/ launches' = launches
           \/ launches' = launches + 1 /\ stage[i] = "opening" /\ s # "opening"
    PROVE  BInv'
  <1>1. /\ stage'[i] = s
        /\ \A j \in Caller : j # i => stage'[j] = stage[j] /\ stage'[j] \notin Active
    BY DEF BInv, BTypeOK
  <1>2. StagesFollowLock'
    BY <1>1 DEF BInv, StagesFollowLock, Active
  <1>3. RolesFollowLock'
    BY <1>1 DEF BInv, RolesFollowLock, Session
  <1>4. AliveIsKnown' /\ ClosingForgets' /\ OperationUndisturbed'
    BY <1>1 DEF AliveIsKnown, ClosingForgets, OperationUndisturbed, Active
  <1>5. LaunchesCounted'
    <2>1. Sessions' = Sessions
      BY DEF Sessions, Session
    <2>2. Opened \subseteq Opened' /\ Opened' \in SUBSET Caller
      BY <1>1 DEF Opened, Session, Active
    <2>3. CASE launches' = launches
      <3>1. Cardinality(Opened) <= Cardinality(Opened')
        BY <2>2, FiniteCallers
      <3>2. /\ Cardinality(Opened) \in Nat /\ Cardinality(Opened') \in Nat
            /\ launches \in Nat /\ Opened \in SUBSET Caller
        <4>1. Opened \in SUBSET Caller
          BY DEF Opened
        <4> QED
          BY <2>2, <4>1, FiniteCallers, LaunchesAreNumbers
      <3> QED
        BY <2>1, <2>3, <3>1, <3>2 DEF BInv, LaunchesCounted
    <2>4. CASE launches' = launches + 1 /\ stage[i] = "opening" /\ s # "opening"
      <3>1. i \notin Opened /\ Opened \in SUBSET Caller /\ launches \in Nat
        BY <2>4, Opener
      <3>2. i \in Opened'
        BY <1>1, <2>4 DEF BInv, RolesFollowLock, Opened, Session, Active
      <3>3. Opened \cup {i} \in SUBSET Caller /\ Opened \cup {i} \subseteq Opened'
        BY <2>2, <3>1, <3>2
      <3>4. /\ Cardinality(Opened) + 1 <= Cardinality(Opened')
            /\ Cardinality(Opened) \in Nat /\ Cardinality(Opened') \in Nat
        BY <2>2, <3>1, <3>3, FiniteCallers
      <3> QED
        BY <2>1, <2>4, <3>1, <3>4 DEF BInv, LaunchesCounted
    <2> QED
      BY <2>3, <2>4
  <1> QED
    BY <1>2, <1>3, <1>4, <1>5 DEF BInv

(* The same, for one that holds the lock before and after.                  *)
LEMMA HolderWorks ==
    ASSUME BInv, ChainInv', NEW i \in Caller, NEW s \in Active,
           stage[i] \in Active, s # "opening", UNCHANGED <<lock, role, timer>>,
           stage' = [stage EXCEPT ![i] = s],
           on' \in [Caller -> {0} \cup Browser], browser' \in {0} \cup Browser,
           alive' \subseteq Browser, uses' \in 0 .. MaxUses,
           \A b \in alive' : b = browser' \/ (s = "closing" /\ on'[i] = b),
           s = "closing" => browser' = 0,
           s = "running" => browser' = on'[i],
           \/ launches' = launches
           \/ launches' = launches + 1 /\ stage[i] = "opening"
    PROVE  BInv'
  <1>1. phase' = phase /\ tail' = tail /\ resolved' = resolved
    BY DEF lock, vars
  <1>2. phase[i] = "holding" /\ \A j \in Caller : j # i => stage[j] \notin Active
    BY OneActive DEF BInv, StagesFollowLock
  <1>3. launches' \in 0 .. Calls
    <2>1. CASE launches' = launches
      BY <2>1, LaunchesAreNumbers
    <2>2. CASE launches' = launches + 1 /\ stage[i] = "opening"
      <3>1. launches + 1 \in 1 .. Calls
        BY <2>2, Opener
      <3> QED
        BY <2>2, <3>1, SessionAssumption
    <2> QED
      BY <2>1, <2>2
  <1>4. stage' \in [Caller -> {"none", "opening", "running", "unwinding",
                              "finishing", "closing", "leaving", "left"}]
    BY DEF BInv, BTypeOK, Active
  <1>5. BTypeOK'
    BY <1>3, <1>4 DEF BInv, BTypeOK, ChainInv
  <1> QED
    BY <1>1, <1>2, <1>5, HolderGoesOn

LEMMA OpensKeep ==
    ASSUME BInv, ChainInv', NEW i \in Caller, Opens(i)
    PROVE  BInv'
  <1>0. /\ stage[i] = "opening" /\ stage[i] \in Active
        /\ UNCHANGED <<lock, role, timer>>
    BY DEF Opens, Recycle, Launch, LaunchFails, Reuse, Active
  <1>1. \A j \in Caller : stage[j] \in Active => j = i
    BY <1>0, OneActive
  <1>2. \A b \in alive : b = browser
    BY <1>0, <1>1 DEF BInv, AliveIsKnown, Active
  <1>3. /\ on \in [Caller -> {0} \cup Browser] /\ browser \in {0} \cup Browser
        /\ alive \subseteq Browser /\ uses \in 0 .. MaxUses
    BY DEF BInv, BTypeOK
  <1>4. 0 \in 0 .. MaxUses /\ 1 \in 0 .. MaxUses /\ 0 \notin Browser
    BY SessionAssumption DEF Browser
  <1>5. CASE Recycle(i)
    <2>1. /\ alive' = {} /\ browser' = 0 /\ uses' = 0
          /\ on' = on /\ launches' = launches /\ stage' = stage
      BY <1>2, <1>5 DEF Recycle, Forget
    <2>2. stage' = [stage EXCEPT ![i] = "opening"]
      BY <1>0, <2>1 DEF BInv, BTypeOK
    <2>3. BTypeOK'
      BY <1>0, <1>3, <1>4, <2>1 DEF BInv, BTypeOK, ChainInv
    <2>4. /\ phase'[i] = "holding" /\ phase' = phase /\ Session(i)
          /\ \A j \in Caller : j # i => stage[j] \notin Active
      BY <1>0, <1>1 DEF BInv, StagesFollowLock, RolesFollowLock, lock, vars
    <2> QED
      BY <1>0, <2>1, <2>2, <2>3, <2>4, HolderGoesOn DEF Active
  <1>6. CASE Launch(i)
    <2>1. /\ browser = 0 /\ browser' = launches + 1 /\ launches' = launches + 1
          /\ alive' = alive \cup {browser'} /\ on' = [on EXCEPT ![i] = browser']
          /\ uses' = 1 /\ stage' = [stage EXCEPT ![i] = "running"]
      BY <1>6 DEF Launch, Goes
    <2>2. browser' \in Browser
      BY <1>0, <2>1, Opener DEF Browser
    <2>3. alive = {}
      BY <1>2, <1>3, <1>4, <2>1
    <2>4. /\ on' \in [Caller -> {0} \cup Browser] /\ on'[i] = browser'
          /\ alive' = {browser'}
      BY <1>3, <2>1, <2>2, <2>3
    <2> QED
      BY <1>0, <1>4, <2>1, <2>2, <2>4, HolderWorks DEF Active
  <1>7. CASE LaunchFails(i)
    <2>1. stage' = [stage EXCEPT ![i] = "finishing"]
          /\ UNCHANGED <<on, browser, alive, launches, uses>>
      BY <1>7 DEF LaunchFails, Goes
    <2> QED
      BY <1>0, <1>2, <1>3, <2>1, HolderWorks DEF Active
  <1>8. CASE Reuse(i)
    <2>1. /\ browser \in alive /\ uses' = uses + 1 /\ uses < MaxUses
          /\ on' = [on EXCEPT ![i] = browser]
          /\ stage' = [stage EXCEPT ![i] = "running"]
          /\ UNCHANGED <<browser, alive, launches>>
      BY <1>3, <1>8, SessionAssumption DEF Reuse, Goes, WornOut
    <2>2. uses' \in 0 .. MaxUses
      BY <1>3, <2>1, SessionAssumption
    <2>3. on' \in [Caller -> {0} \cup Browser] /\ on'[i] = browser
      BY <1>3, <2>1
    <2> QED
      BY <1>0, <1>2, <1>3, <2>1, <2>2, <2>3, HolderWorks DEF Active
  <1> QED
    BY <1>5, <1>6, <1>7, <1>8 DEF Opens

LEMMA EndsKeep ==
    ASSUME BInv, ChainInv', NEW i \in Caller, Ends(i)
    PROVE  BInv'
  <1>0. /\ stage[i] \in Active \ {"opening"}
        /\ UNCHANGED <<lock, role, timer>> /\ launches' = launches
    BY DEF Ends, Succeeds, Fails, Unwinds, Finishes, Closes, Active
  <1>1. \A j \in Caller : stage[j] \in Active => j = i
    BY <1>0, OneActive
  <1>2. \A b \in alive : b = browser \/ (stage[i] = "closing" /\ on[i] = b)
    BY <1>1 DEF BInv, AliveIsKnown, Active
  <1>3. /\ on \in [Caller -> {0} \cup Browser] /\ browser \in {0} \cup Browser
        /\ alive \subseteq Browser /\ uses \in 0 .. MaxUses
    BY DEF BInv, BTypeOK
  <1>4. 0 \in 0 .. MaxUses /\ 0 \notin Browser
    BY SessionAssumption DEF Browser
  <1>5. CASE Succeeds(i) \/ Unwinds(i)
    <2>1. /\ stage' = [stage EXCEPT ![i] = "finishing"] /\ stage[i] # "closing"
          /\ UNCHANGED <<on, browser, alive, uses>>
      BY <1>5 DEF Succeeds, Unwinds, Goes
    <2> QED
      BY <1>0, <1>2, <1>3, <2>1, HolderWorks DEF Active
  <1>6. CASE Fails(i)
    <2>1. browser = on[i] /\ stage[i] = "running"
      BY <1>6 DEF Fails, BInv, OperationUndisturbed
    <2>2. /\ browser' = 0 /\ uses' = 0 /\ alive' = alive \ {browser} /\ on' = on
      BY <1>6, <2>1 DEF Fails, Forget
    <2>3. alive' = {}
      BY <1>2, <2>1, <2>2
    <2>4. PICK s \in {"finishing", "unwinding"} : stage' = [stage EXCEPT ![i] = s]
      BY <1>6 DEF Fails, Goes
    <2> QED
      BY <1>0, <1>3, <1>4, <2>2, <2>3, <2>4, HolderWorks DEF Active
  <1>7. CASE Finishes(i)
    <2>0. stage[i] = "finishing" /\ alive' = alive
      BY <1>7 DEF Finishes
    <2>1. CASE role[i] = "closing session" /\ browser # 0
      <3>1. /\ stage' = [stage EXCEPT ![i] = "closing"]
            /\ on' = [on EXCEPT ![i] = browser] /\ browser' = 0 /\ uses' = 0
        BY <1>7, <2>1 DEF Finishes, Goes, Forget
      <3>2. on' \in [Caller -> {0} \cup Browser] /\ on'[i] = browser
        BY <1>3, <3>1
      <3> QED
        BY <1>0, <1>2, <1>3, <1>4, <2>0, <3>1, <3>2, HolderWorks DEF Active
    <2>2. CASE ~(role[i] = "closing session" /\ browser # 0)
      <3>1. /\ stage' = [stage EXCEPT ![i] = "leaving"]
            /\ UNCHANGED <<on, browser, uses>>
        BY <1>7, <2>2 DEF Finishes, Goes
      <3> QED
        BY <1>0, <1>2, <1>3, <2>0, <3>1, HolderWorks DEF Active
    <2> QED
      BY <2>1, <2>2
  <1>8. CASE Closes(i)
    <2>1. /\ stage[i] = "closing" /\ stage' = [stage EXCEPT ![i] = "leaving"]
          /\ alive' = alive \ {on[i]} /\ UNCHANGED <<on, browser, uses>>
      BY <1>8 DEF Closes, Goes
    <2>2. \A b \in alive' : b = browser'
      BY <1>2, <2>1
    <2>3. alive' \subseteq Browser
      BY <1>3, <2>1
    <2> QED
      BY <1>0, <1>3, <2>1, <2>2, <2>3, HolderWorks DEF Active
  <1> QED
    BY <1>5, <1>6, <1>7, <1>8 DEF Ends

(* Whoever enters finds nobody in the session. *)
LEMMA EntersAlone ==
    ASSUME BInv, NEW i \in Caller, Enter(i)
    PROVE  /\ stage[i] \notin Active
           /\ \A j \in Caller : stage[j] \notin Active
  <1>1. i \notin resolved /\ i - 1 \in resolved /\ phase[i] = "waiting"
    BY DEF Enter, BInv, ChainInv, ResolvedOnce
  <1>2. \A j \in Caller : phase[j] # "holding"
    BY <1>1, HolderIsFirst DEF BInv
  <1> QED
    BY <1>2 DEF BInv, StagesFollowLock

LEMMA EntersKeep ==
    ASSUME BInv, ChainInv', NEW i \in Caller, Enters(i)
    PROVE  BInv'
  <1>0. Enter(i) /\ UNCHANGED <<role, alive, launches>>
    BY DEF Enters, SessionEnters, ReaperEnters
  <1>1. /\ \A j \in Caller : stage[j] \notin Active
        /\ stage[i] # "left"
    BY <1>0, EntersAlone DEF Enter, BInv, StagesFollowLock
  <1>2. \A b \in alive : b = browser
    BY <1>1 DEF BInv, AliveIsKnown, Active
  <1>3. /\ on \in [Caller -> {0} \cup Browser] /\ browser \in {0} \cup Browser
        /\ alive \subseteq Browser /\ uses \in 0 .. MaxUses /\ timer \in BOOLEAN
        /\ stage[i] = "none"
    BY <1>1 DEF BInv, BTypeOK, Active
  <1>4. 0 \in 0 .. MaxUses
    BY SessionAssumption
  <1>5. /\ phase'[i] = "holding" /\ \A j \in Caller : j # i => phase'[j] = phase[j]
    BY <1>0 DEF Enter, BInv, ChainInv, TypeOK
  <1>6. \A s \in Active : stage' = [stage EXCEPT ![i] = s]
           => stage' \in [Caller -> {"none", "opening", "running", "unwinding",
                                    "finishing", "closing", "leaving", "left"}]
    BY DEF BInv, BTypeOK, Active
  <1>7. CASE SessionEnters(i)
    <2>1. /\ stage' = [stage EXCEPT ![i] = "opening"] /\ timer' = FALSE /\ Session(i)
          /\ UNCHANGED <<on, browser, uses>>
      BY <1>7 DEF SessionEnters, Goes
    <2>2. BTypeOK'
      BY <1>0, <1>3, <1>6, <2>1 DEF BInv, BTypeOK, ChainInv, Active
    <2> QED
      BY <1>0, <1>1, <1>2, <1>3, <1>5, <2>1, <2>2, HolderGoesOn DEF Active
  <1>8. CASE ReaperEnters(i) /\ browser = 0
    <2>1. /\ stage' = [stage EXCEPT ![i] = "leaving"]
          /\ UNCHANGED <<on, browser, uses, timer>>
      BY <1>8 DEF ReaperEnters, Goes
    <2>2. BTypeOK'
      BY <1>0, <1>3, <1>6, <2>1 DEF BInv, BTypeOK, ChainInv, Active
    <2> QED
      BY <1>0, <1>1, <1>2, <1>5, <2>1, <2>2, HolderGoesOn DEF Active
  <1>9. CASE ReaperEnters(i) /\ browser # 0
    <2>1. /\ stage' = [stage EXCEPT ![i] = "closing"] /\ timer' = timer
          /\ on' = [on EXCEPT ![i] = browser] /\ browser' = 0 /\ uses' = 0
      BY <1>9 DEF ReaperEnters, Goes, Forget
    <2>2. on' \in [Caller -> {0} \cup Browser] /\ on'[i] = browser
      BY <1>3, <2>1
    <2>3. BTypeOK'
      BY <1>0, <1>3, <1>4, <1>6, <2>1, <2>2 DEF BInv, BTypeOK, ChainInv, Active
    <2> QED
      BY <1>0, <1>1, <1>2, <1>5, <2>1, <2>2, <2>3, HolderGoesOn DEF Active
  <1> QED
    BY <1>7, <1>8, <1>9 DEF Enters

LEMMA LeavesKeep ==
    ASSUME BInv, ChainInv', NEW i \in Caller, Leaves(i)
    PROVE  BInv'
  <1>1. /\ stage[i] = "leaving" /\ stage' = [stage EXCEPT ![i] = "left"]
        /\ phase[i] = "holding" /\ phase' = [phase EXCEPT ![i] = "released"]
        /\ UNCHANGED <<role, on, browser, alive, launches, uses>>
        /\ timer' = TimerAfter(i)
    BY DEF Leaves, Goes, Release
  <1>2. /\ stage'[i] = "left" /\ phase'[i] = "released"
        /\ \A j \in Caller : j # i => stage'[j] = stage[j] /\ phase'[j] = phase[j]
        /\ stage' \in [Caller -> {"none", "opening", "running", "unwinding",
                                  "finishing", "closing", "leaving", "left"}]
    BY <1>1 DEF BInv, BTypeOK, ChainInv, TypeOK
  <1>3. timer' \in BOOLEAN
    BY <1>1 DEF TimerAfter, BInv, BTypeOK
  <1>4. BTypeOK'
    BY <1>1, <1>2, <1>3 DEF BInv, BTypeOK, ChainInv
  <1>5. StagesFollowLock'
    BY <1>2 DEF BInv, StagesFollowLock, Active
  <1>6. RolesFollowLock'
    BY <1>1, <1>2 DEF BInv, RolesFollowLock, Session
  <1>7. AliveIsKnown' /\ ClosingForgets' /\ OperationUndisturbed'
    BY <1>1, <1>2 DEF BInv, AliveIsKnown, ClosingForgets, OperationUndisturbed
  <1>8. LaunchesCounted'
    <2>1. Sessions' = Sessions /\ Opened' = Opened
      BY <1>1, <1>2 DEF Sessions, Opened, Session
    <2> QED
      BY <1>1, <2>1 DEF BInv, LaunchesCounted
  <1> QED
    BY <1>4, <1>5, <1>6, <1>7, <1>8 DEF BInv

LEMMA WaitersKeep ==
    ASSUME BInv, ChainInv', NEW i \in Caller,
           Call(i) \/ ReapTimerFires(i) \/ Busy(i) \/ LinkPasses(i)
    PROVE  BInv'
  <1>1. UNCHANGED <<stage, on, browser, alive, launches, uses>> /\ timer' \in BOOLEAN
    BY DEF Call, ReapTimerFires, Busy, LinkPasses, BInv, BTypeOK
  <1>2. CASE Call(i) \/ ReapTimerFires(i)
    <2>1. Acquire(i)
      BY <1>2 DEF Call, ReapTimerFires
    <2>2. phase[i] = "idle" /\ phase' = [phase EXCEPT ![i] = "waiting"]
      BY <2>1 DEF Acquire, BInv, ChainInv, TypeOK, NotYetAsked, Link
    <2>3. \/ role' = [role EXCEPT ![i] = "reaper"]
          \/ /\ Cardinality(Sessions) < Calls
             /\ \E r \in SessionRoles : role' = [role EXCEPT ![i] = r]
      BY <1>2 DEF Call, ReapTimerFires, Sessions
    <2> QED
      BY <1>1, <2>2, <2>3, BeforeTheLock
  <1>3. CASE Busy(i)
    <2>1. /\ phase[i] = "waiting" /\ phase' = [phase EXCEPT ![i] = "gaveup"]
          /\ role' = role
      BY <1>3 DEF Busy, GiveUp
    <2> QED
      BY <1>1, <2>1, BeforeTheLock
  <1>4. CASE LinkPasses(i)
    <2>1. /\ phase[i] = "gaveup" /\ phase' = [phase EXCEPT ![i] = "passed"]
          /\ role' = role
      BY <1>4 DEF LinkPasses, PassOn
    <2> QED
      BY <1>1, <2>1, BeforeTheLock
  <1> QED
    BY <1>2, <1>3, <1>4

LEMMA BStep == BInv /\ [BNext]_bvars => BInv'
  <1> SUFFICES ASSUME BInv, [BNext]_bvars PROVE BInv'
    OBVIOUS
  <1>1. ChainInv'
    BY BrowserLockStep, ChainStep DEF BInv
  <1>2. CASE BrowserDies \/ UNCHANGED bvars
    <2>1. /\ UNCHANGED <<lock, role, stage, on, browser, launches, uses, timer>>
          /\ alive' \subseteq alive
      BY <1>2 DEF BrowserDies, bvars
    <2>2. phase' = phase
      BY <2>1 DEF lock, vars
    <2>3. BTypeOK'
      BY <1>1, <2>1 DEF BInv, BTypeOK, ChainInv
    <2>4. /\ StagesFollowLock' /\ RolesFollowLock' /\ AliveIsKnown'
          /\ ClosingForgets' /\ OperationUndisturbed'
      BY <2>1, <2>2 DEF BInv, StagesFollowLock, RolesFollowLock, AliveIsKnown,
         ClosingForgets, OperationUndisturbed, Session
    <2>5. Sessions' = Sessions /\ Opened' = Opened
      BY <2>1 DEF Sessions, Opened, Session
    <2>6. LaunchesCounted'
      BY <2>1, <2>5 DEF BInv, LaunchesCounted
    <2> QED
      BY <1>1, <2>3, <2>4, <2>6 DEF BInv
  <1>3. ASSUME NEW i \in Caller,
               Call(i) \/ ReapTimerFires(i) \/ Busy(i) \/ LinkPasses(i)
        PROVE  BInv'
    BY <1>1, <1>3, WaitersKeep
  <1>4. ASSUME NEW i \in Caller, Enters(i) PROVE BInv'
    BY <1>1, <1>4, EntersKeep
  <1>5. ASSUME NEW i \in Caller, Opens(i) PROVE BInv'
    BY <1>1, <1>5, OpensKeep
  <1>6. ASSUME NEW i \in Caller, Ends(i) PROVE BInv'
    BY <1>1, <1>6, EndsKeep
  <1>7. ASSUME NEW i \in Caller, Leaves(i) PROVE BInv'
    BY <1>1, <1>7, LeavesKeep
  <1> QED
    BY <1>2, <1>3, <1>4, <1>5, <1>6, <1>7 DEF BNext

LEMMA BStart == BInit => BInv
  <1> SUFFICES ASSUME BInit PROVE BInv
    OBVIOUS
  <1>1. ChainInv
    BY ChainInit DEF BInit
  <1>2. BTypeOK
    <2>1. 0 \in 0 .. Calls /\ 0 \in 0 .. MaxUses
      BY SessionAssumption
    <2> QED
      BY <1>1, <2>1 DEF BInit, BTypeOK, ChainInv
  <1>3. StagesFollowLock /\ RolesFollowLock
    BY DEF BInit, Init, StagesFollowLock, RolesFollowLock, Active
  <1>4. AliveIsKnown /\ ClosingForgets /\ OperationUndisturbed
    BY DEF BInit, AliveIsKnown, ClosingForgets, OperationUndisturbed
  <1>5. LaunchesCounted
    <2>1. Sessions = {} /\ Opened = {}
      BY DEF BInit, Sessions, Opened, Session, SessionRoles
    <2> QED
      BY <2>1, FS_EmptySet, SessionAssumption DEF BInit, LaunchesCounted
  <1> QED
    BY <1>1, <1>2, <1>3, <1>4, <1>5 DEF BInv

(* Never two browser processes, and never is one closed, recycled or        *)
(* forgotten under the operation that uses it: however sessions, reaps,     *)
(* failures and callers that gave up follow each other, for any number of   *)
(* calls and any recycling limit.                                           *)
THEOREM BrowserIsKept == BSpec => []BrowserKept
  <1>1. BInv => BrowserKept
    BY OneBrowserRuns DEF BInv, BrowserKept
  <1> QED
    BY <1>1, BStart, BStep, PTL DEF BSpec
================================================================================
