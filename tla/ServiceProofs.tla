----------------------------- MODULE ServiceProofs -----------------------------
(***************************************************************************)
(* The accounts of what the outside services are asked: the day's budget of *)
(* the model (LlmBudget), the cache and the progress of the geocoder        *)
(* (Geocoder), and the deliveries to Telegram (Outbox).  The three share    *)
(* nothing; each part is about the specification of its module, for any     *)
(* values of its constants.                                                 *)
(***************************************************************************)
EXTENDS LlmBudget, Geocoder, Outbox, FiniteSetTheorems, SequenceTheorems,
        WellFoundedInduction, TLAPS

(*********************** The accounts of LlmBudget ***********************)

Under(d) == Cardinality(UnderWay(d))

WithinLimit == \A d \in Day : usage[d] <= DailyLimit

(* BudgetKept is not inductive: that an answer leaves room for the calls    *)
(* still under way is known from the count alone.                           *)
AccountsInv == AccountsOK /\ UsageAccounted /\ WithinLimit
-----------------------------------------------------------------------------
(* The calls under way are finitely many. *)
LEMMA UnderWayCounted ==
    ASSUME NEW d \in Day
    PROVE  IsFiniteSet(UnderWay(d)) /\ Under(d) \in Nat
<1>1. UnderWay(d) \subseteq Callers
    BY DEF UnderWay
<1>2. IsFiniteSet(UnderWay(d))
    BY <1>1, CallersAssumption, FS_Subset
<1> QED BY <1>2, FS_CardinalityType DEF Under

(* A call that ends leaves the calls of its day. *)
LEMMA EndsCounted ==
    ASSUME AccountsOK, NEW c \in Callers, calls[c] \in Day,
           calls' = [calls EXCEPT ![c] = "idle"],
           NEW d \in Day
    PROVE  Under(d)' = IF d = calls[c] THEN Under(d) - 1 ELSE Under(d)
<1> USE DEF AccountsOK, Day
<1>1. CASE d = calls[c]
    <2>1. UnderWay(d)' = UnderWay(d) \ {c} /\ c \in UnderWay(d)
        BY <1>1 DEF UnderWay
    <2>2. Cardinality(UnderWay(d) \ {c}) = Cardinality(UnderWay(d)) - 1
        BY <2>1, UnderWayCounted, FS_RemoveElement
    <2> QED BY <1>1, <2>1, <2>2 DEF Under
<1>2. CASE d # calls[c]
    <2>1. UnderWay(d)' = UnderWay(d)
        BY <1>2 DEF UnderWay
    <2> QED BY <1>2, <2>1 DEF Under
<1> QED BY <1>1, <1>2

(* A call that is sent joins today's. *)
LEMMA SentCounted ==
    ASSUME AccountsOK, NEW c \in Callers, calls[c] \notin Day,
           calls' = [calls EXCEPT ![c] = "today"],
           NEW d \in Day
    PROVE  Under(d)' = IF d = "today" THEN Under(d) + 1 ELSE Under(d)
<1> USE DEF AccountsOK, Day
<1>1. CASE d = "today"
    <2>1. UnderWay(d)' = UnderWay(d) \cup {c} /\ c \notin UnderWay(d)
        BY <1>1 DEF UnderWay
    <2>2. Cardinality(UnderWay(d) \cup {c}) = Cardinality(UnderWay(d)) + 1
        BY <2>1, UnderWayCounted, FS_AddElement
    <2> QED BY <1>1, <2>1, <2>2 DEF Under
<1>2. CASE d # "today"
    <2>1. UnderWay(d)' = UnderWay(d)
        BY <1>2 DEF UnderWay
    <2> QED BY <1>2, <2>1 DEF Under
<1> QED BY <1>1, <1>2

(* Callers that wait for a slot or give up count nowhere. *)
LEMMA WaitingCounted ==
    ASSUME AccountsOK, NEW c \in Callers, calls[c] \notin Day,
           NEW s \in {"idle", "slot"}, calls' = [calls EXCEPT ![c] = s],
           NEW d \in Day
    PROVE  Under(d)' = Under(d)
<1>1. UnderWay(d)' = UnderWay(d)
    BY DEF UnderWay, AccountsOK, Day
<1> QED BY <1>1 DEF Under
(* A call under way is counted on its day. *)
LEMMA UnderWayPositive ==
    ASSUME NEW c \in Callers, calls[c] \in Day
    PROVE  Under(calls[c]) > 0
<1>1. c \in UnderWay(calls[c])
    BY DEF UnderWay
<1>2. Cardinality(UnderWay(calls[c])) # 0
    BY <1>1, UnderWayCounted, FS_EmptySet
<1> QED BY <1>2, UnderWayCounted DEF Under
-----------------------------------------------------------------------------
LEMMA InitAccounts == ASSUME Init PROVE AccountsInv
<1>1. \A d \in Day : UnderWay(d) = {}
    BY DEF Init, UnderWay, Day
<1>2. \A d \in Day : Cardinality(UnderWay(d)) = 0
    BY <1>1, FS_EmptySet
<1>3. UsageAccounted
    BY <1>2 DEF Init, UsageAccounted
<1>4. AccountsOK
    BY BudgetAssumption DEF Init, AccountsOK
<1>5. WithinLimit
    BY BudgetAssumption DEF Init, WithinLimit
<1> QED BY <1>3, <1>4, <1>5 DEF AccountsInv

(* Nothing but the other variables changes. *)
LEMMA AccountsUntouched ==
    ASSUME AccountsInv, UNCHANGED accounts
    PROVE  AccountsInv'
<1>1. \A d \in Day : UnderWay(d)' = UnderWay(d)
    BY DEF UnderWay, accounts
<1> QED BY <1>1 DEF AccountsInv, AccountsOK, UsageAccounted, WithinLimit, accounts, history

(* What is known of a day's numbers. *)
LEMMA Numbers ==
    ASSUME AccountsInv, NEW d \in Day
    PROVE  /\ Under(d) \in Nat /\ usage[d] \in Nat /\ answered[d] \in Nat /\ started[d] \in Nat
           /\ torn[d] \in Int /\ deaths \in Nat /\ -deaths <= torn[d] /\ torn[d] <= deaths
           /\ usage[d] = answered[d] + started[d] + torn[d]
           /\ Under(d) <= started[d] /\ answered[d] + Under(d) <= usage[d]
           /\ usage[d] <= DailyLimit
<1>1. Under(d) \in Nat
    BY UnderWayCounted
<1>2. torn[d] \in -deaths .. deaths /\ deaths \in Nat
    BY BudgetAssumption DEF AccountsInv, AccountsOK
<1>3. usage[d] \in Nat /\ answered[d] \in Nat /\ started[d] \in Nat /\ usage[d] <= DailyLimit
    BY DEF AccountsInv, AccountsOK, WithinLimit
<1>4. /\ usage[d] = answered[d] + started[d] + torn[d]
      /\ Under(d) <= started[d] /\ answered[d] + Under(d) <= usage[d]
    BY DEF AccountsInv, UsageAccounted, Under
<1> QED BY <1>1, <1>2, <1>3, <1>4

(* The invariant of the next state, from its numbers. *)
LEMMA NumbersSuffice ==
    ASSUME AccountsOK',
           \A d \in Day : /\ usage'[d] = answered'[d] + started'[d] + torn'[d]
                          /\ Under(d)' <= started'[d] /\ answered'[d] + Under(d)' <= usage'[d]
                          /\ usage'[d] <= DailyLimit
    PROVE  AccountsInv'
BY DEF AccountsInv, UsageAccounted, WithinLimit, Under

LEMMA ProceedsAccounts ==
    ASSUME AccountsInv, NEW c \in Callers, calls[c] \notin Day, Proceeds(c)
    PROVE  AccountsInv'
<1> USE DEF AccountsInv, AccountsOK
<1>0. answered' = answered /\ UNCHANGED <<torn, deaths>>
    BY DEF Proceeds, history
<1>1. CASE /\ CanExtract
           /\ calls' = [calls EXCEPT ![c] = "today"]
           /\ usage' = [usage EXCEPT !["today"] = @ + 1]
           /\ started' = [started EXCEPT !["today"] = @ + 1]
    <2>1. AccountsOK'
        BY <1>0, <1>1 DEF Day
    <2>2. \A d \in Day : Under(d)' = IF d = "today" THEN Under(d) + 1 ELSE Under(d)
        BY <1>1, SentCounted
    <2>3. \A d \in Day : /\ usage'[d] = IF d = "today" THEN usage[d] + 1 ELSE usage[d]
                         /\ started'[d] = IF d = "today" THEN started[d] + 1 ELSE started[d]
        BY <1>1 DEF Day
    <2>4. usage["today"] < DailyLimit
        BY <1>1 DEF CanExtract, CanSpend
    <2>5. \A d \in Day : /\ usage'[d] = answered'[d] + started'[d] + torn'[d]
                         /\ Under(d)' <= started'[d] /\ answered'[d] + Under(d)' <= usage'[d]
                         /\ usage'[d] <= DailyLimit
        BY <1>0, <2>2, <2>3, <2>4, Numbers, BudgetAssumption
    <2> QED BY <2>1, <2>5, NumbersSuffice
<1>2. CASE calls' = [calls EXCEPT ![c] = "idle"] /\ UNCHANGED <<usage, started>>
    <2>1. AccountsOK'
        BY <1>0, <1>2 DEF Day
    <2>2. \A d \in Day : Under(d)' = Under(d)
        BY <1>2, WaitingCounted
    <2> QED BY <1>0, <1>2, <2>1, <2>2, Numbers, NumbersSuffice
<1> QED BY <1>1, <1>2 DEF Proceeds

(* A caller that queues for a slot, or leaves the queue. *)
LEMMA WaitingAccounts ==
    ASSUME AccountsInv, NEW c \in Callers, calls[c] \notin Day,
           NEW s \in {"idle", "slot"}, calls' = [calls EXCEPT ![c] = s],
           UNCHANGED <<usage, started, answered, history>>
    PROVE  AccountsInv'
<1>1. AccountsOK'
    BY DEF AccountsInv, AccountsOK, Day, history
<1>2. \A d \in Day : Under(d)' = Under(d)
    BY WaitingCounted DEF AccountsInv
<1> QED BY <1>1, <1>2, Numbers, NumbersSuffice DEF history

LEMMA AnswersAccounts ==
    ASSUME AccountsInv, NEW c \in Callers, Answers(c)
    PROVE  AccountsInv'
<1> DEFINE e == calls[c]
<1>0. /\ e \in Day /\ calls' = [calls EXCEPT ![c] = "idle"]
      /\ UNCHANGED <<usage, torn, deaths>>
      /\ started' = [started EXCEPT ![e] = started[e] - 1]
      /\ answered' = [answered EXCEPT ![e] = answered[e] + 1]
    BY DEF Answers, Completed, history
<1>1. \A d \in Day : Under(d)' = IF d = e THEN Under(d) - 1 ELSE Under(d)
    BY <1>0, EndsCounted DEF AccountsInv
<1>2. Under(e) > 0
    BY <1>0, UnderWayPositive
<1>3. started[e] - 1 \in Nat /\ answered[e] + 1 \in Nat
    BY <1>0, <1>2, Numbers
<1>4. AccountsOK'
    BY <1>0, <1>3 DEF AccountsInv, AccountsOK
<1>5. \A d \in Day : /\ answered'[d] = IF d = e THEN answered[d] + 1 ELSE answered[d]
                     /\ started'[d] = IF d = e THEN started[d] - 1 ELSE started[d]
    BY <1>0 DEF AccountsInv, AccountsOK
<1>6. \A d \in Day : /\ usage'[d] = answered'[d] + started'[d] + torn'[d]
                     /\ Under(d)' <= started'[d] /\ answered'[d] + Under(d)' <= usage'[d]
                     /\ usage'[d] <= DailyLimit
    BY <1>0, <1>1, <1>5, Numbers
<1> QED BY <1>4, <1>6, NumbersSuffice

(* A refund leaves the day's count one less: there was something to refund. *)
LEMMA RefundedCount ==
    ASSUME AccountsInv, NEW c \in Callers, calls[c] \in Day, usage' = Refunded(c)
    PROVE  /\ usage[calls[c]] - 1 \in Nat
           /\ usage' = [usage EXCEPT ![calls[c]] = usage[calls[c]] - 1]
<1> DEFINE e == calls[c]
<1>1. usage' = [usage EXCEPT ![e] = IF usage[e] > 0 THEN usage[e] - 1 ELSE 0]
    BY DEF Refunded
<1>2. Under(e) > 0
    BY UnderWayPositive
<1>3. usage[e] > 0 /\ usage[e] - 1 \in Nat
    BY <1>2, Numbers
<1> QED BY <1>1, <1>3

LEMMA GivesBackAccounts ==
    ASSUME AccountsInv, NEW c \in Callers, GivesBack(c)
    PROVE  AccountsInv'
<1> DEFINE e == calls[c]
<1>0. /\ e \in Day /\ calls' = [calls EXCEPT ![c] = "idle"]
      /\ UNCHANGED <<answered, torn, deaths>> /\ usage' = Refunded(c)
      /\ started' = [started EXCEPT ![e] = started[e] - 1]
    BY DEF GivesBack, Completed, history
<1>1. \A d \in Day : Under(d)' = IF d = e THEN Under(d) - 1 ELSE Under(d)
    BY <1>0, EndsCounted DEF AccountsInv
<1>2. usage[e] - 1 \in Nat /\ usage' = [usage EXCEPT ![e] = usage[e] - 1]
    BY <1>0, RefundedCount
<1>3. started[e] - 1 \in Nat
    <2>1. Under(e) > 0
        BY <1>0, UnderWayPositive
    <2> QED BY <1>0, <2>1, Numbers
<1>4. AccountsOK'
    BY <1>0, <1>2, <1>3 DEF AccountsInv, AccountsOK
<1>5. \A d \in Day : /\ usage'[d] = IF d = e THEN usage[d] - 1 ELSE usage[d]
                     /\ started'[d] = IF d = e THEN started[d] - 1 ELSE started[d]
    BY <1>0, <1>2 DEF AccountsInv, AccountsOK
<1>6. \A d \in Day : /\ usage'[d] = answered'[d] + started'[d] + torn'[d]
                     /\ Under(d)' <= started'[d] /\ answered'[d] + Under(d)' <= usage'[d]
                     /\ usage'[d] <= DailyLimit
    BY <1>0, <1>1, <1>5, Numbers, BudgetAssumption
<1> QED BY <1>4, <1>6, NumbersSuffice

(* After a start no call is under way. *)
LEMMA NoneUnderWay ==
    ASSUME NEW k \in Keys, StartsAgain(k)
    PROVE  \A d \in Day : Under(d)' = 0
<1>1. \A d \in Day : UnderWay(d)' = {}
    BY DEF UnderWay, Day, StartsAgain
<1> QED BY <1>1, FS_EmptySet DEF Under

LEMMA RestartAccounts ==
    ASSUME AccountsInv, NEW k \in Keys, Restart(k)
    PROVE  AccountsInv'
<1>1. AccountsOK'
    BY DEF AccountsInv, AccountsOK, Restart, StartsAgain, history
<1>2. \A d \in Day : Under(d)' = 0
    BY NoneUnderWay DEF Restart
<1>3. UNCHANGED <<usage, started, answered, torn>>
    BY DEF Restart, StartsAgain, history
<1> QED BY <1>1, <1>2, <1>3, Numbers, NumbersSuffice

(* A death more, and the books of one day out by one more. *)
LEMMA TornIs ==
    ASSUME AccountsInv, Dies, NEW d \in Day,
           NEW n \in {torn[d] - 1, torn[d], torn[d] + 1},
           torn' = [torn EXCEPT ![d] = n]
    PROVE  deaths' \in 0 .. MaxDeaths /\ torn' \in [Day -> -deaths' .. deaths']
<1>1. deaths' \in 0 .. MaxDeaths /\ deaths' = deaths + 1
    BY BudgetAssumption DEF Dies, AccountsInv, AccountsOK
<1>2. n \in -deaths' .. deaths'
    BY <1>1, Numbers
<1>3. \A e \in Day : torn[e] \in -deaths' .. deaths'
    <2>1. \A e \in Day : torn[e] \in Int /\ deaths \in Nat /\ -deaths <= torn[e] /\ torn[e] <= deaths
        BY Numbers
    <2> QED BY <1>1, <2>1
<1>4. torn \in [Day -> -deaths .. deaths]
    BY DEF AccountsInv, AccountsOK
<1> QED BY <1>1, <1>2, <1>3, <1>4

LEMMA DiesReservingAccounts ==
    ASSUME AccountsInv, NEW c \in Callers, NEW k \in Keys, DiesReserving(c, k)
    PROVE  AccountsInv'
<1>1. /\ usage' = [usage EXCEPT !["today"] = usage["today"] + 1]
      /\ torn' = [torn EXCEPT !["today"] = torn["today"] + 1]
      /\ UNCHANGED <<started, answered>>
      /\ "today" \in Day /\ usage["today"] < DailyLimit
      /\ calls' = [b \in Callers |-> "idle"]
    BY DEF DiesReserving, StartsAgain, CanExtract, CanSpend, Day
<1>2. deaths' \in 0 .. MaxDeaths /\ torn' \in [Day -> -deaths' .. deaths']
    <2>1. Dies /\ "today" \in Day /\ torn' = [torn EXCEPT !["today"] = torn["today"] + 1]
        BY <1>1 DEF DiesReserving
    <2> QED BY <2>1, TornIs
<1>3. usage["today"] + 1 \in Nat
    BY <1>1, Numbers
<1>4. AccountsOK'
    BY <1>1, <1>2, <1>3 DEF AccountsInv, AccountsOK
<1>5. \A d \in Day : Under(d)' = 0
    BY NoneUnderWay DEF DiesReserving
<1>6. \A d \in Day : /\ usage'[d] = IF d = "today" THEN usage[d] + 1 ELSE usage[d]
                     /\ torn'[d] = IF d = "today" THEN torn[d] + 1 ELSE torn[d]
    BY <1>1 DEF AccountsInv, AccountsOK
<1>7. \A d \in Day : /\ usage'[d] = answered'[d] + started'[d] + torn'[d]
                     /\ Under(d)' <= started'[d] /\ answered'[d] + Under(d)' <= usage'[d]
                     /\ usage'[d] <= DailyLimit
    BY <1>1, <1>5, <1>6, Numbers, BudgetAssumption
<1> QED BY <1>4, <1>7, NumbersSuffice

LEMMA DiesEndingAccounts ==
    ASSUME AccountsInv, NEW c \in Callers, NEW k \in Keys, DiesEnding(c, k)
    PROVE  AccountsInv'
<1> DEFINE e == calls[c]
<1>1. e \in Day /\ UNCHANGED <<started, answered>> /\ calls' = [b \in Callers |-> "idle"]
    BY DEF DiesEnding, StartsAgain
<1>2. \A d \in Day : Under(d)' = 0
    BY NoneUnderWay DEF DiesEnding
<1>3. CASE UNCHANGED <<usage, torn>>
    <2>1. torn' = [torn EXCEPT ![e] = torn[e]]
        BY <1>3 DEF AccountsInv, AccountsOK
    <2>2. deaths' \in 0 .. MaxDeaths /\ torn' \in [Day -> -deaths' .. deaths']
        BY <1>1, <2>1, TornIs DEF DiesEnding
    <2>3. AccountsOK'
        BY <1>1, <1>3, <2>2 DEF AccountsInv, AccountsOK
    <2> QED BY <1>1, <1>2, <1>3, <2>3, Numbers, NumbersSuffice
<1>4. CASE usage' = Refunded(c) /\ torn' = [torn EXCEPT ![e] = torn[e] - 1]
    <2>1. usage[e] - 1 \in Nat /\ usage' = [usage EXCEPT ![e] = usage[e] - 1]
        BY <1>1, <1>4, RefundedCount
    <2>2. usage' \in [Day -> Nat]
        BY <1>1, <2>1 DEF AccountsInv, AccountsOK
    <2>3. deaths' \in 0 .. MaxDeaths /\ torn' \in [Day -> -deaths' .. deaths']
        BY <1>1, <1>4, TornIs DEF DiesEnding
    <2>4. AccountsOK'
        BY <1>1, <2>2, <2>3 DEF AccountsInv, AccountsOK
    <2>5. \A d \in Day : /\ usage'[d] = IF d = e THEN usage[d] - 1 ELSE usage[d]
                         /\ torn'[d] = IF d = e THEN torn[d] - 1 ELSE torn[d]
        BY <1>4, <2>1 DEF AccountsInv, AccountsOK
    <2>6. Under(e) > 0
        BY <1>1, UnderWayPositive
    <2>7. \A d \in Day : /\ usage'[d] = answered'[d] + started'[d] + torn'[d]
                         /\ Under(d)' <= started'[d] /\ answered'[d] + Under(d)' <= usage'[d]
                         /\ usage'[d] <= DailyLimit
        BY <1>1, <1>2, <2>5, <2>6, Numbers, BudgetAssumption
    <2> QED BY <2>4, <2>7, NumbersSuffice
<1> QED BY <1>3, <1>4 DEF DiesEnding

LEMMA MidnightAccounts ==
    ASSUME AccountsInv, Midnight
    PROVE  AccountsInv'
<1> USE DEF Midnight, NextDay
<1>1. AccountsOK'
    BY DEF AccountsInv, AccountsOK, Day
<1>2. UnderWay("today")' = {} /\ UnderWay("yesterday")' = UnderWay("today")
    BY DEF UnderWay, Day, AccountsInv, AccountsOK
<1>3. Under("today")' = 0 /\ Under("yesterday")' = Under("today")
    BY <1>2, FS_EmptySet DEF Under
<1>4. \A n \in {usage, started, answered, torn} :
         NextDay(n)["today"] = 0 /\ NextDay(n)["yesterday"] = n["today"]
    BY DEF AccountsInv, AccountsOK, Day
<1>5. \A d \in Day : /\ usage'[d] = answered'[d] + started'[d] + torn'[d]
                     /\ Under(d)' <= started'[d] /\ answered'[d] + Under(d)' <= usage'[d]
                     /\ usage'[d] <= DailyLimit
    <2>1. /\ usage'["today"] = 0 /\ usage'["yesterday"] = usage["today"]
          /\ started'["today"] = 0 /\ started'["yesterday"] = started["today"]
          /\ answered'["today"] = 0 /\ answered'["yesterday"] = answered["today"]
          /\ torn'["today"] = 0 /\ torn'["yesterday"] = torn["today"]
        BY <1>4
    <2> QED BY <1>3, <2>1, Numbers, BudgetAssumption DEF Day
<1> QED BY <1>1, <1>5, NumbersSuffice
-----------------------------------------------------------------------------
LEMMA StepAccounts == AccountsInv /\ [Next]_vars => AccountsInv'
<1> SUFFICES ASSUME AccountsInv, [Next]_vars PROVE AccountsInv'
    OBVIOUS
<1>1. ASSUME NEW c \in Callers, Request(c) PROVE AccountsInv'
    <2>1. calls[c] \notin Day
        BY <1>1 DEF Request, Day
    <2>2. CASE Proceeds(c)
        BY <2>1, <2>2, ProceedsAccounts
    <2>3. CASE ~Proceeds(c)
        BY <1>1, <2>1, <2>3, WaitingAccounts DEF Request
    <2> QED BY <2>2, <2>3
<1>2. ASSUME NEW c \in Callers, Wakes(c) PROVE AccountsInv'
    BY <1>2, ProceedsAccounts DEF Wakes, Day
<1>3. ASSUME NEW c \in Callers, Abandons(c) PROVE AccountsInv'
    BY <1>3, WaitingAccounts DEF Abandons, Day
<1>4. ASSUME NEW c \in Callers, Ends(c) PROVE AccountsInv'
    BY <1>4, AnswersAccounts, GivesBackAccounts
       DEF Ends, RateLimited, Unavailable, Misconfigured, Fails, Aborted
<1>5. ASSUME NEW k \in Keys, Restart(k) PROVE AccountsInv'
    BY <1>5, RestartAccounts
<1>6. CASE Resume
    BY <1>6, AccountsUntouched DEF Resume
<1>7. CASE Tick
    BY <1>7, AccountsUntouched, MidnightAccounts DEF Tick
<1>8. CASE UNCHANGED vars
    BY <1>8, AccountsUntouched DEF vars, accounts
<1>9. ASSUME NEW c \in Callers, NEW k \in Keys, DiesReserving(c, k) \/ DiesEnding(c, k)
      PROVE  AccountsInv'
    BY <1>9, DiesReservingAccounts, DiesEndingAccounts
<1> QED BY <1>1, <1>2, <1>3, <1>4, <1>5, <1>6, <1>7, <1>8, <1>9 DEF Next

LEMMA AccountsAlways == Spec => []AccountsInv
    BY InitAccounts, StepAccounts, PTL DEF Spec

(* The day's count is what the audit rows say, but for the deaths between   *)
(* the two writes of a reservation or of a refund, for any number of        *)
(* callers and of deaths (reserveLlmCall, refundLlmCall, beginLlmAudit,     *)
(* finishLlmAudit).                                                         *)
THEOREM UsageIsAccounted == Spec => []UsageAccounted
<1>1. AccountsInv => UsageAccounted
    BY DEF AccountsInv
<1> QED BY <1>1, AccountsAlways, PTL

(* However many callers ask at once and whatever comes back after midnight, *)
(* no day yields more answers than its limit.                               *)
THEOREM BudgetIsKept == Spec => []BudgetKept
<1>1. ASSUME AccountsInv PROVE BudgetKept
    <2>1. SUFFICES ASSUME NEW d \in Day
                   PROVE  answered[d] + Under(d) <= DailyLimit
        BY DEF BudgetKept, Under
    <2> QED BY <1>1, Numbers, BudgetAssumption
<1> QED BY <1>1, AccountsAlways, PTL

(* Both together: the day's count is accounted for and its limit holds,     *)
(* wherever the process dies.                                               *)
THEOREM AccountsAreKept == Spec => []AccountsKept
<1>1. UsageAccounted /\ BudgetKept => AccountsKept
    BY DEF AccountsKept
<1> QED BY <1>1, UsageIsAccounted, BudgetIsKept, PTL
-----------------------------------------------------------------------------
(* A set of natural numbers has a least element. *)
LEMMA LeastOf ==
    ASSUME NEW T, T \subseteq Nat, T # {}
    PROVE  \E m \in T : \A k \in T : m <= k
<1> DEFINE R == OpToRel(<, Nat)
<1>1. IsWellFoundedOn(R, Nat)
  BY NatLessThanWellFounded
<1>2. \A x, y \in Nat : x < y => <<x, y>> \in R
  BY DEF OpToRel
<1> HIDE DEF R
<1>3. PICK m \in T : \A k \in T : ~(<<k, m>> \in R)
  BY <1>1, WFMin
<1>4. ASSUME NEW k \in T PROVE m <= k
  <2>1. k \in Nat /\ m \in Nat /\ ~(k < m)
    BY <1>2, <1>3
  <2> QED
    BY <2>1
<1> QED
  BY <1>4

LEMMA FunctionIsSeq ==
    ASSUME NEW S, NEW n \in Nat, NEW f \in [1 .. n -> S]
    PROVE  f \in Seq(S)
BY SeqDef

(* Ages of slots, oldest first. *)
Age == 0 .. Window

Sorted(ages) == \A i, j \in 1 .. Len(ages) : i <= j => ages[j] <= ages[i]

(* For each of b's ages there is one of a's that is no greater, in order. *)
Covers(a, b) ==
    /\ Len(b) <= Len(a)
    /\ \A i \in 1 .. Len(b) : a[Len(a) - Len(b) + i] <= b[i]

LEMMA OutdatedIs ==
    ASSUME NEW ages \in Seq(Age)
    PROVE  /\ Outdated(ages) \in 0 .. Len(ages)
           /\ \A i \in 1 .. Outdated(ages) : ages[i] >= Window
           /\ Outdated(ages) < Len(ages) => ages[Outdated(ages) + 1] < Window
<1> DEFINE T == {n \in 0 .. Len(ages) : n < Len(ages) => ages[n + 1] < Window}
<1>1. Len(ages) \in Nat /\ ages \in [1 .. Len(ages) -> Age] /\ Window \in Nat
  BY LenProperties, BudgetAssumption
<1>2. PICK n \in T : \A k \in T : n <= k
  <2>1. T \subseteq Nat /\ Len(ages) \in T
    BY <1>1
  <2> HIDE DEF T
  <2> QED
    BY <2>1, LeastOf
<1>3. \A i \in 1 .. n : ages[i] >= Window
  <2> SUFFICES ASSUME NEW i \in 1 .. n PROVE ages[i] >= Window
    OBVIOUS
  <2>1. i - 1 \notin T /\ i - 1 \in 0 .. Len(ages) /\ i \in 1 .. Len(ages)
    BY <1>1, <1>2
  <2>2. ~(ages[(i - 1) + 1] < Window)
    BY <2>1
  <2>3. ages[i] \in Age /\ (i - 1) + 1 = i
    BY <1>1, <2>1
  <2> QED
    BY <1>1, <2>2, <2>3 DEF Age
<1>4. \E m \in 0 .. Len(ages) : /\ \A i \in 1 .. m : ages[i] >= Window
                                /\ m < Len(ages) => ages[m + 1] < Window
  BY <1>2, <1>3
<1> DEFINE P(m) == /\ \A i \in 1 .. m : ages[i] >= Window
                   /\ m < Len(ages) => ages[m + 1] < Window
<1>5. Outdated(ages) = CHOOSE m \in 0 .. Len(ages) : P(m)
  BY DEF Outdated
<1>6. \E m \in 0 .. Len(ages) : P(m)
  BY <1>4
<1> HIDE DEF P
<1>7. Outdated(ages) \in 0 .. Len(ages) /\ P(Outdated(ages))
  BY <1>5, <1>6
<1> QED
  BY <1>7 DEF P

LEMMA RecentIs ==
    ASSUME NEW ages \in Seq(Age)
    PROVE  /\ Recent(ages) \in Seq(Age)
           /\ Len(Recent(ages)) = Len(ages) - Outdated(ages)
           /\ \A i \in 1 .. Len(ages) - Outdated(ages) : Recent(ages)[i] = ages[Outdated(ages) + i]
           /\ Sorted(ages) => Sorted(Recent(ages)) /\ Recent(ages) \in Seq(0 .. Window - 1)
<1> DEFINE n == Outdated(ages)
           r == Recent(ages)
<1>1. Len(ages) \in Nat /\ ages \in [1 .. Len(ages) -> Age] /\ Window \in Nat
  BY LenProperties, BudgetAssumption
<1>2. /\ n \in 0 .. Len(ages)
      /\ n < Len(ages) => ages[n + 1] < Window
  BY OutdatedIs
<1>3. r = SubSeq(ages, n + 1, Len(ages))
  BY DEF Recent
<1> HIDE DEF n, r
<1>4. /\ r \in Seq(Age)
      /\ Len(r) = IF n + 1 <= Len(ages) THEN Len(ages) - (n + 1) + 1 ELSE 0
      /\ \A i \in 1 .. Len(ages) - (n + 1) + 1 : r[i] = ages[n + 1 + i - 1]
  <2>1. \A i \in n + 1 .. Len(ages) : ages[i] \in Age
    BY <1>1, <1>2
  <2>2. n + 1 \in Int /\ Len(ages) \in Int
    BY <1>1, <1>2
  <2> QED
    BY <1>3, <2>1, <2>2, SubSeqProperties
<1>5. Len(r) = Len(ages) - n
  <2>1. \A x \in Nat : \A y \in 0 .. x :
            IF y + 1 <= x THEN x - (y + 1) + 1 = x - y ELSE x - y = 0
    OBVIOUS
  <2> QED
    BY <1>1, <1>2, <1>4, <2>1
<1>6. \A i \in 1 .. Len(ages) - n : r[i] = ages[n + i]
  <2> SUFFICES ASSUME NEW i \in 1 .. Len(ages) - n PROVE r[i] = ages[n + i]
    OBVIOUS
  <2>1. i \in 1 .. Len(ages) - (n + 1) + 1 /\ n + 1 + i - 1 = n + i
    BY <1>1, <1>2
  <2> QED
    BY <1>4, <2>1
<1>7. ASSUME Sorted(ages)
      PROVE  Sorted(r) /\ r \in Seq(0 .. Window - 1)
  <2>1. Sorted(r)
    BY <1>1, <1>2, <1>5, <1>6, <1>7 DEF Sorted
  <2>2. ASSUME NEW i \in 1 .. Len(r)
        PROVE  r[i] \in 0 .. Window - 1
    <3>1. n + 1 \in 1 .. Len(ages) /\ n + i \in 1 .. Len(ages) /\ n + 1 <= n + i /\ n < Len(ages)
      BY <1>1, <1>2, <1>5
    <3>2. ages[n + i] <= ages[n + 1] /\ ages[n + 1] < Window
      BY <1>2, <1>7, <3>1 DEF Sorted
    <3>3. r[i] = ages[n + i] /\ ages[n + i] \in Age /\ ages[n + 1] \in Age
      BY <1>1, <1>5, <1>6, <3>1
    <3> QED
      BY <1>1, <3>2, <3>3 DEF Age
  <2>3. r \in [1 .. Len(r) -> Age] /\ Len(r) \in Nat
    BY <1>4, LenProperties
  <2>4. \A i \in 1 .. Len(r) : r[i] \in 0 .. Window - 1
    BY <2>2
  <2>5. r = [i \in 1 .. Len(r) |-> r[i]]
    BY <2>3
  <2>6. r \in [1 .. Len(r) -> 0 .. Window - 1]
    BY <2>4, <2>5, Zenon
  <2>7. r \in Seq(0 .. Window - 1)
    BY <2>3, <2>6, FunctionIsSeq
  <2> QED
    BY <2>1, <2>7
<1> QED
  BY <1>4, <1>5, <1>6, <1>7 DEF n, r

LEMMA OlderIs ==
    ASSUME NEW ages \in Seq(Age)
    PROVE  /\ Older(ages) \in Seq(Age)
           /\ Len(Older(ages)) = Len(ages)
           /\ \A i \in 1 .. Len(ages) : Older(ages)[i] = Lesser(ages[i] + 1, Window)
           /\ Sorted(ages) => Sorted(Older(ages))
<1>1. Len(ages) \in Nat /\ ages \in [1 .. Len(ages) -> Age] /\ Window \in Nat
  BY LenProperties, BudgetAssumption
<1>2. Older(ages) = [i \in 1 .. Len(ages) |-> Lesser(ages[i] + 1, Window)]
  BY <1>1 DEF Older
<1>3. \A x \in Age : Lesser(x + 1, Window) \in Age
  BY <1>1 DEF Age, Lesser
<1>4. Older(ages) \in [1 .. Len(ages) -> Age]
  BY <1>1, <1>2, <1>3
<1>5. Older(ages) \in Seq(Age)
  BY <1>1, <1>4, SeqDef
<1>6. Len(Older(ages)) = Len(ages)
  BY <1>1, <1>4, <1>5, LenProperties
<1>7. \A x, y \in Age : x <= y => Lesser(x + 1, Window) <= Lesser(y + 1, Window)
  BY <1>1 DEF Age, Lesser
<1>8. \A i \in 1 .. Len(ages) : Older(ages)[i] = Lesser(ages[i] + 1, Window)
  BY <1>2
<1>9. Sorted(ages) => Sorted(Older(ages))
  <2> SUFFICES ASSUME Sorted(ages), NEW i \in 1 .. Len(ages), NEW j \in 1 .. Len(ages), i <= j
               PROVE  Older(ages)[j] <= Older(ages)[i]
    BY <1>6 DEF Sorted
  <2>1. ages[j] <= ages[i] /\ ages[i] \in Age /\ ages[j] \in Age
    BY <1>1 DEF Sorted
  <2>2. Lesser(ages[j] + 1, Window) <= Lesser(ages[i] + 1, Window)
    BY <1>7, <2>1
  <2> QED
    BY <1>8, <2>2
<1> QED
  BY <1>5, <1>6, <1>8, <1>9

LEMMA NewestIs ==
    ASSUME NEW ages \in Seq(Age)
    PROVE  /\ Append(ages, 0) \in Seq(Age)
           /\ Len(Append(ages, 0)) = Len(ages) + 1
           /\ \A i \in 1 .. Len(ages) : Append(ages, 0)[i] = ages[i]
           /\ Append(ages, 0)[Len(ages) + 1] = 0
           /\ Sorted(ages) => Sorted(Append(ages, 0))
<1>1. Len(ages) \in Nat /\ ages \in [1 .. Len(ages) -> Age] /\ Window \in Nat /\ 0 \in Age
  BY LenProperties, BudgetAssumption DEF Age
<1> DEFINE a == Append(ages, 0)
<1>2. /\ a \in Seq(Age)
      /\ Len(a) = Len(ages) + 1
      /\ \A i \in 1 .. Len(ages) : a[i] = ages[i]
      /\ a[Len(ages) + 1] = 0
  BY <1>1, AppendProperties
<1> HIDE DEF a
<1>3. Sorted(ages) => Sorted(a)
  <2> SUFFICES ASSUME Sorted(ages), NEW i \in 1 .. Len(ages) + 1, NEW j \in 1 .. Len(ages) + 1, i <= j
               PROVE  a[j] <= a[i]
    BY <1>2 DEF Sorted
  <2>1. CASE j = Len(ages) + 1
    <3>1. a[i] \in Age
      BY <1>1, <1>2
    <3> QED
      BY <1>2, <2>1, <3>1 DEF Age
  <2>2. CASE j # Len(ages) + 1
    <3>1. i \in 1 .. Len(ages) /\ j \in 1 .. Len(ages)
      BY <1>1, <2>2
    <3> QED
      BY <1>2, <3>1 DEF Sorted
  <2> QED
    BY <2>1, <2>2
<1> QED
  BY <1>2, <1>3 DEF a

LEMMA RecentCovers ==
    ASSUME NEW a \in Seq(Age), NEW b \in Seq(0 .. Window - 1), Covers(a, b)
    PROVE  Covers(Recent(a), b)
<1> DEFINE n == Outdated(a)
           r == Recent(a)
<1>1. /\ Len(a) \in Nat /\ a \in [1 .. Len(a) -> Age] /\ Window \in Nat
      /\ Len(b) \in Nat /\ b \in [1 .. Len(b) -> 0 .. Window - 1]
  BY LenProperties, BudgetAssumption
<1>2. n \in 0 .. Len(a) /\ \A i \in 1 .. n : a[i] >= Window
  BY OutdatedIs
<1>3. Len(r) = Len(a) - n /\ \A i \in 1 .. Len(a) - n : r[i] = a[n + i]
  BY RecentIs
<1> HIDE DEF n, r
<1>4. Len(b) <= Len(a) - n
  <2> SUFFICES ASSUME Len(b) > Len(a) - n PROVE FALSE
    BY <1>1, <1>2
  <2>1. 1 \in 1 .. Len(b) /\ Len(a) - Len(b) + 1 \in 1 .. n /\ Len(b) <= Len(a)
    BY <1>1, <1>2 DEF Covers
  <2>2. a[Len(a) - Len(b) + 1] <= b[1] /\ a[Len(a) - Len(b) + 1] >= Window
    BY <1>2, <2>1 DEF Covers
  <2>3. a[Len(a) - Len(b) + 1] \in Age /\ b[1] \in 0 .. Window - 1
    BY <1>1, <1>2, <2>1
  <2> QED
    BY <1>1, <2>2, <2>3 DEF Age
<1>5. ASSUME NEW i \in 1 .. Len(b)
      PROVE  r[Len(r) - Len(b) + i] <= b[i]
  <2>1. /\ Len(r) - Len(b) + i \in 1 .. Len(a) - n
        /\ n + (Len(r) - Len(b) + i) = Len(a) - Len(b) + i
    BY <1>1, <1>2, <1>3, <1>4
  <2>2. r[Len(r) - Len(b) + i] = a[Len(a) - Len(b) + i]
    BY <1>3, <2>1
  <2> QED
    BY <2>2 DEF Covers
<1> QED
  BY <1>3, <1>4, <1>5 DEF Covers, r

LEMMA CoversRecent ==
    ASSUME NEW a \in Seq(Age), NEW b \in Seq(Age), Covers(a, b)
    PROVE  Covers(a, Recent(b))
<1> DEFINE n == Outdated(b)
           r == Recent(b)
<1>1. Len(a) \in Nat /\ Len(b) \in Nat
  BY LenProperties
<1>2. n \in 0 .. Len(b)
  BY OutdatedIs
<1>3. Len(r) = Len(b) - n /\ \A i \in 1 .. Len(b) - n : r[i] = b[n + i]
  BY RecentIs
<1> HIDE DEF n, r
<1>4. ASSUME NEW i \in 1 .. Len(r)
      PROVE  a[Len(a) - Len(r) + i] <= r[i]
  <2>1. /\ n + i \in 1 .. Len(b) /\ i \in 1 .. Len(b) - n
        /\ Len(a) - Len(r) + i = Len(a) - Len(b) + (n + i)
    BY <1>1, <1>2, <1>3
  <2>2. a[Len(a) - Len(b) + (n + i)] <= b[n + i]
    BY <2>1 DEF Covers
  <2> QED
    BY <1>3, <2>1, <2>2
<1>5. Len(r) <= Len(a)
  BY <1>1, <1>2, <1>3 DEF Covers
<1> QED
  BY <1>4, <1>5 DEF Covers, r

LEMMA OlderCovers ==
    ASSUME NEW a \in Seq(Age), NEW b \in Seq(Age), Covers(a, b)
    PROVE  Covers(Older(a), Older(b))
<1>1. /\ Len(a) \in Nat /\ a \in [1 .. Len(a) -> Age] /\ Window \in Nat
      /\ Len(b) \in Nat /\ b \in [1 .. Len(b) -> Age]
  BY LenProperties, BudgetAssumption
<1>2. Len(Older(a)) = Len(a) /\ \A i \in 1 .. Len(a) : Older(a)[i] = Lesser(a[i] + 1, Window)
  BY OlderIs
<1>3. Len(Older(b)) = Len(b) /\ \A i \in 1 .. Len(b) : Older(b)[i] = Lesser(b[i] + 1, Window)
  BY OlderIs
<1>4. ASSUME NEW i \in 1 .. Len(b)
      PROVE  Older(a)[Len(a) - Len(b) + i] <= Older(b)[i]
  <2> DEFINE k == Len(a) - Len(b) + i
  <2>1. k \in 1 .. Len(a) /\ a[k] <= b[i]
    BY <1>1 DEF Covers
  <2> HIDE DEF k
  <2>2. a[k] \in Age /\ b[i] \in Age
    BY <1>1, <2>1
  <2>3. Lesser(a[k] + 1, Window) <= Lesser(b[i] + 1, Window)
    BY <1>1, <2>1, <2>2 DEF Lesser, Age
  <2>4. Older(a)[k] = Lesser(a[k] + 1, Window) /\ Older(b)[i] = Lesser(b[i] + 1, Window)
    BY <1>2, <1>3, <2>1
  <2> QED
    BY <2>3, <2>4 DEF k
<1> QED
  BY <1>1, <1>2, <1>3, <1>4 DEF Covers

LEMMA NewestCovers ==
    ASSUME NEW a \in Seq(Age), NEW b \in Seq(Age), Covers(a, b), Sorted(a)
    PROVE  Covers(Append(a, 0), b) /\ Covers(Append(a, 0), Append(b, 0))
<1> DEFINE s == Append(a, 0)
           t == Append(b, 0)
<1>1. /\ Len(a) \in Nat /\ a \in [1 .. Len(a) -> Age]
      /\ Len(b) \in Nat /\ b \in [1 .. Len(b) -> Age]
  BY LenProperties
<1>2. Len(s) = Len(a) + 1 /\ (\A i \in 1 .. Len(a) : s[i] = a[i]) /\ s[Len(a) + 1] = 0
  BY NewestIs
<1>3. Len(t) = Len(b) + 1 /\ (\A i \in 1 .. Len(b) : t[i] = b[i]) /\ t[Len(b) + 1] = 0
  BY NewestIs
<1> HIDE DEF s, t
<1>4. Len(b) <= Len(a) /\ \A i \in 1 .. Len(b) : a[Len(a) - Len(b) + i] <= b[i]
  BY DEF Covers
<1>5. ASSUME NEW i \in 1 .. Len(b)
      PROVE  s[Len(s) - Len(b) + i] <= b[i]
  <2>1. CASE i = Len(b)
    <3>1. s[Len(s) - Len(b) + i] = 0 /\ b[i] \in Age
      BY <1>1, <1>2, <2>1
    <3> QED
      BY <3>1 DEF Age
  <2>2. CASE i # Len(b)
    <3> DEFINE k == Len(a) - Len(b) + i
    <3>1. k \in 1 .. Len(a) /\ k + 1 \in 1 .. Len(a) /\ k + 1 = Len(s) - Len(b) + i
      <4>1. \A x, y \in Nat : \A j \in 1 .. y :
                y <= x /\ j # y => /\ x - y + j \in 1 .. x /\ x - y + j + 1 \in 1 .. x
                                  /\ x - y + j + 1 = x + 1 - y + j
        OBVIOUS
      <4>2. Len(s) = Len(a) + 1 /\ Len(a) \in Nat /\ Len(b) \in Nat /\ Len(b) <= Len(a)
        BY <1>1, <1>2, <1>4
      <4> HIDE DEF k
      <4>3. k = Len(a) - Len(b) + i
        BY DEF k
      <4> QED
        BY <2>2, <4>1, <4>2, <4>3
    <3>2. a[k] <= b[i]
      BY <1>4
    <3> HIDE DEF k
    <3>3. a[k + 1] <= a[k] /\ s[k + 1] = a[k + 1]
      BY <1>2, <3>1 DEF Sorted
    <3>4. a[k] \in Age /\ a[k + 1] \in Age /\ b[i] \in Age
      BY <1>1, <3>1
    <3> QED
      BY <3>1, <3>2, <3>3, <3>4 DEF Age
  <2> QED
    BY <2>1, <2>2
<1>6. ASSUME NEW i \in 1 .. Len(t)
      PROVE  s[Len(s) - Len(t) + i] <= t[i]
  <2>1. CASE i = Len(b) + 1
    <3>1. Len(s) - Len(t) + i = Len(a) + 1
      BY <1>1, <1>2, <1>3, <2>1
    <3> QED
      BY <1>2, <1>3, <2>1, <3>1
  <2>2. CASE i # Len(b) + 1
    <3>1. /\ i \in 1 .. Len(b) /\ Len(s) - Len(t) + i = Len(a) - Len(b) + i
          /\ Len(a) - Len(b) + i \in 1 .. Len(a)
      BY <1>1, <1>2, <1>3, <1>4, <2>2
    <3> QED
      BY <1>2, <1>3, <1>4, <3>1
  <2> QED
    BY <2>1, <2>2
<1>7. Len(b) <= Len(s) /\ Len(t) <= Len(s)
  BY <1>1, <1>2, <1>3, <1>4
<1> QED
  BY <1>5, <1>6, <1>7 DEF Covers, s, t
-----------------------------------------------------------------------------
(* The slots cover the requests: for each request of the last minute there  *)
(* is a slot that is no older.                                              *)
SlotsInv ==
    /\ slots \in Seq(Age) /\ Len(slots) <= Rate
    /\ sent \in Seq(0 .. Window - 1)
    /\ Sorted(slots) /\ Sorted(sent)
    /\ Covers(slots, sent)

LimitsOK ==
    /\ pause \in Pause
    /\ blocked \in 0 .. MaxReset
    /\ dayLeft \in 1 .. DayLength
    /\ key \in Keys

LEMMA Requests ==
    /\ 0 \in 0 .. Window - 1
    /\ \A b \in Seq(0 .. Window - 1) : b \in Seq(Age)
<1>1. 0 .. Window - 1 \subseteq Age /\ 0 \in 0 .. Window - 1
  BY BudgetAssumption DEF Age
<1> QED
  BY <1>1, SeqMonotonic

LEMMA InitSlots == Init => SlotsInv /\ LimitsOK
<1> SUFFICES ASSUME Init PROVE SlotsInv /\ LimitsOK
  OBVIOUS
<1>1. slots = <<>> /\ sent = <<>>
  BY DEF Init
<1>2. slots \in Seq(Age) /\ sent \in Seq(0 .. Window - 1) /\ Len(slots) = 0 /\ Len(sent) = 0
  BY <1>1, EmptySeq
<1>3. SlotsInv
  BY <1>2, BudgetAssumption DEF SlotsInv, Sorted, Covers
<1>4. NoPause(key) \in Pause
  BY BudgetAssumption DEF NoPause, Pause, Permanent, MaxPause, Init
<1> QED
  BY <1>3, <1>4, BudgetAssumption DEF Init, LimitsOK

LEMMA LiveSlots ==
    ASSUME SlotsInv
    PROVE  /\ Live \in Seq(Age) /\ Sorted(Live) /\ Covers(Live, sent)
           /\ Len(Live) \in Nat /\ Len(Live) <= Rate
<1>1. slots \in Seq(Age) /\ sent \in Seq(0 .. Window - 1) /\ Sorted(slots) /\ Covers(slots, sent)
  BY DEF SlotsInv
<1>2. Live \in Seq(Age) /\ Len(Live) = Len(slots) - Outdated(slots) /\ Sorted(Live)
  BY <1>1, RecentIs DEF Live
<1>3. Covers(Live, sent)
  BY <1>1, RecentCovers DEF Live
<1>4. Outdated(slots) \in 0 .. Len(slots) /\ Len(slots) \in Nat
  BY <1>1, OutdatedIs, LenProperties
<1> QED
  BY <1>2, <1>3, <1>4, BudgetAssumption DEF SlotsInv

LEMMA ProceedsSlots ==
    ASSUME SlotsInv, NEW c \in Callers, Proceeds(c)
    PROVE  SlotsInv'
<1>1. /\ Live \in Seq(Age) /\ Sorted(Live) /\ Covers(Live, sent)
      /\ Len(Live) \in Nat /\ Len(Live) < Rate
  BY LiveSlots DEF Proceeds, SlotFree
<1>2. /\ sent \in Seq(0 .. Window - 1) /\ sent \in Seq(Age) /\ Sorted(sent)
  BY Requests DEF SlotsInv
<1>3. slots' = Append(Live, 0)
  BY DEF Proceeds
<1>4. slots' \in Seq(Age) /\ Len(slots') <= Rate /\ Sorted(slots')
  <2>1. Append(Live, 0) \in Seq(Age) /\ Sorted(Append(Live, 0)) /\ Len(Append(Live, 0)) = Len(Live) + 1
    BY <1>1, NewestIs
  <2> QED
    BY <1>1, <1>3, <2>1, BudgetAssumption
<1>5. Covers(slots', sent) /\ Covers(slots', Append(sent, 0))
  BY <1>1, <1>2, <1>3, NewestCovers
<1>6. Append(sent, 0) \in Seq(0 .. Window - 1) /\ Sorted(Append(sent, 0))
  BY <1>2, Requests, NewestIs, AppendProperties
<1>7. sent' = sent \/ sent' = Append(sent, 0)
  BY DEF Proceeds
<1> QED
  BY <1>2, <1>4, <1>5, <1>6, <1>7 DEF SlotsInv

LEMMA TickSlots ==
    ASSUME SlotsInv, Tick
    PROVE  SlotsInv'
<1>1. slots \in Seq(Age) /\ sent \in Seq(Age) /\ Sorted(slots) /\ Sorted(sent) /\ Covers(slots, sent)
  BY Requests DEF SlotsInv
<1>2. slots' = Older(slots) /\ sent' = Recent(Older(sent))
  BY DEF Tick
<1>3. Older(slots) \in Seq(Age) /\ Sorted(Older(slots)) /\ Len(Older(slots)) = Len(slots)
  BY <1>1, OlderIs
<1>4. Older(sent) \in Seq(Age) /\ Sorted(Older(sent))
  BY <1>1, OlderIs
<1>5. Covers(Older(slots), Older(sent))
  BY <1>1, OlderCovers
<1>6. Covers(Older(slots), Recent(Older(sent)))
  BY <1>3, <1>4, <1>5, CoversRecent
<1>7. Recent(Older(sent)) \in Seq(0 .. Window - 1) /\ Sorted(Recent(Older(sent)))
  BY <1>4, RecentIs
<1> QED
  BY <1>2, <1>3, <1>6, <1>7 DEF SlotsInv

LEMMA StepSlots == SlotsInv /\ [Next]_vars => SlotsInv'
<1> SUFFICES ASSUME SlotsInv, [Next]_vars PROVE SlotsInv'
  OBVIOUS
<1>1. ASSUME slots' = slots, sent' = sent PROVE SlotsInv'
  BY <1>1 DEF SlotsInv
<1>2. ASSUME NEW c \in Callers, Request(c), ~Proceeds(c) PROVE SlotsInv'
  <2>1. slots' = Live /\ sent' = sent
    BY <1>2 DEF Request
  <2> QED
    BY <2>1, LiveSlots DEF SlotsInv
<1>3. ASSUME NEW c \in Callers, Request(c) \/ Wakes(c) PROVE SlotsInv'
  BY <1>2, <1>3, ProceedsSlots DEF Wakes
<1>4. ASSUME NEW c \in Callers, Abandons(c) \/ Ends(c) PROVE SlotsInv'
  BY <1>1, <1>4 DEF Abandons, Ends, Answers, RateLimited, Unavailable, Misconfigured, Aborted,
                    Fails, GivesBack, times
<1>5. ASSUME NEW k \in Keys, StartsAgain(k) PROVE SlotsInv'
  <2>1. slots' = <<>> /\ sent' = <<>>
    BY <1>5 DEF StartsAgain
  <2>2. slots' \in Seq(Age) /\ sent' \in Seq(0 .. Window - 1) /\ Len(slots') = 0 /\ Len(sent') = 0
    BY <2>1, EmptySeq
  <2> QED
    BY <2>2, BudgetAssumption DEF SlotsInv, Sorted, Covers
<1>6. CASE Resume
  BY <1>1, <1>6 DEF Resume, times
<1>7. CASE Tick
  BY <1>7, TickSlots
<1>8. CASE UNCHANGED vars
  BY <1>1, <1>8 DEF vars
<1> QED
  BY <1>3, <1>4, <1>5, <1>6, <1>7, <1>8 DEF Next, Restart, DiesReserving, DiesEnding

LEMMA DoubledIsDefined ==
    Doubled = [n \in 0 .. 10 |-> IF n = 0 THEN Backoff ELSE 2 * Doubled[n - 1]]
<1> DEFINE Power == <<1, 2, 4, 8, 16, 32, 64, 128, 256, 512, 1024>>
           f == [n \in 0 .. 10 |-> Backoff * Power[n + 1]]
<1>1. Backoff \in Nat
  BY BudgetAssumption
<1>2. \A n \in 0 .. 10 : n # 0 => Power[n + 1] = 2 * Power[n] /\ Power[n] \in Nat
  OBVIOUS
<1>3. Power[1] = 1
  OBVIOUS
<1> HIDE DEF Power
<1>4. ASSUME NEW n \in 0 .. 10
      PROVE  f[n] = IF n = 0 THEN Backoff ELSE 2 * f[n - 1]
  <2>1. CASE n = 0
    BY <1>1, <1>3, <2>1
  <2>2. CASE n # 0
    <3>1. n - 1 \in 0 .. 10 /\ f[n - 1] = Backoff * Power[n]
      BY <2>2
    <3>2. Backoff * (2 * Power[n]) = 2 * (Backoff * Power[n])
      BY <1>1, <1>2, <2>2
    <3>3. f[n] = Backoff * Power[n + 1]
      OBVIOUS
    <3> QED
      BY <1>2, <2>2, <3>1, <3>2, <3>3
  <2> QED
    BY <2>1, <2>2
<1>5. f = [n \in 0 .. 10 |-> f[n]]
  OBVIOUS
<1> HIDE DEF f
<1>6. f = [n \in 0 .. 10 |-> IF n = 0 THEN Backoff ELSE 2 * f[n - 1]]
  BY <1>4, <1>5
<1>7. \E g : g = [n \in 0 .. 10 |-> IF n = 0 THEN Backoff ELSE 2 * g[n - 1]]
  BY <1>6
<1> QED
  BY <1>7 DEF Doubled

(* The same without the existence, and the values. *)
LEMMA DoubledIsNatural == \A n \in 0 .. 10 : Doubled[n] \in Nat
<1> DEFINE P(n) == n \in 0 .. 10 => Doubled[n] \in Nat
<1>1. Doubled[0] \in Nat
  BY DoubledIsDefined, BudgetAssumption
<1>2. \A n \in 1 .. 10 : Doubled[n - 1] \in Nat => Doubled[n] \in Nat
  <2> SUFFICES ASSUME NEW n \in 1 .. 10, Doubled[n - 1] \in Nat
               PROVE  Doubled[n] \in Nat
    OBVIOUS
  <2>1. n \in 0 .. 10 /\ n # 0
    OBVIOUS
  <2>2. Doubled[n] = 2 * Doubled[n - 1]
    BY <2>1, DoubledIsDefined
  <2> QED
    BY <2>2
<1>3. Doubled[1] \in Nat /\ Doubled[2] \in Nat /\ Doubled[3] \in Nat
  BY <1>1, <1>2
<1>4. Doubled[4] \in Nat /\ Doubled[5] \in Nat /\ Doubled[6] \in Nat
  BY <1>2, <1>3
<1>5. Doubled[7] \in Nat /\ Doubled[8] \in Nat /\ Doubled[9] \in Nat
  BY <1>2, <1>4
<1>6. Doubled[10] \in Nat
  BY <1>2, <1>5
<1>7. \A n \in 0 .. 10 : n = 0 \/ n = 1 \/ n = 2 \/ n = 3 \/ n = 4 \/ n = 5 \/ n = 6 \/ n = 7 \/ n = 8 \/ n = 9 \/ n = 10
  OBVIOUS
<1> QED
  BY <1>1, <1>3, <1>4, <1>5, <1>6, <1>7

LEMMA ServiceStateIsPause == LimitsOK => ServiceState \in Pause
<1> SUFFICES ASSUME LimitsOK PROVE ServiceState \in Pause
  OBVIOUS
<1>1. NoPause(key) \in Pause
  BY BudgetAssumption DEF NoPause, Pause, Permanent, MaxPause, LimitsOK
<1> QED
  BY <1>1 DEF LimitsOK, ServiceState

LEMMA PausesLimits ==
    ASSUME LimitsOK, NEW permanent \in BOOLEAN, Pauses(permanent)
    PROVE  pause' \in Pause
<1> DEFINE failures == Lesser(ServiceState.failures + 1, Saturated)
<1>1. failures \in 0 .. Saturated /\ failures - 1 \in 0 .. 10
  <2>1. ServiceState.failures \in 0 .. Saturated
    BY ServiceStateIsPause DEF Pause
  <2> QED
    BY <2>1, BudgetAssumption, SaturationAssumption DEF Lesser
<1>2. PICK reset \in Reset :
          pause' = [key |-> key, failures |-> failures,
                    left |-> IF permanent THEN Permanent ELSE Greater(Delay(failures), reset)]
  BY DEF Pauses
<1> HIDE DEF failures
<1>3. Delay(failures) \in 0 .. MaxBackoff
  <2>1. Doubled[failures - 1] \in Nat
    BY <1>1, DoubledIsNatural
  <2> QED
    BY <2>1, BudgetAssumption DEF Delay, Lesser
<1>4. Greater(Delay(failures), reset) \in 0 .. MaxPause
  BY <1>3, BudgetAssumption DEF Greater, Reset, MaxPause
<1> QED
  BY <1>1, <1>2, <1>4 DEF Pause, LimitsOK

LEMMA StepLimits == LimitsOK /\ [Next]_vars => LimitsOK'
<1> SUFFICES ASSUME LimitsOK, [Next]_vars PROVE LimitsOK'
  OBVIOUS
<1>1. ASSUME UNCHANGED limits, dayLeft' = dayLeft PROVE LimitsOK'
  BY <1>1 DEF LimitsOK, limits
<1>2. NoPause(key) \in Pause
  BY BudgetAssumption DEF NoPause, Pause, Permanent, MaxPause, LimitsOK
<1>3. ASSUME NEW c \in Callers, Request(c) \/ Wakes(c) \/ Abandons(c) PROVE LimitsOK'
  BY <1>1, <1>3 DEF Request, Wakes, Proceeds, Abandons, times
<1>4. ASSUME NEW c \in Callers, Answers(c) PROVE LimitsOK'
  BY <1>2, <1>4 DEF Answers, LimitsOK, times
<1>5. ASSUME NEW c \in Callers, RateLimited(c) PROVE LimitsOK'
  <2>1. blocked' \in 0 .. MaxReset
    BY <1>5, BudgetAssumption DEF RateLimited, Blocks, Greater, Reset
  <2> QED
    BY <1>5, <2>1 DEF RateLimited, Blocks, GivesBack, LimitsOK, times
<1>6. ASSUME NEW c \in Callers, NEW permanent \in BOOLEAN, Fails(c, permanent) PROVE LimitsOK'
  BY <1>6, PausesLimits DEF Fails, GivesBack, LimitsOK, times
<1>7. ASSUME NEW c \in Callers, Aborted(c) PROVE LimitsOK'
  BY <1>1, <1>7 DEF Aborted, GivesBack, limits, times
<1>8. ASSUME NEW k \in Keys, Restart(k) PROVE LimitsOK'
  BY <1>8 DEF Restart, StartsAgain, LimitsOK
<1>9. CASE Resume
  BY <1>2, <1>9 DEF Resume, LimitsOK, times
<1>10. CASE Tick
  <2>1. pause' \in Pause
    <3>1. pause' = [pause EXCEPT !.left = Less(pause.left)]
      BY <1>10 DEF Tick
    <3>2. Less(pause.left) \in {Permanent} \cup 0 .. MaxPause
      <4>1. MaxPause \in Nat /\ pause.left \in {Permanent} \cup 0 .. MaxPause
        BY BudgetAssumption DEF LimitsOK, Pause, MaxPause
      <4> QED
        BY <4>1 DEF Less, Permanent
    <3> QED
      BY <3>1, <3>2 DEF LimitsOK, Pause
  <2>2. blocked' \in 0 .. MaxReset
    BY <1>10, BudgetAssumption DEF Tick, Less, LimitsOK
  <2>3. dayLeft' \in 1 .. DayLength /\ key' = key
    BY <1>10, BudgetAssumption DEF Tick, LimitsOK
  <2> QED
    BY <2>1, <2>2, <2>3 DEF LimitsOK
<1>11. CASE UNCHANGED vars
  BY <1>1, <1>11 DEF vars, limits
<1>12. ASSUME NEW c \in Callers, Ends(c) PROVE LimitsOK'
  BY <1>4, <1>5, <1>6, <1>7, <1>12 DEF Ends, Unavailable, Misconfigured
<1>13. ASSUME NEW c \in Callers, NEW k \in Keys, DiesReserving(c, k) PROVE LimitsOK'
  BY <1>13 DEF DiesReserving, StartsAgain, LimitsOK
<1>14. ASSUME NEW c \in Callers, NEW k \in Keys, DiesEnding(c, k) PROVE LimitsOK'
  <2>1. pause' \in Pause
    BY <1>2, <1>14, PausesLimits DEF DiesEnding, Blocks, LimitsOK
  <2>2. blocked' \in 0 .. MaxReset
    BY <1>14, BudgetAssumption DEF DiesEnding, Blocks, Greater, Reset, LimitsOK
  <2>3. dayLeft' = dayLeft /\ key' = k
    BY <1>14 DEF DiesEnding, StartsAgain
  <2> QED
    BY <2>1, <2>2, <2>3 DEF LimitsOK
<1> QED
  BY <1>3, <1>8, <1>9, <1>10, <1>11, <1>12, <1>13, <1>14 DEF Next
-----------------------------------------------------------------------------
(* While extraction is paused and nothing is under way, a step sends        *)
(* nothing, and the pause gets no shorter but by the clock.                 *)
LEMMA StepPaused ==
    ASSUME AccountsOK, LimitsOK, [Next]_vars, Quiet, ServiceState.left # 0
    PROVE  Quiet' /\ (Resume \/ key' # key \/ ServiceState'.left \in {pause.left, Less(pause.left)})
<1>1. ServiceState = pause /\ pause.key = key /\ ~CanExtract
  BY DEF ServiceState, NoPause, CanExtract
<1>2. \A c \in Callers : calls[c] \notin Day
  BY DEF Quiet, UnderWay
<1>3. ASSUME UNCHANGED <<pause, key>>
      PROVE  ServiceState'.left \in {pause.left, Less(pause.left)}
  BY <1>1, <1>3 DEF ServiceState
<1>4. ASSUME NEW c \in Callers, calls' = [calls EXCEPT ![c] = "idle"] \/ calls' = calls
      PROVE  Quiet'
  BY <1>2, <1>4 DEF Quiet, UnderWay, Day, AccountsOK
<1>5. ASSUME NEW c \in Callers, Request(c) \/ Wakes(c) \/ Abandons(c)
      PROVE  Quiet' /\ ServiceState'.left \in {pause.left, Less(pause.left)}
  <2>1. ~Request(c)
    BY <1>1 DEF Request
  <2>2. calls' = [calls EXCEPT ![c] = "idle"] /\ UNCHANGED <<pause, key>>
    BY <1>1, <1>5, <2>1 DEF Wakes, Proceeds, Abandons, limits
  <2> QED
    BY <1>3, <1>4, <2>2
<1>6. ASSUME NEW c \in Callers PROVE ~Ends(c)
  BY <1>2 DEF Ends, Answers, RateLimited, Unavailable, Misconfigured, Aborted, Fails, GivesBack
<1>7. ASSUME NEW k \in Keys, Restart(k)
      PROVE  Quiet' /\ (key' # key \/ ServiceState'.left \in {pause.left, Less(pause.left)})
  <2>1. Quiet'
    BY <1>7 DEF Restart, StartsAgain, Quiet, UnderWay, Day
  <2>2. CASE key' = key
    BY <1>3, <1>7, <2>1, <2>2 DEF Restart
  <2> QED
    BY <2>1, <2>2
<1>8. CASE Resume
  BY <1>8 DEF Resume, accounts, Quiet, UnderWay
<1>9. CASE Tick
  <2>1. Quiet'
    BY <1>2, <1>9 DEF Tick, Midnight, accounts, Quiet, UnderWay, Day
  <2>2. ServiceState'.left = Less(pause.left)
    BY <1>1, <1>9 DEF Tick, ServiceState, LimitsOK, Pause
  <2> QED
    BY <2>1, <2>2
<1>10. CASE UNCHANGED vars
  BY <1>3, <1>10 DEF vars, Quiet, UnderWay
<1>11. ASSUME NEW c \in Callers, NEW k \in Keys
       PROVE  ~DiesReserving(c, k) /\ ~DiesEnding(c, k)
  BY <1>1, <1>2 DEF DiesReserving, DiesEnding
<1> QED
  BY <1>5, <1>6, <1>7, <1>8, <1>9, <1>10, <1>11 DEF Next

LEMMA SlotsAlways == Spec => [](SlotsInv /\ LimitsOK)
    BY InitSlots, StepSlots, StepLimits, PTL DEF Spec

(* No more requests a minute than the rate, no delay beyond its ceiling,    *)
(* and nothing sent while extraction is paused: a call that waited for its  *)
(* slot when the pause began is stopped (waitForRateSlot, pauseExtraction,  *)
(* assertExtractionAvailable), for any rate, backoff and number of callers. *)
THEOREM SentWhenAllowed == Spec => SendsWhenAllowed
<1>1. AccountsInv /\ SlotsInv /\ LimitsOK => TypeOK /\ RateKept
    <2> SUFFICES ASSUME AccountsInv, SlotsInv, LimitsOK PROVE TypeOK /\ RateKept
        OBVIOUS
    <2>1. TypeOK
        BY DEF TypeOK, AccountsInv, SlotsInv, LimitsOK, Age
    <2>2. slots \in Seq(Age) /\ sent \in Seq(0 .. Window - 1) /\ Len(slots) <= Rate /\ Len(sent) <= Len(slots)
        BY DEF SlotsInv, Covers
    <2>3. Len(slots) \in Nat /\ Len(sent) \in Nat
        BY <2>2, LenProperties
    <2> QED BY <2>1, <2>2, <2>3, BudgetAssumption DEF RateKept
<1>2. AccountsInv /\ LimitsOK /\ [Next]_vars
        => [Quiet /\ ServiceState.left # 0
              => /\ Quiet'
                 /\ Resume \/ key' # key \/ ServiceState'.left \in {pause.left, Less(pause.left)}]_vars
    BY StepPaused DEF AccountsInv
<1>3. Spec => PauseKept
    BY <1>2, AccountsAlways, SlotsAlways, PTL DEF Spec, PauseKept
<1> QED BY <1>1, <1>3, AccountsAlways, SlotsAlways, PTL DEF SendsWhenAllowed

-----------------------------------------------------------------------------
(*************************** The Geocoder ****************************)

(* The lists of candidates. *)

(* Where the results that a candidate lets pass must lie. *)
Anchors(a, c) ==
    /\ c.anyPostcode => /\ a.street /\ a.postcode = "placeholder"
                        /\ c.kind = "street_postcode_mismatch" /\ c.requireCity
    /\ a.bare => c.kind = "street" /\ (a.city => c.requireCity)

CandidateOf(a) ==
    {c \in [kind : {"street", "freeform", "postcode", "street_postcode_mismatch"},
            text : Texts, postcode : BOOLEAN, requireCity : BOOLEAN, anyPostcode : BOOLEAN] :
        Anchors(a, c)}

LEMMA AllCandidatesAnchor ==
    ASSUME NEW a \in Address
    PROVE  /\ AllCandidates(a) \in Seq(CandidateOf(a))
           /\ Len(AllCandidates(a)) \in 1 .. 4
<1> DEFINE coded == a.postcode # "none"
           c1 == Candidate(IF a.street THEN "street" ELSE "freeform",
                           IF a.bare /\ a.city THEN "with city" ELSE "as given",
                           coded, a.bare /\ a.city, FALSE)
           c2 == Candidate("street", IF a.full THEN "as given" ELSE "with city",
                           TRUE, FALSE, FALSE)
           c3 == Candidate("postcode", "postcode", TRUE, FALSE, FALSE)
           c4 == Candidate("street_postcode_mismatch", "street", FALSE, TRUE, TRUE)
           s1 == <<c1>>
           s2 == IF a.city /\ a.street /\ coded THEN <<c2>> ELSE <<>>
           s3 == IF a.city /\ coded THEN <<c3>> ELSE <<>>
           s4 == IF a.city /\ a.street /\ a.postcode = "placeholder" THEN <<c4>> ELSE <<>>
           C == CandidateOf(a)
<1>1. AllCandidates(a) = s1 \o s2 \o s3 \o s4
  BY DEF AllCandidates
<1>2. /\ a.street \in BOOLEAN /\ a.bare \in BOOLEAN /\ a.city \in BOOLEAN
      /\ a.bare => a.street /\ a.postcode = "none"
  BY AddressAssumption
<1>3. /\ c1 \in C
      /\ a.city /\ a.street /\ coded => c2 \in C
      /\ a.city /\ coded => c3 \in C
      /\ a.city /\ a.street /\ a.postcode = "placeholder" => c4 \in C
  BY <1>2 DEF CandidateOf, Candidate, Texts, Anchors
<1> HIDE DEF c1, c2, c3, c4, C
<1>4. /\ s1 \in Seq(C) /\ Len(s1) = 1
      /\ s2 \in Seq(C) /\ Len(s2) \in {0, 1}
      /\ s3 \in Seq(C) /\ Len(s3) \in {0, 1}
      /\ s4 \in Seq(C) /\ Len(s4) \in {0, 1}
  BY <1>3
<1> HIDE DEF s1, s2, s3, s4
<1>5. s1 \o s2 \o s3 \o s4 \in Seq(C) /\ Len(s1 \o s2 \o s3 \o s4) \in 1 .. 4
  <2>1. /\ s1 \o s2 \in Seq(C)
        /\ Len(s1 \o s2) = Len(s1) + Len(s2)
    BY <1>4, ConcatProperties
  <2>2. /\ s1 \o s2 \o s3 \in Seq(C)
        /\ Len(s1 \o s2 \o s3) = Len(s1 \o s2) + Len(s3)
    BY <1>4, <2>1, ConcatProperties
  <2>3. /\ s1 \o s2 \o s3 \o s4 \in Seq(C)
        /\ Len(s1 \o s2 \o s3 \o s4) = Len(s1 \o s2 \o s3) + Len(s4)
    BY <1>4, <2>2, ConcatProperties
  <2>4. Len(s1 \o s2 \o s3 \o s4) = 1 + Len(s2) + Len(s3) + Len(s4)
    BY <1>4, <2>1, <2>2, <2>3
  <2>5. \A i, j, k \in {0, 1} : 1 + i + j + k \in 1 .. 4
    OBVIOUS
  <2> QED
    BY <1>4, <2>3, <2>4, <2>5
<1> QED
  BY <1>1, <1>5 DEF C

LEMMA CandidatesAnchor ==
    ASSUME NEW a \in Address
    PROVE  /\ Candidates(a) \in Seq(CandidateOf(a))
           /\ Len(Candidates(a)) \in 1 .. 4
<1> DEFINE all == AllCandidates(a)
           C == CandidateOf(a)
<1>1. all \in Seq(C) /\ Len(all) \in 1 .. 4
  BY AllCandidatesAnchor
<1> HIDE DEF all, C
<1>2. ASSUME Len(all) > 1
      PROVE  RemoveAt(all, 2) \in Seq(C) /\ Len(RemoveAt(all, 2)) \in 1 .. 4
  <2>1. RemoveAt(all, 2) = SubSeq(all, 1, 1) \o SubSeq(all, 3, Len(all))
    BY DEF RemoveAt
  <2>2. \A i \in 1 .. Len(all) : all[i] \in C
    BY <1>1
  <2>3. (\A i \in 1 .. 1 : i \in 1 .. Len(all)) /\ (\A i \in 3 .. Len(all) : i \in 1 .. Len(all))
    BY <1>1, <1>2
  <2>4. SubSeq(all, 1, 1) \in Seq(C) /\ Len(SubSeq(all, 1, 1)) = 1
    BY <2>2, <2>3, SubSeqProperties
  <2>5. SubSeq(all, 3, Len(all)) \in Seq(C) /\ Len(SubSeq(all, 3, Len(all))) = Len(all) - 2
    BY <1>1, <1>2, <2>2, <2>3, SubSeqProperties
  <2>6. /\ SubSeq(all, 1, 1) \o SubSeq(all, 3, Len(all)) \in Seq(C)
        /\ Len(SubSeq(all, 1, 1) \o SubSeq(all, 3, Len(all))) =
             Len(SubSeq(all, 1, 1)) + Len(SubSeq(all, 3, Len(all)))
    BY <2>4, <2>5, ConcatProperties
  <2>7. RemoveAt(all, 2) \in Seq(C) /\ Len(RemoveAt(all, 2)) = Len(all) - 1
    BY <1>1, <2>1, <2>4, <2>5, <2>6
  <2>8. Len(all) - 1 \in 1 .. 4
    <3>1. \A n \in 1 .. 4 : n > 1 => n - 1 \in 1 .. 4
      OBVIOUS
    <3> QED
      BY <1>1, <1>2, <3>1
  <2> QED
    BY <2>7, <2>8
<1> QED
  BY <1>1, <1>2 DEF Candidates, all, C

-----------------------------------------------------------------------------
(* The cache. *)

LEMMA AccuracyIsKnown ==
    ASSUME NEW r, NEW c, NEW a
    PROVE  AccuracyFor(r, c, a) \in Accuracy
BY DEF AccuracyFor, Accuracy

LEMMA LocatedIsRow ==
    ASSUME NEW r, NEW c, NEW a
    PROVE  Located(r, c, a) \in Row /\ Located(r, c, a) # Failed
<1>1. Located(r, c, a).status = "ok"
  BY DEF Located
<1>2. Located(r, c, a) \in [status : {"ok"}, fresh : BOOLEAN, accuracy : Accuracy, of : SUBSET Facts]
  <2> DEFINE of == {f \in Facts : \/ f = "germany" /\ r.germany
                                  \/ f = "postcode" /\ r.postcode \in {"same", "mentioned"}
                                  \/ f = "street" /\ a.street /\ r.route = "street"
                                  \/ f = "city" /\ r.city}
  <2>1. of \in SUBSET Facts
    OBVIOUS
  <2>2. Located(r, c, a) = [status |-> "ok", fresh |-> TRUE,
                            accuracy |-> AccuracyFor(r, c, a), of |-> of]
    BY DEF Located
  <2> HIDE DEF of
  <2> QED
    BY <2>1, <2>2, AccuracyIsKnown
<1> QED
  BY <1>1, <1>2 DEF Row, Failed

LEMMA FailedIsRow == Failed \in Row /\ Failed.status = "failed"
BY DEF Failed, Row

(* An address's rows are anchored as its candidates are. *)
AnchoredRow(a, row) ==
    row.status = "ok" =>
      /\ "germany" \in row.of
      /\ a.postcode = "real" => "postcode" \in row.of
      /\ a.postcode = "placeholder" =>
            "postcode" \in row.of \/ {"street", "city"} \subseteq row.of
      /\ a.bare => "street" \in row.of /\ (a.city => "city" \in row.of)

(* Spellings of an address share all but the spelling. *)
LEMMA SpellingsAgree ==
    ASSUME NEW a \in Address, NEW b \in Address, b.key = a.key
    PROVE  /\ b.street = a.street /\ b.postcode = a.postcode /\ b.bare = a.bare
           /\ b.city = a.city /\ (b.spelling = a.spelling => b = a)
<1>1. [b EXCEPT !.spelling = a.spelling] = a
  BY AddressAssumption
<1>2. DOMAIN b = {"key", "spelling", "street", "postcode", "bare", "full", "city"}
  BY AddressAssumption
<1>3. /\ [b EXCEPT !.spelling = a.spelling].street = b.street
      /\ [b EXCEPT !.spelling = a.spelling].postcode = b.postcode
      /\ [b EXCEPT !.spelling = a.spelling].bare = b.bare
      /\ [b EXCEPT !.spelling = a.spelling].city = b.city
  BY <1>2
<1>4. b.spelling = a.spelling => [b EXCEPT !.spelling = a.spelling] = b
  BY AddressAssumption
<1> QED
  BY <1>1, <1>3, <1>4

(* What is accepted lies where its candidate says. *)
LEMMA AcceptedIsAnchored ==
    ASSUME NEW a \in Address, NEW i \in 1 .. Len(Candidates(a)), NEW r,
           Accepts(r, Candidates(a)[i], a)
    PROVE  \A b \in Address : b.key = a.key => AnchoredRow(b, Located(r, Candidates(a)[i], a))
<1> DEFINE c == Candidates(a)[i]
           row == Located(r, c, a)
<1>1. c \in CandidateOf(a)
  BY CandidatesAnchor
<1>2. /\ Anchors(a, c) /\ c.kind \in {"street", "freeform", "postcode", "street_postcode_mismatch"}
      /\ c.requireCity \in BOOLEAN /\ c.anyPostcode \in BOOLEAN
  BY <1>1 DEF CandidateOf
<1> HIDE DEF c
<1>3. row.of = {f \in Facts : \/ f = "germany" /\ r.germany
                              \/ f = "postcode" /\ r.postcode \in {"same", "mentioned"}
                              \/ f = "street" /\ a.street /\ r.route = "street"
                              \/ f = "city" /\ r.city}
  BY DEF Located
<1>4. /\ r.germany
      /\ PostcodeFits(r, c, a)
      /\ (c.kind \in {"street", "street_postcode_mismatch"} /\ a.street) => r.route = "street"
      /\ c.requireCity => r.city
  BY DEF Accepts, c
<1>5. a.bare => a.street
  BY AddressAssumption
<1>6. AnchoredRow(a, row)
  <2>1. "germany" \in row.of
    BY <1>3, <1>4 DEF Facts
  <2>2. c.anyPostcode => a.postcode = "placeholder" /\ {"street", "city"} \subseteq row.of
    BY <1>2, <1>3, <1>4 DEF Anchors, Facts
  <2>3. a.postcode \in {"real", "placeholder"} /\ ~c.anyPostcode => "postcode" \in row.of
    BY <1>3, <1>4 DEF PostcodeFits, Facts
  <2>4. a.bare => "street" \in row.of /\ (a.city => "city" \in row.of)
    BY <1>2, <1>3, <1>4, <1>5 DEF Anchors, Facts
  <2> HIDE DEF row
  <2> QED
    BY <2>1, <2>2, <2>3, <2>4 DEF AnchoredRow
<1> HIDE DEF row
<1>7. ASSUME NEW b \in Address, b.key = a.key
      PROVE  AnchoredRow(b, row)
  BY <1>6, <1>7, SpellingsAgree DEF AnchoredRow
<1> QED
  BY <1>7 DEF row, c

-----------------------------------------------------------------------------
(* The progress: all before the place that is kept was refused, and where   *)
(* the key has one spelling nothing else was.                               *)
PlaceIsKept ==
    /\ attempt # None => attempt.at = Start(attempt.of)
    /\ \A a \in Address : \A i \in 1 .. Start(a) - 1 : <<a.spelling, i>> \in refused[a.key]
    /\ \A a \in Address : OneSpelling(a) => \A e \in refused[a.key] : e[2] < Start(a)

GInv == GTypeOK /\ CachedIsAnchored /\ PlaceIsKept

LEMMA StartsInRange ==
    ASSUME GTypeOK, NEW a \in Address
    PROVE  /\ a.key \in Key /\ a.spelling \in Spelling
           /\ Start(a) \in 1 .. 5
           /\ Len(Candidates(a)) \in 1 .. 4
<1>1. a.key \in Key /\ a.spelling \in Spelling
  BY DEF Key, Spelling
<1>2. progress[a.key] \in {None} \cup Progress
  BY <1>1 DEF GTypeOK
<1>3. Start(a) \in 1 .. 5
  BY <1>2 DEF Start, Progress
<1> QED
  BY <1>1, <1>3, CandidatesAnchor

LEMMA GInvInit == GInit => GInv
<1> SUFFICES ASSUME GInit PROVE GInv
  OBVIOUS
<1>1. GTypeOK
  BY DEF GInit, GTypeOK
<1>2. \A a \in Address : a.key \in Key
  BY DEF Key
<1>3. CachedIsAnchored
  BY <1>2 DEF GInit, CachedIsAnchored
<1>4. \A a \in Address : Start(a) = 1 /\ refused[a.key] = {}
  BY <1>2 DEF GInit, Start
<1>5. \A i \in 1 .. 1 - 1 : FALSE
  OBVIOUS
<1>6. PlaceIsKept
  BY <1>4, <1>5 DEF GInit, PlaceIsKept
<1> QED
  BY <1>1, <1>3, <1>6 DEF GInv

(* A round is over. *)
LEMMA ConcludesKeeps ==
    ASSUME GInv, NEW a \in Address, NEW row \in {None} \cup Row, Concludes(a.key, row),
           row # None => \A b \in Address : b.key = a.key => AnchoredRow(b, row),
           attempt' = None, paused' \in BOOLEAN
    PROVE  GInv'
<1>1. a.key \in Key
  BY StartsInRange DEF GInv
<1>2. /\ cache' = [cache EXCEPT ![a.key] = row]
      /\ progress' = [progress EXCEPT ![a.key] = None]
      /\ refused' = [refused EXCEPT ![a.key] = {}]
  BY DEF Concludes
<1>3. GTypeOK'
  BY <1>1, <1>2 DEF GInv, GTypeOK
<1>4. CachedIsAnchored'
  <2> SUFFICES ASSUME NEW b \in Address, cache'[b.key] # None, cache'[b.key].status = "ok"
               PROVE  AnchoredRow(b, cache'[b.key])
    BY DEF CachedIsAnchored, AnchoredRow
  <2>1. b.key \in Key
    BY DEF Key
  <2>2. CASE b.key = a.key
    BY <1>1, <1>2, <2>1, <2>2 DEF GInv, GTypeOK
  <2>3. CASE b.key # a.key
    <3>1. cache'[b.key] = cache[b.key]
      BY <1>2, <2>1, <2>3 DEF GInv, GTypeOK
    <3> QED
      BY <3>1 DEF GInv, CachedIsAnchored, AnchoredRow
  <2> QED
    BY <2>2, <2>3
<1>5. PlaceIsKept'
  <2>1. \A b \in Address : /\ b.key = a.key => Start(b)' = 1 /\ refused'[b.key] = {}
                           /\ b.key # a.key => /\ Start(b)' = Start(b)
                                               /\ refused'[b.key] = refused[b.key]
    BY <1>1, <1>2, StartsInRange DEF GInv, GTypeOK, Start
  <2>2. \A i \in 1 .. 1 - 1 : FALSE
    OBVIOUS
  <2>3. \A b \in Address : \A i \in 1 .. Start(b)' - 1 : <<b.spelling, i>> \in refused'[b.key]
    BY <2>1, <2>2 DEF GInv, PlaceIsKept
  <2>4. \A b \in Address : OneSpelling(b) => \A e \in refused'[b.key] : e[2] < Start(b)'
    BY <2>1 DEF GInv, PlaceIsKept
  <2>5. (attempt # None => attempt.at = Start(attempt.of))'
    OBVIOUS
  <2> QED
    BY <2>3, <2>4, <2>5 DEF PlaceIsKept, OneSpelling
<1> QED
  BY <1>3, <1>4, <1>5 DEF GInv

(* A candidate is refused and the place after it saved. *)
LEMMA SavedKeeps ==
    ASSUME GInv, NEW a \in Address, attempt # None, attempt.of = a,
           progress' = Saved(a, attempt.at),
           refused' = [refused EXCEPT ![a.key] = @ \cup {<<a.spelling, attempt.at>>}],
           UNCHANGED <<cache, paused>>,
           \/ attempt' = None
           \/ attempt.at < Len(Candidates(a)) /\ attempt' = [attempt EXCEPT !.at = @ + 1]
    PROVE  GInv'
<1> DEFINE n == attempt.at
<1>1. /\ a.key \in Key /\ a.spelling \in Spelling /\ Len(Candidates(a)) \in 1 .. 4
      /\ n \in 1 .. 4 /\ n <= Len(Candidates(a)) /\ n = Start(a) /\ n + 1 \in 1 .. 5
  <2>1. n \in 1 .. 4
    BY DEF GInv, GTypeOK, Attempt
  <2>2. \A m \in 1 .. 4 : m + 1 \in 1 .. 5
    OBVIOUS
  <2> QED
    BY <2>1, <2>2, StartsInRange DEF GInv, GTypeOK, PlaceIsKept
<1>2. progress' = [progress EXCEPT ![a.key] = [spelling |-> a.spelling, next |-> n + 1]]
  BY DEF Saved
<1>3. attempt' # None => attempt' = [of |-> a, at |-> n + 1] /\ n < Len(Candidates(a))
  BY DEF GInv, GTypeOK, Attempt
<1> HIDE DEF n
<1>4. GTypeOK'
  <2>1. [spelling |-> a.spelling, next |-> n + 1] \in Progress
    BY <1>1 DEF Progress
  <2>2. progress' \in [Key -> {None} \cup Progress]
    BY <1>1, <1>2, <2>1 DEF GInv, GTypeOK
  <2>3. refused' \in [Key -> SUBSET (Spelling \X (1 .. 4))]
    BY <1>1 DEF GInv, GTypeOK, n
  <2>4. ASSUME attempt' # None
        PROVE  attempt' \in Attempt /\ attempt'.at <= Len(Candidates(attempt'.of))
    <3>1. \A m \in 1 .. 4, k \in 1 .. 4 : m < k => m + 1 \in 1 .. 4 /\ m + 1 <= k
      OBVIOUS
    <3>2. n + 1 \in 1 .. 4 /\ n + 1 <= Len(Candidates(a))
      BY <1>1, <1>3, <2>4, <3>1
    <3>3. attempt' = [of |-> a, at |-> n + 1]
      BY <1>3, <2>4
    <3>4. attempt' \in Attempt
      BY <3>2, <3>3 DEF Attempt
    <3>5. attempt'.of = a /\ attempt'.at = n + 1
      BY <3>3
    <3> QED
      BY <3>2, <3>4, <3>5
  <2> QED
    BY <2>2, <2>3, <2>4 DEF GInv, GTypeOK
<1>5. CachedIsAnchored'
  BY DEF GInv, CachedIsAnchored
<1>6. Start(a)' = n + 1
  <2>1. progress'[a.key] = [spelling |-> a.spelling, next |-> n + 1]
    BY <1>1, <1>2 DEF GInv, GTypeOK
  <2>2. [spelling |-> a.spelling, next |-> n + 1] # None
    BY <1>1, NoneAssumption DEF Progress
  <2> QED
    BY <2>1, <2>2 DEF Start
<1>7. ASSUME NEW b \in Address, b # a
      PROVE  /\ b.key = a.key => Start(b)' = 1
             /\ b.key # a.key => Start(b)' = Start(b) /\ refused'[b.key] = refused[b.key]
             /\ refused[b.key] \subseteq refused'[b.key]
  <2>1. b.key \in Key /\ (b.key = a.key => b.spelling # a.spelling)
    BY <1>7, SpellingsAgree DEF Key
  <2> QED
    BY <1>1, <1>2, <2>1 DEF GInv, GTypeOK, Start
<1>8. PlaceIsKept'
  <2>1. \A b \in Address : \A i \in 1 .. Start(b)' - 1 : <<b.spelling, i>> \in refused'[b.key]
    <3> SUFFICES ASSUME NEW b \in Address, NEW i \in 1 .. Start(b)' - 1
                 PROVE  <<b.spelling, i>> \in refused'[b.key]
      OBVIOUS
    <3>1. CASE b = a
      <4>1. i = n \/ i \in 1 .. n - 1
        BY <1>1, <1>6, <3>1
      <4> QED
        BY <1>1, <3>1, <4>1 DEF GInv, GTypeOK, PlaceIsKept, n
    <3>2. CASE b # a
      <4>1. \A j \in 1 .. 1 - 1 : FALSE
        OBVIOUS
      <4> QED
        BY <1>7, <3>2, <4>1 DEF GInv, PlaceIsKept
    <3> QED
      BY <3>1, <3>2
  <2>2. \A b \in Address : OneSpelling(b) => \A e \in refused'[b.key] : e[2] < Start(b)'
    <3> SUFFICES ASSUME NEW b \in Address, OneSpelling(b), NEW e \in refused'[b.key]
                 PROVE  e[2] < Start(b)'
      OBVIOUS
    <3>1. CASE b = a
      <4>1. e \in refused[a.key] \/ e = <<a.spelling, n>>
        BY <1>1, <3>1 DEF GInv, GTypeOK, n
      <4>2. e \in refused[a.key] => e[2] < n /\ e[2] \in 1 .. 4
        BY <1>1, <3>1 DEF GInv, GTypeOK, PlaceIsKept
      <4> QED
        BY <1>1, <1>6, <3>1, <4>1, <4>2
    <3>2. CASE b # a
      <4>1. b.key # a.key
        BY <3>2 DEF OneSpelling
      <4> QED
        BY <1>7, <3>2, <4>1 DEF GInv, PlaceIsKept
    <3> QED
      BY <3>1, <3>2
  <2>3. (attempt # None => attempt.at = Start(attempt.of))'
    BY <1>3, <1>6
  <2> QED
    BY <2>1, <2>2, <2>3 DEF PlaceIsKept, OneSpelling
<1> QED
  BY <1>4, <1>5, <1>8 DEF GInv

LEMMA GInvStep == GInv /\ [GNext]_gvars => GInv'
<1> SUFFICES ASSUME GInv, [GNext]_gvars PROVE GInv'
  OBVIOUS
<1>1. ASSUME NEW a \in Address, Begins(a)
      PROVE  GInv'
  <2>1. CASE Concludes(a.key, Failed) /\ UNCHANGED attempt
    <3>1. attempt' = None /\ paused' \in BOOLEAN
      BY <1>1, <2>1 DEF Begins, GInv, GTypeOK
    <3>2. \A b \in Address : AnchoredRow(b, Failed)
      BY FailedIsRow DEF AnchoredRow
    <3> QED
      BY <2>1, <3>1, <3>2, FailedIsRow, ConcludesKeeps
  <2>2. CASE /\ Start(a) <= Len(Candidates(a))
             /\ attempt' = [of |-> a, at |-> Start(a)]
             /\ UNCHANGED <<cache, progress, refused>>
    <3>1. Start(a) \in 1 .. 4
      <4>1. \A m \in 1 .. 5, k \in 1 .. 4 : m <= k => m \in 1 .. 4
        OBVIOUS
      <4> QED
        BY <2>2, <4>1, StartsInRange DEF GInv
    <3>2. attempt' \in Attempt /\ attempt'.at = Start(a) /\ attempt'.of = a
      BY <2>2, <3>1 DEF Attempt
    <3>3. UNCHANGED <<cache, progress, refused, paused>>
      BY <1>1, <2>2 DEF Begins
    <3>4. GTypeOK'
      BY <2>2, <3>2, <3>3 DEF GInv, GTypeOK
    <3>5. (attempt.at = Start(attempt.of))'
      BY <3>2, <3>3 DEF Start
    <3>6. PlaceIsKept'
      BY <3>3, <3>5 DEF GInv, PlaceIsKept, Start, OneSpelling
    <3> QED
      BY <3>3, <3>4, <3>6 DEF GInv, CachedIsAnchored
  <2> QED
    BY <1>1, <2>1, <2>2 DEF Begins
<1>2. ASSUME NEW a \in Address, Finds(a)
      PROVE  GInv'
  <2>1. /\ attempt # None /\ attempt.of = a /\ attempt' = None /\ paused' \in BOOLEAN
        /\ attempt.at \in 1 .. Len(Candidates(a))
    BY <1>2, CandidatesAnchor DEF Finds, GInv, GTypeOK, Attempt
  <2>2. PICK r \in Results : /\ Accepts(r, Asked, a)
                             /\ Concludes(a.key, Located(r, Asked, a))
    BY <1>2 DEF Finds
  <2>3. Asked = Candidates(a)[attempt.at]
    BY <2>1 DEF Asked
  <2> QED
    BY <2>1, <2>2, <2>3, LocatedIsRow, AcceptedIsAnchored, ConcludesKeeps
<1>3. ASSUME NEW a \in Address, Refuses(a)
      PROVE  GInv'
  <2>1. CASE Concludes(a.key, Failed) /\ attempt' = None
    <3>1. \A b \in Address : AnchoredRow(b, Failed)
      BY FailedIsRow DEF AnchoredRow
    <3>2. paused' \in BOOLEAN
      BY <1>3 DEF Refuses, GInv, GTypeOK
    <3> QED
      BY <2>1, <3>1, <3>2, FailedIsRow, ConcludesKeeps
  <2>2. CASE attempt.at < Len(Candidates(a)) /\ progress' = Saved(a, attempt.at)
    BY <1>3, <2>2, SavedKeeps DEF Refuses
  <2> QED
    BY <1>3, <2>1, <2>2 DEF Refuses
<1>4. ASSUME NEW a \in Address, DiesAfterRefusal(a)
      PROVE  GInv'
  BY <1>4, SavedKeeps DEF DiesAfterRefusal
<1>5. ASSUME NEW a \in Address, LosesRound(a)
      PROVE  GInv'
  <2>1. a.key \in Key
    BY DEF Key
  <2>2. /\ cache[a.key] \in {None} \cup Row
        /\ attempt' = None /\ paused' \in BOOLEAN /\ Concludes(a.key, cache[a.key])
    BY <1>5, <2>1 DEF LosesRound, GInv, GTypeOK
  <2>3. cache[a.key] # None => \A b \in Address : b.key = a.key => AnchoredRow(b, cache[a.key])
    BY DEF GInv, CachedIsAnchored, AnchoredRow
  <2> QED
    BY <2>2, <2>3, ConcludesKeeps
<1>6. ASSUME attempt' = None, paused' \in BOOLEAN, UNCHANGED <<cache, progress, refused>>
      PROVE  GInv'
  BY <1>6 DEF GInv, GTypeOK, CachedIsAnchored, PlaceIsKept, Start, OneSpelling
<1>7. CASE GeocoderPauses
  BY <1>6, <1>7 DEF GeocoderPauses
<1>8. CASE CutOff
  BY <1>6, <1>8 DEF CutOff, GInv, GTypeOK
<1>9. CASE PauseEnds
  BY <1>9 DEF PauseEnds, GInv, GTypeOK, CachedIsAnchored, PlaceIsKept, Start, OneSpelling
<1>10. ASSUME NEW k \in Key, Expires(k)
       PROVE  GInv'
  <2>1. /\ cache[k] \in Row /\ cache' = [cache EXCEPT ![k] = [cache[k] EXCEPT !.fresh = FALSE]]
        /\ UNCHANGED <<progress, paused, attempt, refused>>
    BY <1>10 DEF Expires, Usable, GInv, GTypeOK
  <2> DEFINE row == [cache[k] EXCEPT !.fresh = FALSE]
  <2>2. row \in Row
    BY <2>1 DEF Row
  <2>3. cache[k] # None /\ row.status = cache[k].status
    BY <2>1, <1>10 DEF Expires, Usable, Row
  <2>4. row.status = "ok" => row.of = cache[k].of
    BY <2>1 DEF Row
  <2>5. cache' = [cache EXCEPT ![k] = row]
    BY <2>1
  <2> HIDE DEF row
  <2>6. GTypeOK'
    BY <2>1, <2>2, <2>5 DEF GInv, GTypeOK
  <2>7. CachedIsAnchored'
    <3> SUFFICES ASSUME NEW b \in Address, cache'[b.key] # None
                 PROVE  AnchoredRow(b, cache'[b.key])
      BY DEF CachedIsAnchored, AnchoredRow
    <3>1. b.key \in Key
      BY DEF Key
    <3>2. cache[b.key] # None => AnchoredRow(b, cache[b.key])
      BY DEF GInv, CachedIsAnchored, AnchoredRow
    <3>3. CASE b.key = k
      <4>1. cache'[b.key] = row
        BY <2>5, <3>1, <3>3 DEF GInv, GTypeOK
      <4> QED
        BY <2>3, <2>4, <3>2, <3>3, <4>1 DEF AnchoredRow
    <3>4. CASE b.key # k
      BY <2>5, <3>1, <3>2, <3>4 DEF GInv, GTypeOK
    <3> QED
      BY <3>3, <3>4
  <2>8. PlaceIsKept'
    BY <2>1 DEF GInv, PlaceIsKept, Start, OneSpelling
  <2> QED
    BY <2>6, <2>7, <2>8 DEF GInv
<1>11. CASE UNCHANGED gvars
  BY <1>11 DEF gvars, GInv, GTypeOK, CachedIsAnchored, PlaceIsKept, Start, OneSpelling
<1> QED
  BY <1>1, <1>2, <1>3, <1>4, <1>5, <1>7, <1>8, <1>9, <1>10, <1>11 DEF GNext, Responds

LEMMA GInvAlways == GSpec => []GInv
BY GInvInit, GInvStep, PTL DEF GSpec

(* What the cache holds is well formed and lies where the addresses say,    *)
(* for any addresses and any results of Google's.                           *)
THEOREM CacheStaysSound == GSpec => []CacheIsSound
<1>1. GInv => CacheIsSound
  BY DEF GInv, CacheIsSound
<1> QED
  BY <1>1, GInvAlways, PTL

(* The two halves of ProgressIsKept, of one step. *)
Exhausted(k) ==
    cache'[k] = Failed /\ cache[k] # Failed
      => \E a \in Address :
           /\ a.key = k
           /\ \A i \in 1 .. Len(Candidates(a)) :
                 \/ <<a.spelling, i>> \in refused[k]
                 \/ attempt = [of |-> a, at |-> i]

AsksAnother ==
    attempt' # attempt /\ attempt' # None /\ OneSpelling(attempt'.of)
      => <<attempt'.of.spelling, attempt'.at>> \notin refused'[attempt'.of.key]

(* A key's row changes only where its round is over. *)
LEMMA OthersUntouched ==
    ASSUME GInv, NEW a \in Address, NEW row, Concludes(a.key, row), NEW k \in Key, k # a.key
    PROVE  cache'[k] = cache[k]
BY DEF Concludes, GInv, GTypeOK

LEMMA ConcludedRow ==
    ASSUME GInv, NEW a \in Address, NEW row, Concludes(a.key, row)
    PROVE  cache'[a.key] = row
BY StartsInRange DEF Concludes, GInv, GTypeOK

LEMMA ExhaustedStep ==
    ASSUME GInv, [GNext]_gvars, NEW k \in Key
    PROVE  Exhausted(k)
<1> SUFFICES ASSUME cache'[k] = Failed, cache[k] # Failed
             PROVE  \E a \in Address :
                      /\ a.key = k
                      /\ \A i \in 1 .. Len(Candidates(a)) :
                            \/ <<a.spelling, i>> \in refused[k]
                            \/ attempt = [of |-> a, at |-> i]
  BY DEF Exhausted
<1>1. ASSUME NEW a \in Address, Begins(a)
      PROVE  a.key = k /\ \A i \in 1 .. Len(Candidates(a)) : <<a.spelling, i>> \in refused[k]
  <2>1. Start(a) > Len(Candidates(a)) /\ Concludes(a.key, Failed)
    BY <1>1 DEF Begins
  <2>2. a.key = k
    BY <2>1, OthersUntouched
  <2>3. \A i \in 1 .. Len(Candidates(a)) : i \in 1 .. Start(a) - 1
    BY <2>1, StartsInRange DEF GInv
  <2> QED
    BY <2>2, <2>3 DEF GInv, PlaceIsKept
<1>2. ASSUME NEW a \in Address, Finds(a)
      PROVE  FALSE
  <2>1. PICK r \in Results : Concludes(a.key, Located(r, Asked, a))
    BY <1>2 DEF Finds
  <2>2. cache'[k] = cache[k] \/ cache'[k] = Located(r, Asked, a)
    BY <2>1, OthersUntouched, ConcludedRow
  <2> QED
    BY <2>2, LocatedIsRow
<1>3. ASSUME NEW a \in Address, Refuses(a)
      PROVE  /\ a.key = k
             /\ \A i \in 1 .. Len(Candidates(a)) : \/ <<a.spelling, i>> \in refused[k]
                                                   \/ attempt = [of |-> a, at |-> i]
  <2>1. /\ attempt # None /\ attempt.of = a /\ attempt.at = Len(Candidates(a))
        /\ Concludes(a.key, Failed)
    BY <1>3 DEF Refuses
  <2>2. a.key = k
    BY <2>1, OthersUntouched
  <2>3. attempt = [of |-> a, at |-> attempt.at] /\ attempt.at = Start(a) /\ attempt.at \in 1 .. 4
    BY <2>1 DEF GInv, GTypeOK, PlaceIsKept, Attempt
  <2>4. \A i \in 1 .. Len(Candidates(a)) : i = attempt.at \/ i \in 1 .. Start(a) - 1
    BY <2>1, <2>3
  <2> QED
    BY <2>2, <2>3, <2>4 DEF GInv, PlaceIsKept
<1>4. ASSUME NEW a \in Address, LosesRound(a)
      PROVE  FALSE
  BY <1>4, OthersUntouched, ConcludedRow DEF LosesRound
<1>5. ASSUME NEW j \in Key, Expires(j)
      PROVE  FALSE
  <2>1. cache[j] \in Row /\ cache' = [cache EXCEPT ![j] = [cache[j] EXCEPT !.fresh = FALSE]]
    BY <1>5 DEF Expires, Usable, GInv, GTypeOK
  <2>2. [cache[j] EXCEPT !.fresh = FALSE].fresh = FALSE
    BY <2>1 DEF Row
  <2>3. [cache[j] EXCEPT !.fresh = FALSE] # Failed
    BY <2>2 DEF Failed
  <2> QED
    BY <2>1, <2>3 DEF GInv, GTypeOK
<1>6. CASE UNCHANGED cache
  BY <1>6
<1> QED
  BY <1>1, <1>2, <1>3, <1>4, <1>5, <1>6
     DEF GNext, Responds, DiesAfterRefusal, GeocoderPauses, PauseEnds, CutOff, gvars

LEMMA AnotherStep ==
    ASSUME GInv, GInv', [GNext]_gvars
    PROVE  AsksAnother
<1> SUFFICES ASSUME attempt' # attempt, attempt' # None, OneSpelling(attempt'.of)
             PROVE  <<attempt'.of.spelling, attempt'.at>> \notin refused'[attempt'.of.key]
  BY DEF AsksAnother
<1>1. attempt'.of \in Address /\ attempt'.at \in 1 .. 4
  BY DEF GInv, GTypeOK, Attempt
<1>2. /\ attempt'.at = (Start(attempt.of))'
      /\ \A a \in Address : OneSpelling(a) => \A e \in refused'[a.key] : e[2] < (Start(a))'
  BY DEF GInv, PlaceIsKept, OneSpelling
<1> DEFINE b == attempt'.of
           n == attempt'.at
<1>3. \A e \in refused'[b.key] : e[2] < n
  BY <1>1, <1>2 DEF Start
<1>4. <<b.spelling, n>>[2] = n /\ ~(n < n)
  BY <1>1
<1> QED
  BY <1>3, <1>4

(* However attempts are cut off and resumed, an address counts as failed    *)
(* only when every candidate of a spelling of its was answered in vain, and *)
(* no candidate of an address with one spelling is paid for twice in a      *)
(* round (geocodeAddress with geocode_progress).                            *)
THEOREM ProgressStaysKept == GSpec => ProgressIsKept
<1>1. GInv /\ [GNext]_gvars
        => [\A k \in Key :
              cache'[k] = Failed /\ cache[k] # Failed
                => \E a \in Address :
                     /\ a.key = k
                     /\ \A i \in 1 .. Len(Candidates(a)) :
                           \/ <<a.spelling, i>> \in refused[k]
                           \/ attempt = [of |-> a, at |-> i]]_gvars
  BY ExhaustedStep DEF Exhausted
<1>2. GInv /\ GInv' /\ [GNext]_gvars
        => [attempt' # attempt /\ attempt' # None /\ OneSpelling(attempt'.of)
              => <<attempt'.of.spelling, attempt'.at>> \notin refused'[attempt'.of.key]]_gvars
  BY AnotherStep DEF AsksAnother
<1>3. GSpec => FailedIsExhausted
  BY <1>1, GInvAlways, PTL DEF GSpec, FailedIsExhausted
<1>4. GSpec => NotAskedAgain
  BY <1>2, GInvAlways, PTL DEF GSpec, NotAskedAgain
<1> QED
  BY <1>3, <1>4 DEF ProgressIsKept
-----------------------------------------------------------------------------
(**************************** The Outbox *****************************)

(* No request is under way for a delivery that has its receipt. *)
Unsettled == \A t \in sending : t.delivery \notin receipts

LEMMA OutboxTypeInit == OInit => OTypeOK /\ Unsettled
<1> SUFFICES ASSUME OInit PROVE OTypeOK /\ Unsettled
  OBVIOUS
<1>1. Cardinality({}) = 0 /\ 0 \in Nat
  BY FS_EmptySet
<1>2. 0 \in 0 .. MaxPatches /\ 0 \in 0 .. MaxFinalized /\ 0 \in 0 .. MaxFaults
  BY OutboxAssumption
<1>3. /\ tick \subseteq Ticking /\ Cardinality(tick) <= 1
      /\ dispatching \subseteq Dispatching /\ Cardinality(dispatching) <= 1
      /\ sending \subseteq Sending /\ Cardinality(sending) <= 1
  BY <1>1 DEF OInit
<1> QED
  BY <1>1, <1>2, <1>3 DEF OInit, OTypeOK, Unsettled, Open

(* What an enqueueing leaves of the rows. *)
LEMMA EnqueuedRows ==
    ASSUME OTypeOK, NEW D
    PROVE  /\ Enqueued(D) \in [Delivery -> Open \cup {"none", "done", "dead", "cancelled"}]
           /\ \A k \in Delivery :
                 /\ delivery[k] \notin {"none", "cancelled"} => Enqueued(D)[k] = delivery[k]
                 /\ k \in D => k \in receipts \/ Enqueued(D)[k] \notin {"none", "cancelled"}
BY DEF Enqueued, OTypeOK, Open

(* The steps of a tick. *)
LEMMA TickTypeStep ==
    ASSUME OTypeOK, \/ TickReadsPolicy
                    \/ \E t \in tick : TickSelects(t) \/ Reevaluate(t)
    PROVE  OTypeOK'
<1>1. CASE TickReadsPolicy
  <2> DEFINE u == [filters |-> filters, dests |-> dests, selected |-> FALSE, rows |-> {}]
  <2>1. u \in Ticking
    BY DEF OTypeOK, Ticking
  <2>2. tick' = {u}
    BY <1>1 DEF TickReadsPolicy
  <2> HIDE DEF u
  <2>3. Cardinality({u}) = 1
    BY FS_Singleton
  <2>4. tick' \subseteq Ticking /\ Cardinality(tick') <= 1
    BY <2>1, <2>2, <2>3
  <2> QED
    BY <1>1, <2>4 DEF TickReadsPolicy, OTypeOK, policy, listings, decisions
<1>2. ASSUME NEW t \in tick, TickSelects(t)
      PROVE  OTypeOK'
  <2> DEFINE u == [t EXCEPT !.selected = TRUE, !.rows = Batch(t.filters)]
  <2>1. u \in Ticking
    <3>1. t \in Ticking
      BY DEF OTypeOK
    <3>2. Batch(t.filters) \subseteq Listing
      BY DEF Batch, DecidedOtherwise, OTypeOK
    <3> QED
      BY <3>1, <3>2 DEF Ticking
  <2>2. tick' = {u}
    BY <1>2 DEF TickSelects
  <2> HIDE DEF u
  <2>3. Cardinality({u}) = 1
    BY FS_Singleton
  <2>4. tick' \subseteq Ticking /\ Cardinality(tick') <= 1
    BY <2>1, <2>2, <2>3
  <2> QED
    BY <1>2, <2>4 DEF TickSelects, OTypeOK, policy, listings, decisions
<1>3. ASSUME NEW t \in tick, Reevaluate(t)
      PROVE  OTypeOK'
  <2>1. t.filters \in Filters /\ t.dests \subseteq Destination
    BY OutboxAssumption DEF OTypeOK, Ticking
  <2>2. delivery' \in [Delivery -> Open \cup {"none", "done", "dead", "cancelled"}]
    BY <1>3, EnqueuedRows DEF Reevaluate
  <2>3. /\ decided' \in [Listing -> Filters \cup {Unset}]
        /\ covered' \in [Listing -> SUBSET Destination]
    BY <1>3, <2>1 DEF Reevaluate, OTypeOK
  <2> QED
    BY <1>3, <2>2, <2>3, FS_EmptySet DEF Reevaluate, OTypeOK, policy, listings
<1> QED
  BY <1>1, <1>2, <1>3

(* The steps of a dispatch, up to the first request. *)
LEMMA DispatchTypeStep ==
    ASSUME OTypeOK, Unsettled,
           \/ \E k \in Delivery : Dispatch(k)
           \/ \E x \in dispatching : Skips(x) \/ Judges(x) \/ Cancels(x)
    PROVE  OTypeOK' /\ Unsettled'
<1>1. ASSUME NEW k \in Delivery, Dispatch(k)
      PROVE  OTypeOK' /\ Unsettled'
  <2> DEFINE u == [delivery |-> k, filters |-> filters, dests |-> dests, rejected |-> FALSE]
  <2>1. u \in Dispatching
    BY DEF OTypeOK, Dispatching
  <2>2. dispatching' = {u}
    BY <1>1 DEF Dispatch
  <2> HIDE DEF u
  <2>3. dispatching' \subseteq Dispatching /\ Cardinality(dispatching') <= 1
    BY <2>1, <2>2, FS_Singleton
  <2>4. delivery' \in [Delivery -> Open \cup {"none", "done", "dead", "cancelled"}]
    BY <1>1 DEF Dispatch, Becomes, OTypeOK, Open
  <2> QED
    BY <1>1, <2>3, <2>4 DEF Dispatch, OTypeOK, Unsettled, policy, listings, decisions
<1>2. ASSUME NEW x \in dispatching, Skips(x) \/ Cancels(x)
      PROVE  OTypeOK' /\ Unsettled'
  <2>1. x.delivery \in Delivery
    BY DEF OTypeOK, Dispatching
  <2>2. delivery' \in [Delivery -> Open \cup {"none", "done", "dead", "cancelled"}]
    BY <1>2, <2>1 DEF Skips, Cancels, Becomes, OTypeOK, Open
  <2>3. Cardinality({}) = 0
    BY FS_EmptySet
  <2>4. /\ dispatching' = {}
        /\ UNCHANGED <<filters, dests, patches, facts, known, finalized, decided, covered,
                       receipts, messages, tick, sending, faults>>
    BY <1>2 DEF Skips, Cancels, policy, listings, decisions
  <2> QED
    BY <2>2, <2>3, <2>4 DEF OTypeOK, Unsettled
<1>3. ASSUME NEW x \in dispatching, Judges(x)
      PROVE  OTypeOK' /\ Unsettled'
  <2>1. x \in Dispatching /\ x.delivery \in Delivery /\ x.filters \in Filters
        /\ x.delivery[1] \in Listing /\ x.delivery[2] \in Destination
    BY DEF OTypeOK, Dispatching, Delivery
  <2>2. decided' \in [Listing -> Filters \cup {Unset}]
    BY <1>3, <2>1 DEF Judges, OTypeOK
  <2>3. covered' \in [Listing -> SUBSET Destination]
    BY <1>3, <2>1 DEF Judges, OTypeOK
  <2>4. UNCHANGED <<filters, dests, patches, facts, known, finalized, delivery, receipts,
                    messages, tick, faults>>
    BY <1>3 DEF Judges, policy, listings
  <2>5. CASE x.filters \in facts[x.delivery[1]]
    <3>1. PICK n \in 0 .. Layers :
             sending' = {[delivery |-> x.delivery, layers |-> n, accepted |-> FALSE]}
      BY <1>3, <2>5 DEF Judges
    <3> DEFINE r == [delivery |-> x.delivery, layers |-> n, accepted |-> FALSE]
    <3>2. r \in Sending /\ r.delivery = x.delivery
      BY <2>1 DEF Sending
    <3>3. sending' = {r}
      BY <3>1
    <3> HIDE DEF r
    <3>4. dispatching' = {} /\ x.delivery \notin receipts
      BY <1>3, <2>5 DEF Judges, Settled
    <3>5. sending' \subseteq Sending /\ Cardinality(sending') <= 1
      BY <3>2, <3>3, FS_Singleton
    <3>6. Unsettled'
      BY <2>4, <3>2, <3>3, <3>4 DEF Unsettled
    <3> QED
      BY <2>2, <2>3, <2>4, <3>4, <3>5, <3>6, FS_EmptySet DEF OTypeOK
  <2>6. CASE x.filters \notin facts[x.delivery[1]]
    <3> DEFINE r == [x EXCEPT !.rejected = TRUE]
    <3>1. r \in Dispatching
      BY <2>1 DEF Dispatching
    <3>2. dispatching' = {r} /\ sending' = sending
      BY <1>3, <2>6 DEF Judges
    <3> HIDE DEF r
    <3>3. dispatching' \subseteq Dispatching /\ Cardinality(dispatching') <= 1
      BY <3>1, <3>2, FS_Singleton
    <3> QED
      BY <2>2, <2>3, <2>4, <3>2, <3>3 DEF OTypeOK, Unsettled
  <2> QED
    BY <2>5, <2>6
<1> QED
  BY <1>1, <1>2, <1>3

LEMMA OutboxTypeStep == OTypeOK /\ Unsettled /\ [ONext]_ovars => OTypeOK' /\ Unsettled'
<1> SUFFICES ASSUME OTypeOK, Unsettled, [ONext]_ovars PROVE OTypeOK' /\ Unsettled'
  OBVIOUS
<1>1. ASSUME NEW l \in Listing, NEW F \in SUBSET Filters, Finalize(l, F)
      PROVE  OTypeOK' /\ Unsettled'
  <2>1. finalized' \in 0 .. MaxFinalized
    BY <1>1, OutboxAssumption DEF Finalize, OTypeOK
  <2>2. delivery' \in [Delivery -> Open \cup {"none", "done", "dead", "cancelled"}]
    BY <1>1, EnqueuedRows DEF Finalize, OTypeOK
  <2>3. known' \subseteq Listing /\ facts' \in [Listing -> SUBSET Filters]
        /\ decided' \in [Listing -> Filters \cup {Unset}]
        /\ covered' \in [Listing -> SUBSET Destination]
    BY <1>1, OutboxAssumption DEF Finalize, OTypeOK
  <2> QED
    BY <1>1, <2>1, <2>2, <2>3 DEF Finalize, OTypeOK, Unsettled, policy, stretch
<1>2. ASSUME NEW f \in Filters, NEW D \in DestinationSets, Patch(f, D)
      PROVE  OTypeOK' /\ Unsettled'
  <2>1. patches' \in 0 .. MaxPatches
    BY <1>2, OutboxAssumption DEF Patch, OTypeOK
  <2> QED
    BY <1>2, <2>1 DEF Patch, OTypeOK, Unsettled, listings, stretch
<1>3. ASSUME \/ TickReadsPolicy
             \/ \E t \in tick : TickSelects(t) \/ Reevaluate(t)
      PROVE  OTypeOK' /\ Unsettled'
  BY <1>3, TickTypeStep DEF Unsettled, TickReadsPolicy, TickSelects, Reevaluate
<1>4. ASSUME \/ \E k \in Delivery : Dispatch(k)
             \/ \E x \in dispatching : Skips(x) \/ Judges(x) \/ Cancels(x)
      PROVE  OTypeOK' /\ Unsettled'
  BY <1>4, DispatchTypeStep
<1>5. ASSUME NEW t \in sending, TelegramAccepts(t)
      PROVE  OTypeOK' /\ Unsettled'
  <2>1. t \in Sending /\ [t EXCEPT !.accepted = TRUE] \in Sending
    BY DEF OTypeOK, Sending
  <2>2. messages' \in [Delivery -> Nat]
    BY <1>5, <2>1 DEF TelegramAccepts, OTypeOK, Sending
  <2>3. /\ sending' = {[t EXCEPT !.accepted = TRUE]}
        /\ [t EXCEPT !.accepted = TRUE].delivery = t.delivery
    BY <1>5, <2>1 DEF TelegramAccepts, Sending
  <2> DEFINE u == [t EXCEPT !.accepted = TRUE]
  <2>4. u \in Sending /\ sending' = {u} /\ u.delivery = t.delivery
    BY <2>1, <2>3
  <2> HIDE DEF u
  <2>5. Cardinality({u}) = 1
    BY FS_Singleton
  <2>6. UNCHANGED <<filters, dests, patches, facts, known, finalized, decided, covered,
                    tick, dispatching, delivery,
                    receipts, faults>>
    BY <1>5 DEF TelegramAccepts, policy, listings, decisions, stretch
  <2>7. Unsettled'
    BY <2>4, <2>6 DEF Unsettled
  <2>8. sending' \subseteq Sending /\ Cardinality(sending') <= 1
    BY <2>4, <2>5
  <2> QED
    BY <2>2, <2>6, <2>7, <2>8 DEF OTypeOK
<1>6. ASSUME NEW t \in sending, TelegramResponds(t)
      PROVE  OTypeOK' /\ Unsettled'
  <2>1. t.delivery \in Delivery
    BY DEF OTypeOK, Sending
  <2> QED
    BY <1>6, <2>1, FS_EmptySet
       DEF TelegramResponds, Becomes, OTypeOK, Open, Unsettled, policy, listings, decisions, stretch
<1>7. ASSUME NEW t \in sending, DiesAfterReceipt(t)
      PROVE  OTypeOK' /\ Unsettled'
  <2>1. t.delivery \in Delivery /\ faults' \in 0 .. MaxFaults
    BY <1>7, OutboxAssumption DEF OTypeOK, Sending, DiesAfterReceipt, Fault
  <2> QED
    BY <1>7, <2>1, FS_EmptySet DEF DiesAfterReceipt, OTypeOK, Unsettled, policy, listings, decisions, stretch
<1>8. ASSUME NEW t \in sending, FallsBack(t)
      PROVE  OTypeOK' /\ Unsettled'
  <2> DEFINE u == [t EXCEPT !.layers = @ - 1, !.accepted = FALSE]
  <2>1. t \in Sending
    BY DEF OTypeOK
  <2>2. t.layers - 1 \in 0 .. Layers /\ faults' \in 0 .. MaxFaults
    BY <1>8, <2>1, OutboxAssumption DEF FallsBack, LayersLeft, Fault, OTypeOK, Sending
  <2>3. u \in Sending /\ u.delivery = t.delivery
    BY <2>1, <2>2 DEF Sending
  <2>4. /\ sending' = {u}
        /\ UNCHANGED <<filters, dests, patches, facts, known, finalized, decided, covered,
                       tick, dispatching, delivery, receipts, messages>>
    BY <1>8 DEF FallsBack, policy, listings, decisions, stretch
  <2> HIDE DEF u
  <2>5. Cardinality({u}) = 1
    BY FS_Singleton
  <2> QED
    BY <2>2, <2>3, <2>4, <2>5 DEF OTypeOK, Unsettled
<1>9. ASSUME NEW t \in sending, SendFails(t)
      PROVE  OTypeOK' /\ Unsettled'
  <2>1. t.delivery \in Delivery /\ faults' \in 0 .. MaxFaults
    BY <1>9, OutboxAssumption DEF OTypeOK, Sending, SendFails, Fault
  <2>2. delivery' \in [Delivery -> Open \cup {"none", "done", "dead", "cancelled"}]
    BY <1>9, <2>1 DEF SendFails, Becomes, OTypeOK, Open
  <2> QED
    BY <1>9, <2>1, <2>2, FS_EmptySet DEF SendFails, OTypeOK, Unsettled, policy, listings, decisions, stretch
<1>10. CASE Crash
  <2>1. faults' \in 0 .. MaxFaults
    BY <1>10, OutboxAssumption DEF OTypeOK, Crash, Fault
  <2> QED
    BY <1>10, <2>1, FS_EmptySet DEF Crash, OTypeOK, Unsettled, policy, listings, decisions, stretch
<1>11. CASE UNCHANGED ovars
  BY <1>11 DEF ovars, policy, listings, decisions, stretch, OTypeOK, Unsettled
<1> QED
  BY <1>1, <1>2, <1>3, <1>4, <1>5, <1>6, <1>7, <1>8, <1>9, <1>10, <1>11 DEF ONext

LEMMA OutboxTypeAlways == OSpec => [](OTypeOK /\ Unsettled)
BY OutboxTypeInit, OutboxTypeStep, PTL DEF OSpec

(* No message goes out for a delivery that has its receipt, for any         *)
(* listings, destinations, patches and faults.                              *)
THEOREM NoneAfterReceipt == OSpec => NoMessageAfterReceipt
<1>1. ASSUME OTypeOK, Unsettled, [ONext]_ovars,
             NEW k \in Delivery, messages'[k] > messages[k]
      PROVE  k \notin receipts
  <2>1. messages[k] \in Nat
    BY <1>1 DEF OTypeOK
  <2>2. PICK t \in sending : TelegramAccepts(t)
    <3>1. messages' # messages
      BY <1>1, <2>1
    <3> QED
      BY <1>1, <3>1 DEF ONext, Finalize, Patch, TickReadsPolicy, TickSelects, Reevaluate,
                        Dispatch, Skips, Judges, Cancels, TelegramResponds,
                        DiesAfterReceipt, FallsBack, SendFails, Crash, ovars
  <2>3. t.delivery = k
    <3>1. messages' = [messages EXCEPT ![t.delivery] = @ + 1]
      BY <2>2 DEF TelegramAccepts
    <3> QED
      BY <1>1, <2>1, <3>1 DEF OTypeOK
  <2> QED
    BY <1>1, <2>3 DEF Unsettled
<1>2. OTypeOK /\ Unsettled /\ [ONext]_ovars =>
        [\A k \in Delivery : messages'[k] > messages[k] => k \notin receipts]_ovars
  BY <1>1
<1> QED
  BY <1>2, OutboxTypeAlways, PTL DEF OSpec, NoMessageAfterReceipt

(* What a dispatch under way knows: the policy that it read is the present   *)
(* one or a patch has cleared every decision since, a listing that it       *)
(* rejected is decided so or cleared, and it holds the row.                 *)
DispatchKnows ==
    /\ tick = {} \/ dispatching = {}
    /\ \A x \in dispatching :
          /\ delivery[x.delivery] = "processing"
          /\ IF x.rejected
             THEN /\ x.filters \notin facts[x.delivery[1]]
                  /\ decided[x.delivery[1]] \in {x.filters, Unset}
             ELSE \/ x.filters = filters /\ x.dests = dests
                  \/ \A l \in Listing : decided[l] = Unset

LEMMA KnowsStep ==
    ASSUME OTypeOK, DispatchKnows, [ONext]_ovars
    PROVE  DispatchKnows'
<1>1. ASSUME dispatching' = {}
      PROVE  DispatchKnows'
  BY <1>1 DEF DispatchKnows
<1>2. ASSUME UNCHANGED <<policy, listings, decisions, stretch>>,
             dispatching = {} \/ UNCHANGED delivery
      PROVE  DispatchKnows'
  BY <1>2 DEF DispatchKnows, policy, listings, decisions, stretch
<1>3. ASSUME NEW l \in Listing, NEW F \in SUBSET Filters, Finalize(l, F)
      PROVE  DispatchKnows'
  BY <1>1, <1>3 DEF Finalize, Idle, stretch
<1>4. ASSUME NEW f \in Filters, NEW D \in DestinationSets, Patch(f, D)
      PROVE  DispatchKnows'
  <2>1. /\ UNCHANGED <<tick, dispatching, delivery, facts>>
        /\ \A l \in Listing : decided'[l] = Unset
    BY <1>4 DEF Patch, listings, stretch
  <2>2. \A x \in dispatching : x.delivery[1] \in Listing
    BY DEF OTypeOK, Dispatching, Delivery
  <2> QED
    BY <2>1, <2>2 DEF DispatchKnows
<1>5. ASSUME \/ TickReadsPolicy
             \/ \E t \in tick : TickSelects(t) \/ Reevaluate(t)
      PROVE  DispatchKnows'
  BY <1>1, <1>5 DEF TickReadsPolicy, TickSelects, Reevaluate, Idle, DispatchKnows
<1>6. ASSUME NEW k \in Delivery, Dispatch(k)
      PROVE  DispatchKnows'
  <2> DEFINE u == [delivery |-> k, filters |-> filters, dests |-> dests, rejected |-> FALSE]
  <2>1. /\ tick' = {} /\ dispatching' = {u} /\ UNCHANGED <<filters, dests>>
        /\ delivery' = [delivery EXCEPT ![k] = "processing"]
    BY <1>6 DEF Dispatch, Idle, Becomes, policy
  <2>2. u.delivery = k /\ u.filters = filters /\ u.dests = dests /\ u.rejected = FALSE
    OBVIOUS
  <2>3. delivery'[k] = "processing"
    BY <2>1 DEF OTypeOK
  <2> HIDE DEF u
  <2> QED
    BY <2>1, <2>2, <2>3 DEF DispatchKnows
<1>7. ASSUME NEW x \in dispatching, Skips(x) \/ Cancels(x)
      PROVE  DispatchKnows'
  BY <1>1, <1>7 DEF Skips, Cancels
<1>8. ASSUME NEW x \in dispatching, Judges(x)
      PROVE  DispatchKnows'
  <2>1. x \in Dispatching /\ x.delivery[1] \in Listing
    BY DEF OTypeOK, Dispatching, Delivery
  <2>2. CASE x.filters \in facts[x.delivery[1]]
    BY <1>1, <1>8, <2>2 DEF Judges
  <2>3. CASE x.filters \notin facts[x.delivery[1]]
    <3> DEFINE u == [x EXCEPT !.rejected = TRUE]
    <3>1. u.delivery = x.delivery /\ u.filters = x.filters /\ u.rejected = TRUE
      BY <2>1 DEF Dispatching
    <3>2. /\ dispatching' = {u} /\ UNCHANGED <<tick, delivery, facts>>
          /\ decided'[x.delivery[1]] = x.filters
      BY <1>8, <2>1, <2>3 DEF Judges, listings, OTypeOK
    <3> HIDE DEF u
    <3> QED
      BY <2>3, <3>1, <3>2 DEF DispatchKnows
  <2> QED
    BY <2>2, <2>3
<1>9. ASSUME NEW t \in sending, TelegramAccepts(t)
      PROVE  DispatchKnows'
  BY <1>2, <1>9 DEF TelegramAccepts
<1>10. ASSUME NEW t \in sending,
              TelegramResponds(t) \/ DiesAfterReceipt(t) \/ FallsBack(t) \/ SendFails(t)
       PROVE  DispatchKnows'
  BY <1>1, <1>10 DEF TelegramResponds, DiesAfterReceipt, FallsBack, SendFails, Idle, stretch
<1>11. CASE Crash
  BY <1>1, <1>11 DEF Crash
<1>12. CASE UNCHANGED ovars
  BY <1>2, <1>12 DEF ovars
<1> QED
  BY <1>3, <1>4, <1>5, <1>6, <1>7, <1>8, <1>9, <1>10, <1>11, <1>12 DEF ONext

LEMMA AcceptedStep ==
    ASSUME OTypeOK, DispatchKnows, AcceptedIsQueued, [ONext]_ovars
    PROVE  AcceptedIsQueued'
<1>1. \A l \in Listing, d \in dests : <<l, d>> \in Delivery
  BY OutboxAssumption DEF OTypeOK, Delivery
<1>2. ASSUME NEW l \in Listing, NEW F \in SUBSET Filters, Finalize(l, F)
      PROVE  AcceptedIsQueued'
  <2> SUFFICES ASSUME NEW m \in known', UpToDate(m)', NEW d \in dests' \cap covered'[m]
               PROVE  Queued(m, d)'
    BY DEF AcceptedIsQueued
  <2>1. UNCHANGED <<filters, dests, receipts>> /\ m \in Listing
    BY <1>2 DEF Finalize, policy, OTypeOK
  <2>2. <<m, d>> \in Delivery
    BY <1>1, <2>1
  <2>3. CASE m = l
    <3>1. facts'[l] = F
      BY <1>2 DEF Finalize, OTypeOK
    <3>2. delivery' = Enqueued({l} \X dests)
      BY <1>2, <2>1, <2>3, <3>1 DEF Finalize, UpToDate
    <3> QED
      BY <2>1, <2>2, <2>3, <3>2, EnqueuedRows DEF Queued
  <2>4. CASE m # l
    <3>1. m \in known /\ UpToDate(m) /\ d \in dests \cap covered[m]
      BY <1>2, <2>1, <2>4 DEF Finalize, OTypeOK, UpToDate
    <3>2. Queued(m, d)
      BY <3>1 DEF AcceptedIsQueued
    <3>3. delivery' = delivery \/ delivery' = Enqueued({l} \X dests)
      BY <1>2 DEF Finalize
    <3> QED
      BY <2>1, <2>2, <3>2, <3>3, EnqueuedRows DEF Queued
  <2> QED
    BY <2>3, <2>4
<1>3. ASSUME NEW f \in Filters, NEW D \in DestinationSets, Patch(f, D)
      PROVE  AcceptedIsQueued'
  <2>1. \A l \in known' : decided'[l] # filters'
    BY <1>3, OutboxAssumption DEF Patch, OTypeOK, listings, Unset
  <2> QED
    BY <2>1 DEF AcceptedIsQueued, UpToDate
<1>4. ASSUME NEW t \in tick, Reevaluate(t)
      PROVE  AcceptedIsQueued'
  <2> SUFFICES ASSUME NEW m \in known', UpToDate(m)', NEW d \in dests' \cap covered'[m]
               PROVE  Queued(m, d)'
    BY DEF AcceptedIsQueued
  <2> DEFINE D == {l \in t.rows : t.filters \in facts[l]} \X t.dests
  <2>1. /\ UNCHANGED <<filters, dests, receipts, known, facts>> /\ delivery' = Enqueued(D)
        /\ m \in Listing
    BY <1>4 DEF Reevaluate, policy, listings, OTypeOK
  <2>2. <<m, d>> \in Delivery
    BY <1>1, <2>1
  <2>3. CASE m \in t.rows
    <3>1. decided'[m] = t.filters /\ covered'[m] = t.dests
      BY <1>4, <2>1, <2>3 DEF Reevaluate
    <3>2. <<m, d>> \in D
      BY <2>1, <2>3, <3>1 DEF UpToDate
    <3> HIDE DEF D
    <3> QED
      BY <2>1, <2>2, <3>2, EnqueuedRows DEF Queued
  <2>4. CASE m \notin t.rows
    <3>1. decided'[m] = decided[m] /\ covered'[m] = covered[m]
      BY <1>4, <2>1, <2>4 DEF Reevaluate
    <3>2. Queued(m, d)
      BY <2>1, <3>1 DEF AcceptedIsQueued, UpToDate
    <3> HIDE DEF D
    <3> QED
      BY <2>1, <2>2, <3>2, EnqueuedRows DEF Queued
  <2> QED
    BY <2>3, <2>4
<1>5. ASSUME UNCHANGED <<policy, listings, decisions>>, receipts \subseteq receipts',
             \A k \in Delivery : delivery'[k] \in {delivery[k], "done", "waiting", "dead", "processing"}
      PROVE  AcceptedIsQueued'
  <2> SUFFICES ASSUME NEW m \in known, UpToDate(m), NEW d \in dests \cap covered[m]
               PROVE  Queued(m, d)'
    BY <1>5 DEF AcceptedIsQueued, UpToDate, policy, listings, decisions
  <2>1. <<m, d>> \in Delivery /\ Queued(m, d)
    BY <1>1 DEF AcceptedIsQueued, OTypeOK
  <2> QED
    BY <1>5, <2>1 DEF Queued
<1>6. ASSUME \/ TickReadsPolicy
             \/ \E t \in tick : TickSelects(t)
             \/ \E k \in Delivery : Dispatch(k)
             \/ \E t \in sending : \/ TelegramAccepts(t) \/ TelegramResponds(t)
                                   \/ DiesAfterReceipt(t) \/ FallsBack(t) \/ SendFails(t)
             \/ Crash
      PROVE  AcceptedIsQueued'
  <2>1. UNCHANGED <<policy, listings, decisions>> /\ receipts \subseteq receipts'
    BY <1>6 DEF TickReadsPolicy, TickSelects, Dispatch, TelegramAccepts, TelegramResponds,
                DiesAfterReceipt, FallsBack, SendFails, Crash
  <2>2. \/ delivery' = delivery
        \/ \E k, s : /\ s \in {"done", "waiting", "dead", "processing"}
                     /\ delivery' = [delivery EXCEPT ![k] = s]
    BY <1>6 DEF TickReadsPolicy, TickSelects, Dispatch, TelegramAccepts, TelegramResponds,
                DiesAfterReceipt, FallsBack, SendFails, Crash, Becomes
  <2>3. \A k \in Delivery :
           delivery'[k] \in {delivery[k], "done", "waiting", "dead", "processing"}
    BY <2>2 DEF OTypeOK
  <2> QED
    BY <1>5, <2>1, <2>3
<1>7. ASSUME NEW x \in dispatching, Skips(x)
      PROVE  AcceptedIsQueued'
  <2>1. CASE Settled(x.delivery)
    <3>1. /\ UNCHANGED <<policy, listings, decisions, receipts>>
          /\ delivery' = [delivery EXCEPT ![x.delivery] = "done"]
      BY <1>7, <2>1 DEF Skips, Becomes
    <3> QED
      BY <1>5, <3>1 DEF OTypeOK
  <2>2. CASE ~Settled(x.delivery)
    <3>1. /\ UNCHANGED <<policy, listings, decisions, receipts>>
          /\ delivery' = [delivery EXCEPT ![x.delivery] = "cancelled"]
          /\ x.delivery[2] \notin x.dests /\ ~x.rejected
      BY <1>7, <2>2 DEF Skips, Becomes
    <3> SUFFICES ASSUME NEW m \in known, UpToDate(m), NEW d \in dests \cap covered[m]
                 PROVE  Queued(m, d)'
      BY <3>1 DEF AcceptedIsQueued, UpToDate, policy, listings, decisions
    <3>2. m \in Listing /\ decided[m] # Unset
      BY OutboxAssumption DEF UpToDate, OTypeOK, Unset
    <3>3. x.dests = dests
      BY <3>1, <3>2 DEF DispatchKnows
    <3>4. x.delivery # <<m, d>>
      BY <3>1, <3>3
    <3>5. <<m, d>> \in Delivery /\ Queued(m, d)
      BY <1>1, <3>2 DEF AcceptedIsQueued
    <3> QED
      BY <3>1, <3>4, <3>5 DEF Queued, OTypeOK
  <2> QED
    BY <2>1, <2>2
<1>8. ASSUME NEW x \in dispatching, Judges(x)
      PROVE  AcceptedIsQueued'
  <2> SUFFICES ASSUME NEW m \in known', UpToDate(m)', NEW d \in dests' \cap covered'[m]
               PROVE  Queued(m, d)'
    BY DEF AcceptedIsQueued
  <2>1. /\ UNCHANGED <<filters, dests, receipts, delivery, known, facts>>
        /\ m \in Listing /\ x.delivery \in Delivery
    BY <1>8 DEF Judges, policy, listings, OTypeOK, Dispatching
  <2>2. CASE m # x.delivery[1]
    <3>1. decided'[m] = decided[m] /\ covered'[m] = covered[m]
      BY <1>8, <2>1, <2>2 DEF Judges, OTypeOK
    <3> QED
      BY <2>1, <3>1 DEF AcceptedIsQueued, UpToDate, Queued
  <2>3. CASE m = x.delivery[1] /\ d = x.delivery[2]
    <3>1. <<m, d>> = x.delivery
      BY <2>1, <2>3 DEF Delivery
    <3>2. delivery[<<m, d>>] = "processing"
      BY <3>1 DEF DispatchKnows
    <3> QED
      BY <2>1, <3>2 DEF Queued
  <2>4. CASE m = x.delivery[1] /\ d # x.delivery[2]
    <3>1. /\ decided'[m] = x.filters
          /\ covered'[m] = IF decided[m] = x.filters
                           THEN covered[m] \cup {x.delivery[2]} ELSE {x.delivery[2]}
      BY <1>8, <2>1, <2>4 DEF Judges, OTypeOK
    <3>2. decided[m] = x.filters /\ d \in covered[m]
      BY <2>4, <3>1
    <3> QED
      BY <2>1, <3>1, <3>2 DEF AcceptedIsQueued, UpToDate, Queued
  <2> QED
    BY <2>2, <2>3, <2>4
<1>9. ASSUME NEW x \in dispatching, Cancels(x)
      PROVE  AcceptedIsQueued'
  <2>1. /\ UNCHANGED <<policy, listings, decisions, receipts>>
        /\ delivery' = [delivery EXCEPT ![x.delivery] = "cancelled"]
        /\ x.rejected
    BY <1>9 DEF Cancels, Becomes
  <2> SUFFICES ASSUME NEW m \in known, UpToDate(m), NEW d \in dests \cap covered[m]
               PROVE  Queued(m, d)'
    BY <2>1 DEF AcceptedIsQueued, UpToDate, policy, listings, decisions
  <2>2. m \in Listing /\ decided[m] # Unset
    BY OutboxAssumption DEF UpToDate, OTypeOK, Unset
  <2>3. x.delivery # <<m, d>>
    BY <2>1, <2>2 DEF DispatchKnows, UpToDate
  <2>4. <<m, d>> \in Delivery /\ Queued(m, d)
    BY <1>1, <2>2 DEF AcceptedIsQueued
  <2> QED
    BY <2>1, <2>3, <2>4 DEF Queued, OTypeOK
<1>10. CASE UNCHANGED ovars
  BY <1>5, <1>10 DEF ovars, OTypeOK
<1> QED
  BY <1>2, <1>3, <1>4, <1>6, <1>7, <1>8, <1>9, <1>10 DEF ONext

(* A listing that is decided and accepted has its delivery for what its     *)
(* decisions covered, for any destinations, patches in the middle of ticks  *)
(* and dispatches, failures and crashes.                                    *)
THEOREM OutboxStaysConsistent == OSpec => []OutboxConsistent
<1>1. OInit => DispatchKnows /\ AcceptedIsQueued
  BY DEF OInit, DispatchKnows, AcceptedIsQueued
<1>2. OTypeOK /\ DispatchKnows /\ AcceptedIsQueued /\ [ONext]_ovars
        => (DispatchKnows /\ AcceptedIsQueued)'
  BY KnowsStep, AcceptedStep
<1>3. OTypeOK /\ AcceptedIsQueued => OutboxConsistent
  BY DEF OutboxConsistent
<1> QED
  BY <1>1, <1>2, <1>3, OutboxTypeAlways, PTL DEF OSpec
=============================================================================
