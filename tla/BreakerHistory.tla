---------------------------- MODULE BreakerHistory ----------------------------
(***************************************************************************)
(* CircuitBreaker with the signals themselves, which the decaying scores    *)
(* forget: they observe the breaker and never guide it.                     *)
(***************************************************************************)
EXTENDS CircuitBreaker

VARIABLES failed,   \* failed discoveries since the last that succeeded
          refused   \* refusals since the last success of either scope

hvars == <<vars, failed, refused>>

HInit == /\ Init
         /\ failed = [k \in Key |-> 0]
         /\ refused = [k \in Key |-> 0]

HReports(a, signal) ==
    LET k == a[1] IN
    /\ Reports(a, signal)
    /\ failed' = [failed EXCEPT ![k] =
          IF a[2] = "discovery" /\ signal = "ok" THEN 0
          ELSE IF signal = "failed" THEN Counted(@) ELSE @]
    /\ refused' = [refused EXCEPT ![k] =
          IF signal = "ok" THEN 0 ELSE IF signal = "refused" THEN Counted(@) ELSE @]

HOther == /\ \/ Begin
             \/ \E a \in Asker : EndsUnreported(a)
             \/ Tick
             \/ Crash
          /\ UNCHANGED <<failed, refused>>

HNext == \/ \E a \in Asker : \E signal \in Signal(a[2]) : HReports(a, signal)
         \/ HOther

HSpec == HInit /\ [][HNext]_hvars /\ WF_vars(Tick)

(* "Challenged single requests, with no success between, before a provider  *)
(* is paused": a pause begins, or is prolonged, only when so many requests  *)
(* of this portal in this market were refused, or so many discoveries       *)
(* failed, with no success in between that contradicts them.  Neither       *)
(* decay, nor the other scope, nor the other market adds to the evidence.   *)
PausedForCause ==
    [][\A k \in Key : breaker'[k].pause > breaker[k].pause
                         => \/ failed'[k] >= FailureLimit
                            \/ refused'[k] >= ChallengeLimit]_hvars
=============================================================================
