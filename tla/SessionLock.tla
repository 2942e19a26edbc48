----------------------------- MODULE SessionLock -----------------------------
(***************************************************************************)
(* The promise-chain mutex in front of the one shared browser               *)
(* (lib/services/extractor/sessionLock.js).  Every acquire appends a link,  *)
(* a promise, to the chain and waits for the link before its own; the       *)
(* release function it is given resolves its own.  A caller whose wait      *)
(* times out leaves its link in the chain, to be resolved with the one      *)
(* before it.                                                               *)
(*                                                                         *)
(* Callers are numbered by their acquire; link 0 is the resolved promise    *)
(* the chain starts from.                                                   *)
(***************************************************************************)
EXTENDS Integers

CONSTANT Callers   \* how often the lock is asked for

ASSUME LockAssumption == Callers \in Nat

Caller == 1 .. Callers
Link == 0 .. Callers

VARIABLES
    tail,      \* the link the next caller will wait for
    phase,     \* where each caller is
    resolved   \* the links that are resolved

vars == <<tail, phase, resolved>>

Phase == {"idle", "waiting", "holding", "released", "gaveup", "passed"}

TypeOK == /\ tail \in Link
          /\ phase \in [Caller -> Phase]
          /\ resolved \subseteq Link

Init == /\ tail = 0
        /\ phase = [i \in Caller |-> "idle"]
        /\ resolved = {0}
-----------------------------------------------------------------------------
(* Mutant: a plausible slip in the code below. *)

(* A release wakes all who wait. *)
ResolveAll(i) == resolved \cup 1 .. tail
-----------------------------------------------------------------------------
(* acquire, up to its await. *)
Acquire(i) == /\ i = tail + 1
              /\ tail' = i
              /\ phase' = [phase EXCEPT ![i] = "waiting"]
              /\ UNCHANGED resolved

(* release(): the promise of one's own link. *)
Resolve(i) == resolved \cup {i}

(* The previous link resolved in time; also when timeoutMs is not positive, *)
(* where nothing else ends the wait.                                        *)
Enter(i) == /\ phase[i] = "waiting"
            /\ i - 1 \in resolved
            /\ phase' = [phase EXCEPT ![i] = "holding"]
            /\ UNCHANGED <<tail, resolved>>

(* The timer won the race: LockBusyError.  Callbacks of resolved promises   *)
(* run before any timer does.                                               *)
NoCallbackDue == \A j \in Caller : phase[j] \in {"waiting", "gaveup"} =>
                                      j - 1 \notin resolved

GiveUp(i) == /\ phase[i] = "waiting"
             /\ NoCallbackDue
             /\ phase' = [phase EXCEPT ![i] = "gaveup"]
             /\ UNCHANGED <<tail, resolved>>

(* previous.then(release, release) *)
Chained(i) == i - 1 \in resolved

PassOn(i) == /\ phase[i] = "gaveup"
             /\ Chained(i)
             /\ phase' = [phase EXCEPT ![i] = "passed"]
             /\ resolved' = Resolve(i)
             /\ UNCHANGED tail

(* The holder calls the release function it was given. *)
Release(i) == /\ phase[i] = "holding"
              /\ phase' = [phase EXCEPT ![i] = "released"]
              /\ resolved' = Resolve(i)
              /\ UNCHANGED tail

Next == \E i \in Caller : \/ Acquire(i) \/ Enter(i) \/ GiveUp(i)
                          \/ PassOn(i) \/ Release(i)

Spec == Init /\ [][Next]_vars

(* Callbacks of resolved promises run, and holders release: withBrowserSession *)
(* does in a finally, behind its own ceiling.  Nobody has to time out.      *)
FairSpec == /\ Spec
            /\ \A i \in Caller : /\ WF_vars(Enter(i))
                                 /\ WF_vars(PassOn(i))
                                 /\ WF_vars(Release(i))
-----------------------------------------------------------------------------
(* Two sessions never have the browser at once, however many callers gave   *)
(* up in front of them, behind them or between them.                        *)
MutualExclusion ==
    \A i, j \in Caller : phase[i] = "holding" /\ phase[j] = "holding" => i = j

(* The lock is the abstract mutex that serves callers in their order.       *)
Abstract == INSTANCE Mutex WITH
    holders <- {i \in Caller : phase[i] = "holding"},
    past    <- {i \in Caller : phase[i] \in {"holding", "released"}}

ImplementsMutex == Abstract!XSpec

(* "the queue drains in order once the holder finally finishes": nobody     *)
(* waits for ever, not even without a timeout, behind callers that gave up. *)
QueueDrains == \A i \in Caller : phase[i] = "waiting" ~> phase[i] # "waiting"
=============================================================================
