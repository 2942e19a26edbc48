---------------------------- MODULE BrowserSession ----------------------------
(***************************************************************************)
(* The one browser that discovery and detail capture share                  *)
(* (lib/services/extractor/browserSession.js), behind the SessionLock: it   *)
(* is launched for a session that finds none, recycled after a number of    *)
(* sessions, killed when an operation on it fails or overruns, closed after *)
(* each detail capture, and otherwise reaped when idle.                     *)
(*                                                                         *)
(* Callers of the lock are sessions and idle reaps; what has a name in      *)
(* SessionLock has a B before it here.  Browsers are numbered by their      *)
(* launch; 0 is none.  closeBrowser always ends, by its deadline and a kill. *)
(***************************************************************************)
EXTENDS SessionLock, FiniteSets

CONSTANTS
    Calls,    \* bound: calls of withBrowserSession
    MaxUses   \* FREDY_BROWSER_MAX_SESSIONS

ASSUME SessionAssumption ==
    /\ Calls \in Nat
    /\ MaxUses \in Nat \ {0}
    /\ Callers = 2 * Calls   \* every session schedules at most one reap

VARIABLES
    role,      \* what each caller of the lock is
    stage,     \* how far each caller is since it holds the lock
    on,        \* the browser that each caller uses or closes
    browser,   \* the shared browser
    alive,     \* the browser processes that are running
    launches,  \* how many were launched
    uses,      \* sessionsSinceLaunch
    timer      \* the idle timer is set

lock == vars
bvars == <<lock, role, stage, on, browser, alive, launches, uses, timer>>

Browser == 1 .. Calls

BTypeOK ==
    /\ TypeOK
    /\ role \in [Caller -> {"none", "session", "closing session", "reaper"}]
    /\ stage \in [Caller -> {"none", "opening", "running", "unwinding",
                             "finishing", "closing", "leaving", "left"}]
    /\ on \in [Caller -> {0} \cup Browser]
    /\ browser \in {0} \cup Browser
    /\ alive \subseteq Browser
    /\ launches \in 0 .. Calls
    /\ uses \in 0 .. MaxUses
    /\ timer \in BOOLEAN

BInit ==
    /\ Init
    /\ role = [i \in Caller |-> "none"]
    /\ stage = [i \in Caller |-> "none"]
    /\ on = [i \in Caller |-> 0]
    /\ browser = 0
    /\ alive = {}
    /\ launches = 0
    /\ uses = 0
    /\ timer = FALSE

Goes(i, s) == stage' = [stage EXCEPT ![i] = s]
-----------------------------------------------------------------------------
(* Mutants: forms of the definitions below with one plausible slip each. *)

(* The session leaves its browser without waiting for it to close. *)
FinishesUnclosed(i) ==
    /\ stage[i] = "finishing"
    /\ Goes(i, "leaving")
    /\ IF role[i] = "closing session" /\ browser # 0
       THEN browser' = 0 /\ uses' = 0
       ELSE UNCHANGED <<browser, uses>>
    /\ UNCHANGED <<lock, role, on, alive, launches, timer>>

(* Only a session that keeps no browser schedules a reap. *)
TimerUnset(i) == IF role[i] = "closing session" THEN browser # 0 ELSE timer
-----------------------------------------------------------------------------
SessionRoles == {"session", "closing session"}
Session(i) == role[i] \in SessionRoles

(* withBrowserSession, up to the lock; discovery keeps the browser, detail  *)
(* capture closes it after (closeAfter).                                    *)
Call(i) ==
    /\ Cardinality({j \in Caller : Session(j)}) < Calls
    /\ Acquire(i)
    /\ \E r \in SessionRoles : role' = [role EXCEPT ![i] = r]
    /\ UNCHANGED <<stage, on, browser, alive, launches, uses, timer>>

(* The idle timer fires: reapIdleBrowser, up to the lock. *)
ReapTimerFires(i) ==
    /\ timer
    /\ timer' = FALSE
    /\ Acquire(i)
    /\ role' = [role EXCEPT ![i] = "reaper"]
    /\ UNCHANGED <<stage, on, browser, alive, launches, uses>>

(* The lock was not free in time: a session reports a transient error, a    *)
(* reap is left to the next session's finally.                              *)
Busy(i) ==
    /\ GiveUp(i)
    /\ UNCHANGED <<role, stage, on, browser, alive, launches, uses, timer>>

LinkPasses(i) ==
    /\ PassOn(i)
    /\ UNCHANGED <<role, stage, on, browser, alive, launches, uses, timer>>

SessionEnters(i) ==
    /\ Session(i)
    /\ Enter(i)
    /\ Goes(i, "opening")
    /\ timer' = FALSE
    /\ UNCHANGED <<role, on, browser, alive, launches, uses>>

(* forgetBrowser. *)
Forget == browser' = 0 /\ uses' = 0

ReaperEnters(i) ==
    /\ role[i] = "reaper"
    /\ Enter(i)
    /\ IF browser = 0
       THEN Goes(i, "leaving") /\ UNCHANGED <<on, browser, uses>>
       ELSE /\ Goes(i, "closing")
            /\ on' = [on EXCEPT ![i] = browser]
            /\ Forget
    /\ UNCHANGED <<role, alive, launches, timer>>

WornOut == uses >= MaxUses

(* A browser that is gone or worn out is closed before it is forgotten. *)
Recycle(i) ==
    /\ stage[i] = "opening"
    /\ browser # 0
    /\ browser \notin alive \/ WornOut
    /\ alive' = alive \ {browser}
    /\ Forget
    /\ UNCHANGED <<lock, role, stage, on, launches, timer>>

Launch(i) ==
    /\ stage[i] = "opening"
    /\ browser = 0
    /\ launches' = launches + 1
    /\ browser' = launches'
    /\ alive' = alive \cup {browser'}
    /\ on' = [on EXCEPT ![i] = browser']
    /\ uses' = 1
    /\ Goes(i, "running")
    /\ UNCHANGED <<lock, role, timer>>

LaunchFails(i) ==
    /\ stage[i] = "opening"
    /\ browser = 0
    /\ Goes(i, "finishing")
    /\ UNCHANGED <<lock, role, on, browser, alive, launches, uses, timer>>

Reuse(i) ==
    /\ stage[i] = "opening"
    /\ browser \in alive
    /\ ~WornOut
    /\ uses' = uses + 1
    /\ on' = [on EXCEPT ![i] = browser]
    /\ Goes(i, "running")
    /\ UNCHANGED <<lock, role, browser, alive, launches, timer>>

Succeeds(i) ==
    /\ stage[i] = "running"
    /\ on[i] \in alive
    /\ Goes(i, "finishing")
    /\ UNCHANGED <<lock, role, on, browser, alive, launches, uses, timer>>

(* The operation fails, or it meets its ceiling or its caller's abort and   *)
(* has to unwind: either way its browser is killed.                         *)
Fails(i) ==
    /\ stage[i] = "running"
    /\ IF on[i] = browser
       THEN Forget /\ alive' = alive \ {on[i]}
       ELSE UNCHANGED <<browser, uses, alive>>
    /\ \E s \in {"finishing", "unwinding"} : Goes(i, s)
    /\ UNCHANGED <<lock, role, on, launches, timer>>

(* Its calls to the dead browser reject. *)
Unwinds(i) ==
    /\ stage[i] = "unwinding"
    /\ Goes(i, "finishing")
    /\ UNCHANGED <<lock, role, on, browser, alive, launches, uses, timer>>

(* The finally of withBrowserSession, up to closeBrowser. *)
Finishes(i) ==
    /\ stage[i] = "finishing"
    /\ IF role[i] = "closing session" /\ browser # 0
       THEN /\ Goes(i, "closing")
            /\ on' = [on EXCEPT ![i] = browser]
            /\ Forget
       ELSE Goes(i, "leaving") /\ UNCHANGED <<on, browser, uses>>
    /\ UNCHANGED <<lock, role, alive, launches, timer>>

Closes(i) ==
    /\ stage[i] = "closing"
    /\ alive' = alive \ {on[i]}
    /\ Goes(i, "leaving")
    /\ UNCHANGED <<lock, role, on, browser, launches, uses, timer>>

(* scheduleIdleReap, with a positive FREDY_BROWSER_IDLE_TTL_MS; a reaper    *)
(* does not call it.                                                        *)
TimerAfter(i) == IF Session(i) THEN browser # 0 ELSE timer

Leaves(i) ==
    /\ stage[i] = "leaving"
    /\ Goes(i, "left")
    /\ Release(i)
    /\ timer' = TimerAfter(i)
    /\ UNCHANGED <<role, on, browser, alive, launches, uses>>

(* The browser process dies by itself. *)
BrowserDies ==
    /\ alive # {}
    /\ \E b \in alive : alive' = alive \ {b}
    /\ UNCHANGED <<lock, role, stage, on, browser, launches, uses, timer>>

Enters(i) == SessionEnters(i) \/ ReaperEnters(i)

Opens(i) == Recycle(i) \/ Launch(i) \/ LaunchFails(i) \/ Reuse(i)

Ends(i) == Succeeds(i) \/ Fails(i) \/ Unwinds(i) \/ Finishes(i) \/ Closes(i)

BNext == \/ \E i \in Caller : \/ Call(i) \/ ReapTimerFires(i) \/ Busy(i)
                             \/ LinkPasses(i) \/ Enters(i) \/ Opens(i)
                             \/ Ends(i) \/ Leaves(i)
        \/ BrowserDies

BSpec == BInit /\ [][BNext]_bvars

(* Timers fire, callbacks run, launches and closes end, and an operation    *)
(* ends by itself or by its ceiling.                                        *)
BFairSpec ==
    /\ BSpec
    /\ WF_bvars(\E i \in Caller : ReapTimerFires(i))
    /\ \A i \in Caller : WF_bvars(LinkPasses(i) \/ Enters(i) \/ Opens(i)
                                 \/ Ends(i) \/ Leaves(i))
-----------------------------------------------------------------------------
(* Never two browser processes, however sessions, reaps, crashes and        *)
(* callers that gave up follow each other.                                  *)
OneBrowser == \A b, c \in alive : b = c

(* Nobody closes, recycles or forgets the browser of an operation that is   *)
(* under way; in particular the reap waits for its turn.                    *)
OperationUndisturbed ==
    \A i \in Caller : stage[i] = "running" => browser = on[i]

(* "it goes as soon as the work does": when the sessions are over, the      *)
(* browser is closed, though a reap that found the lock busy is not         *)
(* repeated.                                                                *)
NothingLeftOpen == <>[](alive = {})

(* The one browser is kept for the operation that uses it. *)
BrowserKept == BTypeOK /\ OneBrowser /\ OperationUndisturbed

(* Whoever gave up, crashed or overran, the queue drains and the browser    *)
(* goes.                                                                    *)
EverythingEnds == QueueDrains /\ NothingLeftOpen
=============================================================================
