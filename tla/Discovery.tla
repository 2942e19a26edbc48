------------------------------ MODULE Discovery ------------------------------
(***************************************************************************)
(* One discovery run (lib/FredyPipelineExecutioner.js): it walks the pages  *)
(* of a search, newest adverts first, records each page's cards as work and *)
(* ends where two pages in a row had nothing new.  While it awaits a page   *)
(* the portal goes on: what is published pushes adverts to later pages, and *)
(* what is taken down pulls them to pages that were read already.  How a    *)
(* run ends is what it reports to the circuit breaker, which it asks before *)
(* it begins.                                                               *)
(*                                                                         *)
(* Adverts are numbered in the order in which they are published.  Whether  *)
(* one is queued stands for whether its detail row has the fingerprint of   *)
(* its card; historical sources, which are never queued, are left out.  All *)
(* discoveries here are of one search.                                      *)
(***************************************************************************)
EXTENDS BreakerHistory, FiniteSets

CONSTANTS
    Here,        \* the portal and market of the search
    PageSize,    \* cards on a page
    MaxPages,    \* maxPages of the job, the environment or the adapter
    MaxAdverts,  \* bound: adverts that are published
    MaxFaults    \* bound: cards that cannot be recorded, and edits

ASSUME DiscoveryAssumption ==
    /\ Here \in Key
    /\ PageSize \in Nat \ {0}
    /\ MaxPages \in Nat \ {0, 1}
    /\ {MaxAdverts, MaxFaults} \subseteq Nat

VARIABLES
    published,  \* how many adverts there were so far
    online,     \* the adverts in the results
    queued,     \* those of them whose card, as it is, was recorded
    walk,       \* the page the discovery awaits, if one is under way
    faults      \* counts to MaxFaults

search == <<published, online, queued, faults>>
dvars == <<hvars, search, walk>>

Advert == 1 .. MaxAdverts
Discoverer == <<Here, "discovery">>
NoWalk == [page |-> 0, unchanged |-> 0]
FirstPage == [page |-> 1, unchanged |-> 0]

(* Types; the walk keeps to the pages it is allowed, and a page is awaited  *)
(* exactly while the discovery asks its portal.                             *)
DTypeOK ==
    /\ TypeOK
    /\ published \in 0 .. MaxAdverts
    /\ online \subseteq 1 .. published
    /\ queued \subseteq online
    /\ walk \in [page : 0 .. MaxPages, unchanged : 0 .. 1]
    /\ walk # NoWalk <=> Discoverer \in asking
    /\ faults \in 0 .. MaxFaults

DInit == /\ HInit
         /\ published = 0 /\ online = {} /\ queued = {} /\ faults = 0
         /\ walk = NoWalk

(* Where an advert stands in the results, and the cards of a page. *)
Rank(a) == Cardinality({b \in online : b >= a})
Cards(p) == {a \in online : (p - 1) * PageSize < Rank(a) /\ Rank(a) <= p * PageSize}
-----------------------------------------------------------------------------
(* Mutants: plausible slips in the code below. *)

(* A page without anything new is the last. *)
EndsAfterAny(page, unchanged) == page = MaxPages \/ unchanged >= 1

(* Only pages without anything new end the walk. *)
EndsUnlimited(page, unchanged) == page > 1 /\ unchanged >= 2
-----------------------------------------------------------------------------
Ends(page, unchanged) == page = MaxPages \/ (page > 1 /\ unchanged >= 2)

(* Discoveries and detail fetches begin. *)
Begins == /\ Begin
          /\ walk' = IF Discoverer \in asking' \ asking THEN FirstPage ELSE walk
          /\ UNCHANGED <<failed, refused, search>>

(* The run is over and reports; the job's next search, if any, begins. *)
Finishes(signal) ==
    /\ HReports(Discoverer, signal)
    /\ walk' = IF Discoverer \in asking' THEN FirstPage ELSE NoWalk

(* A page without cards is the end, or, if it is the first and has not even *)
(* the container of the cards, a layout that is not recognized.             *)
ReadsNoCards ==
    /\ walk # NoWalk /\ Cards(walk.page) = {}
    /\ \/ Finishes("ok")
       \/ walk.page = 1 /\ Finishes("failed")
    /\ UNCHANGED search

(* The cards of a page are recorded, each in a transaction of its own; one  *)
(* that cannot be recorded is dropped.                                      *)
ReadsCards ==
    LET cards == Cards(walk.page) IN
    /\ walk # NoWalk /\ cards # {}
    /\ \E dropped \in SUBSET cards :
          LET recorded  == cards \ dropped
              unchanged == IF recorded \subseteq queued THEN walk.unchanged + 1 ELSE 0
          IN /\ faults' = faults + Cardinality(dropped) /\ faults' <= MaxFaults
             /\ queued' = queued \cup recorded
             /\ IF Ends(walk.page, unchanged)
                THEN Finishes("ok")
                ELSE walk' = [page |-> walk.page + 1, unchanged |-> unchanged] /\ UNCHANGED hvars
    /\ UNCHANGED <<published, online>>

(* The page does not come in time, is refused, or none of its cards has     *)
(* what is required; what earlier pages had stays queued.                   *)
PageFails ==
    /\ walk # NoWalk
    /\ \E signal \in {"failed", "refused"} : Finishes(signal)
    /\ UNCHANGED search

(* The others that ask the portals. *)
OthersReport ==
    /\ \E a \in Asker \ {Discoverer} :
          \/ \E signal \in Signal(a[2]) : HReports(a, signal)
          \/ EndsUnreported(a) /\ UNCHANGED <<failed, refused>>
    /\ UNCHANGED <<search, walk>>

DTick == Tick /\ UNCHANGED <<failed, refused, search, walk>>

DCrash == Crash /\ walk' = NoWalk /\ UNCHANGED <<failed, refused, search>>
-----------------------------------------------------------------------------
(* The portal. *)
Publishes == /\ published < MaxAdverts
             /\ published' = published + 1
             /\ online' = online \cup {published'}
             /\ UNCHANGED <<hvars, queued, walk, faults>>

TakesDown(a) == /\ online' = online \ {a}
                /\ queued' = queued \ {a}
                /\ UNCHANGED <<hvars, published, walk, faults>>

Edits(a) == /\ faults < MaxFaults /\ faults' = faults + 1
            /\ queued' = queued \ {a}
            /\ UNCHANGED <<hvars, published, online, walk>>

DNext == \/ Begins \/ ReadsNoCards \/ ReadsCards \/ PageFails
         \/ OthersReport \/ DTick \/ DCrash
         \/ Publishes
         \/ \E a \in online : TakesDown(a) \/ Edits(a)

DSpec == DInit /\ [][DNext]_dvars /\ WF_vars(Tick)
-----------------------------------------------------------------------------
(* A run comes to its end. *)
Completes == (ReadsNoCards \/ ReadsCards) /\ Finishes("ok")

(* Whatever earlier runs missed, because a page failed after the ones       *)
(* before it had been queued, a card was dropped or adverts moved between   *)
(* the pages while they were read: an advert that is new or changed and     *)
(* stays on the first two pages is queued, as long as runs come to their    *)
(* end again and again.                                                     *)
TopIsQueued ==
    \A a \in Advert :
        /\ <>[](a \in online /\ Rank(a) <= 2 * PageSize)
        /\ []<><<Completes>>_dvars
        => []<>(a \in queued)
=============================================================================
