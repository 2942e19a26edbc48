----------------------------- MODULE SourceRepair -----------------------------
(***************************************************************************)
(* What migrations 107 and 109 make of the stored adverts: the sources, the *)
(* listings they are joined to, the listings that may never be announced    *)
(* and the announcements that wait.  107 gives an advert one source, takes  *)
(* apart the listings whose sources contradict each other and closes the    *)
(* stream for everything there is; 109 joins the sources that turn out to   *)
(* be one advert under several keys.                                        *)
(*                                                                         *)
(* A source is a record of its id, key, times, listing and whether it is    *)
(* historical; before 107 there may be one for every job.  Keys, ids and    *)
(* times are numbers, facts a measure in units of the tolerance.            *)
(***************************************************************************)
EXTENDS Naturals, FiniteSets

CONSTANTS
    None,     \* null
    Canon,    \* sourceKeyFor: the key that each key stands for
    FactsOf   \* the last extraction of each key, or None

ASSUME CanonAssumption ==
    /\ DOMAIN Canon \subseteq Nat
    /\ \A k \in DOMAIN Canon : Canon[k] \in DOMAIN Canon /\ Canon[Canon[k]] = Canon[k]

(* A listing is named for what made it: the application before the cutover, *)
(* 107, or the application after it.                                        *)
Listing == {"old", "split", "new"} \X Nat

ASSUME FactsAssumption ==
    /\ FactsOf \in [DOMAIN Canon -> Nat \cup {None}]
    /\ None \notin Nat \cup Listing

Source == [id : Nat, key : Nat, first : Nat, last : Nat,
           listing : {None} \cup Listing, historical : BOOLEAN]

Row == [sources   : SUBSET Source,
        listings  : SUBSET Listing,
        silent    : SUBSET Listing,
        waiting   : SUBSET Listing,
        claims    : SUBSET (Nat \X Listing)]

(* What else 107 finds: the Telegram settings of the jobs, the chats of the *)
(* receipts, where None stands for what is no number, and whether every     *)
(* reference leads to a row.                                                *)
Legacy == [destinations : SUBSET Nat, chats : SUBSET (Nat \cup {None}), whole : BOOLEAN]

Least(S)    == CHOOSE x \in S : \A y \in S : x <= y
Greatest(S) == CHOOSE x \in S : \A y \in S : y <= x

Contradicts(j, k) ==
    /\ FactsOf[j] # None /\ FactsOf[k] # None
    /\ FactsOf[j] > FactsOf[k] + 1 \/ FactsOf[k] > FactsOf[j] + 1

Listed(sources) == {s \in sources : s.listing # None}

(* recordClaims for the sources of listings. *)
SourceClaims(sources) == {<<s.key, s.listing>> : s \in Listed(sources)}
-----------------------------------------------------------------------------
(* Mutants: plausible slips in the code below. *)

(* Only sources that were seen one after the other are compared. *)
ConflictsInOrder(group) ==
    \E s, t \in group :
        /\ Contradicts(s.key, t.key)
        /\ ~\E u \in group : \/ s.first < u.first /\ u.first < t.first
                             \/ t.first < u.first /\ u.first < s.first

-----------------------------------------------------------------------------
(* ORDER BY the time a row was first seen, and its id. *)
Earliest(S) ==
    CHOOSE s \in S : \A t \in S : s.first < t.first \/ (s.first = t.first /\ s.id <= t.id)

(* The listing of the row seen last. *)
LastListing(same) ==
    LET latest == {s \in Listed(same) : \A t \in Listed(same) : t.last <= s.last}
    IN  IF latest = {} THEN None ELSE (CHOOSE s \in latest : TRUE).listing

(* 107: one source for each key. *)
Merged(same) ==
    [Earliest(same) EXCEPT !.listing = LastListing(same), !.historical = TRUE,
                           !.last = Greatest({s.last : s \in same})]

Consolidated(rows) == {Merged({s \in rows : s.key = k}) : k \in {s.key : s \in rows}}

Conflicts(group) == \E s, t \in group : Contradicts(s.key, t.key)

(* 107: the first of a group that contradicts itself keeps the listing, the *)
(* others get new ones, and one without facts is detached.                  *)
Place(s, sources) ==
    LET group == {t \in sources : t.listing = s.listing}
    IN  IF s.listing = None \/ ~Conflicts(group) THEN s.listing
        ELSE IF FactsOf[s.key] = None THEN None
        ELSE IF s = Earliest(group) THEN s.listing
        ELSE <<"split", s.id>>

Split(sources) == {[s EXCEPT !.listing = Place(s, sources)] : s \in sources}

(* 107: whatever there is may not be announced, and what waits is cancelled. *)
Retired(data) ==
    [data EXCEPT !.silent = @ \cup data.listings, !.waiting = {}]

(* What 107 does not throw at. *)
Consolidable(legacy) ==
    /\ \A m, n \in legacy.destinations : m = n
    /\ None \notin legacy.chats
    /\ legacy.whole

SharedPipeline(data) ==
    LET sources == Split(Consolidated(data.sources))
    IN  Retired([data EXCEPT !.sources = sources,
                             !.listings = @ \cup {s.listing : s \in Listed(sources)},
                             !.claims = SourceClaims(sources)])

(* 109: of the sources of one advert, the one that has the canonical key    *)
(* stays, else the first.  It keeps its own listing.                        *)
Joined(same) ==
    LET canonical == {s \in same : s.key = Canon[s.key]}
        heirs     == IF canonical # {} THEN canonical ELSE same
    IN  [Earliest(heirs) EXCEPT !.key = Canon[@],
                                !.first = Least({s.first : s \in same}),
                                !.last = Greatest({s.last : s \in same}),
                                !.historical = \E s \in same : s.historical]

Normalized(sources) ==
    {Joined({t \in sources : Canon[t.key] = k}) : k \in {Canon[s.key] : s \in sources}}

(* 109: the listings of historical sources are silenced, and what waits for *)
(* a silent listing is cancelled.                                           *)
Silenced(data) ==
    LET silent == data.silent \cup {s.listing : s \in {t \in Listed(data.sources) : t.historical}}
    IN  [data EXCEPT !.silent = silent, !.waiting = @ \ silent]

Reclaimed(data) == [data EXCEPT !.claims = SourceClaims(data.sources)]

CanonicalSources(data) ==
    Reclaimed(Silenced([data EXCEPT !.sources = Normalized(@)]))
=============================================================================
