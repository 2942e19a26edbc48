------------------------------- MODULE Listings -------------------------------
(***************************************************************************)
(* The canonical listings: an advert's accepted extraction is written to    *)
(* the listing that its claims lead to, or to a new one, and the listing is *)
(* decided on.  A claim is a source key, a portal's id, a URL or the hash   *)
(* of an image; it belongs to the listing that first made it.  Which        *)
(* capture of an advert may be written, and when, is CapturePipeline's; one *)
(* action here is the transaction at the end of finalizeLive, or that of    *)
(* reevaluateListings.                                                      *)
(*                                                                         *)
(* Adverts are numbered in the order they were first seen.  An extraction   *)
(* is an answer of the model, where the geocoder put its address, and the   *)
(* claims of its capture.                                                   *)
(***************************************************************************)
EXTENDS ListingFacts, FiniteSets

CONSTANTS
    Advert,      \* the adverts, numbers
    Listing,     \* the ids that listings may get
    Claim,       \* the claims captures may make
    Worlds,      \* what the captures of each advert may be extracted to
    Configs      \* the filters the configuration may hold

IdentityKinds == {"src", "pid", "url"}

Source(a) == [kind |-> "src", value |-> a]

(* A capture has the claim of its source, and of no other. *)
ASSUME ListingsAssumption ==
    /\ Advert \subseteq Nat
    /\ \A c \in Claim : c.kind \in IdentityKinds \cup {"img"}
    /\ None \notin Listing \cup {"kept", "refused"}
    /\ \A w \in Worlds, a \in Advert : \A x \in w[a] :
          x # None /\ x.claims \subseteq Claim /\ {c \in x.claims : c.kind = "src"} = {Source(a)}

(* What a capture is extracted to. *)
ASSUME ExtractionsAssumption ==
    \A w \in Worlds, a \in Advert : \A x \in w[a] :
        /\ {"answer", "place", "market", "claims"} \subseteq DOMAIN x
        /\ IsAnswer(x.answer)
        /\ IsFiniteSet(x.claims)

VARIABLES
    captures,   \* what each advert's captures are extracted to; never changes
    latest,     \* the last answer of the model for each advert
    judged,     \* whether that answer was kept
    sources,    \* listing_sources.listing_id
    listings,   \* the rows there are, with their attributes
    shows,      \* representative_queue_id: the advert and extraction a row is of
    claims,     \* listing_claims
    config,     \* pipeline_config
    decisions,  \* listing_decisions
    audited     \* the verdict of the last decision event of each listing

vars == <<captures, latest, judged, sources, listings, shows, claims, config, decisions, audited>>

(* What finalizeLive makes of an extraction. *)
Facts(a, x) ==
    [size |-> x.answer.size, rooms |-> x.answer.rooms, address |-> x.answer.address,
     price |-> Price(x.answer), market |-> x.market, place |-> x.place,
     attributes |-> AttributesFromExtraction(x.answer), created |-> a]

Decision(facts, filters) ==
    [reasons |-> FilterListing(facts, filters), filters |-> filters,
     features |-> Features(facts)]
-----------------------------------------------------------------------------
(* Mutants: plausible slips in the code below. *)

(* Images come first. *)
KindsReversed == <<"img", "url", "pid", "src">>

(* The attributes of a merged listing stay as they are. *)
MergedKeepsAttributes(old, new) ==
    [new EXCEPT !.created = old.created, !.attributes = old.attributes]

-----------------------------------------------------------------------------
TypeOK ==
    /\ DOMAIN latest = Advert
    /\ \A a \in Advert : latest[a] \in captures[a] \cup {None}
    /\ judged \in [Advert -> {None, "kept", "refused"}]
    /\ sources \in [Advert -> Listing \cup {None}]
    /\ DOMAIN listings \subseteq Listing
    /\ DOMAIN shows = DOMAIN listings
    /\ claims \in [Claim -> Listing \cup {None}]
    /\ config \in Configs
    /\ \A l \in DOMAIN listings : /\ listings[l].created \in Advert
                                  /\ shows[l][1] \in Advert
                                  /\ shows[l][2] \in captures[shows[l][1]]

NoRows == [l \in {} |-> None]

Init ==
    /\ captures \in Worlds
    /\ latest = [a \in Advert |-> None]
    /\ judged = [a \in Advert |-> None]
    /\ sources = [a \in Advert |-> None]
    /\ listings = NoRows
    /\ shows = NoRows
    /\ claims = [c \in Claim |-> None]
    /\ config \in Configs
    /\ decisions = NoRows
    /\ audited = NoRows

(* The model answers for a new capture of a; an answer that is not valid is *)
(* not kept.                                                                *)
Extracts(a) ==
    \E x \in captures[a] :
        /\ latest' = [latest EXCEPT ![a] = x]
        /\ judged' = [judged EXCEPT ![a] = IF ValidListing(x.answer) THEN "kept" ELSE "refused"]
        /\ UNCHANGED <<captures, sources, listings, shows, claims, config, decisions, audited>>

Kinds == <<"src", "pid", "url", "img">>
Rank(k) == CHOOSE i \in DOMAIN Kinds : Kinds[i] = k

SharedImages(l, cs) == Cardinality({c \in cs : claims[c] = l /\ c.kind = "img"})

(* The kinds of claim by which l may be the listing of new: an identity, or *)
(* images that nothing known speaks against.                                *)
MatchedKinds(l, new, cs) ==
    {k \in {c.kind : c \in {c \in cs : claims[c] = l}} :
        k \in IdentityKinds \/ ~Vetoed(new, listings[l], listings[l].attributes,
                                       SharedImages(l, cs))}

Matches(new, cs) == {l \in DOMAIN listings : MatchedKinds(l, new, cs) # {}}

(* The best kind of claim by which l is matched is better than that of m. *)
Stronger(l, m, new, cs) ==
    \E k \in MatchedKinds(l, new, cs) :
        \A j \in MatchedKinds(m, new, cs) : Rank(k) < Rank(j)

Completeness(row) == Cardinality({f \in {"size", "rooms", "address", "price"} : row[f] # None})

(* resolveListingMatch and compareSurvivors: by the kind of claim, then the *)
(* more complete row, then the older one.                                   *)
Beats(l, m, new, cs) ==
    \/ Stronger(l, m, new, cs)
    \/ /\ ~Stronger(m, l, new, cs)
       /\ \/ Completeness(listings[l]) > Completeness(listings[m])
          \/ /\ Completeness(listings[l]) = Completeness(listings[m])
             /\ listings[l].created < listings[m].created

Best(l, new, cs) == \A m \in Matches(new, cs) \ {l} : ~Beats(m, l, new, cs)

(* recordClaims: a claim that is taken stays. *)
Recorded(cs, l) ==
    [c \in Claim |-> IF c \in cs /\ claims[c] = None THEN l ELSE claims[c]]

(* A row is inserted, or replaced. *)
Upsert(table, l, row) == [k \in DOMAIN table \cup {l} |-> IF k = l THEN row ELSE table[k]]

(* recordVerdict: an event only when the filters or the features changed. *)
Decides(l, facts) ==
    LET d == Decision(facts, config)
        same == /\ l \in DOMAIN decisions
                /\ decisions[l].filters = d.filters
                /\ decisions[l].features = d.features
    IN /\ decisions' = Upsert(decisions, l, d)
       /\ audited' = IF same THEN audited ELSE Upsert(audited, l, d.reasons)

Merged(old, new) == [new EXCEPT !.created = old.created]

Writes(a, l, facts) ==
    /\ listings' = Upsert(listings, l, facts)
    /\ shows' = Upsert(shows, l, <<a, latest[a]>>)
    /\ claims' = Recorded(latest[a].claims, l)
    /\ sources' = [sources EXCEPT ![a] = l]
    /\ Decides(l, facts)

(* The transaction of finalizeLive. *)
Merges(a) ==
    LET new == Facts(a, latest[a])
        cs == latest[a].claims
    IN /\ judged[a] = "kept"
       /\ \E l \in Matches(new, cs) :
             Best(l, new, cs) /\ Writes(a, l, Merged(listings[l], new))
       /\ UNCHANGED <<captures, latest, judged, config>>

Adds(a) ==
    LET new == Facts(a, latest[a])
    IN /\ judged[a] = "kept"
       /\ Matches(new, latest[a].claims) = {}
       /\ \E l \in Listing \ DOMAIN listings : Writes(a, l, new)
       /\ UNCHANGED <<captures, latest, judged, config>>

(* The operator patches the filters. *)
Patches ==
    /\ config' \in Configs \ {config}
    /\ UNCHANGED <<captures, latest, judged, sources, listings, shows, claims, decisions, audited>>

(* reevaluateListings, for one of the rows it is due for. *)
Reevaluates(l) ==
    /\ decisions[l].filters # config
    /\ Decides(l, listings[l])
    /\ UNCHANGED <<captures, latest, judged, sources, listings, shows, claims, config>>

Next ==
    \/ \E a \in Advert : Extracts(a) \/ Merges(a) \/ Adds(a)
    \/ Patches
    \/ \E l \in DOMAIN listings : Reevaluates(l)

Spec == Init /\ [][Next]_vars
-----------------------------------------------------------------------------
(* An advert whose facts were written is attached to the listing that owns  *)
(* its source key, whatever its URLs and images lead to.                    *)
SourceOwnsItsClaim ==
    \A a \in Advert : sources[a] # None => claims[Source(a)] = sources[a]

(* An advert never moves from one listing to another, and no listing takes  *)
(* over the place of another: what was announced for it stays announced.    *)
SourceKeepsItsListing ==
    [][\A a \in Advert : sources[a] # None => sources'[a] = sources[a]]_vars

(* What a listing shows and what it is decided by is of one extraction of   *)
(* one advert, that is attached to it ("Representative facts, link and      *)
(* image come from the same source extraction", README).                    *)
Coherent ==
    \A l \in DOMAIN listings :
        LET a == shows[l][1]
            facts == Facts(a, shows[l][2])
        IN /\ [facts EXCEPT !.created = listings[l].created] = listings[l]
           /\ sources[a] = l
           /\ decisions[l] = Decision(facts, decisions[l].filters)

(* The verdict of every listing is that of its last decision event: the     *)
(* fingerprint has all that the filters read.                               *)
VerdictAudited ==
    \A l \in DOMAIN decisions : audited[l] = decisions[l].reasons

(* A listing, its decision and its audit agree. *)
ListingsConsistent == TypeOK /\ Coherent /\ VerdictAudited

(* "Null/unknown/unstated values pass" and "warm rent is never substituted" *)
(* (README): whatever an advert keeps silent about, it is not turned down   *)
(* for more than it is with that said.                                      *)
Silenced(x) ==
    {[x EXCEPT !.answer[f] = None] :
        f \in {"size", "cold", "warm", "rooms", "floor", "offerKind", "unitKind",
               "rentalArrangement", "leaseDuration", "furnishingStatus"}}
    \cup {[x EXCEPT !.answer.oldBuilding = <<>>], [x EXCEPT !.place = None]}

SilencePasses ==
    \A l \in DOMAIN listings :
        \A x \in Silenced(shows[l][2]) :
            FilterListing(Facts(shows[l][1], x), decisions[l].filters)
                \subseteq decisions[l].reasons

(* An answer is refused for its dates exactly when no day its tenancy may   *)
(* end on is one it may have begun by.                                      *)
Days(d) == IF Len(d) = 3 THEN {d} ELSE {Append(d, n) : n \in 1 .. DaysIn[d[2]]}

DatesPossible(s) ==
    /\ s.from # None => IsDateValue(s.from)
    /\ s.until # None => IsDateValue(s.until)
    /\ Known(s.from, s.until) =>
          \E d \in Days(s.from), e \in Days(s.until) : d = e \/ Earlier(d, e)

(* No answer that contradicts itself is kept, and none is refused that does *)
(* not, or say a thing twice.                                               *)
Contradictory(s) ==
    \/ ~s.shape
    \/ ~DatesPossible(s)
    \/ s.until # None /\ s.leaseDuration # "fixed"
    \/ Known(s.cold, s.warm) /\ s.cold > s.warm
    \/ \E i, j \in DOMAIN s.oldBuilding : i # j
    \/ Known(s.bedrooms, s.rooms) /\ s.bedrooms > s.rooms
    \/ Known(s.floor, s.totalFloors) /\ s.floor > s.totalFloors

JudgedRight ==
    \A a \in Advert :
        latest[a] # None => (judged[a] = "refused" <=> Contradictory(latest[a].answer))

(* An advert is judged by what it says: a contradiction is refused, and     *)
(* only that, and silence costs nothing.                                    *)
JudgedAsStated == JudgedRight /\ SilencePasses

(* "Different advert IDs merge only with at least two shared image hashes,  *)
(* compatible market and address, no known room/floor conflict, and known   *)
(* size agreement ...  When both rents have the same basis they must agree  *)
(* within 5%" (README): so an advert agrees with the one whose extraction   *)
(* the listing shows when it joins.  A number that is not above 0 is        *)
(* unknown to claims.js: a stated rent of 0 speaks against no other, and    *)
(* the warm rents are not looked at in its stead.                           *)
Agree(x, y) ==
    LET s == x.answer
        t == y.answer
        Differ(u, v) == Known(u, v) /\ u # v
        Within(u, v, share) == u * (100 - share) <= v * 100 /\ v * (100 - share) <= u * 100
    IN /\ ~Differ(x.market, y.market)
       /\ BothPositive(s.rooms, t.rooms) => s.rooms = t.rooms
       /\ ~Differ(s.floor, t.floor)
       /\ Known(s.address, t.address) =>
             \/ s.address.words \subseteq t.address.words
             \/ t.address.words \subseteq s.address.words
       /\ BothPositive(s.size, t.size)
       /\ Within(s.size, t.size, 1) /\ s.size - t.size \in -10 .. 10
       /\ BothPositive(s.cold, t.cold) => Within(s.cold, t.cold, 5)
       /\ (s.cold = None /\ t.cold = None /\ BothPositive(s.warm, t.warm))
             => Within(s.warm, t.warm, 5)

JoinsItsLike ==
    [][\A a \in Advert :
         LET l == sources'[a]
             known == \E c \in latest[a].claims : c.kind # "img" /\ claims[c] = l
         IN (sources[a] = None /\ l \in DOMAIN shows) =>
               \/ known
               \/ /\ Agree(latest[a], shows[l][2])
                  /\ Cardinality({c \in latest[a].claims : claims[c] = l}) >= 2]_vars
=============================================================================
