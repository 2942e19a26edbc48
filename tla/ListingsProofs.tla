---------------------------- MODULE ListingsProofs ----------------------------
(***************************************************************************)
(* Listings for any adverts, extractions and filters.                       *)
(*                                                                         *)
(* An advert keeps its listing: the inductive invariant says that the       *)
(* listing of an advert owns the advert's source key, and that every owner  *)
(* of a claim is a listing there is.  The key's owner is then matched       *)
(* whenever the advert is written, and no listing can be better than it,    *)
(* because "src" is the first of the kinds and only one listing owns the    *)
(* key.                                                                     *)
(*                                                                         *)
(* A listing stays coherent, since everything it shows and is decided by is *)
(* written at once; the rules of ListingFacts are those they stand for; and *)
(* an advert without a key, id or URL in common with a listing joins it for *)
(* two shared images and agreeing facts only.                               *)
(***************************************************************************)
EXTENDS Listings, FiniteSetTheorems, TLAPS

Shape ==
    /\ captures \in Worlds
    /\ DOMAIN latest = Advert
    /\ \A a \in Advert : latest[a] \in captures[a] \cup {None}
    /\ judged \in [Advert -> {None, "kept", "refused"}]
    /\ \A a \in Advert : judged[a] = "kept" => latest[a] # None
    /\ sources \in [Advert -> Listing \cup {None}]
    /\ DOMAIN listings \subseteq Listing
    /\ claims \in [Claim -> Listing \cup {None}]

Owners ==
    /\ \A a \in Advert : sources[a] # None => /\ Source(a) \in Claim
                                              /\ claims[Source(a)] = sources[a]
    /\ \A c \in Claim : claims[c] # None => claims[c] \in DOMAIN listings

IInv == Shape /\ Owners

-----------------------------------------------------------------------------
(* The order of the kinds, as the rest of the proof uses it. *)
LEMMA SourceRanksFirst ==
    \A k \in {"pid", "url", "img"} : Rank("src") < Rank(k)
<1>1. DOMAIN Kinds = 1 .. 4
  BY DEF Kinds
<1>2. Kinds[1] = "src" /\ Kinds[2] = "pid" /\ Kinds[3] = "url" /\ Kinds[4] = "img"
  BY DEF Kinds
<1>3. \A i \in 1 .. 4 : i = 1 \/ i = 2 \/ i = 3 \/ i = 4
  OBVIOUS
<1>4. \A i \in 1 .. 4 : Kinds[i] = "src" <=> i = 1
  BY <1>2, <1>3
<1>5. Rank("src") = 1
  BY <1>1, <1>4 DEF Rank
<1>6. ASSUME NEW k \in {"pid", "url", "img"}
      PROVE  Rank("src") < Rank(k)
  <2>1. \E i \in DOMAIN Kinds : Kinds[i] = k
    BY <1>1, <1>2
  <2>2. Rank(k) \in DOMAIN Kinds /\ Kinds[Rank(k)] = k
    BY <2>1 DEF Rank
  <2>3. k # "src"
    OBVIOUS
  <2>4. Rank(k) \in 1 .. 4 /\ Rank(k) # 1
    BY <1>1, <1>4, <2>2, <2>3
  <2> QED
    BY <1>5, <2>4
<1> QED
  BY <1>6

(* What an extraction claims: of the source keys only its advert's. *)
LEMMA ClaimsOfKept ==
    ASSUME IInv, NEW a \in Advert, judged[a] = "kept"
    PROVE  /\ latest[a].claims \subseteq Claim
           /\ {c \in latest[a].claims : c.kind = "src"} = {Source(a)}
<1>1. latest[a] \in captures[a]
  BY DEF IInv, Shape
<1>2. captures \in Worlds
  BY DEF IInv, Shape
<1> QED
  BY <1>1, <1>2, ListingsAssumption

(* The listing that owns the source key is matched by it ... *)
LEMMA OwnerMatches ==
    ASSUME IInv, NEW a \in Advert, judged[a] = "kept", NEW new,
           claims[Source(a)] # None
    PROVE  /\ claims[Source(a)] \in Matches(new, latest[a].claims)
           /\ "src" \in MatchedKinds(claims[Source(a)], new, latest[a].claims)
<1> DEFINE cs == latest[a].claims
           owner == claims[Source(a)]
<1>1. Source(a) \in cs /\ Source(a).kind = "src" /\ cs \subseteq Claim
  BY ClaimsOfKept DEF Source
<1>2. owner \in DOMAIN listings
  BY <1>1 DEF IInv, Owners
<1>3. "src" \in MatchedKinds(owner, new, cs)
  BY <1>1 DEF MatchedKinds, IdentityKinds
<1> QED
  BY <1>2, <1>3 DEF Matches

(* ... and beats every other one. *)
LEMMA OwnerIsBest ==
    ASSUME IInv, NEW a \in Advert, judged[a] = "kept", NEW new,
           claims[Source(a)] # None,
           NEW l \in Matches(new, latest[a].claims), Best(l, new, latest[a].claims)
    PROVE  l = claims[Source(a)]
<1> DEFINE cs == latest[a].claims
           owner == claims[Source(a)]
<1> SUFFICES ASSUME l # owner PROVE FALSE
  OBVIOUS
<1>1. cs \subseteq Claim /\ {c \in cs : c.kind = "src"} = {Source(a)}
  BY ClaimsOfKept
<1>2. MatchedKinds(l, new, cs) \subseteq {"pid", "url", "img"}
  <2> SUFFICES ASSUME NEW k \in MatchedKinds(l, new, cs)
               PROVE  k \in {"pid", "url", "img"}
    OBVIOUS
  <2>1. PICK c \in cs : claims[c] = l /\ c.kind = k
    BY DEF MatchedKinds
  <2>2. c # Source(a)
    BY <2>1
  <2>3. c.kind # "src"
    BY <1>1, <2>2
  <2> QED
    BY <1>1, <2>1, <2>3, ListingsAssumption DEF IdentityKinds
<1>3. /\ owner \in Matches(new, cs)
      /\ "src" \in MatchedKinds(owner, new, cs)
  BY OwnerMatches
<1>4. Stronger(owner, l, new, cs)
  BY <1>2, <1>3, SourceRanksFirst DEF Stronger
<1>5. Beats(owner, l, new, cs)
  BY <1>4 DEF Beats
<1> QED
  BY <1>3, <1>5 DEF Best

-----------------------------------------------------------------------------
LEMMA InitOwners == Init => IInv
<1> SUFFICES ASSUME Init PROVE IInv
  OBVIOUS
<1>1. None \notin {"kept"} /\ None \in {None, "kept", "refused"}
  BY ListingsAssumption
<1>2. DOMAIN listings = {}
  BY DEF Init, NoRows
<1>3. Shape
  <2>1. \A a \in Advert : judged[a] # "kept"
    BY <1>1 DEF Init
  <2>2. DOMAIN latest = Advert /\ \A a \in Advert : latest[a] \in captures[a] \cup {None}
    BY DEF Init
  <2>3. judged \in [Advert -> {None, "kept", "refused"}]
    BY <1>1 DEF Init
  <2>4. sources \in [Advert -> Listing \cup {None}] /\ claims \in [Claim -> Listing \cup {None}]
    BY DEF Init
  <2> QED
    BY <1>2, <2>1, <2>2, <2>3, <2>4 DEF Init, Shape
<1>4. Owners
  BY DEF Init, Owners
<1> QED
  BY <1>3, <1>4 DEF IInv

(* A write to a listing that owns the advert's source key, or for an advert *)
(* whose key nobody owns. *)
LEMMA WriteKeepsOwners ==
    ASSUME IInv, NEW a \in Advert, judged[a] = "kept", NEW l \in Listing, NEW facts,
           claims[Source(a)] # None => l = claims[Source(a)],
           Writes(a, l, facts), UNCHANGED <<captures, latest, judged>>
    PROVE  IInv'
<1>1. /\ latest[a].claims \subseteq Claim
      /\ Source(a) \in latest[a].claims
  BY ClaimsOfKept
<1>2. DOMAIN listings' = DOMAIN listings \cup {l}
  BY DEF Writes, Upsert
<1>3. claims' = [c \in Claim |-> IF c \in latest[a].claims /\ claims[c] = None
                                 THEN l ELSE claims[c]]
  BY DEF Writes, Recorded
<1>4. sources' = [sources EXCEPT ![a] = l]
  BY DEF Writes
<1>5. Shape'
  BY <1>2, <1>3, <1>4 DEF IInv, Shape
<1>6. None \notin Listing
  BY ListingsAssumption
<1>7. ASSUME NEW b \in Advert, sources'[b] # None
      PROVE  Source(b) \in Claim /\ claims'[Source(b)] = sources'[b]
  <2>1. CASE b = a
    <3>1. sources'[b] = l /\ Source(b) \in Claim
      BY <1>1, <1>4, <2>1 DEF IInv, Shape
    <3>2. claims'[Source(b)] = l
      BY <1>1, <1>3, <2>1
    <3> QED
      BY <3>1, <3>2
  <2>2. CASE b # a
    <3>1. sources'[b] = sources[b]
      BY <1>4, <2>2 DEF IInv, Shape
    <3>2. Source(b) \in Claim /\ claims[Source(b)] = sources[b]
      BY <1>7, <3>1 DEF IInv, Owners
    <3> QED
      BY <1>3, <1>7, <3>1, <3>2
  <2> QED
    BY <2>1, <2>2
<1>8. ASSUME NEW c \in Claim, claims'[c] # None
      PROVE  claims'[c] \in DOMAIN listings'
  BY <1>2, <1>3, <1>8 DEF IInv, Owners
<1> QED
  BY <1>5, <1>7, <1>8 DEF IInv, Owners

LEMMA NextOwners == IInv /\ [Next]_vars => IInv'
<1> SUFFICES ASSUME IInv, [Next]_vars PROVE IInv'
  OBVIOUS
<1>1. ASSUME NEW a \in Advert, Extracts(a)
      PROVE  IInv'
  <2>1. PICK x \in captures[a] :
           /\ latest' = [latest EXCEPT ![a] = x]
           /\ judged' = [judged EXCEPT ![a] = IF ValidListing(x.answer) THEN "kept" ELSE "refused"]
    BY <1>1 DEF Extracts
  <2>2. x # None
    BY ListingsAssumption DEF IInv, Shape
  <2>3. UNCHANGED <<captures, sources, listings, claims>>
    BY <1>1 DEF Extracts
  <2>4. Shape'
    BY <2>1, <2>2, <2>3 DEF IInv, Shape
  <2>5. Owners'
    BY <2>3 DEF IInv, Owners
  <2> QED
    BY <2>4, <2>5 DEF IInv
<1>2. ASSUME NEW a \in Advert, Merges(a)
      PROVE  IInv'
  <2> DEFINE new == Facts(a, latest[a])
             cs == latest[a].claims
  <2>1. PICK l \in Matches(new, cs) :
           Best(l, new, cs) /\ Writes(a, l, Merged(listings[l], new))
    BY <1>2 DEF Merges
  <2>2. judged[a] = "kept" /\ UNCHANGED <<captures, latest, judged>>
    BY <1>2 DEF Merges
  <2>3. l \in Listing
    BY DEF Matches, IInv, Shape
  <2>4. claims[Source(a)] # None => l = claims[Source(a)]
    BY <2>1, <2>2, OwnerIsBest
  <2> QED
    BY <2>1, <2>2, <2>3, <2>4, WriteKeepsOwners
<1>3. ASSUME NEW a \in Advert, Adds(a)
      PROVE  IInv'
  <2> DEFINE new == Facts(a, latest[a])
  <2>1. PICK l \in Listing \ DOMAIN listings : Writes(a, l, new)
    BY <1>3 DEF Adds
  <2>2. /\ judged[a] = "kept" /\ UNCHANGED <<captures, latest, judged>>
        /\ Matches(new, latest[a].claims) = {}
    BY <1>3 DEF Adds
  <2>3. claims[Source(a)] = None
    BY <2>2, OwnerMatches
  <2> QED
    BY <2>1, <2>2, <2>3, WriteKeepsOwners
<1>4. CASE Patches
  BY <1>4 DEF Patches, IInv, Shape, Owners
<1>5. ASSUME NEW l \in DOMAIN listings, Reevaluates(l)
      PROVE  IInv'
  BY <1>5 DEF Reevaluates, IInv, Shape, Owners
<1>6. CASE UNCHANGED vars
  BY <1>6 DEF vars, IInv, Shape, Owners
<1> QED
  BY <1>1, <1>2, <1>3, <1>4, <1>5, <1>6 DEF Next

(* The listing of an advert owns the advert's source key. *)
THEOREM SourcesOwnTheirClaims == Spec => []SourceOwnsItsClaim
<1>1. IInv => SourceOwnsItsClaim
  BY DEF IInv, Owners, SourceOwnsItsClaim
<1> QED
  BY <1>1, InitOwners, NextOwners, PTL DEF Spec

(* No step moves an advert from one listing to another. *)
LEMMA StepKeepsListing ==
    ASSUME IInv, [Next]_vars, NEW a \in Advert, sources[a] # None
    PROVE  sources'[a] = sources[a]
<1>1. claims[Source(a)] = sources[a]
  BY DEF IInv, Owners
<1>2. ASSUME NEW b \in Advert, Merges(b)
      PROVE  sources'[a] = sources[a]
  <2> DEFINE new == Facts(b, latest[b])
             cs == latest[b].claims
  <2>1. PICK l \in Matches(new, cs) :
           Best(l, new, cs) /\ Writes(b, l, Merged(listings[l], new))
    BY <1>2 DEF Merges
  <2>2. sources' = [sources EXCEPT ![b] = l] /\ judged[b] = "kept"
    BY <1>2, <2>1 DEF Writes, Merges
  <2>3. CASE a = b
    <3>1. l = sources[a]
      BY <1>1, <2>1, <2>2, <2>3, OwnerIsBest
    <3> QED
      BY <2>2, <2>3, <3>1 DEF IInv, Shape
  <2> QED
    BY <2>2, <2>3 DEF IInv, Shape
<1>3. ASSUME NEW b \in Advert, Adds(b)
      PROVE  sources'[a] = sources[a]
  <2>1. PICK l \in Listing \ DOMAIN listings : Writes(b, l, Facts(b, latest[b]))
    BY <1>3 DEF Adds
  <2>2. /\ sources' = [sources EXCEPT ![b] = l] /\ judged[b] = "kept"
        /\ Matches(Facts(b, latest[b]), latest[b].claims) = {}
    BY <1>3, <2>1 DEF Writes, Adds
  <2>3. a # b
    BY <1>1, <2>2, OwnerMatches
  <2> QED
    BY <2>2, <2>3 DEF IInv, Shape
<1>4. ASSUME NEW b \in Advert, Extracts(b)
      PROVE  sources'[a] = sources[a]
  BY <1>4 DEF Extracts
<1>5. CASE Patches
  BY <1>5 DEF Patches
<1>6. ASSUME NEW l \in DOMAIN listings, Reevaluates(l)
      PROVE  sources'[a] = sources[a]
  BY <1>6 DEF Reevaluates
<1>7. CASE UNCHANGED vars
  BY <1>7 DEF vars
<1> QED
  BY <1>2, <1>3, <1>4, <1>5, <1>6, <1>7 DEF Next

(* An advert stays with its listing for good. *)
THEOREM SourcesKeepTheirListings == Spec => SourceKeepsItsListing
<1>1. IInv /\ [Next]_vars =>
        [\A a \in Advert : sources[a] # None => sources'[a] = sources[a]]_vars
  BY StepKeepsListing
<1> QED
  BY <1>1, InitOwners, NextOwners, PTL DEF Spec, SourceKeepsItsListing
-----------------------------------------------------------------------------
(* The filters. *)

(* The reasons for which facts are turned down, one by one. *)
LEMMA Reasons ==
    ASSUME NEW facts, NEW filters, NEW r
    PROVE  r \in FilterListing(facts, filters) <=>
             \/ r = "size" /\ filters.minSize # None /\ facts.size # None
                /\ facts.size < filters.minSize
             \/ r = "coldRentEur" /\ filters.maxColdRent # None
                /\ facts.attributes.coldRentEur # None
                /\ facts.attributes.coldRentEur > filters.maxColdRent
             \/ r = "offerKind" /\ filters.excludeSwap /\ facts.attributes.offerKind = "swap"
             \/ r = "unitKind" /\ filters.excludeRooms
                /\ facts.attributes.unitKind \in {"private_room", "shared_room"}
             \/ r = "rentalArrangement" /\ filters.excludeSublet
                /\ facts.attributes.rentalArrangement = "sublet"
             \/ r = "leaseDuration" /\ filters.excludeFixedTerm
                /\ facts.attributes.leaseDuration = "fixed"
             \/ r = "furnishingStatus" /\ filters.excludeFurnished
                /\ facts.attributes.furnishingStatus = "full"
             \/ r = "oldBuilding" /\ filters.excludeNonAltbau /\ facts.attributes.nonAltbau
             \/ r = "area" /\ filters.spatialFilter /\ facts.place # None
                /\ facts.place.accuracy = "house" /\ ~facts.place.inside
<1> DEFINE a == facts.attributes
           violated ==
             [size |-> filters.minSize # None /\ facts.size # None /\ facts.size < filters.minSize,
              coldRentEur |-> /\ filters.maxColdRent # None /\ a.coldRentEur # None
                              /\ a.coldRentEur > filters.maxColdRent,
              offerKind |-> filters.excludeSwap /\ a.offerKind = "swap",
              unitKind |-> filters.excludeRooms /\ a.unitKind \in {"private_room", "shared_room"},
              rentalArrangement |-> filters.excludeSublet /\ a.rentalArrangement = "sublet",
              leaseDuration |-> filters.excludeFixedTerm /\ a.leaseDuration = "fixed",
              furnishingStatus |-> filters.excludeFurnished /\ a.furnishingStatus = "full",
              oldBuilding |-> filters.excludeNonAltbau /\ a.nonAltbau,
              area |-> /\ filters.spatialFilter /\ facts.place # None
                       /\ facts.place.accuracy = "house" /\ ~facts.place.inside]
<1>1. FilterListing(facts, filters) = {q \in DOMAIN violated : violated[q]}
  BY DEF FilterListing
<1>2. DOMAIN violated = {"size", "coldRentEur", "offerKind", "unitKind", "rentalArrangement",
                         "leaseDuration", "furnishingStatus", "oldBuilding", "area"}
  OBVIOUS
<1>3. /\ violated["size"] <=> (filters.minSize # None /\ facts.size # None
                             /\ facts.size < filters.minSize)
      /\ violated["coldRentEur"] <=> (filters.maxColdRent # None /\ a.coldRentEur # None
                                    /\ a.coldRentEur > filters.maxColdRent)
      /\ violated["offerKind"] <=> (filters.excludeSwap /\ a.offerKind = "swap")
      /\ violated["unitKind"] <=> (filters.excludeRooms
                                 /\ a.unitKind \in {"private_room", "shared_room"})
      /\ violated["rentalArrangement"] <=> (filters.excludeSublet /\ a.rentalArrangement = "sublet")
      /\ violated["leaseDuration"] <=> (filters.excludeFixedTerm /\ a.leaseDuration = "fixed")
      /\ violated["furnishingStatus"] <=> (filters.excludeFurnished /\ a.furnishingStatus = "full")
      /\ violated["oldBuilding"] <=> (filters.excludeNonAltbau /\ a.nonAltbau)
      /\ violated["area"] <=> (filters.spatialFilter /\ facts.place # None
                             /\ facts.place.accuracy = "house" /\ ~facts.place.inside)
  OBVIOUS
<1> HIDE DEF violated
<1>4. r \in FilterListing(facts, filters) <=> r \in DOMAIN violated /\ violated[r]
  BY <1>1
<1>5. CASE r \notin DOMAIN violated
  BY <1>2, <1>4, <1>5
<1>6. CASE r \in {"size", "coldRentEur", "offerKind"}
  BY <1>2, <1>3, <1>4, <1>6
<1>7. CASE r \in {"unitKind", "rentalArrangement", "leaseDuration"}
  BY <1>2, <1>3, <1>4, <1>7
<1>8. CASE r \in {"furnishingStatus", "oldBuilding", "area"}
  BY <1>2, <1>3, <1>4, <1>8
<1> QED
  BY <1>2, <1>5, <1>6, <1>7, <1>8

(* The attributes that the filters read. *)
Filtered == {"offerKind", "unitKind", "rentalArrangement", "leaseDuration",
             "furnishingStatus", "coldRentEur", "nonAltbau"}

(* The fingerprint has all that the filters read. *)
LEMMA FeaturesDecide ==
    ASSUME NEW f, NEW g, NEW filters,
           Filtered \subseteq DOMAIN f.attributes, Filtered \subseteq DOMAIN g.attributes,
           Features(f) = Features(g)
    PROVE  FilterListing(f, filters) = FilterListing(g, filters)
<1>1. f.size = g.size /\ f.place = g.place
  BY DEF Features
<1>2. \A k \in Filtered : f.attributes[k] = g.attributes[k]
  <2> DEFINE F(h) == [k \in DOMAIN h.attributes \ {"priceType", "floor"} |-> h.attributes[k]]
  <2>1. F(f) = F(g)
    BY DEF Features
  <2>2. \A k \in Filtered : F(f)[k] = f.attributes[k] /\ F(g)[k] = g.attributes[k]
    BY DEF Filtered
  <2> HIDE DEF F
  <2> QED
    BY <2>1, <2>2
<1>3. \A r : r \in FilterListing(f, filters) <=> r \in FilterListing(g, filters)
  BY <1>1, <1>2, Reasons DEF Filtered
<1> QED
  BY <1>3 DEF FilterListing

(* The row that shows an extraction. *)
RowOf(a, x, c) == [Facts(a, x) EXCEPT !.created = c]

(* When a row was first made has no part in the decision on it. *)
LEMMA CreatedDecidesNothing ==
    ASSUME NEW a, NEW x, NEW c, NEW filters
    PROVE  /\ Decision(RowOf(a, x, c), filters) = Decision(Facts(a, x), filters)
           /\ Filtered \subseteq DOMAIN Facts(a, x).attributes
BY DEF RowOf, Decision, FilterListing, Features, Facts, AttributesFromExtraction, Filtered
-----------------------------------------------------------------------------
(* What a listing shows, its decision and its audit. *)

(* The tables have the same rows, and a row is of an advert's extraction.   *)
Rows ==
    /\ DOMAIN shows = DOMAIN listings
    /\ DOMAIN decisions = DOMAIN listings
    /\ DOMAIN audited = DOMAIN listings
    /\ config \in Configs
    /\ \A l \in DOMAIN listings : /\ listings[l].created \in Advert
                                  /\ shows[l][1] \in Advert
                                  /\ shows[l][2] \in captures[shows[l][1]]

Judged ==
    \A a \in Advert : latest[a] # None =>
        judged[a] = IF ValidListing(latest[a].answer) THEN "kept" ELSE "refused"

CInv == IInv /\ Rows /\ Coherent /\ VerdictAudited /\ Judged

LEMMA CInvInit == Init => CInv
<1> SUFFICES ASSUME Init PROVE CInv
  OBVIOUS
<1>1. IInv
  BY InitOwners
<1>2. Rows /\ Coherent /\ VerdictAudited
  BY DEF Init, NoRows, Rows, Coherent, VerdictAudited
<1>3. Judged
  BY DEF Init, Judged
<1> QED
  BY <1>1, <1>2, <1>3 DEF CInv

(* A decision on the facts that a row shows, written or not into the audit. *)
LEMMA DecidedRows ==
    ASSUME CInv, NEW l, NEW a, NEW x, NEW c,
           Decides(l, RowOf(a, x, c))
    PROVE  /\ DOMAIN decisions' = DOMAIN decisions \cup {l}
           /\ DOMAIN audited' = DOMAIN audited \cup {l}
           /\ decisions'[l] = Decision(Facts(a, x), config)
           /\ audited'[l] = decisions'[l].reasons
           /\ \A m \in DOMAIN decisions \ {l} : /\ decisions'[m] = decisions[m]
                                                /\ audited'[m] = audited[m]
<1> DEFINE facts == RowOf(a, x, c)
           d == Decision(facts, config)
           same == /\ l \in DOMAIN decisions
                   /\ decisions[l].filters = d.filters
                   /\ decisions[l].features = d.features
<1>1. /\ decisions' = Upsert(decisions, l, d)
      /\ audited' = IF same THEN audited ELSE Upsert(audited, l, d.reasons)
  BY DEF Decides
<1>2. d = Decision(Facts(a, x), config)
  BY CreatedDecidesNothing
<1>3. DOMAIN audited = DOMAIN decisions
  BY DEF CInv, Rows
<1>4. ASSUME same PROVE audited[l] = d.reasons
  <2> DEFINE b == shows[l][1]
             y == shows[l][2]
  <2>1. l \in DOMAIN listings
    BY <1>4 DEF CInv, Rows
  <2>2. decisions[l] = Decision(Facts(b, y), decisions[l].filters)
    BY <2>1 DEF CInv, Coherent
  <2>3. Features(Facts(b, y)) = Features(Facts(a, x)) /\ decisions[l].filters = config
    BY <1>2, <1>4, <2>2 DEF Decision
  <2>4. FilterListing(Facts(b, y), config) = FilterListing(Facts(a, x), config)
    BY <2>3, CreatedDecidesNothing, FeaturesDecide
  <2>5. decisions[l].reasons = FilterListing(Facts(b, y), config)
    BY <2>2, <2>3 DEF Decision
  <2>6. audited[l] = decisions[l].reasons
    BY <1>4 DEF CInv, VerdictAudited
  <2> QED
    BY <1>2, <2>4, <2>5, <2>6 DEF Decision
<1> HIDE DEF d, same
<1>5. same => l \in DOMAIN decisions
  BY DEF same
<1>6. /\ DOMAIN decisions' = DOMAIN decisions \cup {l} /\ decisions'[l] = d
      /\ \A m \in DOMAIN decisions \ {l} : decisions'[m] = decisions[m]
  BY <1>1 DEF Upsert
<1>7. /\ DOMAIN audited' = DOMAIN audited \cup {l} /\ audited'[l] = d.reasons
      /\ \A m \in DOMAIN decisions \ {l} : audited'[m] = audited[m]
  BY <1>1, <1>3, <1>4, <1>5 DEF Upsert
<1> QED
  BY <1>2, <1>6, <1>7

(* A row is written: for its own advert, or a first one. *)
LEMMA WrittenRows ==
    ASSUME CInv, NEW a \in Advert, judged[a] = "kept", NEW l \in Listing, NEW c \in Advert,
           claims[Source(a)] # None => l = claims[Source(a)],
           Writes(a, l, RowOf(a, latest[a], c)),
           UNCHANGED <<captures, latest, judged, config>>
    PROVE  CInv'
<1> DEFINE x == latest[a]
           facts == RowOf(a, x, c)
<1>1. IInv'
  BY WriteKeepsOwners DEF CInv
<1>2. x \in captures[a]
  BY DEF CInv, IInv, Shape
<1>3. /\ DOMAIN decisions' = DOMAIN decisions \cup {l}
      /\ DOMAIN audited' = DOMAIN audited \cup {l}
      /\ decisions'[l] = Decision(Facts(a, x), config)
      /\ audited'[l] = decisions'[l].reasons
      /\ \A m \in DOMAIN decisions \ {l} : /\ decisions'[m] = decisions[m]
                                           /\ audited'[m] = audited[m]
  BY DecidedRows DEF Writes
<1>4. /\ DOMAIN listings' = DOMAIN listings \cup {l} /\ listings'[l] = facts
      /\ \A m \in DOMAIN listings \ {l} : listings'[m] = listings[m]
  BY DEF Writes, Upsert
<1>5. /\ DOMAIN shows' = DOMAIN shows \cup {l} /\ shows'[l] = <<a, x>>
      /\ \A m \in DOMAIN shows \ {l} : shows'[m] = shows[m]
  BY DEF Writes, Upsert
<1>6. facts.created = c
  BY DEF RowOf, Facts
<1>7. sources' = [sources EXCEPT ![a] = l] /\ sources'[a] = l
  BY DEF Writes, CInv, IInv, Shape
<1> HIDE DEF x, facts
<1>8. Rows'
  BY <1>2, <1>3, <1>4, <1>5, <1>6 DEF CInv, Rows
<1>9. VerdictAudited'
  BY <1>3 DEF CInv, Rows, VerdictAudited
<1>10. Judged'
  BY DEF CInv, Judged
<1>11. Coherent'
  <2> SUFFICES ASSUME NEW m \in DOMAIN listings'
               PROVE  LET b == shows'[m][1]
                          f == Facts(b, shows'[m][2])
                      IN /\ [f EXCEPT !.created = listings'[m].created] = listings'[m]
                         /\ sources'[b] = m
                         /\ decisions'[m] = Decision(f, decisions'[m].filters)
    BY DEF Coherent
  <2>1. CASE m = l
    <3>1. shows'[m][1] = a /\ shows'[m][2] = x
      BY <1>5, <2>1
    <3>2. decisions'[m].filters = config
      BY <1>3, <2>1 DEF Decision
    <3>3. [Facts(a, x) EXCEPT !.created = listings'[m].created] = listings'[m]
      BY <1>4, <1>6, <2>1 DEF facts, RowOf
    <3> QED
      BY <1>3, <1>7, <2>1, <3>1, <3>2, <3>3
  <2>2. CASE m # l
    <3> DEFINE b == shows[m][1]
    <3>1. /\ m \in DOMAIN listings /\ listings'[m] = listings[m] /\ shows'[m] = shows[m]
          /\ decisions'[m] = decisions[m] /\ b \in Advert
      BY <1>3, <1>4, <1>5, <2>2 DEF CInv, Rows
    <3>2. /\ [Facts(b, shows[m][2]) EXCEPT !.created = listings[m].created] = listings[m]
          /\ sources[b] = m
          /\ decisions[m] = Decision(Facts(b, shows[m][2]), decisions[m].filters)
      BY <3>1 DEF CInv, Coherent
    <3>3. b # a
      <4> SUFFICES ASSUME b = a PROVE FALSE
        OBVIOUS
      <4>1. m # None
        BY <3>1, ListingsAssumption DEF CInv, IInv, Shape
      <4>2. claims[Source(a)] = m
        BY <3>2, <4>1 DEF CInv, IInv, Owners
      <4> QED
        BY <2>2, <4>1, <4>2
    <3>4. sources'[b] = m
      BY <1>7, <3>1, <3>2, <3>3 DEF CInv, IInv, Shape
    <3> QED
      BY <3>1, <3>2, <3>4
  <2> QED
    BY <2>1, <2>2
<1> QED
  BY <1>1, <1>8, <1>9, <1>10, <1>11 DEF CInv

LEMMA CInvStep == CInv /\ [Next]_vars => CInv'
<1> SUFFICES ASSUME CInv, [Next]_vars PROVE CInv'
  OBVIOUS
<1>1. IInv'
  BY NextOwners DEF CInv
<1>2. ASSUME NEW a \in Advert, Extracts(a)
      PROVE  CInv'
  <2>1. PICK x \in captures[a] :
           /\ latest' = [latest EXCEPT ![a] = x]
           /\ judged' = [judged EXCEPT ![a] = IF ValidListing(x.answer) THEN "kept" ELSE "refused"]
    BY <1>2 DEF Extracts
  <2>2. UNCHANGED <<captures, sources, listings, shows, claims, config, decisions, audited>>
    BY <1>2 DEF Extracts
  <2>3. Rows' /\ Coherent' /\ VerdictAudited'
    BY <2>2 DEF CInv, Rows, Coherent, VerdictAudited
  <2>4. Judged'
    BY <2>1 DEF CInv, IInv, Shape, Judged
  <2> QED
    BY <1>1, <2>3, <2>4 DEF CInv
<1>3. ASSUME NEW a \in Advert, Merges(a)
      PROVE  CInv'
  <2> DEFINE new == Facts(a, latest[a])
             cs == latest[a].claims
  <2>1. PICK l \in Matches(new, cs) :
           Best(l, new, cs) /\ Writes(a, l, Merged(listings[l], new))
    BY <1>3 DEF Merges
  <2>2. judged[a] = "kept" /\ UNCHANGED <<captures, latest, judged, config>>
    BY <1>3 DEF Merges
  <2>3. l \in DOMAIN listings /\ l \in Listing
    BY DEF Matches, CInv, IInv, Shape
  <2>4. claims[Source(a)] # None => l = claims[Source(a)]
    BY <2>1, <2>2, OwnerIsBest DEF CInv
  <2>5. listings[l].created \in Advert
    BY <2>3 DEF CInv, Rows
  <2>6. Merged(listings[l], new) = RowOf(a, latest[a], listings[l].created)
    BY DEF Merged, RowOf
  <2> QED
    BY <2>1, <2>2, <2>3, <2>4, <2>5, <2>6, WrittenRows
<1>4. ASSUME NEW a \in Advert, Adds(a)
      PROVE  CInv'
  <2> DEFINE new == Facts(a, latest[a])
  <2>1. PICK l \in Listing \ DOMAIN listings : Writes(a, l, new)
    BY <1>4 DEF Adds
  <2>2. /\ judged[a] = "kept" /\ UNCHANGED <<captures, latest, judged, config>>
        /\ Matches(new, latest[a].claims) = {}
    BY <1>4 DEF Adds
  <2>3. claims[Source(a)] = None
    BY <2>2, OwnerMatches DEF CInv
  <2>4. new = RowOf(a, latest[a], a)
    BY DEF Facts, RowOf
  <2> QED
    BY <2>1, <2>2, <2>3, <2>4, WrittenRows
<1>5. CASE Patches
  <2>1. /\ UNCHANGED <<captures, latest, judged, sources, listings, shows, claims,
                       decisions, audited>>
        /\ config' \in Configs
    BY <1>5 DEF Patches
  <2>2. Rows' /\ Coherent' /\ VerdictAudited' /\ Judged'
    BY <2>1 DEF CInv, Rows, Coherent, VerdictAudited, Judged
  <2> QED
    BY <1>1, <2>2 DEF CInv
<1>6. ASSUME NEW l \in DOMAIN listings, Reevaluates(l)
      PROVE  CInv'
  <2> DEFINE a == shows[l][1]
             x == shows[l][2]
  <2>1. /\ UNCHANGED <<captures, latest, judged, sources, listings, shows, claims, config>>
        /\ Decides(l, listings[l])
    BY <1>6 DEF Reevaluates
  <2>2. listings[l] = RowOf(a, x, listings[l].created) /\ sources[a] = l
    BY DEF CInv, Coherent, RowOf
  <2>3. /\ DOMAIN decisions' = DOMAIN decisions \cup {l}
        /\ DOMAIN audited' = DOMAIN audited \cup {l}
        /\ decisions'[l] = Decision(Facts(a, x), config)
        /\ audited'[l] = decisions'[l].reasons
        /\ \A m \in DOMAIN decisions \ {l} : /\ decisions'[m] = decisions[m]
                                             /\ audited'[m] = audited[m]
    <3>1. Decides(l, RowOf(a, x, listings[l].created))
      BY <2>1, <2>2
    <3> QED
      BY <3>1, DecidedRows
  <2>4. Rows' /\ VerdictAudited' /\ Judged'
    BY <2>1, <2>3 DEF CInv, Rows, VerdictAudited, Judged
  <2>5. decisions'[l] = Decision(Facts(a, x), decisions'[l].filters)
    BY <2>3 DEF Decision
  <2>6. Coherent'
    BY <2>1, <2>3, <2>5 DEF CInv, Rows, Coherent
  <2> QED
    BY <1>1, <2>4, <2>6 DEF CInv
<1>7. CASE UNCHANGED vars
  <2>1. Rows' /\ Coherent' /\ VerdictAudited' /\ Judged'
    BY <1>7 DEF vars, CInv, Rows, Coherent, VerdictAudited, Judged
  <2> QED
    BY <1>1, <2>1 DEF CInv
<1> QED
  BY <1>2, <1>3, <1>4, <1>5, <1>6, <1>7 DEF Next

LEMMA CInvAlways == Spec => []CInv
BY CInvInit, CInvStep, PTL DEF Spec

(* What a listing shows and what it is decided by is of one extraction of   *)
(* one advert that is attached to it, and its verdict is that of its last   *)
(* decision event: the fingerprint has all that the filters read.           *)
THEOREM ListingsStayConsistent == Spec => []ListingsConsistent
<1>1. CInv => ListingsConsistent
  BY DEF CInv, IInv, Shape, Rows, TypeOK, ListingsConsistent
<1> QED
  BY <1>1, CInvAlways, PTL
-----------------------------------------------------------------------------
(* Silence costs nothing. *)

(* Facts that are those of others, or that say nothing in their place, are  *)
(* turned down for no more.                                                 *)
LEMMA QuieterFacts ==
    ASSUME NEW f, NEW g, NEW filters,
           g.size \in {f.size, None}, g.place \in {f.place, None},
           \A k \in Filtered \ {"nonAltbau"} :
               g.attributes[k] \in {f.attributes[k], None},
           g.attributes.nonAltbau => f.attributes.nonAltbau
    PROVE  FilterListing(g, filters) \subseteq FilterListing(f, filters)
<1> SUFFICES ASSUME NEW r, r \in FilterListing(g, filters)
             PROVE  r \in FilterListing(f, filters)
  OBVIOUS
<1>1. /\ g.attributes.coldRentEur \in {f.attributes.coldRentEur, None}
      /\ g.attributes.offerKind \in {f.attributes.offerKind, None}
      /\ g.attributes.unitKind \in {f.attributes.unitKind, None}
      /\ g.attributes.rentalArrangement \in {f.attributes.rentalArrangement, None}
      /\ g.attributes.leaseDuration \in {f.attributes.leaseDuration, None}
      /\ g.attributes.furnishingStatus \in {f.attributes.furnishingStatus, None}
  BY DEF Filtered
<1> QED
  BY <1>1, Reasons, FactsAssumption

LEMMA SilenceIsQuieter ==
    ASSUME NEW a, NEW x, {"answer", "place", "market", "claims"} \subseteq DOMAIN x,
           IsAnswer(x.answer), NEW y \in Silenced(x), NEW filters
    PROVE  FilterListing(Facts(a, y), filters) \subseteq FilterListing(Facts(a, x), filters)
<1> DEFINE said == {"size", "cold", "warm", "rooms", "floor", "offerKind", "unitKind",
                    "rentalArrangement", "leaseDuration", "furnishingStatus"}
           s == x.answer
<1>1. ASSUME NEW k \in said, y = [x EXCEPT !.answer[k] = None]
      PROVE  /\ y.place = x.place /\ y.answer.oldBuilding = s.oldBuilding
             /\ \A j \in said : y.answer[j] \in {s[j], None}
  <2>1. y.answer = [s EXCEPT ![k] = None] /\ y.place = x.place
    BY <1>1
  <2>2. said \cup {"oldBuilding"} \subseteq DOMAIN s
    BY DEF IsAnswer
  <2>3. \A j \in said : y.answer[j] = IF j = k THEN None ELSE s[j]
    BY <2>1, <2>2
  <2>4. y.answer["oldBuilding"] = s["oldBuilding"]
    BY <2>1, <2>2
  <2> QED
    BY <2>1, <2>3, <2>4
<1>2. ASSUME y = [x EXCEPT !.answer.oldBuilding = <<>>]
      PROVE  /\ y.place = x.place /\ y.answer.oldBuilding = <<>>
             /\ \A j \in said : y.answer[j] = s[j]
  <2>1. y.answer = [s EXCEPT !["oldBuilding"] = <<>>] /\ y.place = x.place
    BY <1>2
  <2>2. said \cup {"oldBuilding"} \subseteq DOMAIN s
    BY DEF IsAnswer
  <2> QED
    BY <2>1, <2>2
<1>3. ASSUME y = [x EXCEPT !.place = None]
      PROVE  y.place = None /\ y.answer = s
  BY <1>3
<1>4. /\ y.place \in {x.place, None} /\ y.answer.oldBuilding \in {s.oldBuilding, <<>>}
      /\ \A j \in said : y.answer[j] \in {s[j], None}
  BY <1>1, <1>2, <1>3 DEF Silenced
<1>5. /\ y.answer.size \in {s.size, None} /\ y.answer.cold \in {s.cold, None}
      /\ y.answer.offerKind \in {s.offerKind, None}
      /\ y.answer.unitKind \in {s.unitKind, None}
      /\ y.answer.rentalArrangement \in {s.rentalArrangement, None}
      /\ y.answer.leaseDuration \in {s.leaseDuration, None}
      /\ y.answer.furnishingStatus \in {s.furnishingStatus, None}
  BY <1>4
<1> DEFINE f == Facts(a, x)
           g == Facts(a, y)
<1>6. g.size \in {f.size, None} /\ g.place \in {f.place, None}
  BY <1>4, <1>5 DEF Facts
<1>7. f.attributes = AttributesFromExtraction(s) /\ g.attributes = AttributesFromExtraction(y.answer)
  BY DEF Facts
<1> HIDE DEF f, g, s, said
<1>8. \A k \in Filtered \ {"nonAltbau"} : g.attributes[k] \in {f.attributes[k], None}
  BY <1>5, <1>7 DEF Filtered, AttributesFromExtraction, ColdRent
<1>9. g.attributes.nonAltbau => f.attributes.nonAltbau
  <2>1. DOMAIN <<>> = {}
    OBVIOUS
  <2> QED
    BY <1>4, <1>7, <2>1 DEF AttributesFromExtraction
<1> QED
  BY <1>6, <1>8, <1>9, QuieterFacts DEF f, g
-----------------------------------------------------------------------------
(* A contradiction is refused, and only that. *)

(* The order of days, and of months, spelled out. *)
LEMMA DaysInOrder ==
    ASSUME NEW d \in Seq(Nat), NEW e \in Seq(Nat), Len(d) = 3
    PROVE  Earlier(d, e) <=> \/ d[1] < e[1]
                             \/ d[1] = e[1] /\ d[2] < e[2]
                             \/ d[1] = e[1] /\ d[2] = e[2] /\ d[3] < e[3]
<1>1. \A i \in 1 .. 3 : i = 1 \/ i = 2 \/ i = 3
  OBVIOUS
<1>2. /\ \A j \in 1 .. 1 - 1 : d[j] = e[j]
      /\ (\A j \in 1 .. 2 - 1 : d[j] = e[j]) <=> d[1] = e[1]
      /\ (\A j \in 1 .. 3 - 1 : d[j] = e[j]) <=> d[1] = e[1] /\ d[2] = e[2]
  <2>1. /\ \A j \in 1 .. 0 : FALSE
        /\ \A j \in 1 .. 1 : j = 1
        /\ \A j \in 1 .. 2 : j = 1 \/ j = 2
        /\ 1 \in 1 .. 1 /\ 1 \in 1 .. 2 /\ 2 \in 1 .. 2
    OBVIOUS
  <2>2. 1 - 1 = 0 /\ 2 - 1 = 1 /\ 3 - 1 = 2
    OBVIOUS
  <2> QED
    BY <2>1, <2>2
<1>3. 1 \in 1 .. 3 /\ 2 \in 1 .. 3 /\ 3 \in 1 .. 3
  OBVIOUS
<1>4. Earlier(d, e) <=> \E i \in 1 .. 3 : d[i] < e[i] /\ \A j \in 1 .. i - 1 : d[j] = e[j]
  BY DEF Earlier
<1> QED
  BY <1>1, <1>2, <1>3, <1>4

LEMMA MonthsInOrder ==
    ASSUME NEW d \in Seq(Nat), NEW e \in Seq(Nat), Len(d) = 2
    PROVE  Earlier(d, e) <=> d[1] < e[1] \/ (d[1] = e[1] /\ d[2] < e[2])
<1>1. \A i \in 1 .. 2 : i = 1 \/ i = 2
  OBVIOUS
<1>2. /\ \A j \in 1 .. 1 - 1 : d[j] = e[j]
      /\ (\A j \in 1 .. 2 - 1 : d[j] = e[j]) <=> d[1] = e[1]
  <2>1. (\A j \in 1 .. 0 : FALSE) /\ (\A j \in 1 .. 1 : j = 1) /\ 1 \in 1 .. 1
    OBVIOUS
  <2>2. 1 - 1 = 0 /\ 2 - 1 = 1
    OBVIOUS
  <2> QED
    BY <2>1, <2>2
<1>3. 1 \in 1 .. 2 /\ 2 \in 1 .. 2
  OBVIOUS
<1>4. Earlier(d, e) <=> \E i \in 1 .. 2 : d[i] < e[i] /\ \A j \in 1 .. i - 1 : d[j] = e[j]
  BY DEF Earlier
<1> QED
  BY <1>1, <1>2, <1>3, <1>4

LEMMA DayIsTriple ==
    ASSUME NEW d \in Seq(Nat), Len(d) = 3
    PROVE  d = <<d[1], d[2], d[3]>>
<1> DEFINE t == <<d[1], d[2], d[3]>>
<1>1. d \in [1 .. 3 -> Nat] /\ d[1] \in Nat /\ d[2] \in Nat /\ d[3] \in Nat
  OBVIOUS
<1>2. t \in [1 .. 3 -> Nat]
  BY <1>1
<1>3. ASSUME NEW i \in 1 .. 3
      PROVE  d[i] = t[i]
  <2>1. i = 1 \/ i = 2 \/ i = 3
    OBVIOUS
  <2> QED
    BY <2>1
<1> HIDE DEF t
<1>4. d = t
  BY <1>1, <1>2, <1>3
<1> QED
  BY <1>4 DEF t

(* The days that a date may stand for. *)
LEMMA DaysOfDate ==
    ASSUME NEW u \in Seq(Nat), IsDateValue(u)
    PROVE  /\ u[1] \in Nat /\ u[2] \in Nat /\ DaysIn[u[2]] \in Nat \ {0}
           /\ Len(u) \in {2, 3} /\ (Len(u) = 2 <=> IsMonth(u))
           /\ \A d \in Days(u) : /\ d \in Seq(Nat) /\ Len(d) = 3
                                 /\ d[1] = u[1] /\ d[2] = u[2] /\ d[3] \in 1 .. DaysIn[u[2]]
           /\ Len(u) = 3 => u \in Days(u) /\ u[3] \in 1 .. DaysIn[u[2]]
           /\ Len(u) = 2 => \A n \in 1 .. DaysIn[u[2]] : <<u[1], u[2], n>> \in Days(u)
<1>1. Len(u) \in {2, 3} /\ (Len(u) = 2 <=> IsMonth(u)) /\ u[2] \in DOMAIN DaysIn
  BY DEF IsDateValue, IsMonth, IsDay
<1>2. u[1] \in Nat /\ u[2] \in Nat /\ DaysIn[u[2]] \in Nat \ {0}
  BY <1>1, FactsAssumption
<1>3. CASE Len(u) = 3
  <2>1. u[3] \in 1 .. DaysIn[u[2]]
    BY <1>3 DEF IsDateValue, IsMonth, IsDay
  <2> QED
    BY <1>1, <1>2, <1>3, <2>1 DEF Days
<1>4. CASE Len(u) = 2
  <2>1. \A n \in Nat : Append(u, n) = <<u[1], u[2], n>>
    <3> SUFFICES ASSUME NEW n \in Nat PROVE Append(u, n) = <<u[1], u[2], n>>
      OBVIOUS
    <3>1. /\ Append(u, n) \in Seq(Nat) /\ Len(Append(u, n)) = 3
          /\ Append(u, n)[1] = u[1] /\ Append(u, n)[2] = u[2] /\ Append(u, n)[3] = n
      <4>1. Append(u, n) \in Seq(Nat) /\ Len(Append(u, n)) = Len(u) + 1
        OBVIOUS
      <4>2. \A i \in 1 .. Len(u) : Append(u, n)[i] = u[i]
        OBVIOUS
      <4>3. Append(u, n)[Len(u) + 1] = n
        OBVIOUS
      <4>4. Len(u) + 1 = 3 /\ 1 \in 1 .. Len(u) /\ 2 \in 1 .. Len(u)
        BY <1>4
      <4> QED
        BY <4>1, <4>2, <4>3, <4>4
    <3> QED
      BY <3>1, DayIsTriple
  <2>2. \A n \in 1 .. DaysIn[u[2]] : n \in Nat
    BY <1>2
  <2>3. Days(u) = {<<u[1], u[2], n>> : n \in 1 .. DaysIn[u[2]]}
    <3>1. Days(u) = {Append(u, n) : n \in 1 .. DaysIn[u[2]]}
      BY <1>4 DEF Days
    <3> QED
      BY <2>1, <2>2, <3>1, Zenon
  <2>4. \A n \in Nat : /\ <<u[1], u[2], n>> \in Seq(Nat) /\ Len(<<u[1], u[2], n>>) = 3
                       /\ <<u[1], u[2], n>>[1] = u[1] /\ <<u[1], u[2], n>>[2] = u[2]
                       /\ <<u[1], u[2], n>>[3] = n
    BY <1>2
  <2>5. ASSUME NEW d \in Days(u)
        PROVE  /\ d \in Seq(Nat) /\ Len(d) = 3
               /\ d[1] = u[1] /\ d[2] = u[2] /\ d[3] \in 1 .. DaysIn[u[2]]
    <3>1. PICK n \in 1 .. DaysIn[u[2]] : d = <<u[1], u[2], n>>
      BY <2>3
    <3> QED
      BY <2>2, <2>4, <3>1
  <2>6. \A n \in 1 .. DaysIn[u[2]] : <<u[1], u[2], n>> \in Days(u)
    BY <2>3
  <2> QED
    BY <1>1, <1>2, <1>4, <2>5, <2>6
<1> QED
  BY <1>1, <1>3, <1>4

(* The test of the strings is the one of the days. *)
LEMMA DatesAreTested ==
    ASSUME NEW u \in Seq(Nat), NEW v \in Seq(Nat), IsDateValue(u), IsDateValue(v)
    PROVE  ~EndsBeforeStart(u, v) <=> \E d \in Days(u), e \in Days(v) : d = e \/ Earlier(d, e)
<1> DEFINE Before2 == v[1] < u[1] \/ (v[1] = u[1] /\ v[2] < u[2])
<1>1. /\ u[1] \in Nat /\ u[2] \in Nat /\ v[1] \in Nat /\ v[2] \in Nat
      /\ Len(u) \in {2, 3} /\ (Len(u) = 2 <=> IsMonth(u))
      /\ Len(v) \in {2, 3} /\ (Len(v) = 2 <=> IsMonth(v))
      /\ DaysIn[u[2]] \in Nat \ {0} /\ DaysIn[v[2]] \in Nat \ {0}
  BY DaysOfDate
<1>2. CASE Len(u) = 3 /\ Len(v) = 3
  <2>1. ASSUME NEW w \in Seq(Nat), Len(w) = 3
        PROVE  SubSeq(w, 1, 3) = w
    <3>1. /\ SubSeq(w, 1, 3) \in Seq(Nat) /\ Len(SubSeq(w, 1, 3)) = 3
          /\ SubSeq(w, 1, 3)[1] = w[1] /\ SubSeq(w, 1, 3)[2] = w[2] /\ SubSeq(w, 1, 3)[3] = w[3]
      <4>1. Len(SubSeq(w, 1, 3)) = 3
        BY <2>1
      <4>4. SubSeq(w, 1, 3) \in Seq(Nat)
        <5>1. \A i \in 1 .. 3 : i \in 1 .. Len(w)
          BY <2>1
        <5> QED
          BY <5>1
      <4>2. \A i \in 1 .. 3 : SubSeq(w, 1, 3)[i] = w[1 + i - 1]
        BY <2>1
      <4>3. /\ 1 \in 1 .. 3 /\ 2 \in 1 .. 3 /\ 3 \in 1 .. 3
            /\ 1 + 1 - 1 = 1 /\ 1 + 2 - 1 = 2 /\ 1 + 3 - 1 = 3
        OBVIOUS
      <4> QED
        BY <4>1, <4>2, <4>3, <4>4
    <3> QED
      BY <2>1, <3>1, DayIsTriple
  <2>2. EndsBeforeStart(u, v) <=> Earlier(v, u)
    <3>1. EndsBeforeStart(u, v) <=> Earlier(SubSeq(v, 1, 3), SubSeq(u, 1, 3))
      BY <1>1, <1>2 DEF EndsBeforeStart
    <3> QED
      BY <1>2, <2>1, <3>1
  <2>3. Days(u) = {u} /\ Days(v) = {v}
    BY <1>2 DEF Days
  <2>4. u[3] \in Nat /\ v[3] \in Nat
    <3>1. 3 \in 1 .. Len(u) /\ 3 \in 1 .. Len(v)
      BY <1>2
    <3> QED
      BY <3>1
  <2>5. (u[1] = v[1] /\ u[2] = v[2] /\ u[3] = v[3]) => u = v
    BY <1>2, DayIsTriple
  <2>6. (\E d \in Days(u), e \in Days(v) : d = e \/ Earlier(d, e)) <=> u = v \/ Earlier(u, v)
    BY <2>3
  <2>7. /\ Earlier(u, v) <=> \/ u[1] < v[1]
                             \/ u[1] = v[1] /\ u[2] < v[2]
                             \/ u[1] = v[1] /\ u[2] = v[2] /\ u[3] < v[3]
        /\ Earlier(v, u) <=> \/ v[1] < u[1]
                             \/ v[1] = u[1] /\ v[2] < u[2]
                             \/ v[1] = u[1] /\ v[2] = u[2] /\ v[3] < u[3]
    BY <1>2, DaysInOrder
  <2>8. Earlier(v, u) <=> ~(u = v \/ Earlier(u, v))
    <3>1. u = v => u[1] = v[1] /\ u[2] = v[2] /\ u[3] = v[3]
      OBVIOUS
    <3>2. u[1] < v[1] \/ u[1] = v[1] \/ v[1] < u[1]
      BY <1>1
    <3>3. u[2] < v[2] \/ u[2] = v[2] \/ v[2] < u[2]
      BY <1>1
    <3>4. u[3] < v[3] \/ u[3] = v[3] \/ v[3] < u[3]
      BY <2>4
    <3>5. \A m, n \in Nat : m < n => ~(n < m) /\ m # n
      OBVIOUS
    <3> QED
      BY <1>1, <2>4, <2>5, <2>7, <3>1, <3>2, <3>3, <3>4, <3>5, Zenon
  <2> QED
    BY <2>2, <2>6, <2>8
<1>3. CASE Len(u) = 2 \/ Len(v) = 2
  <2>1. /\ SubSeq(u, 1, 2) \in Seq(Nat) /\ SubSeq(v, 1, 2) \in Seq(Nat)
        /\ Len(SubSeq(v, 1, 2)) = 2
        /\ SubSeq(u, 1, 2)[1] = u[1] /\ SubSeq(u, 1, 2)[2] = u[2]
        /\ SubSeq(v, 1, 2)[1] = v[1] /\ SubSeq(v, 1, 2)[2] = v[2]
    BY <1>1
  <2>2. EndsBeforeStart(u, v) <=> Earlier(SubSeq(v, 1, 2), SubSeq(u, 1, 2))
    BY <1>1, <1>3 DEF EndsBeforeStart
  <2>3. EndsBeforeStart(u, v) <=> Before2
    BY <2>1, <2>2, MonthsInOrder
  <2>4. ASSUME NEW d \in Days(u), NEW e \in Days(v), d = e \/ Earlier(d, e)
        PROVE  ~Before2
    <3>1. /\ d \in Seq(Nat) /\ Len(d) = 3 /\ d[1] = u[1] /\ d[2] = u[2]
          /\ e \in Seq(Nat) /\ Len(e) = 3 /\ e[1] = v[1] /\ e[2] = v[2]
      BY DaysOfDate
    <3>2. \/ d[1] < e[1]
          \/ d[1] = e[1] /\ d[2] < e[2]
          \/ d[1] = e[1] /\ d[2] = e[2]
      <4>1. CASE d = e
        BY <4>1
      <4>2. CASE Earlier(d, e)
        BY <3>1, <4>2, DaysInOrder
      <4> QED
        BY <2>4, <4>1, <4>2
    <3> QED
      BY <1>1, <3>1, <3>2
  <2>5. ASSUME ~Before2
        PROVE  \E d \in Days(u), e \in Days(v) : d = e \/ Earlier(d, e)
    <3>1. /\ \E d \in Days(u) : TRUE
          /\ \E e \in Days(v) : TRUE
      <4>1. 1 \in 1 .. DaysIn[u[2]] /\ 1 \in 1 .. DaysIn[v[2]]
        BY <1>1
      <4> QED
        BY <1>1, <4>1, DaysOfDate
    <3>2. PICK d \in Days(u), e \in Days(v) : TRUE
      BY <3>1
    <3>3. /\ d \in Seq(Nat) /\ Len(d) = 3 /\ d[1] = u[1] /\ d[2] = u[2]
          /\ d[3] \in 1 .. DaysIn[u[2]]
          /\ e \in Seq(Nat) /\ Len(e) = 3 /\ e[1] = v[1] /\ e[2] = v[2]
          /\ e[3] \in 1 .. DaysIn[v[2]]
      BY DaysOfDate
    <3>4. CASE u[1] = v[1] /\ u[2] = v[2]
      <4>1. CASE Len(u) = 2
        <5>1. <<u[1], u[2], e[3]>> \in Days(u)
          BY <3>3, <3>4, <4>1, DaysOfDate
        <5>2. <<u[1], u[2], e[3]>> = e
          BY <3>3, <3>4
        <5> QED
          BY <5>1, <5>2
      <4>2. CASE Len(v) = 2
        <5>1. <<v[1], v[2], d[3]>> \in Days(v)
          BY <3>3, <3>4, <4>2, DaysOfDate
        <5>2. <<v[1], v[2], d[3]>> = d
          BY <3>3, <3>4
        <5> QED
          BY <5>1, <5>2
      <4> QED
        BY <1>3, <4>1, <4>2
    <3>5. CASE u[1] < v[1] \/ (u[1] = v[1] /\ u[2] < v[2])
      <4>1. Earlier(d, e)
        BY <3>3, <3>5, DaysInOrder
      <4> QED
        BY <4>1
    <3> QED
      BY <1>1, <2>5, <3>4, <3>5
  <2> QED
    BY <2>3, <2>4, <2>5
<1> QED
  BY <1>1, <1>2, <1>3

LEMMA ContradictionsAreRefused ==
    ASSUME NEW s, IsAnswer(s)
    PROVE  ValidListing(s) <=> ~Contradictory(s)
<1>1. /\ s.cold \in {None} \cup Int /\ s.warm \in {None} \cup Int
      /\ s.bedrooms \in {None} \cup Int /\ s.rooms \in {None} \cup Int
      /\ s.floor \in {None} \cup Int /\ s.totalFloors \in {None} \cup Int
      /\ s.from \in {None} \cup Seq(Nat) /\ s.until \in {None} \cup Seq(Nat)
      /\ s.oldBuilding \in Seq(BOOLEAN)
  BY DEF IsAnswer
<1> DEFINE ends == s.until # None =>
                     /\ IsDateValue(s.until)
                     /\ s.from # None => ~EndsBeforeStart(s.from, s.until)
<1>2. (s.from # None => IsDateValue(s.from)) /\ ends <=> DatesPossible(s)
  <2>1. ASSUME s.from # None, s.until # None, IsDateValue(s.from), IsDateValue(s.until)
        PROVE  ~EndsBeforeStart(s.from, s.until) <=>
                 \E d \in Days(s.from), e \in Days(s.until) : d = e \/ Earlier(d, e)
    BY <1>1, <2>1, DatesAreTested
  <2> QED
    BY <2>1 DEF DatesPossible, Known
<1>3. Known(s.cold, s.warm) => (s.warm >= s.cold <=> ~(s.cold > s.warm))
  BY <1>1 DEF Known
<1>4. Len(s.oldBuilding) <= 1 <=> ~\E i, j \in DOMAIN s.oldBuilding : i # j
  <2> DEFINE n == Len(s.oldBuilding)
  <2>1. n \in Nat /\ DOMAIN s.oldBuilding = 1 .. n
    BY <1>1
  <2>2. n <= 1 => \A i, j \in 1 .. n : i = j
    BY <2>1
  <2>3. ~(n <= 1) => 1 \in 1 .. n /\ 2 \in 1 .. n
    BY <2>1
  <2> QED
    BY <2>1, <2>2, <2>3
<1>5. Known(s.bedrooms, s.rooms) => (s.bedrooms <= s.rooms <=> ~(s.bedrooms > s.rooms))
  BY <1>1 DEF Known
<1>6. Known(s.floor, s.totalFloors) => (s.floor <= s.totalFloors <=> ~(s.floor > s.totalFloors))
  BY <1>1 DEF Known
<1>7. ValidListing(s) <=>
        /\ s.shape
        /\ (s.from # None => IsDateValue(s.from)) /\ ends
        /\ s.until # None => s.leaseDuration = "fixed"
        /\ Known(s.cold, s.warm) => s.warm >= s.cold
        /\ Len(s.oldBuilding) <= 1
        /\ Known(s.bedrooms, s.rooms) => s.bedrooms <= s.rooms
        /\ Known(s.floor, s.totalFloors) => s.floor <= s.totalFloors
  BY DEF ValidListing
<1> QED
  BY <1>2, <1>3, <1>4, <1>5, <1>6, <1>7 DEF Contradictory

(* An answer is refused exactly when it contradicts itself or says a thing  *)
(* twice, and whatever an advert keeps silent about, it is not turned down  *)
(* for more than it is with that said.                                      *)
THEOREM AdvertsAreJudgedAsStated == Spec => []JudgedAsStated
<1>1. ASSUME CInv, NEW a \in Advert, NEW x \in captures[a]
      PROVE  /\ {"answer", "place", "market", "claims"} \subseteq DOMAIN x
             /\ IsAnswer(x.answer)
  BY <1>1, ExtractionsAssumption DEF CInv, IInv, Shape
<1>2. CInv => JudgedRight
  <2> SUFFICES ASSUME CInv, NEW a \in Advert, latest[a] # None
               PROVE  judged[a] = "refused" <=> Contradictory(latest[a].answer)
    BY DEF JudgedRight
  <2>1. latest[a] \in captures[a]
    BY DEF CInv, IInv, Shape
  <2>2. ValidListing(latest[a].answer) <=> ~Contradictory(latest[a].answer)
    BY <1>1, <2>1, ContradictionsAreRefused
  <2>3. judged[a] = IF ValidListing(latest[a].answer) THEN "kept" ELSE "refused"
    BY DEF CInv, Judged
  <2> QED
    BY <2>2, <2>3
<1>3. CInv => SilencePasses
  <2> SUFFICES ASSUME CInv, NEW l \in DOMAIN listings, NEW y \in Silenced(shows[l][2])
               PROVE  FilterListing(Facts(shows[l][1], y), decisions[l].filters)
                        \subseteq decisions[l].reasons
    BY DEF SilencePasses
  <2> DEFINE a == shows[l][1]
             x == shows[l][2]
  <2>1. a \in Advert /\ x \in captures[a]
    BY DEF CInv, Rows
  <2>2. decisions[l] = Decision(Facts(a, x), decisions[l].filters)
    BY DEF CInv, Coherent
  <2>3. decisions[l].reasons = FilterListing(Facts(a, x), decisions[l].filters)
    BY <2>2 DEF Decision
  <2> QED
    BY <1>1, <2>1, <2>3, SilenceIsQuieter
<1> QED
  BY <1>2, <1>3, CInvAlways, PTL DEF JudgedAsStated
-----------------------------------------------------------------------------
(* An advert that no other claim leads to joins only its like. *)

LEMMA SizesWithin ==
    ASSUME NEW u \in {None} \cup Int, NEW v \in {None} \cup Int, SizesAgree(u, v)
    PROVE  /\ BothPositive(u, v)
           /\ u * 99 <= v * 100 /\ v * 99 <= u * 100 /\ u - v \in -10 .. 10
<1>1. u \in Int /\ v \in Int /\ u # None /\ v # None
  BY DEF SizesAgree, BothPositive, Positive
<1>2. /\ Abs(u - v) * 100 <= Smaller(1000, Larger(u, v))
      /\ Smaller(1000, Larger(u, v)) <= 1000 /\ Smaller(1000, Larger(u, v)) <= Larger(u, v)
  BY <1>1 DEF SizesAgree, Smaller, Larger
<1>3. BothPositive(u, v)
  BY DEF SizesAgree
<1>4. CASE u <= v
  BY <1>1, <1>2, <1>3, <1>4 DEF Abs, Larger, Smaller
<1>5. CASE v < u
  BY <1>1, <1>2, <1>3, <1>5 DEF Abs, Larger, Smaller
<1> QED
  BY <1>1, <1>4, <1>5

LEMMA PricesWithin ==
    ASSUME NEW u \in Int, NEW v \in Int, BothPositive(u, v), PricesAgree(u, v)
    PROVE  u * 95 <= v * 100 /\ v * 95 <= u * 100
<1>1. Abs(u - v) * 20 <= Larger(u, v)
  BY DEF PricesAgree
<1>2. CASE u <= v
  BY <1>1, <1>2 DEF Abs, Larger
<1>3. CASE v < u
  BY <1>1, <1>3 DEF Abs, Larger
<1> QED
  BY <1>2, <1>3

(* What is not vetoed agrees. *)
LEMMA UnvetoedAgree ==
    ASSUME NEW a, NEW b, NEW c, NEW x, NEW y, IsAnswer(x.answer), IsAnswer(y.answer), NEW n,
           ~Vetoed(Facts(a, x), RowOf(b, y, c), RowOf(b, y, c).attributes, n)
    PROVE  Agree(x, y) /\ ~(n < 2)
<1> DEFINE s == x.answer
           t == y.answer
           f == AttributesFromExtraction(s)
           g == AttributesFromExtraction(t)
<1>1. /\ Facts(a, x).market = x.market /\ RowOf(b, y, c).market = y.market
      /\ Facts(a, x).address = s.address /\ RowOf(b, y, c).address = t.address
      /\ Facts(a, x).rooms = s.rooms /\ RowOf(b, y, c).rooms = t.rooms
      /\ Facts(a, x).size = s.size /\ RowOf(b, y, c).size = t.size
      /\ Facts(a, x).price = Price(s) /\ RowOf(b, y, c).price = Price(t)
      /\ Facts(a, x).attributes = f /\ RowOf(b, y, c).attributes = g
  BY DEF Facts, RowOf
<1>2. /\ ~(Known(x.market, y.market) /\ x.market # y.market)
      /\ ~(Known(s.address, t.address) /\ ~AddressesCompatible(s.address, t.address))
      /\ BothPositive(s.rooms, t.rooms) => s.rooms = t.rooms
      /\ ~(Known(f.floor, g.floor) /\ f.floor # g.floor)
      /\ ~(n < 2)
      /\ SizesAgree(s.size, t.size)
      /\ ~(f.priceType \in {"cold", "warm"} /\ f.priceType = g.priceType
           /\ ~PricesAgree(Price(s), Price(t)))
  BY <1>1 DEF Vetoed, RoomsConflict
<1>3. /\ f.floor = s.floor /\ g.floor = t.floor
      /\ f.priceType = IF s.cold # None THEN "cold" ELSE IF s.warm # None THEN "warm" ELSE None
      /\ g.priceType = IF t.cold # None THEN "cold" ELSE IF t.warm # None THEN "warm" ELSE None
  BY DEF AttributesFromExtraction
<1> HIDE DEF f, g
<1>4. /\ s.size \in {None} \cup Int /\ t.size \in {None} \cup Int
      /\ s.cold \in {None} \cup Int /\ t.cold \in {None} \cup Int
      /\ s.warm \in {None} \cup Int /\ t.warm \in {None} \cup Int
  BY DEF IsAnswer
<1> HIDE DEF s, t
<1>5. /\ BothPositive(s.size, t.size)
      /\ s.size * 99 <= t.size * 100 /\ t.size * 99 <= s.size * 100
      /\ s.size - t.size \in -10 .. 10
  BY <1>2, <1>4, SizesWithin
<1>6. ASSUME BothPositive(s.cold, t.cold)
      PROVE  s.cold * 95 <= t.cold * 100 /\ t.cold * 95 <= s.cold * 100
  <2>1. Price(s) = s.cold /\ Price(t) = t.cold
    BY <1>6 DEF BothPositive, Positive, Price
  <2>2. PricesAgree(s.cold, t.cold)
    BY <1>2, <1>3, <1>6, <2>1 DEF BothPositive, Positive
  <2> QED
    BY <1>4, <1>6, <2>2, PricesWithin DEF BothPositive, Positive
<1>7. ASSUME s.cold = None, t.cold = None, BothPositive(s.warm, t.warm)
      PROVE  s.warm * 95 <= t.warm * 100 /\ t.warm * 95 <= s.warm * 100
  <2>1. Price(s) = s.warm /\ Price(t) = t.warm
    BY <1>7 DEF BothPositive, Positive, Price
  <2>2. PricesAgree(s.warm, t.warm)
    BY <1>2, <1>3, <1>7, <2>1 DEF BothPositive, Positive
  <2> QED
    BY <1>4, <1>7, <2>2, PricesWithin DEF BothPositive, Positive
<1>8. Known(s.address, t.address) =>
        \/ s.address.words \subseteq t.address.words
        \/ t.address.words \subseteq s.address.words
  BY <1>2 DEF AddressesCompatible
<1>9. 100 - 1 = 99 /\ 100 - 5 = 95
  OBVIOUS
<1> QED
  BY <1>2, <1>3, <1>5, <1>6, <1>7, <1>8, <1>9 DEF Agree, s, t

LEMMA StepJoinsLike ==
    ASSUME CInv, [Next]_vars, NEW a \in Advert, sources[a] = None,
           sources'[a] \in DOMAIN shows
    PROVE  \/ \E c \in latest[a].claims : c.kind # "img" /\ claims[c] = sources'[a]
           \/ /\ Agree(latest[a], shows[sources'[a]][2])
              /\ Cardinality({c \in latest[a].claims : claims[c] = sources'[a]}) >= 2
<1> DEFINE l == sources'[a]
           cs == latest[a].claims
           new == Facts(a, latest[a])
<1>1. /\ l \in DOMAIN listings /\ l \in Listing /\ l # None
      /\ l # sources[a]
  BY ListingsAssumption DEF CInv, IInv, Rows, Shape
<1>2. Merges(a)
  <2>1. ASSUME NEW b \in Advert, Merges(b)
        PROVE  a = b
    BY <1>1, <2>1 DEF Merges, Writes, CInv, IInv, Shape
  <2>2. ASSUME NEW b \in Advert, Adds(b)
        PROVE  FALSE
    <3>1. PICK m \in Listing \ DOMAIN listings : Writes(b, m, Facts(b, latest[b]))
      BY <2>2 DEF Adds
    <3>2. sources' = [sources EXCEPT ![b] = m]
      BY <3>1 DEF Writes
    <3> QED
      BY <1>1, <3>1, <3>2 DEF CInv, IInv, Shape
  <2>3. ASSUME NEW b \in Advert, Extracts(b)
        PROVE  FALSE
    BY <1>1, <2>3 DEF Extracts
  <2>4. ASSUME NEW m \in DOMAIN listings, Reevaluates(m)
        PROVE  FALSE
    BY <1>1, <2>4 DEF Reevaluates
  <2>5. ~Patches /\ ~UNCHANGED vars
    BY <1>1 DEF Patches, vars
  <2> QED
    BY <2>1, <2>2, <2>3, <2>4, <2>5 DEF Next
<1>3. judged[a] = "kept"
  BY <1>2 DEF Merges
<1>4. l \in Matches(new, cs)
  <2>1. PICK m \in Matches(new, cs) : Writes(a, m, Merged(listings[m], new))
    BY <1>2 DEF Merges
  <2>2. sources'[a] = m
    BY <2>1 DEF Writes, CInv, IInv, Shape
  <2> QED
    BY <2>1, <2>2
<1>5. PICK c \in cs : /\ claims[c] = l
                      /\ c.kind \in IdentityKinds \/
                         ~Vetoed(new, listings[l], listings[l].attributes, SharedImages(l, cs))
  BY <1>4 DEF Matches, MatchedKinds
<1>6. CASE c.kind \in IdentityKinds
  BY <1>5, <1>6 DEF IdentityKinds
<1>7. CASE ~Vetoed(new, listings[l], listings[l].attributes, SharedImages(l, cs))
  <2> DEFINE b == shows[l][1]
             y == shows[l][2]
  <2>1. /\ latest[a] \in captures[a] /\ b \in Advert /\ y \in captures[b]
        /\ captures \in Worlds
    BY <1>1, <1>3 DEF CInv, IInv, Shape, Rows
  <2>2. IsAnswer(latest[a].answer) /\ IsAnswer(y.answer) /\ IsFiniteSet(cs)
    BY <2>1, ExtractionsAssumption
  <2>3. listings[l] = RowOf(b, y, listings[l].created)
    BY <1>1 DEF CInv, Coherent, RowOf
  <2>4. Agree(latest[a], y) /\ ~(SharedImages(l, cs) < 2)
    BY <1>7, <2>2, <2>3, UnvetoedAgree
  <2> DEFINE images == {k \in cs : claims[k] = l /\ k.kind = "img"}
             shared == {k \in cs : claims[k] = l}
  <2>5. /\ IsFiniteSet(shared) /\ IsFiniteSet(images)
        /\ Cardinality(images) <= Cardinality(shared)
    <3>1. shared \subseteq cs /\ images \subseteq shared
      OBVIOUS
    <3>2. IsFiniteSet(shared)
      BY <2>2, <3>1, FS_Subset
    <3> QED
      BY <3>1, <3>2, FS_Subset
  <2>6. Cardinality(images) \in Nat /\ Cardinality(shared) \in Nat
    BY <2>5, FS_CardinalityType
  <2>7. Cardinality(shared) >= 2
    BY <2>4, <2>5, <2>6 DEF SharedImages
  <2> QED
    BY <2>4, <2>7
<1> QED
  BY <1>5, <1>6, <1>7

(* An advert that no source key, id or URL leads to joins a listing only if *)
(* it shares two images with it and agrees with the extraction that the     *)
(* listing shows, in market, address, rooms, floor, size and rent, as far   *)
(* as both state them and the rooms and rents are above 0.                  *)
THEOREM AdvertsJoinTheirLike == Spec => JoinsItsLike
<1>1. CInv /\ [Next]_vars =>
        [\A a \in Advert :
           LET l == sources'[a]
               known == \E c \in latest[a].claims : c.kind # "img" /\ claims[c] = l
           IN (sources[a] = None /\ l \in DOMAIN shows) =>
                 \/ known
                 \/ /\ Agree(latest[a], shows[l][2])
                    /\ Cardinality({c \in latest[a].claims : claims[c] = l}) >= 2]_vars
  BY StepJoinsLike
<1> QED
  BY <1>1, CInvAlways, PTL DEF Spec, JoinsItsLike
=============================================================================
