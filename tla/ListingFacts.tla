----------------------------- MODULE ListingFacts -----------------------------
(***************************************************************************)
(* The facts of an advert: what an answer of the model must satisfy to be   *)
(* kept (lib/services/pipeline/listingSchema.js), the attributes made of it *)
(* (lib/services/listings/standardizedFacts.js), the shared filters         *)
(* (lib/services/pipeline/listingFilters.js) and the tests by which two     *)
(* adverts are told apart (lib/services/listings/claims.js).                *)
(*                                                                         *)
(* Numbers are integers in a unit that is fine enough for the tolerances:   *)
(* sizes are tenths of a square metre.  A date is a sequence of year, month *)
(* and, unless only the month is named, day.  An address is the set of its  *)
(* words (its tokens) and of the house numbers among them.                  *)
(***************************************************************************)
EXTENDS Integers, Sequences

CONSTANTS
    None,    \* null, "unknown", "unstated" or omitted
    DaysIn   \* the number of days of each month

ASSUME FactsAssumption ==
    /\ None \notin {"swap", "private_room", "shared_room", "sublet", "fixed", "full", "cold", "warm"}
    /\ DOMAIN DaysIn \subseteq Nat
    /\ \A m \in DOMAIN DaysIn : DaysIn[m] \in Nat \ {0}

(* The fields of an answer that count here; whether the values have their   *)
(* types and bounds otherwise is what shape says.                           *)
IsAnswer(s) ==
    /\ {"shape", "from", "until", "leaseDuration", "cold", "warm", "oldBuilding", "bedrooms",
        "rooms", "floor", "totalFloors", "size", "offerKind", "unitKind",
        "rentalArrangement", "furnishingStatus", "address"} \subseteq DOMAIN s
    /\ \A f \in {"cold", "warm", "bedrooms", "rooms", "floor", "totalFloors", "size"} :
          s[f] \in {None} \cup Int
    /\ \A f \in {"from", "until"} : s[f] \in {None} \cup Seq(Nat)
    /\ s.oldBuilding \in Seq(BOOLEAN)

Known(u, v) == u # None /\ v # None

(* positiveNumber, of both: what is not above 0 counts as unknown.          *)
Positive(n) == n # None /\ n > 0
BothPositive(u, v) == Positive(u) /\ Positive(v)

Abs(n) == IF n < 0 THEN -n ELSE n
Larger(m, n) == IF m < n THEN n ELSE m
Smaller(m, n) == IF m < n THEN m ELSE n
-----------------------------------------------------------------------------
(* Mutants: plausible slips in the code below. *)

(* Dates are compared as strings, whatever they name. *)
EndsBeforeStartAsText(from, until) ==
    \/ \E i \in 1 .. Smaller(Len(from), Len(until)) :
          until[i] < from[i] /\ \A j \in 1 .. i - 1 : until[j] = from[j]
    \/ Len(until) < Len(from) /\ until = SubSeq(from, 1, Len(until))

(* Adverts that state no size may be the same. *)
SizesAgreeUnlessKnown(u, v) ==
    BothPositive(u, v) => Abs(u - v) * 100 <= Smaller(1000, Larger(u, v))
-----------------------------------------------------------------------------
(* isIsoDate, isIsoMonth *)
IsMonth(d) == Len(d) = 2 /\ d[2] \in DOMAIN DaysIn
IsDay(d) == Len(d) = 3 /\ d[2] \in DOMAIN DaysIn /\ d[3] \in 1 .. DaysIn[d[2]]
IsDateValue(d) == IsMonth(d) \/ IsDay(d)

(* The digits have fixed widths, so that the order of the strings is that   *)
(* of the numbers.                                                          *)
Earlier(d, e) ==
    \E i \in 1 .. Len(d) : d[i] < e[i] /\ \A j \in 1 .. i - 1 : d[j] = e[j]

EndsBeforeStart(from, until) ==
    LET n == IF IsMonth(from) \/ IsMonth(until) THEN 2 ELSE 3
    IN Earlier(SubSeq(until, 1, n), SubSeq(from, 1, n))

(* validateListing.  shape: the object has the schema's fields with values  *)
(* of their types, within their bounds and enumerations.  from is None for  *)
(* the words immediate, flexible and unknown.  oldBuilding: what each       *)
(* mention of the amenity says.                                             *)
ValidListing(s) ==
    /\ s.shape
    /\ s.from # None => IsDateValue(s.from)
    /\ s.until # None =>
          /\ IsDateValue(s.until)
          /\ s.from # None => ~EndsBeforeStart(s.from, s.until)
          /\ s.leaseDuration = "fixed"
    /\ Known(s.cold, s.warm) => s.warm >= s.cold
    /\ Len(s.oldBuilding) <= 1
    /\ Known(s.bedrooms, s.rooms) => s.bedrooms <= s.rooms
    /\ Known(s.floor, s.totalFloors) => s.floor <= s.totalFloors
-----------------------------------------------------------------------------
(* attributesFromExtraction *)
ColdRent(s) == s.cold

AttributesFromExtraction(s) ==
    [offerKind |-> s.offerKind, unitKind |-> s.unitKind,
     rentalArrangement |-> s.rentalArrangement, leaseDuration |-> s.leaseDuration,
     furnishingStatus |-> s.furnishingStatus,
     coldRentEur |-> ColdRent(s),
     priceType |-> IF s.cold # None THEN "cold" ELSE IF s.warm # None THEN "warm" ELSE None,
     floor |-> s.floor,
     nonAltbau |-> \E i \in DOMAIN s.oldBuilding : ~s.oldBuilding[i]]

Price(s) == IF s.cold # None THEN s.cold ELSE s.warm

(* filterListing.  facts: size, attributes and place, where a place has an  *)
(* accuracy and lies inside one of the polygons or not.                     *)
FilterListing(facts, filters) ==
    LET a == facts.attributes
        violated ==
          [size |-> filters.minSize # None /\ facts.size # None /\ facts.size < filters.minSize,
           coldRentEur |-> /\ filters.maxColdRent # None /\ a.coldRentEur # None
                           /\ a.coldRentEur > filters.maxColdRent,
           offerKind |-> filters.excludeSwap /\ a.offerKind = "swap",
           unitKind |-> filters.excludeRooms /\ a.unitKind \in {"private_room", "shared_room"},
           rentalArrangement |-> filters.excludeSublet /\ a.rentalArrangement = "sublet",
           leaseDuration |-> filters.excludeFixedTerm /\ a.leaseDuration = "fixed",
           furnishingStatus |-> filters.excludeFurnished /\ a.furnishingStatus = "full",
           oldBuilding |-> filters.excludeNonAltbau /\ a.nonAltbau,
           area |-> /\ filters.spatialFilter /\ facts.place # None
                    /\ facts.place.accuracy = "house" /\ ~facts.place.inside]
    IN {r \in DOMAIN violated : violated[r]}

(* featureHash: the facts that the filters read. *)
Features(facts) ==
    [size |-> facts.size,
     attributes |-> [f \in DOMAIN facts.attributes \ {"priceType", "floor"} |->
                        facts.attributes[f]],
     place |-> facts.place]
-----------------------------------------------------------------------------
(* houseNumberConflict, addressesCompatible *)
HouseNumberConflict(u, v) ==
    u.numbers # {} /\ v.numbers # {} /\ u.numbers \cap v.numbers = {}

AddressesCompatible(u, v) ==
    /\ ~HouseNumberConflict(u, v)
    /\ u.words # {} /\ v.words # {}
    /\ u.words \subseteq v.words \/ v.words \subseteq u.words

RoomsConflict(u, v) == BothPositive(u, v) /\ u # v

SizesAgree(u, v) ==
    BothPositive(u, v) /\ Abs(u - v) * 100 <= Smaller(1000, Larger(u, v))

PricesAgree(u, v) == BothPositive(u, v) => Abs(u - v) * 20 <= Larger(u, v)

(* vetoes, for a match by images: the facts of the new extraction against a *)
(* row and its attributes.                                                  *)
Vetoed(new, row, attributes, sharedImages) ==
    \/ Known(new.market, row.market) /\ new.market # row.market
    \/ Known(new.address, row.address) /\ ~AddressesCompatible(new.address, row.address)
    \/ RoomsConflict(new.rooms, row.rooms)
    \/ Known(new.attributes.floor, attributes.floor) /\ new.attributes.floor # attributes.floor
    \/ sharedImages < 2
    \/ ~SizesAgree(new.size, row.size)
    \/ /\ new.attributes.priceType \in {"cold", "warm"}
       /\ new.attributes.priceType = attributes.priceType
       /\ ~PricesAgree(new.price, row.price)
=============================================================================
