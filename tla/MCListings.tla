------------------------------ MODULE MCListings ------------------------------
(***************************************************************************)
(* Listings for TLC.  In most worlds one advert has one capture, which is   *)
(* extracted to any combination of facts that the filters or the validation *)
(* tell apart; in the others up to three adverts share images and disagree. *)
(***************************************************************************)
EXTENDS Listings, TLC

CONSTANTS l1, l2, l3

Adverts == 1 .. 3
Symmetry == Permutations({l1, l2, l3})

(* Months of two days and of one. *)
ShortMonths == <<2, 1>>

Plain ==
    [shape |-> TRUE, from |-> None, until |-> None, leaseDuration |-> None,
     cold |-> 1000, warm |-> None, oldBuilding |-> <<>>, bedrooms |-> None, rooms |-> None,
     floor |-> None, totalFloors |-> None, size |-> 700, offerKind |-> None, unitKind |-> None,
     rentalArrangement |-> None, furnishingStatus |-> None, address |-> None]

Claims(a, images) ==
    {Source(a), [kind |-> "url", value |-> a]}
        \cup {[kind |-> "img", value |-> i] : i \in images}

Extracted(a, answer, place, images) ==
    [answer |-> answer, place |-> place, market |-> "berlin", claims |-> Claims(a, images)]

At(accuracy, inside) == [accuracy |-> accuracy, inside |-> inside]
Places == {None, At("house", TRUE), At("house", FALSE), At("street", FALSE)}

(* What the filters read, in all combinations. *)
Suitability ==
    {Extracted(1, [Plain EXCEPT !.size = z, !.cold = r[1], !.warm = r[2], !.offerKind = o,
                                !.unitKind = u, !.rentalArrangement = t, !.leaseDuration = d,
                                !.furnishingStatus = f, !.oldBuilding = b], p, {}) :
        z \in {None, 599, 600}, r \in {<<None, 2600>>, <<2500, 2600>>, <<2501, None>>},
        o \in {None, "swap"}, u \in {None, "private_room"}, t \in {None, "sublet"},
        d \in {None, "fixed"}, f \in {"partial", "full"}, b \in {<<>>, <<FALSE>>},
        p \in Places}

Dates == {None, <<1, 1>>, <<1, 2>>, <<1, 3>>, <<1, 1, 1>>, <<1, 1, 2>>, <<1, 2, 1>>, <<1, 2, 2>>}

(* What the validation looks at. *)
Sanity ==
    {Extracted(1, [Plain EXCEPT !.from = d, !.until = e, !.leaseDuration = l], None, {}) :
        d \in Dates, e \in Dates, l \in {None, "fixed"}}
    \cup {Extracted(1, [Plain EXCEPT !.shape = s, !.warm = w, !.oldBuilding = b, !.rooms = 2,
                                     !.bedrooms = n, !.floor = 1, !.totalFloors = f], None, {}) :
        s \in BOOLEAN, w \in {None, 999, 1000}, b \in {<<>>, <<TRUE>>, <<TRUE, FALSE>>, <<TRUE, TRUE>>},
        n \in {None, 2, 3}, f \in {None, 0, 1}}

Street(words, numbers) == [words |-> words, numbers |-> numbers]

(* Advert 1 and a repost of it, which states rooms, and one of another flat *)
(* in the house, whose photos the first advert shows later.                 *)
Reposts ==
    [a \in Adverts |->
        CASE a = 1 -> {Extracted(1, Plain, None, {"p", "q"}),
                       Extracted(1, [Plain EXCEPT !.rooms = 2], None, {"r", "s"})}
          [] a = 2 -> {Extracted(2, [Plain EXCEPT !.size = 707, !.rooms = 3], None, {"p", "q"}),
                       Extracted(2, [Plain EXCEPT !.size = 708], None, {"p", "q"})}
          [] a = 3 -> {Extracted(3, [Plain EXCEPT !.rooms = 2, !.furnishingStatus = "full"], None,
                                 {"p", "q", "r", "s"})}]

(* Prices on either basis and one of 0, floors, and an advert that states   *)
(* no size.                                                                 *)
Bases ==
    [a \in Adverts |->
        CASE a = 1 -> {Extracted(1, [Plain EXCEPT !.floor = 1], None, {"p", "q"}),
                       Extracted(1, [Plain EXCEPT !.cold = None, !.warm = 1060], None, {"p"})}
          [] a = 2 -> {Extracted(2, [Plain EXCEPT !.cold = r[1], !.warm = r[2]], None, {"p", "q"}) :
                          r \in {<<1052, None>>, <<1053, None>>, <<0, 1053>>}}
          [] a = 3 -> {Extracted(3, [Plain EXCEPT !.size = None], None, {"p", "q"}),
                       Extracted(3, [Plain EXCEPT !.floor = 2], None, {"p", "q"})}]

(* Addresses, markets, and a position that becomes precise. *)
Situations ==
    [a \in Adverts |->
        CASE a = 1 -> {Extracted(1, [Plain EXCEPT !.address = Street({"hauptstr", "5"}, {"5"})], p, {"p", "q"}) :
                          p \in {At("street", FALSE), At("house", FALSE)}}
          [] a = 2 -> {Extracted(2, [Plain EXCEPT !.address = Street(w, w \cap {"7"})], None, {"p", "q"}) :
                          w \in {{"hauptstr"}, {"hauptstr", "7"}, {"lindenstr"}}}
          [] a = 3 -> {[Extracted(3, Plain, None, {"p", "q"}) EXCEPT !.market = "potsdam"]}]

Alone(x) == [a \in Adverts |-> IF a = 1 THEN {x} ELSE {}]

AllWorlds == {Alone(x) : x \in Suitability \cup Sanity} \cup {Reposts, Bases, Situations}
AllClaims == UNION {Claims(a, {"p", "q", "r", "s"}) : a \in Adverts}

Filters(on) ==
    [minSize |-> IF on THEN 600 ELSE None, maxColdRent |-> IF on THEN 2500 ELSE None,
     excludeSwap |-> on, excludeRooms |-> on, excludeSublet |-> on, excludeFixedTerm |-> on,
     excludeFurnished |-> on, excludeNonAltbau |-> on, spatialFilter |-> on]
FilterSets == {Filters(TRUE), Filters(FALSE)}
=============================================================================
