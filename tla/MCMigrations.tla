---- MODULE MCMigrations ----
(* Key 2 is an alias of 1 and key 6 of 5.  One database has an advert under *)
(* an alias in two jobs, another a listing whose sources agree from one to  *)
(* the next and contradict each other from end to end; in one the jobs have *)
(* two destinations, one has a receipt of a chat that is no number,         *)
(* and in one a reference leads nowhere.                                    *)
EXTENDS Migrations, TLC

CONSTANT tool

MCCanon == [k \in 1 .. 7 |-> CASE k = 2 -> 1 [] k = 6 -> 5 [] OTHER -> k]
MCFacts == [k \in 1 .. 7 |-> CASE k = 3 -> 1 [] k = 4 -> 2 [] k = 5 -> 3 [] OTHER -> None]

At100 == 100 :> "frozen"
To101 == At100 @@ 101 :> "corrected"
To107 == To101 @@ 107 :> "107"
To109 == To107 @@ 109 :> "109"
MCReleases == {To101, To107, To109, [To107 EXCEPT ![101] = "edited"]}

Src(id, key, first, last, listing) ==
    [id |-> id, key |-> key, first |-> first, last |-> last, listing |-> listing, historical |-> FALSE]

Adverts(sources, waiting) ==
    [sources |-> sources, listings |-> {s.listing : s \in sources} \ {None},
     silent |-> {}, waiting |-> waiting, claims |-> {}]

Aliased == Adverts({Src(1, 2, 1, 3, <<"old", 1>>), Src(2, 2, 2, 4, None), Src(3, 7, 1, 2, None)},
                   {<<"old", 1>>})
Contradictory == Adverts({Src(1, 3, 1, 3, <<"old", 2>>), Src(2, 4, 2, 4, <<"old", 2>>),
                          Src(3, 5, 3, 4, <<"old", 2>>), Src(4, 7, 4, 4, <<"old", 2>>)}, {})
Empty == Adverts({}, {})

Sound == [destinations |-> {1}, chats |-> {1}, whole |-> TRUE]

Database(l, d, x) == [ledger |-> l, data |-> d, legacy |-> x]

MCDatabases ==
    {Database([m \in {} |-> None], Empty, [Sound EXCEPT !.chats = {}]),
     Database(100 :> "legacy", Aliased, Sound),
     Database(100 :> "legacy", Contradictory, Sound),
     Database(100 :> "frozen" @@ 101 :> "broken", Empty, [Sound EXCEPT !.destinations = {1, 2}]),
     Database(100 :> "frozen" @@ 101 :> "broken", Empty, [Sound EXCEPT !.chats = {1, None}]),
     Database(100 :> "legacy", Empty, [Sound EXCEPT !.whole = FALSE])}
====
