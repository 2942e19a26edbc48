------------------------------ MODULE MCGeocoder ------------------------------
(* Geocoder for TLC. *)
EXTENDS Geocoder

Named(key, spelling, street, postcode, bare) ==
    [key |-> key, spelling |-> spelling, street |-> street, postcode |-> postcode,
     bare |-> bare, full |-> FALSE, city |-> TRUE]

(* A street with a placeholder postcode, which has four candidates; a       *)
(* postcode alone, which has two, in two spellings; a bare street.          *)
Addresses ==
    {Named("a", "s1", TRUE, "placeholder", FALSE),
     Named("b", "s1", FALSE, "real", FALSE), Named("b", "s2", FALSE, "real", FALSE),
     Named("c", "s1", TRUE, "none", TRUE)}

Given(germany, postcode, route, city, type) ==
    [germany |-> germany, postcode |-> postcode, route |-> route, city |-> city, type |-> type]

(* The house itself; the postcode's area; the street under another postcode *)
(* and without one; the street in another town; the same abroad.            *)
Answers ==
    {Given(TRUE, "same", "street", TRUE, "ROOFTOP"),
     Given(TRUE, "mentioned", "none", TRUE, "APPROXIMATE"),
     Given(TRUE, "other", "street", TRUE, "GEOMETRIC_CENTER"),
     Given(TRUE, "none", "street", FALSE, "RANGE_INTERPOLATED"),
     Given(FALSE, "same", "street", TRUE, "ROOFTOP")}

(* What dedupeCandidates makes of any address: the first of each request.   *)
FirstOfEach(a) ==
    LET Seen(found, c) == \E i \in DOMAIN found : SameRequest(found[i], c)
        Add(found, c) == IF Seen(found, c) THEN found ELSE Append(found, c)
    IN FoldLeft(Add, <<>>, AllCandidates(a))

ASSUME OnlyTheSecondRepeats ==
    \A street, bare, full, city \in BOOLEAN, postcode \in Postcodes :
        LET a == [street |-> street, bare |-> bare, full |-> full, city |-> city,
                  postcode |-> postcode]
        IN (bare => street /\ postcode = "none")
              /\ (full => street /\ postcode # "none" /\ city)
           => Candidates(a) = FirstOfEach(a)
=============================================================================
