CONSTANTS
    None = None
    l1 = l1
    l2 = l2
    l3 = l3
    DaysIn <- ShortMonths
    Advert <- Adverts
    Listing = {l1, l2, l3}
    Claim <- AllClaims
    Worlds <- AllWorlds
    Configs <- FilterSets
SYMMETRY Symmetry
SPECIFICATION Spec
INVARIANTS ListingsConsistent JudgedAsStated
PROPERTIES SourceKeepsItsListing JoinsItsLike
CHECK_DEADLOCK FALSE
