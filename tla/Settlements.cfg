\* Two dealers, two sales, a crash; with a grace day and without.
SPECIFICATION FairSpec
CONSTANTS
    Owner = {o1, o2}
    NoOwner = NoOwner
    Grace = {0, 1}
    MaxDay = 3
    MaxSale = 2
    MaxCrash = 1
INVARIANTS
    TypeOK
    SettledOnce
    SettledMeansCovered
PROPERTIES
    SalesAreSettled
