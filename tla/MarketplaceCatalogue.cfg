\* Two threads add, copy, edit and delete two items, one of them new.
SPECIFICATION Spec
CONSTANTS
    Thread = {t1, t2}
    MaxItem = 2
    MaxListing = 1
    MaxSale = 1
    Catalogued = 1
    Price = {2}
    Cost = {0}
    Written = {"sold"}
    Ops <- Cataloguing
SYMMETRY ThreadSymmetry
INVARIANTS
    SkuNamesItem
