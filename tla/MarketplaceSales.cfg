\* Two threads sell, amend and void sales of one item, listed on one channel.
SPECIFICATION Spec
CONSTANTS
    Thread = {t1, t2}
    MaxItem = 1
    MaxListing = 1
    MaxSale = 2
    Catalogued = 1
    Price = {2}
    Cost = {0, 1}
    Written = {"listed"}
    Ops <- Selling
SYMMETRY ThreadSymmetry
INVARIANTS
    TypeOK
    ReferencesExist
    NetProceedsAddUp
    SoldItemsHaveSales
    SoldListingsHaveSales
    StatusesAreAccountedFor
PROPERTIES
    LedgerSpec
