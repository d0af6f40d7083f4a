\* The poll and a client's push of two listings, one of them to a poll: to a channel that
\* goes by the SKU, one that numbers its offers and is not enabled, and one without an
\* adapter.  A push gets old as often as it likes.  Nothing happens when nobody asks and
\* nothing is due.
SPECIFICATION FairSpec
CONSTANTS
    Channel = {eBay, Etsy, shop}
    Adapter = {eBay, Etsy}
    Configured = {eBay, Etsy}
    Keyed = {eBay}
    Enabled = {eBay}
    Poll = poll
    Client = {c1}
    Limit = 1
    MaxListing = 2
    MaxOffer = 4
    MaxPush = 1
    MaxEvent = 1
INVARIANTS
    TypeOK
    ExternalIdsNameOffers
    OffersAreKnown
PROPERTIES
    PushesEnd
    DueListingsArePushed
CHECK_DEADLOCK FALSE
