\* One client's charge at a time among the other handlers, two months.
SPECIFICATION Spec
CONSTANTS
    Thread = {t1}
    InvoiceDay = 1
    GraceEnd = 1
    LastDay = 2
    LoyaltyMonths = 1
    MaxPeriod = 2
    MaxRental = 1
    MaxPayment = 2
    MaxInvoice = 2
INVARIANTS
    TypeOK
    ChargedOnce
    FoundRentalsAreInvoiced
    LoyaltyIsEarned
