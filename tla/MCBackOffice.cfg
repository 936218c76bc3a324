CONSTANTS
    Emails = {e1, e2}
    Codes = {k1}
    CustomerIds = {c1, c2}
    ProductIds = {p1, p2}
    LicenseIds = {l1, l2}
    Requests = {r1, r2}
    SeatChoices = {1}
    MaxInt4 = 2
    Null = Null
SPECIFICATION FairSpec
INVARIANTS
    IInv
    LicenseHasOwner
    TotalsMatchPurchases
PROPERTIES
    BooksRefined
    EveryRequestAnswered
