SPECIFICATION Spec
CONSTANTS
    theAccount = a1
    theProduct = p1
    Accounts <- MCAccounts
    Products <- MCProducts
    ProductOf <- MCProductOf
    AccountOf <- MCAccountOf
    Licenses = {l1, l2}
    Machines = {m1, m2}
    Requests = {r1, r2}
    Admins = {adm}
    Null = Null
    MaxInt4 = 2
    Month = 2
    Grace = 1
    Term = 9
    SeatChoices = {1}
    MonthChoices = {0}
    MaxNow = 0
    MaxDue = 0
SYMMETRY Symmetry
INVARIANTS
    SeatsNeverOversold
    ReadsStayTrue
    IssuedLicenseIsBacked
    WaitCycleNeedsDelete
    IInv
PROPERTIES
    SeatsRefined
    ActsAtomically
