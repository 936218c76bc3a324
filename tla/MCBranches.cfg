SPECIFICATION FairSpec
CONSTANTS
    theAccount = a1
    theProduct = p1
    Accounts <- MCAccounts
    Products <- MCProducts
    ProductOf <- MCProductOf
    AccountOf <- MCAccountOf
    Licenses = {l1}
    Branches = {b1, b2}
    Requests = {r1, r2}
    Admins = {adm}
    Null = Null
    DefaultQuota = 1
    MaxQuota = 2
INVARIANTS
    IInv
PROPERTIES
    SlotsRefined
    ActsAtomically
    EveryRequestAnswered
