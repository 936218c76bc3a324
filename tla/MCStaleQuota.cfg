SPECIFICATION Spec
CONSTANTS
    theAccount = a1
    theProduct = p1
    Accounts <- MCAccounts
    Products <- MCProducts
    ProductOf <- MCProductOf
    AccountOf <- MCAccountOf
    Licenses = {l1}
    Branches = {b1}
    Requests = {r1, r2}
    Admins = {adm}
    Null = Null
    DefaultQuota = 1
    MaxQuota = 2
PROPERTIES
    GrantNeedsFreeSlot
