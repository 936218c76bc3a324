SPECIFICATION Spec
CONSTANTS
    theAccount = a1
    theProduct = p1
    Accounts <- MCAccounts
    Products <- MCProducts
    ProductOf <- MCProductOf
    AccountOf <- MCAccountOf
    Licenses = {l1}
    Machines = {m1}
    Requests = {r1, r2}
    Admins = {adm}
    Null = Null
    MaxInt4 = 1
    Month = 2
    Grace = 1
    Term = 9
    SeatChoices = {1}
    MonthChoices = {1}
    MaxNow = 0
    MaxDue = 9
PROPERTIES
    LicenseReflectsDueDate
