SPECIFICATION FairSpec
CONSTANTS
    m1 = m1
    m2 = m2
    b1 = b1
    b2 = b2
    Machines <- OneMachine
    Branches <- OneBranch
    Seats = 1
    Slots = 1
    MaxLicenses = 2
    MaxLate = 1
    Scenarios <- OneUnit
PROPERTIES
    EveryWishAnswered
    RenewalReachesFile
    LostPlaceRegained
