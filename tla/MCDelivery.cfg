SPECIFICATION Spec
CONSTANTS
    m1 = m1
    m2 = m2
    b1 = b1
    b2 = b2
    Machines <- MCMachines
    Branches <- MCBranches
    Seats = 1
    Slots = 1
    MaxLicenses = 2
    MaxLate = 1
    Scenarios <- MCScenarios
INVARIANTS
    IInv
    RunningIsSeated
    OutsiderHoldsNothing
    RunningWithinQuota
PROPERTIES
    PlacesRefined
