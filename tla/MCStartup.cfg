CONSTANTS
    i1 = i1
    i2 = i2
    i3 = i3
    vendor = vendor
    Unset = Unset
    Instances = {i1, i2, i3}
    LastMigration = 3
    Files <- MCFiles
    BootstrapAdmin <- SomeAdmins
    MaxCrashes = 2
SPECIFICATION FairSpec
CHECK_DEADLOCK FALSE
INVARIANTS
    AppliedOnce
    VersionsTellSchema
PROPERTIES
    HistoryRefined
    BootstrapOnlyIntoEmpty
    EveryInstanceServes
