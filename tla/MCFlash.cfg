SPECIFICATION Spec
CONSTANTS
    t1 = t1
    t2 = t2
    Tabs <- OneTab
    MaxPurchases = 2
    MaxExtensions = 1
    Choices <- OneRelease
INVARIANT
    ReleaseFlashTellsOutcome
