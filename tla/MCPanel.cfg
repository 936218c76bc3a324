SPECIFICATION Spec
CONSTANTS
    t1 = t1
    t2 = t2
    Tabs <- MCTabs
    MaxPurchases = 2
    MaxExtensions = 1
    Choices <- MCChoices
INVARIANTS
    IInv
    DetailAddsUp
    FormFlashTellsOutcome
    SuccessIsTrue
