SPECIFICATION Spec
CONSTANTS
    t1 = t1
    t2 = t2
    c1 = c1
    c2 = c2
    NoTab = NoTab
    NoCode = NoCode
    Tabs <- MCTabs
    Codes <- MCCodes
    SessionTTL = 1
    CaptchaTTL = 1
    MaxNow = 2
INVARIANTS
    IInv
    NoRedirectLoop
PROPERTIES
    SessionEnds
    LogoutSticks
    RightAnswerAccepted
