SPECIFICATION FairSpec
CONSTANTS
    j1 = j1
    j2 = j2
    p1 = p1
    p2 = p2
    Jobs = {j1, j2}
    Payments = {p1, p2}
    Amounts = {1, 2}
    InitialBalance = 2
    HasHook = TRUE
    MaxCounter = 2
    MaxSent = 2
INVARIANTS TypeOK OnePayoutPerBalance AgreesUnlessOvertaken
PROPERTY PayoutGoesThrough
CHECK_DEADLOCK FALSE
