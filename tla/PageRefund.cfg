\* No call fails.
SPECIFICATION FairSpec
CONSTANTS
    o1 = o1
    f1 = f1
    f2 = f2
    Watched = o1
    Fetches <- MCFetches
    Nothing = Nothing
    MaxFaults = 0
PROPERTY
    RefundIsShown
CHECK_DEADLOCK FALSE
