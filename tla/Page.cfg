\* Two fetches at a time, two of the calls may fail.
SPECIFICATION FairSpec
CONSTANTS
    o1 = o1
    f1 = f1
    f2 = f2
    Watched = o1
    Fetches <- MCFetches
    Nothing = Nothing
    MaxFaults = 2
INVARIANTS
    PageTypeOK
    PaymentNotBehind
PROPERTIES
    SpinnerEnds
    DeliveryIsShown
CHECK_DEADLOCK FALSE
