\* Two consumers of order-svc race on one order; nothing fails.
SPECIFICATION FairSpec
CONSTANTS
    Orders = {o1}
    Couriers = {k1}
    NoCourier = NoCourier
    MaxCrashes = 0
    MaxErrors = 0
PROPERTY TerminalIsKept
