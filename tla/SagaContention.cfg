\* Two orders compete for one courier and nothing fails.
SPECIFICATION FairSpec
CONSTANTS
    Orders = {o1, o2}
    Couriers = {k1}
    NoCourier = NoCourier
    MaxCrashes = 0
    MaxErrors = 0
INVARIANTS
    NoChargeKeptSilently
    NeverBothServedAndRefunded
PROPERTIES
    EveryOrderSettles
    RefundCompletes
    CouriersComeBack
    OrdersRunOut
