\* payment-svc dies and then cannot read its table.
SPECIFICATION Spec
CONSTANTS
    Orders = {o1}
    Couriers = {k1}
    NoCourier = NoCourier
    MaxCrashes = 1
    MaxErrors = 1
INVARIANT FailedEventMeansNotCharged
