\* delivery-svc dies while a courier is riding.
SPECIFICATION FairSpec
CONSTANTS
    Orders = {o1}
    Couriers = {k1}
    NoCourier = NoCourier
    MaxCrashes = 1
    MaxErrors = 0
PROPERTY CouriersComeBack
