\* One order, two couriers, any one process may die at any point.
SPECIFICATION Spec
CONSTANTS
    Orders = {o1}
    Couriers = {k1, k2}
    NoCourier = NoCourier
    MaxCrashes = 1
    MaxErrors = 0
INVARIANTS
    SagaTypeOK
    ServedOnlyIfPaid
    CourierCarriesOneOrder
PROPERTIES
    ImplementsLedger
    TellsTheStory
