\* Two orders, two couriers, and any one database or broker call may fail.
SPECIFICATION Spec
CONSTANTS
    Orders = {o1, o2}
    Couriers = {k1, k2}
    NoCourier = NoCourier
    MaxCrashes = 0
    MaxErrors = 2
SYMMETRY Symmetry
CONSTRAINT SecondFaultAlone
ACTION_CONSTRAINTS
    LeafFirst
    StopsAtMessage
INVARIANTS
    RefundedOnlyIfMoneyBack
    RefundHasCause
    DeclinedOnlyCancelled
    DamageBounded
PROPERTY
    FollowsLifecycle
