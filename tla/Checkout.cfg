\* Two calls, of the cart or of other clients, and two faults.
SPECIFICATION FairSpec
CONSTANTS
    r1 = r1
    r2 = r2
    pizza = pizza
    gone = gone
    soup = soup
    unknown = unknown
    Nobody = Nobody
    Restaurants <- MCRestaurants
    Open <- MCOpen
    MenuItems <- MCMenuItems
    Menu <- MCMenu
    Requests <- MCRequests
    MaxQuantity = 1
    MaxCalls = 2
    MaxFaults = 2
INVARIANTS
    CheckoutTypeOK
    OrderIsWhatWasAsked
    PlacedIsAnnounced
    SubmitsOnce
    CartOneRestaurant
PROPERTY
    SubmissionEnds
CHECK_DEADLOCK FALSE
