\* One order up to its last event; the process may die once, and a failing call
\* may end one group of each process.
SPECIFICATION FairSpec
CONSTANTS
    Orders = {o1}
    MaxMessages = 6
    MaxDeaths = 1
    MaxStopped = 1
CONSTRAINT FewRepeats
ACTION_CONSTRAINT StopsAtMessage
INVARIANTS
    NotifyTypeOK
    ListIsExact
PROPERTY
    EveryEventNotified
CHECK_DEADLOCK FALSE
