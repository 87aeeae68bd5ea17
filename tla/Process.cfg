\* One process of a seeding service and its consumer.
SPECIFICATION FairProcess
CONSTANTS
    MaxMessages = 3
    MaxDeaths = 2
    MaxFaults = 2
    SeedRows = 3
    Environments <- MCEnvironments
INVARIANTS
    ProcessTypeOK
    NothingSkipped
    RedeliveredByDeathsOnly
    SeededOnce
PROPERTIES
    ImplementsGroup
    HandledUnlessStopped
CHECK_DEADLOCK FALSE
