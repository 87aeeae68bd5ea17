\* Two people, two emails, two passwords.
SPECIFICATION FairSpec
CONSTANTS
    b1 = b1
    b2 = b2
    e1 = e1
    e2 = e2
    p1 = p1
    p2 = p2
    Browsers <- MCBrowsers
    Emails <- MCEmails
    Passwords <- MCPasswords
    None = None
    MaxCalls = 2
    MaxFaults = 1
CONSTRAINTS
    FirstIsE1
    OneReadsOrders
ACTION_CONSTRAINT
    OneFollowsLinks
INVARIANTS
    SessionTypeOK
    TokenOpensOwnAccount
    SessionIsWhole
    NoStrangersOrders
PROPERTY
    LoadingEnds
CHECK_DEADLOCK FALSE
