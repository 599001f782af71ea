SPECIFICATION FairSpec
CONSTANTS
    n1 = n1
    Ids = {1}
    Nonces = {n1}
    Offered <- MCSizes
    MaxCrashes = 0
PROPERTIES
    ChildLifetimeBounded
CHECK_DEADLOCK FALSE
