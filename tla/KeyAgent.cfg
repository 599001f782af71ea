SPECIFICATION FairSpec
CONSTANTS
    n1 = n1
    Ids = {1, 2}
    Nonces = {n1}
    Offered <- MCOffered
    MaxCrashes = 1
INVARIANTS
    TypeOK
    OneUsePerAuthorization
    LogLeads
    ReleasedIsAudited
    SpawnedIsResolved
    ChildEndsWithRequest
PROPERTIES
    SmallRequestsAnswered
CHECK_DEADLOCK FALSE
