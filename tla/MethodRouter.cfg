SPECIFICATION FairSpec
CONSTANTS
    None = None
    Ids = {1, 2}
    Pages = {1}
    Timeout = 1
    MaxFaults = 2
    Offered <- MCOffered
    Capacity = 1
    WebUi = "on"
INVARIANTS
    TypeOK
    SignedIsApproved
    InTimeFindsRequester
    SettledStaysSettled
    LoggedStaysOffered
PROPERTIES
    AnsweredOnce
    RequestsEnd
CHECK_DEADLOCK FALSE
