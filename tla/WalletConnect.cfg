SPECIFICATION FairSpec
CONSTANTS
    None = None
    Topics = {"pairing", "session"}
    Pairings = {"pairing"}
    Chains = {"family", "c1", "c2"}
    Methods = {"sign", "send"}
    Covers <- MCCovers
    Content <- MCContent
    Msgs = {"propose", "stranger", "narrow", "delete", "send", "auth", "ping", "noise", "modest", "widen"}
    PairingTtl = 2
    RelayTtl = 1
    Retention = 1
    Capacity = 2
    Scripts <- MCScripts
    MaxOutages = 1
INVARIANTS
    TypeOK
    HandledOnce
PROPERTIES
    HandledWithinGrant
    PairingSubscribed
    CancelStops
CHECK_DEADLOCK FALSE
