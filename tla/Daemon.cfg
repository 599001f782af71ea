SPECIFICATION Spec
CONSTANTS
    NetSenders = {n1, n2}
    CliSenders = {c1}
    MaxConns = 2
    MaxSends = 1
    MAX_CONNECTIONS = 1
    IdleTimeout = 1
INVARIANTS
    TypeOK
    AnswersMatch
    LimitHolds
PROPERTIES
    CliReturns
    EndsWithKeyAgent
CHECK_DEADLOCK FALSE
