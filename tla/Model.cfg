SPECIFICATION CallsFairSpec
CONSTANTS
    main = main
    NoCall = NoCall
    Calls = {c1, c2, c3}
    Durable = {c1}
    Guarded = {c2, c3}
    Clients = {main}
    ClientOf <- OneClient
    Reserve = 1
    MaxUse = 1
    CallLimit = 2
    TokenLimit = 3
    CostLimit = 0
    Threshold = 1
    Probes = 1
    Recovery = 1
    MaxRestarts = 1
INVARIANTS
    LedgerAddsUp
    LeftScopeIsQuiet
    ClosedMeansFewFailures
PROPERTIES
    WorkersEnd
CHECK_DEADLOCK FALSE
