SPECIFICATION PlanSpec
CONSTANTS
    Explores = {"e1"}
    MaxReplans = 1
    MaxOps = 2
    MaxAttempts = 5
    MaxLives = 2
    MaxForeign = 1
INVARIANTS
    PlanTypeOK
    SettlementNeverRaises
CONSTRAINT
    Small
CHECK_DEADLOCK FALSE
