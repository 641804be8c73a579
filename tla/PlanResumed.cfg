SPECIFICATION PlanSpec
CONSTANTS
    Explores = {"e1"}
    MaxReplans = 1
    MaxOps = 1
    MaxAttempts = 6
    MaxLives = 2
    MaxForeign = 0
INVARIANTS
    PreparedIsRestarted
    RecordedResultIsAdopted
CONSTRAINT
    Small
CHECK_DEADLOCK FALSE
