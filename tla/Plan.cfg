SPECIFICATION PlanSpec
CONSTANTS
    Explores = {"e1", "e2"}
    MaxReplans = 1
    MaxOps = 2
    MaxAttempts = 7
    MaxLives = 2
    MaxForeign = 1
INVARIANTS
    WriteOnce
    NothingBesideAWrite
    CompletedIsVerified
    AttemptsMatchNodes
CONSTRAINT
    Small
CHECK_DEADLOCK FALSE
