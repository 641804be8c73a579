SPECIFICATION ExploreSpec
CONSTANTS
    Runs = {r1}
    Procs = {p1}
    Resources = {x1}
    NoRun = NoRun
    NoParent = NoParent
    MaxGen = 1
    Budget = 2
    RunTokens = 4
    MaxAttempts = 1
    MaxWrites = 1
    Faults = {}
PROPERTIES
    CleanRunIsReleased
CHECK_DEADLOCK FALSE
