SPECIFICATION ExploreSpec
CONSTANTS
    Runs = {r1}
    Procs = {p1, p2}
    Resources = {x1}
    NoRun = NoRun
    NoParent = NoParent
    MaxGen = 2
    Budget = 2
    RunTokens = 4
    MaxAttempts = 2
    MaxWrites = 0
    Faults = {"lease", "deadline", "cancel"}
SYMMETRY Symmetry
INVARIANTS
    CleanMeansStopped
CHECK_DEADLOCK FALSE
