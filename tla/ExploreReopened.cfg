SPECIFICATION ExploreSpec
CONSTANTS
    Runs = {r1}
    Procs = {p1}
    Resources = {x1}
    NoRun = NoRun
    NoParent = NoParent
    MaxGen = 2
    Budget = 2
    RunTokens = 4
    MaxAttempts = 2
    MaxWrites = 0
    Faults = {"death"}
SYMMETRY Symmetry
INVARIANTS
    EndedRunIsQuiet
CHECK_DEADLOCK FALSE
