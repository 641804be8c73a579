SPECIFICATION ExploreSpec
CONSTANTS
    Runs = {r1}
    Procs = {p1, p2}
    Resources = {x1, x2}
    NoRun = NoRun
    NoParent = NoParent
    MaxGen = 2
    Budget = 1
    RunTokens = 2
    MaxAttempts = 2
    MaxWrites = 1
    Faults = {"lease", "death", "cancel", "deadline"}
SYMMETRY Symmetry
CONSTRAINT Small
INVARIANTS
    TokensAccounted
    OneWorker
    WritesAreAlone
    CleanUnderOneOwner
    LostHaveWitness
CHECK_DEADLOCK FALSE
