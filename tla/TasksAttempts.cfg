SPECIFICATION TasksSpec
CONSTANTS
    Runs = {r1}
    Procs = {p1, p2}
    Resources = {"context", "patch", "verify"}
    NoRun = NoRun
    NoParent = NoParent
    MaxGen = 2
    Faults = {"run"}
SYMMETRY Symmetry
INVARIANTS
    AttemptsWithinLimit
CHECK_DEADLOCK FALSE
