SPECIFICATION TasksSpec
CONSTANTS
    Runs = {r1}
    Procs = {p1, p2}
    Resources = {"context", "patch", "verify"}
    NoRun = NoRun
    NoParent = NoParent
    MaxGen = 2
    Faults = {"task", "death"}
SYMMETRY Symmetry
INVARIANTS
    TasksTypeOK
    AttemptsWithinLimit
PROPERTIES
    EndedStays
CHECK_DEADLOCK FALSE
