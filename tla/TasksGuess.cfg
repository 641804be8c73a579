SPECIFICATION TasksSpec
CONSTANTS
    Runs = {r1}
    Procs = {p1, p2}
    Resources = {"context", "patch", "verify"}
    NoRun = NoRun
    NoParent = NoParent
    MaxGen = 3
    Faults = {"run", "death"}
PROPERTIES
    NeverGuessedStopped
CHECK_DEADLOCK FALSE
