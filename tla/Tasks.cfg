SPECIFICATION TasksSpec
CONSTANTS
    Runs = {r1}
    Procs = {p1, p2}
    Resources = {"context", "patch", "verify"}
    NoRun = NoRun
    NoParent = NoParent
    MaxGen = 2
    Faults = {"run", "death"}
SYMMETRY Symmetry
CONSTRAINT Small
INVARIANTS
    RowNeverAhead
    CompletedInOrder
PROPERTIES
    CancelSticks
CHECK_DEADLOCK FALSE
