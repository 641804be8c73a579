SPECIFICATION TasksSpec
CONSTANTS
    Runs = {r1}
    Procs = {p1}
    Resources = {"context", "patch", "verify"}
    NoRun = NoRun
    NoParent = NoParent
    MaxGen = 1
    Faults = {}
INVARIANTS
    PhasesAligned
    RecoveryMeansUnconfirmed
CHECK_DEADLOCK FALSE
