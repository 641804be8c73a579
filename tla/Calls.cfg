SPECIFICATION CallsSpec
CONSTANTS
    Runs = {r1}
    Procs = {p1, p2}
    Resources = {x1, x2}
    NoRun = NoRun
    NoParent = NoParent
    MaxGen = 2
SYMMETRY Symmetry
CONSTRAINT Small
INVARIANTS
    SettledMeansStopped
    SettledMatchesReceipt
    OnlyOwnTargets
    TargetsRunAlone
CHECK_DEADLOCK FALSE
