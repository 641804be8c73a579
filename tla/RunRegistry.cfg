SPECIFICATION Spec
CONSTANTS
    Runs = {r1, r2}
    Procs = {p1, p2}
    Resources = {x1}
    NoRun = NoRun
    NoParent = NoParent
    MaxGen = 2
SYMMETRY Symmetry
INVARIANTS
    SingleDispatcher
    CancelKeepsRunClosed
    EndedRunIsClean
    RetiredRunIsIdle
PROPERTIES
    ImplementsFence
CHECK_DEADLOCK FALSE
