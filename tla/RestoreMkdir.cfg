SPECIFICATION RestoreSpec
CONSTANTS
    d700 = d700
    Paths = {1, 2}
    Parent <- Nested
    Files = {f1}
    Dirs = {d755}
    Private = d700
    Absent = Absent
    Outputs = {}
    Ops = {o1}
    NoPlan = NoPlan
    NoOp = NoOp
    MaxRevision = 0
    MaxEdits = 0
    MaxFaults = 1
SYMMETRY Symmetry
CONSTRAINT Small
INVARIANTS
    InterruptedIsRecoverable
CHECK_DEADLOCK FALSE
