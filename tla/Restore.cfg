SPECIFICATION RestoreSpec
CONSTANTS
    d700 = d700
    Paths = {1, 2}
    Parent <- Nested
    Files = {f1, f2}
    Dirs = {d700}
    Private = d700
    Absent = Absent
    Outputs <- SomeFile
    Ops = {o1}
    NoPlan = NoPlan
    NoOp = NoOp
    MaxRevision = 2
    MaxEdits = 1
    MaxFaults = 2
SYMMETRY Symmetry
CONSTRAINT Small
INVARIANTS
    EditsSurvive
    EndsAsDecided
PROPERTIES
    RecoveryGoesThrough
CHECK_DEADLOCK FALSE
