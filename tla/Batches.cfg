SPECIFICATION FairBatchSpec
CONSTANTS
    main = main  e1 = e1  e2 = e2
    a1 = a1  a2 = a2  a3 = a3  w1 = w1  w2 = w2  b1 = b1  b2 = b2
    Main = main
    Children = {e1}
    Calls = {a1, a2, w1, b1}
    Effects = {w1}
    Timed = {a1, w1}
    Asking = {a2}
    Unclean = {a1, w1}
    Script <- MCScript
    Capacity = 2
    MaxBatch = 4
    HasDeadline = TRUE
INVARIANTS
    PermitsBalanced
    AnsweredMeansStopped
    EffectsAlone
PROPERTIES
    BatchReturns
CHECK_DEADLOCK FALSE
