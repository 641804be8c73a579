SPECIFICATION BatchSpec
CONSTANTS
    main = main  e1 = e1  e2 = e2
    a1 = a1  a2 = a2  a3 = a3  w1 = w1  w2 = w2  b1 = b1  b2 = b2
    Main = main
    Children = {}
    Calls = {a1, a2, a3, w1, w2}
    Effects = {w1, w2}
    Timed = {a1}
    Asking = {}
    Unclean = {a1}
    Script <- MCAlone
    Capacity = 2
    MaxBatch = 4
    HasDeadline = FALSE
PROPERTIES
    UncleanIsKnown
CHECK_DEADLOCK FALSE
