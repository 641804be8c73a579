SPECIFICATION CallsFairSpec
CONSTANTS
    Runs = {r1}
    Procs = {p1}
    Resources = {x1}
    NoRun = NoRun
    NoParent = NoParent
    MaxGen = 2
PROPERTIES
    CallsComeToAnEnd
CHECK_DEADLOCK FALSE
