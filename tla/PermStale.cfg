SPECIFICATION PermSpec
CONSTANTS
    Runs = {r1}
    ThisRun = r1
    NoRun = NoRun
    NoProposal = NoProposal
    NoTicket = NoTicket
    Calls = {c1, c2}
    Caps = {"read", "edit", "expand"}
    ReadCap = "read"
    PinnedCaps = {"edit"}
    TrustedCaps = {"expand"}
    Paths = {"read a", "write b"}
    Requests <- EditOnly
    TrustedScopes <- Nothing
    MaxGen = 1
    MaxTickets = 2
    MaxRevision = 3
    MaxVersion = 0
SYMMETRY Symmetry
INVARIANTS
    CancelLeavesNoApproval
CHECK_DEADLOCK FALSE
