SPECIFICATION PermFairSpec
CONSTANTS
    Runs = {r1}
    ThisRun = r1
    NoRun = NoRun
    NoProposal = NoProposal
    NoTicket = NoTicket
    Calls = {c1, c2}
    Caps = {"read", "edit", "expand"}
    ReadCap = "read"
    PinnedCaps = {"edit"}
    TrustedCaps = {"expand"}
    Paths = {"read a", "write b"}
    Requests <- EditOnly
    TrustedScopes <- Nothing
    MaxGen = 1
    MaxTickets = 2
    MaxRevision = 2
    MaxVersion = 1
INVARIANTS
    CancelLeavesNothingToDecide
    TicketsAreReturned
PROPERTIES
    CallsReturn
    PinnedInputs
CHECK_DEADLOCK FALSE
