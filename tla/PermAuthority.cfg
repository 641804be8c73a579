SPECIFICATION PermSpec
CONSTANTS
    Runs = {r1}
    ThisRun = r1
    NoRun = NoRun
    NoProposal = NoProposal
    NoTicket = NoTicket
    Calls = {c1, c2}
    Caps = {"read", "edit", "expand"}
    ReadCap = "read"
    PinnedCaps = {"edit"}
    TrustedCaps = {"expand"}
    Paths = {"read a", "write b"}
    Requests <- MCRequests
    TrustedScopes <- MCScopes
    MaxGen = 2
    MaxTickets = 1
    MaxRevision = 2
    MaxVersion = 0
SYMMETRY Symmetry
CONSTRAINT Small
INVARIANTS
    ConsentIsInformed
PROPERTIES
    ImplementsAuthority
    UnsettledStays
CHECK_DEADLOCK FALSE
