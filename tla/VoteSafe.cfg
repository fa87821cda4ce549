SPECIFICATION Spec
CONSTANTS
    Nodes <- MCNodes
    Priority <- MCPriority
    c1 = 1
    c2 = 1
    c3 = 0
    Quorum = 2
    Crashers = {3}
    None = None
    MaxTerm = 1
    MaxOffset = 1
    MaxRestarts = 1
INVARIANTS
    OneVotePerTerm
    ElectionSafety
    IInv
CHECK_DEADLOCK FALSE
