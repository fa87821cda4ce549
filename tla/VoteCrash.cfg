SPECIFICATION Spec
CONSTANTS
    Nodes <- MCNodes
    Priority <- MCPriority
    c1 = 1
    c2 = 1
    c3 = 0
    Quorum = 2
    Crashers = {2}
    None = None
    MaxTerm = 2
    MaxOffset = 0
    MaxRestarts = 1
INVARIANT OneVotePerTerm
CHECK_DEADLOCK FALSE
