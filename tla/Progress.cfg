SPECIFICATION MCSpec
CONSTANTS
    None = None
    na = na
    nb = nb
    nc = nc
    nd = nd
    k1 = k1
    k2 = k2
    c1 = c1
    c2 = c2
    Parts = {"lease", "repl", "aof", "blocking", "membership", "slots"}
PROPERTIES
    Recovers
    Converges
    LogProgress
    BlockedReturn
    IntentsEnd
    CommandsReturn
CHECK_DEADLOCK FALSE
