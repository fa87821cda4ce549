SPECIFICATION MCSpec
CONSTANTS
    None = None
    na = na
    nb = nb
    nc = nc
    nd = nd
    k1 = k1
    k2 = k2
    v1 = v1
    v2 = v2
    c1 = c1
    c2 = c2
    c3 = c3
    TxScripts = FALSE
    Parts = {"tx", "blocking", "membership", "plan", "slots", "acl", "pushes", "tracking", "rpc", "keys"}
INVARIANTS
    TypeOK
    
    
    PlansExact
    SlotsKept
    
    
    PushesKept
    TrackingKept
    ProxyKept
PROPERTIES
    WatchCorrect
    ExecAtomic
    
    
    WakeupsExact
CHECK_DEADLOCK FALSE
