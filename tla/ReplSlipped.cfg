SPECIFICATION Spec
CONSTANTS
    p = p
    r = r
    q = q
    k1 = k1
    k2 = k2
    c1 = c1
    c2 = c2
    None = None
    Nodes = {p, r, q}
    Keys = {k1, k2}
    Clients = {c1, c2}
    Deployments <- Attaching
INVARIANTS
    CaughtUp
CHECK_DEADLOCK FALSE
