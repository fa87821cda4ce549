SPECIFICATION Spec
CONSTANTS
    c1 = c1
    c2 = c2
    k1 = k1
    k2 = k2
    None = None
    Clients = {c1, c2}
    Keys = {k1, k2}
    Deployments <- Sound
SYMMETRY Symmetry
INVARIANTS
    RecoverySound
    Durable
    MemorySound
PROPERTIES
    JobsSafe
CHECK_DEADLOCK FALSE
