SPECIFICATION Spec
CONSTANTS
  Nodes = {a, b, c}
  Primary = a
  Quorum = 2
  Candidates = {b}
  None = None
  Deployments <- ElectsOrRestarts
  LeaseTTL = 2
  LeaderTTL = 1
  RenewWindow = 1
  QuickRestart = FALSE
  MaxTerm = 2
  MaxRestarts = 1
INVARIANTS
    LeasesSound
    MasterExists
CHECK_DEADLOCK FALSE
