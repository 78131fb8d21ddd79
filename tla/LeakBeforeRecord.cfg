SPECIFICATION Spec
CONSTANTS
    CIDRs = {"c1"}
    Bases = {"b1"}
    InitPolicies = {"Managed"}
    PolicyEdits <- NoEdits
    Lagging = {}
    Mishaps = {"error"}
    MaxMishaps = 1
    MaxIds = 1
    MaxGen = 1
    MaxClusters = 1
INVARIANT NothingLeftBehind
CHECK_DEADLOCK FALSE
