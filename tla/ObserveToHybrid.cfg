SPECIFICATION Spec
CONSTANTS
    CIDRs = {"c1"}
    Bases = {"b1"}
    InitPolicies = {"Observe"}
    PolicyEdits <- HybridEdits
    Lagging = {}
    Mishaps = {}
    MaxMishaps = 0
    MaxIds = 1
    MaxGen = 2
    MaxClusters = 1
INVARIANT ForeignUntouched
CHECK_DEADLOCK FALSE
