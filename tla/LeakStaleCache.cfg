SPECIFICATION Spec
CONSTANTS
    CIDRs = {"c1"}
    Bases = {"b1"}
    InitPolicies = {"Managed"}
    PolicyEdits <- NoEdits
    Lagging = {"network"}
    Mishaps = {}
    MaxMishaps = 0
    MaxIds = 1
    MaxGen = 1
    MaxClusters = 1
INVARIANT RecordedNotLeaked
CHECK_DEADLOCK FALSE
