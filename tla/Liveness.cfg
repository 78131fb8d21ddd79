SPECIFICATION FairSpec
CONSTANTS
    CIDRs = {"c1"}
    Bases = {"b1", "b2"}
    InitPolicies = {"Managed", "Hybrid", "Adopt"}
    PolicyEdits <- NoEdits
    Lagging = {}
    Mishaps = {"error", "crash", "vanish"}
    MaxMishaps = 1
    MaxIds = 2
    MaxGen = 2
    MaxClusters = 1
PROPERTIES BecomesReady OrphanReclaimed LossIsReported DeletionCompletes
CHECK_DEADLOCK FALSE
