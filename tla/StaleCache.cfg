SPECIFICATION Spec
CONSTANTS
    CIDRs = {"c1"}
    Bases = {"b1"}
    InitPolicies = {"Managed", "Hybrid"}
    PolicyEdits <- NoEdits
    Lagging = {"network", "cluster"}
    Mishaps = {"error", "crash"}
    MaxMishaps = 1
    MaxIds = 2
    MaxGen = 1
    MaxClusters = 1
INVARIANTS CreatedIsFindable RecordedStaysNamed ReadyIsTrue
PROPERTIES OrphanSparesBound KeepsPromises
CHECK_DEADLOCK FALSE
