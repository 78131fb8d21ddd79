SPECIFICATION Spec
CONSTANTS
    CIDRs = {"c1", "c2"}
    Bases = {"b1"}
    InitPolicies = {"Managed"}
    PolicyEdits <- NoEdits
    Lagging = {}
    Mishaps = {"error", "crash"}
    MaxMishaps = 1
    MaxIds = 2
    MaxGen = 2
    MaxClusters = 1
INVARIANTS TypeOK RecordedNotLeaked CreatedIsFindable ReadyIsTrue WaitsForMachines
PROPERTIES DeletesInOrder ImplementsLifecycle
CHECK_DEADLOCK FALSE
