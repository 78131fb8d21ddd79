SPECIFICATION Spec
CONSTANTS
    CIDRs = {"c1"}
    Bases = {"b1"}
    InitPolicies = {"Observe", "Hybrid", "Adopt", "Abandon"}
    PolicyEdits <- AbandonEdits
    Lagging = {"machines"}
    Mishaps = {"error", "vanish", "rename"}
    MaxMishaps = 1
    MaxIds = 1
    MaxGen = 2
    MaxClusters = 1
INVARIANTS ForeignUntouched RecordedNotLeaked
PROPERTIES ImplementsLifecycle
CHECK_DEADLOCK FALSE
