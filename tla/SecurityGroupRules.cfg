SPECIFICATION FairSpec
CONSTANTS
    CIDRs = {"c1", "c2"}
    CNIs = {"flannel", "calico"}
    MaxEdits = 2
    MaxTouches = 1
    MaxMishaps = 2
INVARIANTS TypeOK NeverLockedOut
PROPERTIES DroppedIsClosed RulesArrive
