SPECIFICATION Spec
CONSTANTS
    CIDRs = {"c1", "c2"}
    CNIs = {"flannel"}
    MaxEdits = 1
    MaxTouches = 1
    MaxMishaps = 0
PROPERTY UserRulesIntact
