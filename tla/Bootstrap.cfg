SPECIFICATION FairSpec
CONSTANTS
    Kinds = {"vpc", "sg"}
    Users <- UsersOfKinds
    Configs = {"pool", "pool2"}
    Lagging = {"cluster", "configs"}
    MaxLives = 2
    MaxEdits = 1
    MaxMishaps = 1
INVARIANTS TypeOK NamesWholeNetwork ClaimsOnlyLegacyNetworks
PROPERTIES Converges LegacyClusterConverges
CHECK_DEADLOCK FALSE
