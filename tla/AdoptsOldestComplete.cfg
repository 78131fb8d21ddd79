SPECIFICATION Spec
CONSTANTS
    Letters <- LettersValue
    Lower <- LowerValue
    Limit = 7
    TokenLimit = 2
    Fallback <- FallbackValue
    Suffix <- SuffixValue
    MaxBase = 2
    MaxCluster = 2
    MachineLists <- SomeMachineLists
    Bases <- SomeBases
    UIDs <- SomeUIDs
    ClusterNames <- SomeClusterNames
    Secrets <- CredentialSecrets
    Fallbacks <- SomeFallbacks
INVARIANT AdoptsOldestComplete
CHECK_DEADLOCK FALSE
