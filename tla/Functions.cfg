SPECIFICATION Spec
CONSTANTS
    Letters <- LettersValue
    Lower <- LowerValue
    Limit = 7
    TokenLimit = 2
    Fallback <- FallbackValue
    Suffix <- SuffixValue
    MaxBase = 8
    MaxCluster = 6
    MachineLists <- SomeMachineLists
    Bases <- SomeBases
    UIDs <- SomeUIDs
    ClusterNames <- SomeClusterNames
    Secrets <- CredentialSecrets
    Fallbacks <- SomeFallbacks
INVARIANTS AdoptionCorrect ManagedNamesCorrect ObjectNamesCorrect CredentialsCorrect
CHECK_DEADLOCK FALSE
