SPECIFICATION Spec
CONSTANTS
    k1 = k1
    k2 = k2
    Nil = Nil
    Submitters <- OneSubmitter
    Keys <- TwoKeys
    Symbols <- SomeSymbols
    Bodies <- SomeBodies
    SignedPairs <- Pairs
    AllowedSubmitters <- NoList
    SupportedPlatforms <- Nitro
    CommitmentHashLen = 2
    MaxEntries = 1
INVARIANTS CommitmentsSigned MetadataDescribesEntry
