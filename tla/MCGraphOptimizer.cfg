SPECIFICATION Spec

CONSTANTS
    Optimizers = {o1}
    Addresses = {a1, a2}
    MaxCalls = 2
    kMaxIterations = 50
    Items <- MCItems
    Configs <- MCConfigs
    PlnTokens <- MCPlnTokens
    Expected <- MCExpected

INVARIANTS
    WellFormed
    MeaningKept
    FusedAsExpected
    NothingLeft
    FusionsBounded
    TypesAgree

PROPERTIES
    TablesStable

CHECK_DEADLOCK FALSE
