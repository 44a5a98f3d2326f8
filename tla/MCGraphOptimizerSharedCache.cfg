SPECIFICATION Spec

CONSTANTS
    Optimizers = {o1, o2}
    Addresses = {a1, a2}
    MaxCalls = 1
    kMaxIterations = 50
    Items <- MCCascades
    Configs <- MCDefault
    PlnTokens <- MCPlnTokens
    Expected <- MCExpected

PROPERTIES
    TablesStable

CHECK_DEADLOCK FALSE
