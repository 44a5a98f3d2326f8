SPECIFICATION Spec
CONSTANTS
    r1 = r1
    r2 = r2
    p1 = p1
    Recorders <- MCRecorders
    Reporters = {}
    Pages = {NoPage}
    NoPage = NoPage
    NoConfig = NoConfig
    Logger = Logger
    Sizes = {1, 2}
    PageLimit = 2
    MaxTime = 3
    MaxCalls = 3
SYMMETRY Symmetry
INVARIANTS
    NothingLeftBehind
