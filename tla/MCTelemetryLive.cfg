SPECIFICATION FairSpec
CONSTANTS
    r1 = r1
    r2 = r2
    p1 = p1
    Recorders <- MCRecorders
    Reporters <- MCReporters
    Pages = {NoPage}
    NoPage = NoPage
    NoConfig = NoConfig
    Logger = Logger
    Sizes = {1, 2}
    PageLimit = 2
    MaxTime = 2
    MaxCalls = 2
INVARIANTS
    EventsAccounted
PROPERTIES
    CallsReturn
    EventsLogged
