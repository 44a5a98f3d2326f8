SPECIFICATION Spec
CONSTANTS
    Ops <- MCOps
    Vars <- MCVars
    Buffers <- MCBuffers
    Handles <- MCHandles
    Programs <- MCPrograms
    MaxFailures = 1
    None = None
INVARIANTS
    ReadsAreWhole
    OwnMoments
    NoUpdateLost
    NoCircularWait
PROPERTIES
    UpdatesStayPrivate
