SPECIFICATION Spec
CONSTANTS
    c1 = c1
    c2 = c2
    x1 = x1
    x2 = x2
    b1 = b1
    Copies <- MCCopies
    Tensors <- MCTensors
    Blocks <- MCBlocks
    Streams = {"compute", "h2d", "d2h"}
    Compute = "compute"
    H2D = "h2d"
    D2H = "d2h"
    Program = Program
    Nobody = Nobody
    Paths = {"pinned", "bounce"}
    ComputePaths = {}
    Failing = {"musaMemcpy"}
    MaxLaunches = 2
    MaxOps = 6
SYMMETRY Symmetry
INVARIANTS
    KernelsReadTheirInputs
    ResultsArrive
    BounceBuffersKept
    DoneAfterCopy
    TeardownSafe
