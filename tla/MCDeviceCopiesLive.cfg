SPECIFICATION FairSpec
CONSTANTS
    c1 = c1
    c2 = c2
    x1 = x1
    x2 = x2
    b1 = b1
    Copies <- MCCopies
    Tensors = {x1}
    Blocks <- MCBlocks
    Streams = {"compute", "h2d", "d2h"}
    Compute = "compute"
    H2D = "h2d"
    D2H = "d2h"
    Program = Program
    Nobody = Nobody
    Paths = {"pinned", "small", "bounce"}
    ComputePaths = {"bounce"}
    Failing = {"musaEventRecord", "musaStreamWaitEvent", "musaMemcpy", "musaHostAlloc"}
    MaxLaunches = 2
    MaxOps = 6
PROPERTIES
    CopiesReport
