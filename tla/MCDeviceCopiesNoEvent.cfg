SPECIFICATION Spec
CONSTANTS
    c1 = c1
    c2 = c2
    x1 = x1
    x2 = x2
    b1 = b1
    Copies <- MCOneCopy
    Tensors <- MCTensors
    Blocks <- MCBlocks
    Streams = {"compute", "h2d", "d2h"}
    Compute = "compute"
    H2D = "h2d"
    D2H = "d2h"
    Program = Program
    Nobody = Nobody
    Paths = {"bounce"}
    ComputePaths = {}
    Failing = {"ThenExecute"}
    MaxLaunches = 2
    MaxOps = 6
SYMMETRY TensorSymmetry
INVARIANTS
    ResultsArrive
