SPECIFICATION FairSpec
CONSTANTS
    c1 = c1
    c2 = c2
    b1 = b1
    b2 = b2
    s1 = s1
    s2 = s2
    Clients <- MCClients
    Buffers <- MCBuffers
    Streams <- MCStreams
    Sizes <- MCSizes
    MinSize <- MCMinSize
    MaxOps = 1
    Poller = Poller
    NoThread = NoThread
    NoBuffer = NoBuffer
    NoStream = NoStream
    Failing = {"musaHostAlloc", "musaMemcpyAsync", "musaEventRecord"}
INVARIANTS
    TypeOK
    SoleOwner
    NoLeak
    CapacityCoversRequest
    NoReuseInFlight
PROPERTIES
    ReleasedMemoryIsIdle
    KeepsPromise
    CompletedBlocksReturn
    DestructorReturns
