SPECIFICATION Spec
CONSTANTS
    t1 = t1
    t2 = t2
    f1 = f1
    f2 = f2
    e1 = e1
    e2 = e2
    s1 = s1
    s2 = s2
    Clients <- MCClients
    Callbacks <- MCCallbacks
    Chained <- MCChained
    Events <- MCEvents
    Streams <- MCStreams
    MaxOps = 1
    NumThreads = 1
    Poller = Poller
    Owner = Owner
    ThreadPool = ThreadPool
    NoAgent = NoAgent
    Failing = {"musaEventCreate", "musaEventRecord", "musaEventQuery"}
SYMMETRY ChainedSymmetry
INVARIANTS
    EventsAccounted
    RunsOnce
    NoEarlyCall
