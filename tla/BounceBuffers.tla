---------------------------- MODULE BounceBuffers ----------------------------
(***************************************************************************)
(* What GPUPinnedMemoryPool promises its callers (the class comment of     *)
(* mu/device/pinned_memory_pool.h): a block has one owner at a time, and   *)
(* is neither handed out nor given back to the system while the device     *)
(* still has to run a copy that touches it.  How the pool finds out that   *)
(* the device is through (events, polling, synchronizing) is left out.     *)
(***************************************************************************)
EXTENDS MusaStreams

CONSTANTS
    Clients,    \* client threads
    Buffers,    \* addresses of host blocks
    Pool,       \* the owner of the blocks the pool keeps
    System      \* the owner of the addresses that are not allocated

VARIABLES
    open,       \* the pool has not been destroyed
    owner,      \* owner[b]: who may use block b
    lastUse     \* lastUse[b]: the last copies enqueued that touch b

vars == <<enq, done, open, owner, lastUse>>

Idle(b) == Passed(lastUse[b])

Init ==
    /\ StreamsInit
    /\ open = TRUE
    /\ owner = [b \in Buffers |-> System]
    /\ lastUse = [b \in Buffers |-> NoMark]

\* Client c gets block b, recycled or newly allocated.
Take(c, b) ==
    /\ open
    /\ owner[b] \in {Pool, System}
    /\ Idle(b)
    /\ owner' = [owner EXCEPT ![b] = c]
    /\ UNCHANGED <<enq, done, open, lastUse>>

\* Its owner enqueues a copy that touches b.
Use(b, s) ==
    /\ owner[b] \in Clients
    /\ Enqueue(s)
    /\ lastUse' = [lastUse EXCEPT ![b] = Later(@, [NoMark EXCEPT ![s] = enq'[s]])]
    /\ UNCHANGED <<open, owner>>

\* Its owner gives b up to the pool, which waits for the device.
Retire(b) ==
    /\ owner[b] \in Clients
    /\ owner' = [owner EXCEPT ![b] = Pool]
    /\ UNCHANGED <<enq, done, open, lastUse>>

\* Its owner gives b back to the system.
Release(b) ==
    /\ owner[b] \in Clients
    /\ Idle(b)
    /\ owner' = [owner EXCEPT ![b] = System]
    /\ lastUse' = [lastUse EXCEPT ![b] = NoMark]
    /\ UNCHANGED <<enq, done, open>>

\* The pool is destroyed, when no client has a block, with all it keeps.
Destroy ==
    /\ open
    /\ \A b \in Buffers : owner[b] \notin Clients
    /\ open' = FALSE
    /\ owner' = [b \in Buffers |-> System]
    /\ lastUse' = [b \in Buffers |-> NoMark]
    /\ UNCHANGED <<enq, done>>

Device(s) == Complete(s) /\ UNCHANGED <<open, owner, lastUse>>

Next ==
    \/ \E c \in Clients, b \in Buffers : Take(c, b)
    \/ \E b \in Buffers, s \in Streams : Use(b, s)
    \/ \E b \in Buffers : Retire(b)
    \/ \E b \in Buffers : Release(b)
    \/ Destroy
    \/ \E s \in Streams : Device(s)

Spec == Init /\ [][Next]_vars

=============================================================================
