-------------------------- MODULE PinnedMemoryPool --------------------------
(***************************************************************************)
(* GPUPinnedMemoryPool (mu/device/pinned_memory_pool.cc): the pool of      *)
(* pinned host blocks the copy paths use as bounce buffers.                *)
(*                                                                         *)
(* Actors: client threads (TensorFlow threads copying tensors), the pool's *)
(* polling thread, the device, which completes stream operations, and the  *)
(* thread that destroys the pool.  A client allocates a block, enqueues    *)
(* one copy that reads or writes it, and gives it back with FreeAsync: on  *)
(* the stream of the copy (host to device), or with no stream (device to   *)
(* host, after the copy; any failure, before one).                         *)
(*                                                                         *)
(* Blocks are identified by their address.  The order of the blocks in     *)
(* free_list_ and pending_frees_ is left open, so both are sets: the best  *)
(* fit is one of those with the least waste, and PollPendingFrees visits   *)
(* the pending blocks in any order, one query per step, because the device *)
(* goes on while it queries.  Allocate(0) and FreeAsync(nullptr) return at *)
(* once and touch no state.                                                *)
(***************************************************************************)
EXTENDS MusaStreams, FiniteSets

CONSTANTS
    Clients,    \* client threads
    Poller,     \* the polling thread
    NoThread,   \* nobody holds mu_
    Buffers,    \* addresses musaHostAlloc may return
    NoBuffer,   \* a client's bounce_buffer when it has none
    NoStream,   \* nullptr as a stream
    Sizes,      \* the byte counts clients ask for
    MinSize,    \* kMinAllocationSize
    Failing     \* MUSA calls that may fail

ASSUME PoolAssumption ==
    /\ Sizes \subseteq Nat \ {0}
    /\ MinSize \in Nat \ {0}
    /\ Poller \notin Clients
    /\ NoThread \notin Clients \cup {Poller}
    /\ {"pool", "system"} \cap Clients = {}
    /\ NoBuffer \notin Buffers
    /\ NoStream \notin Streams
    /\ Failing \subseteq {"musaHostAlloc", "musaMemcpyAsync",
                          "musaEventRecord", "musaEventQuery",
                          "musaSynchronize"}

VARIABLES
    mu,         \* who holds mu_ across a run of PollPendingFrees
    stop,       \* stop_polling_
    freeList,   \* free_list_
    pending,    \* pending_frees_
    unseen,     \* entries the running PollPendingFrees has yet to query
    pollPc,     \* where the polling thread is
    ownerPc,    \* where the thread that destroys the pool is
    pc,         \* where each client is
    buf,        \* the client's block
    req,        \* the byte count it asked for
    via,        \* the stream of its copy
    goal,       \* the mark its event captured, or its synchronize waits for
    cap,        \* cap[b]: bytes really allocated at address b, 0 if none
    lastUse     \* lastUse[b]: the last copies enqueued that touch b

clientVars == <<pc, buf, req, via, goal>>
listVars == <<freeList, pending, unseen>>
hostVars == <<cap, lastUse>>
vars == <<enq, done, mu, stop, freeList, pending, unseen, pollPc, ownerPc,
          pc, buf, req, via, goal, cap, lastUse>>

\* Requests below kMinAllocationSize are rounded up, in Allocate and again
\* in FreeAsync.
AllocSize(n) == IF n < MinSize THEN MinSize ELSE n

FreeBlocks == [ptr : Buffers, size : Nat]
PendingBlocks == [ptr : Buffers, size : Nat, event : Marks]

Ptrs(S) == {e.ptr : e \in S}

\* The device still has to run a copy that touches block b.
InFlight(b) == ~Passed(lastUse[b])

Init ==
    /\ StreamsInit
    /\ mu = NoThread
    /\ stop = FALSE
    /\ freeList = {}
    /\ pending = {}
    /\ unseen = {}
    /\ pollPc = "lock"
    /\ ownerPc = "live"
    /\ pc = [c \in Clients |-> "idle"]
    /\ buf = [c \in Clients |-> NoBuffer]
    /\ req = [c \in Clients |-> 0]
    /\ via = [c \in Clients |-> NoStream]
    /\ goal = [c \in Clients |-> NoMark]
    /\ cap = [b \in Buffers |-> 0]
    /\ lastUse = [b \in Buffers |-> NoMark]

-----------------------------------------------------------------------------
(* PollPendingFrees, run under mu_ by a client in Allocate or by the poller *)

\* Mutant: the entry stays in pending_frees_.
QueryDoneKeepsEntry(p) ==
    /\ p \in unseen
    /\ Passed(p.event)
    /\ freeList' = freeList \cup {[ptr |-> p.ptr, size |-> p.size]}
    /\ unseen' = unseen \ {p}
    /\ UNCHANGED <<enq, done, mu, stop, pending, pollPc, ownerPc, clientVars,
                   hostVars>>

\* Mutant: the answer of the query is not looked at.
QueryDoneUnasked(p) ==
    /\ p \in unseen
    /\ pending' = pending \ {p}
    /\ freeList' = freeList \cup {[ptr |-> p.ptr, size |-> p.size]}
    /\ unseen' = unseen \ {p}
    /\ UNCHANGED <<enq, done, mu, stop, pollPc, ownerPc, clientVars, hostVars>>

\* One musaEventQuery.  Success moves the block to free_list_; so does any
\* error other than musaErrorNotReady, whatever the device is doing.
QueryDone(p) ==
    /\ p \in unseen
    /\ Passed(p.event) \/ "musaEventQuery" \in Failing
    /\ pending' = pending \ {p}
    /\ freeList' = freeList \cup {[ptr |-> p.ptr, size |-> p.size]}
    /\ unseen' = unseen \ {p}
    /\ UNCHANGED <<enq, done, mu, stop, pollPc, ownerPc, clientVars, hostVars>>

\* Mutant: the scan ends at the first block that is not ready.
QueryNotReadyStops(p) ==
    /\ p \in unseen
    /\ ~Passed(p.event)
    /\ unseen' = {}
    /\ UNCHANGED <<enq, done, mu, stop, freeList, pending, pollPc, ownerPc,
                   clientVars, hostVars>>

QueryNotReady(p) ==
    /\ p \in unseen
    /\ ~Passed(p.event)
    /\ unseen' = unseen \ {p}
    /\ UNCHANGED <<enq, done, mu, stop, freeList, pending, pollPc, ownerPc,
                   clientVars, hostVars>>

-----------------------------------------------------------------------------
(* The polling thread *)

\* while (!stop_polling_ && pending_frees_.empty()) poll_cv_.wait(l)
PollerWait ==
    /\ pollPc = "lock" /\ mu = NoThread
    /\ ~stop /\ pending = {}
    /\ pollPc' = "wait"
    /\ UNCHANGED <<enq, done, mu, stop, listVars, ownerPc, clientVars, hostVars>>

\* The wait is over, because of a pending block or of the stop flag.
PollerBegin ==
    /\ pollPc = "lock" /\ mu = NoThread
    /\ stop \/ pending # {}
    /\ mu' = Poller
    /\ unseen' = pending
    /\ pollPc' = "poll"
    /\ UNCHANGED <<enq, done, stop, freeList, pending, ownerPc, clientVars,
                   hostVars>>

\* It sleeps and goes round, or leaves the loop if it was told to stop.
PollerEnd ==
    /\ pollPc = "poll" /\ unseen = {}
    /\ mu' = NoThread
    /\ pollPc' = IF stop THEN "exited" ELSE "lock"
    /\ UNCHANGED <<enq, done, stop, listVars, ownerPc, clientVars, hostVars>>

\* Mutant: nobody is woken.
NotifyNobody == UNCHANGED pollPc

\* poll_cv_.notify_*: a waiting poller looks at its condition again.
Notify == pollPc' = IF pollPc = "wait" THEN "lock" ELSE pollPc

-----------------------------------------------------------------------------
(* Allocate *)

AllocateBegin(c, n) ==
    /\ ownerPc = "live"
    /\ pc[c] = "idle" /\ mu = NoThread
    /\ mu' = c
    /\ unseen' = pending
    /\ pc' = [pc EXCEPT ![c] = "allocate"]
    /\ req' = [req EXCEPT ![c] = n]
    /\ UNCHANGED <<enq, done, stop, freeList, pending, pollPc, ownerPc, buf,
                   via, goal, hostVars>>

\* Mutant: the comparison is the wrong way round.
FittingSmaller(n) == {f \in freeList : f.size <= AllocSize(n)}

\* The blocks of free_list_ that can serve a request for n bytes.
Fitting(n) == {f \in freeList : f.size >= AllocSize(n)}

\* The best fit leaves free_list_.
AllocateReuse(c, f) ==
    /\ pc[c] = "allocate" /\ unseen = {}
    /\ f \in Fitting(req[c])
    /\ \A g \in Fitting(req[c]) : f.size <= g.size
    /\ freeList' = freeList \ {f}
    /\ buf' = [buf EXCEPT ![c] = f.ptr]
    /\ pc' = [pc EXCEPT ![c] = "held"]
    /\ mu' = NoThread
    /\ UNCHANGED <<enq, done, stop, pending, unseen, pollPc, ownerPc, req,
                   via, goal, hostVars>>

\* Nothing fits: musaHostAlloc is called after mu_ is released.
AllocateMiss(c) ==
    /\ pc[c] = "allocate" /\ unseen = {}
    /\ Fitting(req[c]) = {}
    /\ pc' = [pc EXCEPT ![c] = "host_alloc"]
    /\ mu' = NoThread
    /\ UNCHANGED <<enq, done, stop, listVars, pollPc, ownerPc, buf, req, via,
                   goal, hostVars>>

HostAlloc(c, b) ==
    /\ pc[c] = "host_alloc"
    /\ cap[b] = 0
    /\ cap' = [cap EXCEPT ![b] = AllocSize(req[c])]
    /\ buf' = [buf EXCEPT ![c] = b]
    /\ pc' = [pc EXCEPT ![c] = "held"]
    /\ UNCHANGED <<enq, done, mu, stop, listVars, pollPc, ownerPc, req, via,
                   goal, lastUse>>

\* The client is through with its block and forgets it.
Return(c) ==
    /\ pc' = [pc EXCEPT ![c] = "idle"]
    /\ buf' = [buf EXCEPT ![c] = NoBuffer]
    /\ req' = [req EXCEPT ![c] = 0]
    /\ via' = [via EXCEPT ![c] = NoStream]
    /\ goal' = [goal EXCEPT ![c] = NoMark]

\* Allocate returns nullptr and its caller copies synchronously.
HostAllocFails(c) ==
    /\ pc[c] = "host_alloc"
    /\ "musaHostAlloc" \in Failing \/ \A b \in Buffers : cap[b] # 0
    /\ Return(c)
    /\ UNCHANGED <<enq, done, mu, stop, listVars, pollPc, ownerPc, hostVars>>

\* musaFreeHost: the block goes back to the system.
GiveBack(c) ==
    /\ cap' = [cap EXCEPT ![buf[c]] = 0]
    /\ lastUse' = [lastUse EXCEPT ![buf[c]] = NoMark]
    /\ Return(c)
    /\ UNCHANGED <<enq, done, mu, stop, listVars, pollPc, ownerPc>>

\* A host to device copy cannot be enqueued: the caller frees the block
\* itself, without FreeAsync.
CopyFails(c) ==
    /\ pc[c] = "held"
    /\ "musaMemcpyAsync" \in Failing
    /\ GiveBack(c)

\* The caller enqueues its copy between the block and device memory.
Copy(c, s) ==
    /\ pc[c] = "held"
    /\ Enqueue(s)
    /\ lastUse' = [lastUse EXCEPT ![buf[c]] =
                      Later(@, [NoMark EXCEPT ![s] = enq'[s]])]
    /\ via' = [via EXCEPT ![c] = s]
    /\ pc' = [pc EXCEPT ![c] = "copied"]
    /\ UNCHANGED <<mu, stop, listVars, pollPc, ownerPc, buf, req, goal, cap>>

-----------------------------------------------------------------------------
(* FreeAsync *)

\* Mutant: the event is created and never recorded.
UnrecordedMark(c) == NoMark

\* The event FreeAsync records captures what the client's stream has to do.
EventMark(c) == StreamMark(via[c])

\* On the stream of the copy: an event is created and recorded there.
RecordEvent(c) ==
    /\ pc[c] = "copied"
    /\ goal' = [goal EXCEPT ![c] = EventMark(c)]
    /\ pc' = [pc EXCEPT ![c] = "push"]
    /\ UNCHANGED <<enq, done, mu, stop, listVars, pollPc, ownerPc, buf, req,
                   via, hostVars>>

\* Creating or recording the event fails: synchronize with the stream, then
\* give the block back to the system.
RecordEventFails(c) ==
    /\ pc[c] = "copied"
    /\ "musaEventRecord" \in Failing
    /\ goal' = [goal EXCEPT ![c] = StreamMark(via[c])]
    /\ pc' = [pc EXCEPT ![c] = "synchronize"]
    /\ UNCHANGED <<enq, done, mu, stop, listVars, pollPc, ownerPc, buf, req,
                   via, hostVars>>

\* With no stream: synchronize with the device, then give the block back to
\* the system.  The callers do so before a copy, when one of its steps has
\* failed, and after one.
FreeNoStream(c) ==
    /\ pc[c] \in {"held", "copied"}
    /\ goal' = [goal EXCEPT ![c] = DeviceMark]
    /\ pc' = [pc EXCEPT ![c] = "synchronize"]
    /\ UNCHANGED <<enq, done, mu, stop, listVars, pollPc, ownerPc, buf, req,
                   via, hostVars>>

\* The block joins pending_frees_ with the byte count the caller passed, the
\* one it asked Allocate for, which may be less than the block has.
PushPending(c) ==
    /\ pc[c] = "push" /\ mu = NoThread
    /\ pending' = pending \cup
          {[ptr |-> buf[c], size |-> AllocSize(req[c]), event |-> goal[c]]}
    /\ Notify
    /\ Return(c)
    /\ UNCHANGED <<enq, done, mu, stop, freeList, unseen, ownerPc, hostVars>>

\* Mutant: a synchronize call that fails returns early.
FreeHostUnlessError(c) ==
    /\ pc[c] = "synchronize"
    /\ IF Passed(goal[c])
       THEN GiveBack(c)
       ELSE /\ "musaSynchronize" \in Failing
            /\ Return(c)
            /\ UNCHANGED <<enq, done, mu, stop, listVars, pollPc, ownerPc, hostVars>>

\* Mutant: the block is given back without synchronizing.
FreeHostAtOnce(c) == pc[c] = "synchronize" /\ GiveBack(c)

\* The end of FreeAsync, once its synchronize call returns, with or without
\* an error.
FreeHost(c) ==
    /\ pc[c] = "synchronize"
    /\ Passed(goal[c]) \/ "musaSynchronize" \in Failing
    /\ GiveBack(c)

-----------------------------------------------------------------------------
(* ~GPUPinnedMemoryPool.  Its owner destroys it once no client uses it. *)

StopPolling ==
    /\ ownerPc = "live"
    /\ \A c \in Clients : pc[c] = "idle"
    /\ mu = NoThread
    /\ stop' = TRUE
    /\ Notify
    /\ ownerPc' = "join"
    /\ UNCHANGED <<enq, done, mu, listVars, clientVars, hostVars>>

\* Mutant: the pending blocks are forgotten.
FreeListOnly == Ptrs(freeList)

\* The blocks the destructor releases, without another query.
Listed == Ptrs(pending) \cup Ptrs(freeList)

ReleaseLists ==
    /\ cap' = [b \in Buffers |-> IF b \in Listed THEN 0 ELSE cap[b]]
    /\ lastUse' = [b \in Buffers |-> IF b \in Listed THEN NoMark ELSE lastUse[b]]
    /\ pending' = {}
    /\ freeList' = {}
    /\ ownerPc' = "gone"
    /\ UNCHANGED <<enq, done, mu, stop, unseen, pollPc, clientVars>>

\* Mutant: the polling thread is not joined.
ReleaseUnjoined == ownerPc = "join" /\ ReleaseLists

\* The polling thread has exited.
ReleaseAll ==
    /\ ownerPc = "join" /\ pollPc = "exited" /\ mu = NoThread
    /\ ReleaseLists

-----------------------------------------------------------------------------

ClientStep(c) ==
    \/ \E f \in freeList : AllocateReuse(c, f)
    \/ AllocateMiss(c)
    \/ \E b \in Buffers : HostAlloc(c, b)
    \/ HostAllocFails(c)
    \/ \E s \in Streams : Copy(c, s)
    \/ CopyFails(c)
    \/ RecordEvent(c)
    \/ RecordEventFails(c)
    \/ FreeNoStream(c)
    \/ PushPending(c)
    \/ FreeHost(c)

Query == \E p \in unseen : QueryDone(p) \/ QueryNotReady(p)

PollerStep == PollerWait \/ PollerBegin \/ PollerEnd

OwnerStep == StopPolling \/ ReleaseAll

\* The device completes an operation of stream s.
Device(s) ==
    /\ Complete(s)
    /\ UNCHANGED <<mu, stop, listVars, pollPc, ownerPc, clientVars, hostVars>>

\* The pool is destroyed and the device is idle: the system stops.
Finished ==
    /\ ownerPc = "gone" /\ enq = done
    /\ UNCHANGED vars

Next ==
    \/ \E c \in Clients, n \in Sizes : AllocateBegin(c, n)
    \/ \E c \in Clients : ClientStep(c)
    \/ Query
    \/ PollerStep
    \/ OwnerStep
    \/ \E s \in Streams : Device(s)
    \/ Finished

Spec == Init /\ [][Next]_vars

-----------------------------------------------------------------------------
(* Properties *)

\* The blocks clients hold.
Held == {buf[c] : c \in Clients} \ {NoBuffer}

TypeOK ==
    /\ StreamsTypeOK
    /\ \A s \in Streams : done[s] <= enq[s]
    /\ mu \in Clients \cup {Poller, NoThread}
    /\ stop \in BOOLEAN
    /\ freeList \subseteq FreeBlocks
    /\ pending \subseteq PendingBlocks
    /\ unseen \subseteq pending
    /\ pollPc \in {"lock", "wait", "poll", "exited"}
    /\ ownerPc \in {"live", "join", "gone"}
    /\ pc \in [Clients -> {"idle", "allocate", "host_alloc", "held", "copied",
                           "push", "synchronize"}]
    /\ buf \in [Clients -> Buffers \cup {NoBuffer}]
    /\ req \in [Clients -> Nat]
    /\ via \in [Clients -> Streams \cup {NoStream}]
    /\ goal \in [Clients -> Marks]
    /\ cap \in [Buffers -> Nat]
    /\ lastUse \in [Buffers -> Marks]

\* A block is in one place at a time: with one client, in pending_frees_ or
\* in free_list_, once.  Allocate, FreeAsync, the polling thread and the
\* destructor move blocks between these places under different sections of
\* mu_, so a block listed twice would be handed to two copies at once or
\* freed twice.
SoleOwner ==
    /\ \A c, d \in Clients : buf[c] = buf[d] /\ buf[c] # NoBuffer => c = d
    /\ \A p, q \in pending : p.ptr = q.ptr => p = q
    /\ \A f, g \in freeList : f.ptr = g.ptr => f = g
    /\ Held \cap Ptrs(pending) = {}
    /\ Held \cap Ptrs(freeList) = {}
    /\ Ptrs(pending) \cap Ptrs(freeList) = {}

\* No block is forgotten and none is kept after musaFreeHost: the allocated
\* addresses are exactly those some place of the pool or some client knows.
\* In particular none is left when the pool is gone.
NoLeak ==
    {b \in Buffers : cap[b] # 0} = Held \cup Ptrs(pending) \cup Ptrs(freeList)

\* The block a client gets has room for what it asked, although FreeAsync
\* lists a block with the byte count of its last use, not with its own.
CapacityCoversRequest ==
    \A c \in Clients : buf[c] # NoBuffer => cap[buf[c]] >= AllocSize(req[c])

\* "Memory is never reused while GPU async copies are in progress": a block
\* a client just got, and every block that waits in free_list_, has no copy
\* left to run on any stream.
NoReuseInFlight ==
    /\ \A c \in Clients : pc[c] = "held" => ~InFlight(buf[c])
    /\ \A b \in Ptrs(freeList) : ~InFlight(b)

\* Until the destructor runs, musaFreeHost is never called on a block the
\* device still has to copy.  (The destructor does not query the events of
\* the pending blocks: it relies on its owner to have waited for the streams.)
ReleasedMemoryIsIdle ==
    [][\A b \in Buffers :
          cap[b] # 0 /\ cap'[b] = 0 /\ ownerPc # "join" => ~InFlight(b)]_vars

\* Who may use block b.
OwnerOf(b) ==
    IF b \in Held THEN CHOOSE c \in Clients : buf[c] = b
    ELSE IF cap[b] # 0 THEN "pool" ELSE "system"

BlockOwner == [b \in Buffers |-> OwnerOf(b)]

Promise == INSTANCE BounceBuffers WITH
    Pool <- "pool",
    System <- "system",
    open <- ownerPc # "gone",
    owner <- BlockOwner

\* Every step of the pool is one of the promise of BounceBuffers, or leaves it
\* unchanged: the lists, the locks, the events and the polling thread never
\* show.

KeepsPromise == Promise!Spec

\* Threads that can go on do.  Nothing is assumed of the device, and the
\* owner may keep the pool for ever.
Fairness ==
    /\ WF_vars(Query)
    /\ WF_vars(PollerStep)
    /\ WF_vars(ReleaseAll)
    /\ \A c \in Clients : WF_vars(ClientStep(c))

FairSpec == Spec /\ Fairness

\* A pending block whose copy is complete leaves pending_frees_, even if the
\* other streams make no progress at all: the poller is woken for it and does
\* not stop at a block that is not ready.
CompletedBlocksReturn ==
    \A b \in Buffers :
        (\E p \in pending : p.ptr = b /\ Passed(p.event)) ~> b \notin Ptrs(pending)

\* The destructor terminates even if the device hangs: the poller leaves its
\* wait and its loop when told to.
DestructorReturns == (ownerPc = "join") ~> (ownerPc = "gone")

=============================================================================
