# TLA+ models of the TensorFlow MUSA extension

This directory holds TLA+ models of `tensorflow_musa_extension`, a TensorFlow
plugin for Moore Threads GPUs, the TLC configurations that check them on small
instances, and TLAPS proofs of what matters most for every instance. There are
three groups of models: the concurrent runtime (pinned memory, events, copies,
telemetry), the kernels on resource variables, and the graph optimizer with its
fusion patterns and the kernels that they replace. Paths below are relative to
`src/musa_ext/`.

## 1. Inventory of the system

A TensorFlow process loads the plugin, which registers a device, about 200
kernels and a graph optimizer. The optimizer rewrites the graph of a session
before it runs: it fuses groups of nodes into one. Kernels enqueue work on MUSA
streams; the device runs it later. What is hard in this code comes from that
distance: memory, events and callbacks must outlive work that nobody waits for;
several kernels update the same variables at the same time; and nineteen
patterns, written one by one, rewrite the same graph.

| Component | State | Operations | Interacts with |
|---|---|---|---|
| Pinned memory pool `mu/device/pinned_memory_pool.*` | `free_list_`, `pending_frees_`, `stop_polling_`, one polling thread | `Allocate`, `FreeAsync`, `PollPendingFrees`, `PollLoop`, destructor | copy paths call it; it records and queries events |
| Event manager `mu/device/musa_event_mgr.*` | `used_events_`, `free_events_`, flags, a polling thread and a thread pool | `ThenExecute`, `PollEvents`, `FreeMemory`, `PollLoop`, destructor | copy paths register callbacks, which call the pool and TensorFlow |
| Device and its contexts `mu/device/musa_device.*` | three streams, the two managers, allocators | copies in both directions, teardown in a fixed order | pool, event manager, telemetry |
| Runtime registry `mu/musa_runtime_registry.cc` | reference count and managers per device, muDNN handle per stream | created, destroyed, lookups | plugin, pool, event manager |
| StreamExecutor plugin `mu/musa_se_plugin.cc` | streams, events, timers | about 60 C callbacks | registry, pool, event manager |
| Telemetry `mu/device/musa_telemetry.*` | bounded event buffer, index of memory operations, logging thread | record, flush, initialize, shut down, backtrace | called from allocators, kernels and copies |
| Allocators and forensics `mu/device/musa_allocator.*` | allocation history and counters | allocate, free, detect | TensorFlow's BFC allocator |
| Graph optimizer `mu/optimizer/` | the graph, its configuration | layout, mixed-precision and fusion passes, pruning | TensorFlow's Grappler; the patterns |
| Fusion patterns `graph/fusion/` | a registry; the cache of the cascade pattern, shared by all sessions | `Match` and `Apply` of each pattern | the optimizer; the kernels of what they make |
| Legacy executor `mu/device/musa_executor.h` and friends | wrappers of handles | stream dependencies, timers | MUSA runtime |
| Resource variables `kernels/state/`, `kernels/training/` | variables with a mutex, a tensor and a flag | create, assign, read, gather, update, destroy | TensorFlow's resource manager; kernels of other threads |
| Kernels `kernels/math`, `nn`, `array`, `fusion` | none of their own | compute tensors on the stream, after checks of shapes | the fusion patterns rely on what they compute |
| Collective runtime `mu/collective/` | cache of communicators | lookup, insert, erase | placeholder |
| Python loader, registration | none of their own | - | - |

What makes each component correct, in a sentence:

- Pool: a block is neither handed out nor freed while the device still has to
  copy it; every block has one owner; none is lost; blocks come back.
- Event manager: a callback runs once, after the work it waits for, outside the
  lock; none is lost; an event awaits one callback at a time; the destructor
  returns.
- Device contexts: `done` is called when the data is where it should be, or
  when the order of the streams makes it look so; teardown leaves no callback
  that uses something destroyed.
- Registry: managers live exactly while their device does.
- Telemetry: every event recorded is logged, dropped and counted, or buffered.
- Optimizer: passes end, leave a graph that TensorFlow accepts and that computes
  what it did, with types that fit, and make every fusion that they should.
- Cascade pattern: the rows of a table that nodes refer to keep their places.
- Resource variables: kernels do not wait for each other in a circle; no update
  is lost; a reader sees no half of an update, and no tensor that somebody else
  holds is written to.

The hazards behind these sentences are listed one by one, at their lines, in
`PROJECT.json`.

## 2. Plan

1. *(done)* `MusaStreams`, the streams and events of the MUSA runtime.
2. *(done)* `PinnedMemoryPool`, its promise `BounceBuffers`, and the proofs.
3. *(done)* `MusaEventMgr` and its promise `StreamCallbacks`.
4. *(done)* `Telemetry`, recorders, the logging thread, `Initialize` and
   `Shutdown`, and its promise `EventLog`.
5. *(done)* `DeviceCopies`: three streams with waits between them, the data that
   copies move, and the teardown of `MusaDevice`; the promises of 2 and 3 stand
   in it for their details.
6. `RuntimeRegistry`: reference counts, raw pointers to the managers, handles
   per stream, callbacks that enter the registry while it destroys a manager.
7. *(done)* The graph optimizer: `GraphDefs`, one module per family of fusion
   patterns, `MixedPrecision`, `GraphOptimizer`; `Tensors`, `Kernels` and
   `FusedKernels` for what the operations compute, `GraphMeaning` for what a
   graph does, `FusionProperties` for what must hold, `AcceptedGraphs` for what the
   graphs of a session are.
8. *(done)* `ResourceVariables` and its proofs.
9. `MemoryForensics`, and the temporary events of the executor.

The proofs are in modules named `...Proofs` and `...Refinement`, and in
`DeviceCopiesValues`. Every safety property of the runtime and of the variables
that a run checks has its theorem; of the optimizer, the tables of the cascade
and the loops have theirs. Left: 6 with the theorem about its reference counts,
and 9.

## 3. Modules

### MusaStreams (external)

A stream is a pair of counters: operations enqueued and completed. A *mark* is
a position on every stream. An event recorded on a stream is the mark of what
the stream had to do at that time; `musaEventQuery` succeeds once the mark has
passed. `musaDeviceSynchronize` waits for a mark of all streams. Streams
progress independently, and a stream may hang for ever: only `copies_live`
assumes that the device is fair.

### PinnedMemoryPool

| Code | Model |
|---|---|
| `Allocate` | `AllocateBegin` (takes `mu_`, enters `PollPendingFrees`), then `AllocateReuse` or `AllocateMiss`, then `HostAlloc` or `HostAllocFails` outside the lock |
| `PollPendingFrees` | one `QueryDone` or `QueryNotReady` per pending block, because the device runs on between two queries; `unseen` is what the scan has left |
| `FreeAsync(ptr, bytes, stream)` | `RecordEvent` then `PushPending`; `RecordEventFails` then `FreeHost` when the event cannot be created or recorded |
| `FreeAsync(ptr, bytes, nullptr)` | `FreeNoStream` then `FreeHost` |
| `PollLoop` | `PollerWait`, `PollerBegin`, `PollerEnd` |
| destructor | `StopPolling`, `ReleaseAll` |
| the copy paths of `musa_device.cc` and `musa_se_plugin.cc` | `Copy`, `CopyFails`, `FreeNoStream` |

Sections of `mu_` without a query in them are single actions; a run of
`PollPendingFrees` holds `mu`. Sizes are kept, with the rounding up to
`kMinAllocationSize`, because `FreeAsync` lists a block with the byte count it
is passed. `lastUse[b]` is a history variable: the last copies enqueued that
touch block `b`. The order of the lists and the events' handles are abstracted.
Overflow of byte counts is not modelled (they are sizes of tensors in memory).

`BounceBuffers` states the class comment of `pinned_memory_pool.h` as a
specification: blocks with one owner, taken and released only when idle.

### MusaEventMgr

| Code | Model |
|---|---|
| `ThenExecute`, `ThenExecuteWithStatus` | `QueueInUse` or `QueueFails` (with the callback run under `mu_`), the queries, `Unlock`, then `FreeMemory` |
| `PollEvents` | `QueryReady`, `QueryNotReady`, `QueryFails`, one per used event |
| `FreeMemory` | `Recycle`, then for each callback `CallNow`, or `ReadFlag` and `Schedule`; `Dispatched` |
| `threadpool_` | `scheduled`, `PoolRuns`, `BodyReturns`, `Drained` |
| `PollLoop` | `PollerWait`, `PollerBegin`, `PollerStops`, `FinalCall`, `PollerExits` |
| destructor | `SetShutdown`, `StopPollingLoop`, `Sweep`, `FinalCall`, `DestroyFree`, `Drained` |

Callbacks are agents: the ones in `Chained` may call `ThenExecute` from their
bodies, and the agent that runs a callback (its `host`) waits for it. `early`
collects the callbacks that were called before the work they wait for was
complete, `excused` those the manager stopped waiting for (an error, or the
destructor's sweep). The branch of `PollLoop` that queries events after
`stop_polling_` is dead code, since `shutting_down_` is always set first.

`StreamCallbacks` states the promise of `musa_event_mgr.h`, with the liveness
part: a callback whose work is complete is called, whatever other streams do.

### Telemetry

| Code | Model |
|---|---|
| `RecordEvent` and the wrappers that build an event | `Stamp` (`IsEnabled`, the time), `Push` (under `event_mutex_`), `Index` (`UpdateMemoryIndex`, under `index_mutex_`) |
| `OnDirtyDataDetected` | the same, then `Flush`, `Write`, `Flushed` on the caller's thread; `FlushOnly` if telemetry is disabled |
| `LoggingThread` | `Loop`, `FlushEvents(Logger)`, `Wait`, `Timeout`, `Awake`; it breaks out of the loop to a last flush (`leaving`) |
| `Shutdown` | `Begin(NoConfig)`, `SetShutdown`, `NotifyAll`, `Join`, `Close`, `Reset`, `Return` |
| `Initialize(c)` | `Begin(c)`, the steps of `Shutdown` if telemetry was enabled, then `Disable`, or `Open` and `Start` |
| `BacktraceByAddress` | `Backtrace`, a function of the index |

An event is its time and its page; times are unique, and stand for the
correlation ids too. The flags are read where the code reads them, outside the
locks, so an event that was stamped while telemetry was enabled may be pushed
in the middle of `Shutdown` or in the next session, against another
`buffer_size`. `pushed` and `due` are history variables. The administrator is
one thread: `Initialize` and `Shutdown` are called under Python's global lock
or while the plugin is loaded and unloaded. `buffer_size` is positive, as the
Python interface requires; a zero in the environment would make the code pop an
empty deque. The format of events and the two queries that sort what they
return are left out.

`EventLog` states what the header promises recorders: a queue from which events
are logged in order or dropped. It is refined when the logging thread is the
only one that flushes.

### DeviceCopies

| Code | Model |
|---|---|
| `CopyCPUTensorToDevice`, `CopyDeviceTensorToCPU` | `CopyCPUTensorToDevice`, `CopyDeviceTensorToCPU` choose the path (`FirstStep`); each call is an agent that takes one step per runtime call |
| small copies, and copies without a bounce buffer | `CopyNow`, after `musaStreamSynchronize` |
| `Allocate`, `FreeAsync` of the pool | `Allocate`, `AllocateFails`, `FreeBounce` (with a stream), `FreeBounceNow` (without: after `Synchronize`) |
| `wait_h2d_stream_for_compute`, `wait_d2h_stream_for_compute` | `Record`, `Wait`, `Keep`, and `RecordFails`, `WaitFails` |
| `musaMemcpyAsync`, then `ThenExecute` or `done` | `Copy`, `CopyFails`, `Register` |
| the functions given to `ThenExecute` | `DestroyEvent`, `EndCopy`, `Unstage` |
| `~MusaDeviceContext`, `~MusaDevice` | `Close`, `ReleaseContext`, `DeleteEventMgr`, `DeletePool`, `DeleteAllocators` |
| TensorFlow (external) | `Launch`, `Consume`, `Drop` |

Memory holds a value per tensor, bounce buffer and CPU tensor, and every writer
has a value of its own, so a kernel or a copy that runs too early or too late
reads a wrong one. A stream is a queue of operations; a wait at its head holds
it up until the work its event marks is complete, or may be skipped once the
event has been destroyed, which is what the comment at
`mu/device/musa_device.cc:131` warns of. The CPU tensor of a call that has
reported is taken to be overwritten.

`ThenExecute` calls a function when its mark has passed, as `StreamCallbacks`
promises; the pool hands out a block when the mark it was freed with has
passed, as `BounceBuffers` promises. The event manager is never null, because
the constructor makes one. Assumed of TensorFlow: it copies into memory nobody
refers to; it passes `sync_dst_compute = false` only if no kernel on the
compute stream uses that memory; it destroys the device when every copy has
reported, and the destructor drops the last reference to the context. Copies of
no bytes report at once and are left out.

Under these assumptions the destructor, which waits for the compute stream
only, is safe: what is left on the copy streams then touches no memory, and the
functions left to the event manager only destroy events.

### Graphs and fusion patterns

`GraphDefs` has the graphs as the optimizer sees them: a sequence of nodes in
which a name is a path (`a_original` is the path `<<"a", "original">>`) and an
input is a name with a port, or a control edge. A string such as `"a:0"` that
the code compares or cuts is a different value from `"a"`, because some matchers
compare such strings. The helpers of `graph/fusion/fusion_pattern_manager.cc`
and of the patterns, which find producers and consumers, follow identities,
rename and remove nodes, are operators on these sequences, in the order in which
the code does things.

| Module | Patterns |
|---|---|
| `ElementwiseFusions` | `Clip`, `Gelu`, `PRelu`, `SigmoidCalibration`, `ShiftedAffineMap`, `AdamMixed` |
| `MatMulFusions` | `LinearActivation`, `MatMulBiasAdd`, `BiasAddReluMatMul`, `ReshapeMatMul`, `ConcatMatMul` |
| `TensorDotFusions` | `TensorDot`, `TensorDotBias`, `TokenMixer` |
| `NormFusions` | `Normalize`, `LayerNorm`, `FuseLayerNormV2` |
| `PlnFusions` | `PlnCascade`, with the tables and their cache, and `PlnCascadeBlock` |

A pattern is an operator `Match...(g, n)`, which returns what the code puts in
its `FusionMatchResult`, and an operator `Apply...(g, m)`, which returns the new
graph and whether `Apply` reported success; a pattern that fails half way leaves
the graph half changed, as the code does.

`MixedPrecision` is `OptimizeAMP`: the nodes to convert, the casts put around
them, and the types of edges.

### GraphOptimizer

| Code | Model |
|---|---|
| `Optimize` | `Optimize` (a graph without MUSA nodes is left alone), then `MixPrecision`, `Scan`, `Prune` |
| `OptimizeFusion` | `Scan`: a step goes on from the last attempt to the first pattern that matches (`First`, `ApplyFusion`) or to the end of the sweep (`EndScan`, `AfterScan`); attempt `a` is the pattern `Pattern(o, a)` at the node `Position(o, nodes, a)` |
| `GetSortedPatterns` | `PriorityGroups`, `Active` (disabled patterns), `IsKernelAvailable` |
| `RemoveIsolatedNodes` | `Prune` |
| `FusionPatternManager`, the members of `PlnCascadeFusion` | `cache`, one for all optimizers, with the address of the graph it belongs to |
| Grappler (external) | `OptimizeAgain`, which copies the graph to where it may have been before |

A sweep is one step because the graph is the optimizer's own; only `cache` is
shared, and it is read and written where a pattern applies.

### Tensors, Kernels, FusedKernels, GraphMeaning

What a graph computes is needed to say that a fusion keeps it. A number is an
element of the field of 46337 elements: sums, products, quotients and square
roots of the real numbers are replaced by those of the field, so a wrong
operand, order or constant gives another number, and no rounding hides it.
Functions such as `erf`, `tanh` and `sqrt` are replaced by others that keep the
identities the patterns rely on (the first two are odd, `erfc(x) = 1 - erf(x)`,
powers and roots agree at two). Numbers
have signs, which `Relu` and the order of numbers use; the limits that graphs
clip to are whole numbers.

`Tensors` has shapes, broadcasting and reductions; `Kernels` what the kernels of
the operations compute that patterns match, with their checks, and
`FusedKernels` the same for those they make, from the code in `kernels/fusion`;
the library that does the arithmetic is external and taken to do what its mode
says. `GraphMeaning` evaluates a graph with fed placeholders; a kernel that
reports an error has no result.

`FusionProperties` states what must hold of `GraphOptimizer`, by means of
`GraphMeaning`. `AcceptedGraphs` states what the proofs assume of the graphs that
are given to it.

### ResourceVariables

| Code | Model |
|---|---|
| `LookupResource`, `LookupOrCreateResource`, `DestroyResourceOp` | `Lookup`, `LookupFails`, `LookupOrCreate`, `Destroy`, one handle after the other |
| the mutexes, sorted by address and each once | `Lock`, one mutex a step (`NextMutex`) |
| the checks under the mutexes | `Check`, `CheckFails` |
| `PrepareTensorForMusaUpdate` | `Prepare`, one variable a step: copies a buffer that somebody else refers to |
| the launches | `Assign`, `Create`, `Read`, `Use`, `UpdateTensors`, in the kernel's order |
| the end, a synchronization, an error | `Return`, `Fail` |

A kernel is a record: how many variables it takes, whether it locks them sorted,
as given, shared or not at all, whether it holds tensors while it prepares them,
its launches, and where it may fail. All kernels launch on one stream, so what a
launch does is done at the launch, in the order of the stream. References count:
a variable lives while the resource manager or a kernel refers to it, a buffer
while a variable, a kernel or the program does. The contents of a buffer are the
list of updates it has had, which tells every loss, mixture and half of an
update apart.

### MC modules and mutants

The `MC*` modules define the sets of model values and the symmetries. In the
modules, an operator whose comment begins with *Mutant* is not part of the
specification: it is a plausible wrong version of the definition below it, and
`PROJECT.json` names the property that notices when it takes its place.

## 4. Runs

Two clients, two streams and two blocks (or two or three callbacks) are the
smallest numbers at which every hazard can happen: two threads contend for the
lock, a block is pending on one stream while another is free or in use, the
addresses run out, an early stream hangs while a later one goes on, an event
comes back to `free_events_` and is used again. `MaxOps` bounds the operations
per stream: two let a block be used twice on one stream. `NumThreads = 1` makes
callbacks queue up in the thread pool.

For telemetry, `MaxTime = 3` events and limits of one and two make the buffer
overflow while a flush is under way and let the limit shrink below what the
buffer holds; three calls start a session, stop it and start another;
`PageLimit = 2` lets the index forget operations. `telemetry_live` has two
events, one pushed too late and one in time, and two calls. `pool` and
`events_live` have one operation per stream: two blocks or callbacks on two
streams, of which one may hang.

For copies, two calls on two tensors with one bounce buffer are enough for the
buffer to pass from one to the other or to run out, and two kernels for memory
to be read, dropped and overwritten by a copy; `MaxOps` is large enough never to
stop a copy. `copies_live` has one tensor, and the paths and failing calls that
`copies` leaves out: small copies, events that cannot be recorded or waited for,
allocations that fail. `copies_no_event` has one call, which takes a bounce
buffer, so that nothing but the missing event can make its result wrong.

For the optimizer the graphs are given: about thirty, at least one for each
pattern, with the forms it accepts, nodes that another consumer shares, nodes
two patterns compete for, and fusions of what other fusions have made; each with
three orders of its nodes, under three configurations (the default one, mixed
precision, `Clip` and `TensorDot` disabled). Each is optimized twice, the second
time at the same address or another (`MaxCalls = 2`, two addresses), and
`kMaxIterations` is that of the code. `fusions_shared_cache` has two optimizers
with a cascade each.

For variables, three kernels: any two of seventeen beside a reader of a moment,
any three of four, and the rest of the optimizers, which take the same steps as
others, beside RMSProp. Four names, six variables and fourteen buffers are as
many as three kernels can ask for; one failure (`MaxFailures`) may be anywhere.
`GoTogether` leaves out what is known to go wrong: `ApplyAdam` on reference
variables takes no mutex (`kernels/training/musa_applyadam_op.cc:410`) and runs
beside kernels that only read; the sparse Adagrad takes the mutexes of its two
variables as they are named and does not ask whether they are the same
(`musa_resource_sparse_apply_ada_grad_op.cc:80`), and runs beside kernels that
take one mutex.

| Run | What it shows |
|---|---|
| `pool` | with failing allocations, copies and event records, and a device that may hang: one owner per block, no leak, enough room, no reuse and no release under a running copy; every step is one of `BounceBuffers`; completed blocks leave `pending_frees_`; the destructor returns |
| `events_faults` | on the error paths, and with a callback that registers another one, events are accounted for and callbacks run once and not early |
| `events_live` | the manager implements `StreamCallbacks` with its liveness; no callback is lost or called under the lock; the destructor returns |
| `telemetry` | with two recorders and three calls of `Initialize` or `Shutdown`: a shutdown flushes what it found, a backtrace has the operations of one thread in order, and every step is one of `EventLog` |
| `telemetry_live` | with a recorder that calls `OnDirtyDataDetected`: no event is lost or written twice, calls of `Initialize` and `Shutdown` return even if the notification is missed; buffered events are written or dropped |
| `telemetry_left_behind` | *violated*: an event stays in the buffer after `Shutdown` |
| `copies` | with two copies, two kernels and copies that fail: kernels read their inputs, results arrive, bounce buffers are kept while the device needs them, copies report after they are complete, teardown is safe |
| `copies_live` | every copy reports, also pageable copies on the compute stream |
| `copies_no_event` | *violated*: without an event, the function that ends a copy to the CPU is called at once, empties a bounce buffer the device has not filled, and reports success |
| `fusions` | every graph stays well formed and computes what it did, gets the fusions it should whatever the order of its nodes, has nothing left to fuse, with fewer fusions than it has nodes; with mixed precision the types of edges agree, but for one operation (below); the tables of the cascade only grow |
| `fusions_shared_cache` | *violated*: two optimizers at the same time make the cascade renumber rows that nodes refer to |
| `variables` | readers see whole updates, optimizers use the moments they computed, no update is lost, nobody waits in a circle, tensors that others hold are not written to; and every kernel returns (deadlock is checked) |

Some properties hold only in part, and their comments say so. `CallsOutsideLock`
is checked while events can be created and recorded: the error path of
`QueueInUse` calls the callback under `mu_`. `NoEarlyCall` excepts the functions
the destructor of the event manager sweeps, and `NoCallbackLost` is checked for
callbacks that register none: one registered after that sweep is lost.
`OwnOperationsInOrder` is less than the header says of `BacktraceByAddress`:
operations of two threads can be out of order. `DoneAfterCopy` holds while no
path is moved to the compute stream; with `MUSA_PINNED_H2D_ON_COMPUTE_STREAM`
the caller may reuse a pinned tensor before the device has read it.
`NoReuseInFlight` and `ReleasedMemoryIsIdle` are checked for queries and
synchronize calls that succeed: a query that fails for another reason than "not
ready" (`pinned_memory_pool.cc:252`) ends the wait for a copy that may be
running.
`TypesAgree` excepts the scale, the offset and the statistics of a batch
normalization that was converted: `FusedBatchNormV3` takes them as float (its
attribute `U`) whatever its `T` is, but `ConvertNodeToLowPrecision` casts every
input to the shorter type and sets `T` only (`musa_graph_optimizer.cc:865-885`),
so mixed precision breaks such a graph, as TLC shows for the layer normalization
of the run when the exception is dropped. Nor do the graphs have a node that
reads a second output of a converted node, such as the batch's mean: the code
redirects it to that output of the cast, which has only one
(`musa_graph_optimizer.cc:905`).
`MeaningKept` excepts mixed precision, which rounds, and layer normalizations
made of `MusaNormalize`: `layernorm_fusion.cc:439` forgets the limits of the
deviation, which the operation it replaces applies. `WellFormed` is about
graphs whose fetched nodes compute something, and the graphs leave out what the
reading of the patterns showed to fail: a Tensordot or a normalization with a
shared node in its middle keeps that node and not its producers
(`tensordot_fusion.cc:805`, `normalize_fusion.cc:770`);
patterns know no fetches, drop control inputs and, some of them, ports.
`UpdatesStayPrivate` speaks of the kernels that prepare their variables:
`AssignAddVariableOp`, `ResourceScatterAdd` and the sparse Adagrad write to the
buffer of the variable whoever else has it.

The violated runs are findings: each one checks what a comment of the code
promises, and `PROJECT.json` quotes it.

### Fairness

Weak fairness is given to each thread while it can go on (polling threads,
clients inside a call, the destructor once begun, the threads of the pool,
callback bodies, which the header requires to be brief; the logging thread with
its flushes and a begun `Initialize` or `Shutdown`; the calls of the copy
functions). Where an agent needs a mutex that the polling thread takes again and
again while an event is not ready, fairness is strong: TensorFlow's mutex is
starvation free, and the poller sleeps between two rounds. Clients need not
call, recorders need not record, owners need not destroy, and the device need
not complete anything, except in `copies_live`: a copy synchronizes with the
device and reports only if its streams progress. The optimizer and the
variables need no fairness: every behaviour of theirs is finite, so that a
bound on its steps (`FusionsBounded`) and the absence of circular waits say
that they end.

## 5. Proofs

`PinnedMemoryPoolProofs` proves, for any number of clients, blocks, streams,
sizes and operations:

- `TypeCorrect`: types, by `TypeInv`, which adds that the scan runs under `mu_`
  (`LockInv`) and that a client has a block exactly between `Allocate` and
  `FreeAsync` (`HoldInv`).
- `Ownership` and `NoneForgotten`: `SoleOwner` and `NoLeak`, whatever calls
  fail. `QuietInv` adds that no client is inside the pool once it is being
  destroyed, without which the destructor could free a block that is in use.
- `RoomForRequest`: `CapacityCoversRequest`. `SizeInv` adds that a listed block
  has room for its listed size, which is that of its last use only.
- `ReuseSafe`: `NoReuseInFlight`, if no `musaEventQuery` fails. `UseInv` says
  for each place a block can be in which copies may still touch it: none if it
  is free, those of the stream of its copy if it is in use, those its event
  covers if it is pending. The assumption is needed: a query that fails
  ends the wait.
- `ReleaseSafe`: `ReleasedMemoryIsIdle`, if the synchronize calls do not fail
  either: `FreeAsync` logs their errors and frees the block all the same.
- `Implements`: under the same assumptions each step of the pool is a step of
  `BounceBuffers` or a stutter. `FreshInv` is needed for the destructor: an
  address that is not allocated has no history.

`MusaEventMgrProofs` proves, for any number of clients, callbacks, streams,
events and threads of the pool:

- `CalledOnce`: `RunsOnce`, by `OnceInv`: a callback that has not been called is
  in one place at most, `used_events_`, the vector of one agent or the queue of
  the pool. It rests on `ControlInv`: only the holder of `mu_` queries
  (`LockInv`), an agent has a vector only on its way through `FreeMemory` or one
  of the two final sweeps (`BatchInv`), and a callback that has not been called
  runs nothing (`IdleInv`).
- `EventsKept`: `EventsAccounted`, by `UseInv` (an event is free, or in one entry
  that has not been recycled, and in no second place) and `KnownInv`.
- `NeverEarly`: `NoEarlyCall`, by `DueInv`: the event of an entry in the list has
  the mark that its callback waits for, and a callback that has left the list is
  due, because the event was seen to be complete or the manager gave it up.
- `OutsideLock`: `CallsOutsideLock`, if no `ThenExecute` fails to get an event:
  by `HostInv`, the agent that waits for a callback is in `FreeMemory` or in one
  of the two final sweeps, which hold no lock.
- `NoneLost`: `NoCallbackLost`, if no callback calls `ThenExecute`. `KeptInv`
  says that a callback not called is somewhere, `EndInv` how much is empty at
  each step of the destructor. The assumption is needed: a body that the pool
  runs after the destructor's sweep may register what nobody looks at again.
- `Implements`: each step is one of `StreamCallbacks` or a stutter, whatever
  fails; this is the part of `KeepsPromise` without fairness.

`TelemetryProofs` and `TelemetryRefinement` prove, for any number of recorders,
pages, events, calls and any buffer sizes:

- `ShutdownFlushes`: `RemainingEventsFlushed`. `SessionInv` relates the
  administrator to the logging thread; `FlushInv` says that once `shutdown_` is
  set the first `due` events are written, dropped, being written or still in
  the buffer, and no longer in the buffer when the logging thread has left its
  loop and taken its last batch.
- `Chronological`: `OwnOperationsInOrder`, by `OrderInv`: the operations of one
  thread in the history of a page are in the order of their times, and before
  one that the thread still has to add.
- `Accounted`: `EventsAccounted`, whoever flushes: an event that was pushed is in
  the buffer, in the batch of one thread, in the log, or was dropped. `FreshInv`
  says that an event joins the buffer once: what a recorder has still to push is
  younger than all it has pushed.
- `Implements`: every step is one of `EventLog`, if no thread calls
  `OnDirtyDataDetected` (`Reporters = {}`): such a call may write its batch after
  younger events that the logging thread took. It rests on `FreshInv` too, and
  on lemmas on concatenation: what is in the logging thread's batch is in front
  of the buffer.

`DeviceCopiesProofs` proves, for any number of copies, tensors, bounce buffers
and kernels, and whatever else fails:

- `NeverReused`: `BounceBuffersKept`. The work of a stream is a queue that moves
  on, so the proofs name an operation by its place among all ever enqueued on
  the stream (`Pos`, `Op`), which does not change. `BaseInv` says of every place
  which copy put the operation there, and how far that copy must be
  (`OpsMatch`, `OneOp`); which steps each path of the code takes, and where on
  it a copy has a buffer (`Ways`, `Owners`); that the buffer of an operation
  belongs to its copy, or was freed with a mark that is not before it (`Lent`),
  and is that of no second copy (`OneBorrower`); and that the function which
  ends a copy is registered once, with such a mark (`Ends`).
- `ReportedOnlyAfter`: `DoneAfterCopy`, if no path is moved to the compute stream
  (`ComputePaths = {}`) and functions are called after their marks (`MarksPass`).
  The error path of `ThenExecute` calls its function at once, while the copy may
  be running, so the second assumption is needed.
  `CallInv` adds to `BaseInv` that functions come after the work they end
  (`Late`), hence copies and waits not done yet are of calls not over (`Doing`)
  or find their events (`Events`), and who uses which tensor (`Users`).
- `TornDownSafely`: `TeardownSafe`, if functions are called after their marks. The
  destructor waits for the compute stream alone (`Closed`), when every copy has
  reported; a copy that has is not on the other streams (`Doing`), which have at
  most waits left.

`DeviceCopiesValues` proves about the same calls, if functions are called after
their marks and no pinned copy is moved to the compute stream (`Direct`: such a
copy reports while the device has still to read the CPU tensor):

- `InputsRead`: `KernelsReadTheirInputs`, and `ResultsBrought`: `ResultsArrive`.
  What the compute stream will find in a tensor when it comes to one of its
  operations is fixed by the last write before it (`Holds`), unless a copy on
  another stream comes between. `Ordered` says that none does: if a kernel not
  done yet conflicts with such a copy, the copy stream or the calling thread
  still has a mark to wait for that is not before the kernel (`Behind`). The
  rest of `ValueInv` says which value is where: kernels read what they should
  (`Reads`), a tensor holds or will hold what the program sees in it
  (`TensorValues`), a copy on its way brings what it was asked for, in the
  tensor, on the CPU and in the buffer (`CopyValues`, `HostValues`,
  `BlockValues`).

`ResourceVariablesProofs` proves, for any finite number of kernels, any
programs, addresses and failures:

- `NoDeadlock`: `NoCircularWait`, if no program mixes two orders of mutexes
  (`Ordered`): either all its kernels sort them by address, or those that take
  several are sparse Adagrads, which take them as they are named, and all name
  their variables in the order of one ranking. The programs of the run are all
  of this kind. The invariant `IInv` adds to the types that a kernel that looks
  variables up holds no mutex (`LookupInv`); that one that locks holds only
  mutexes of lower addresses than those it still needs, or not yet its last one
  (`LockInv`); and that a `Var` that anybody still refers to was found under one
  name only, although variables are destroyed and created again (`OneName`). So
  whoever waits, waits for a lower address, or a name of a lower rank, than the
  holder of the mutex waits for, and in a finite circle the number of kernels
  that wait for a higher one would have no minimum. The assumption is needed: a
  sparse Adagrad beside an optimizer that sorts, or beside another one with the
  same variables the other way round, can wait in a circle.
- `ReadWhole`: `ReadsAreWhole`; `MomentsOwn`: `OwnMoments`; `UpdatesKept`:
  `NoUpdateLost`; `UpdatesPrivate`: `UpdatesStayPrivate`, an action property.
  All four assume `AdamApart`: in each program every kernel takes mutexes, in
  whatever order, or one is `ApplyAdam`, which takes none
  (`kernels/training/musa_applyadam_op.cc:410`), and the others only read. All
  programs of the run are of one kind or the other. For the first kind,
  `BaseInv` says how far a kernel is and which mutexes it has (`AllHeld`), that
  two kernels share a mutex only if both only read (`Exclusive`), that nobody
  else refers to what is to be assigned or was read (`Reserved`), and that a
  kernel that has prepared a variable still finds the reference count at one
  (`AllPrepared`): as long as it has the mutex nobody else can come to refer to
  the buffer. On this rests `DataInv`: what an optimizer has launched on a
  moment is the last update that the moment had when it is used (`AllLatest`,
  `OwnMoments`), a variable has the updates that were written to it
  (`NoUpdateLost`, `Unwritten`), and a buffer has half of an update only between
  two launches of one kernel, when nobody else refers to it (`Wholes`). For the
  second kind no mutex can help, and `AdamInv` says what does: only `ApplyAdam`
  changes what a buffer has, with one launch for a moment and not two
  (`AdamTypes`); its variables had storage when it checked them, and nobody else
  gives a `Var` that has some another buffer, so it works on the tensors that
  the variables still have, and computes with moments that it has updated
  (`Working`); what has been written to a variable is in its buffer (`Shown`);
  and no variable gets the buffer of what has been read (`OutputsOwn`). Beside a
  kernel that updates, or a second `ApplyAdam` on the same variables, this need
  not hold.

`GraphOptimizerProofs` proves, for any number of sessions, any configurations and
any graphs. First, about the tables of the cascade and the loops:

- `RowsOfGroup`, about `GroupRows` alone: the rows of a group begin with those
  that are known; no two have the same key; both tables have as many values as
  rows of the width; a row that is new is that of a pair of the group; every
  pair of that width has a row. `GroupRows` is a fold over the nodes. The
  provers take no induction over an operator, so the proof goes by hand: a fold
  is an iteration (`IsIteration`, `IterationExists`), `Collected` says what the
  rows are after `k` pairs, and the set of the `k` for which it holds has no
  gap, because a least number that is missing would have a predecessor (`UpTo`).
- `TablesConsistent`: what the cache has for a group is consistent
  (`CacheConsistent`) also when several sessions share the cache, so
  `BuildGroupTables` never takes the branch that warns of an inconsistent
  cached table. `RowsAreKept`: while the cache is for the same graph and that
  has its tables, a step only appends rows (`RowsKept`). That is what the
  comment on the rewriting of the tables claims ("existing table_index values
  remain stable"); what the run `fusions_shared_cache` violates is that the
  cache stays with the graph.
- `LoopsInBounds`: the loops stay within their bounds (`ScanInBounds`).
  `LoopsAdvance`: a step of `Scan` applies a pattern, ends, or comes to a later
  place of the loops. `run_scan` says `while (true)`, so `OptimizeFusion` can
  fail to end, but only if patterns go on applying; that they do not is
  `FusionsBounded`, see below.

The last four assume that every graph is a sequence of nodes
(`[]GraphsAreSequences`), which says nothing about the nodes. TLC evaluates it
in every state: `WellFormed` takes the length of each graph. For ten of the
patterns it follows from what is proved next.

Then, about the rewriting of graphs:

- `UnusedNodesRemoved`, `NodesRemoved` and `IsolatedNodesRemoved`, about the
  helpers that remove nodes, for any graph and any names. `RemoveNodesIfUnused`
  removes candidates that nothing consumes, again and again, since each may have
  been the last consumer of another; what is left is `Pruned`: part of the graph,
  still closed, and only candidates are missing. `RemoveNode` swaps a node with
  the last one and cuts that off: `NodesRemoved` says that no other node is lost
  on the way. The loops are folds, to which `IsIteration` and `UpTo` apply as
  above.
- `RewritesKeepGraphs`: the ten patterns of `KeepingPatterns` turn an accepted
  graph into an accepted graph, which provides what it did, and leave less to
  fuse (`Improves`). `Accepted` says that names are distinct and every input,
  also a control input, names a node; that the operations that have operands
  have them (`HaveOperands`); and that the name `x_original` is free where a
  pattern does not look before a node `x` steps aside (`FreshOriginals`), without
  which two nodes could have one name. `Provides` says what a fetch is: nothing
  consumes it, it has inputs and is not a constant. Patterns do not know what is
  fetched, and remove any node that nothing consumes, so without that
  assumption the fetch could go. Nothing is said about the order or the number
  of nodes, who else consumes them, or cycles.
- `StepsKeepGraphs`: so does every step that applies one of them.
  `GraphsStayWellFormed`: `WellFormed`, if the sessions are given accepted graphs
  (`ItemsServe`) and as long as they apply only these patterns and do not mix
  precisions (`OnlyKeeping`); `TameSessionsKeep`: sessions that disable the other
  patterns (`TameSessions`) never do anything else.
- `FusionsStayBounded`: `FusionsBounded`, under the same assumptions. Each of
  these patterns begins at a node whose operation no fused node has, and whose
  name does not end in `_original` if the pattern looks at that (`IsFusible`); the
  rewrite replaces it, or lets it step aside under such a name, and makes no new
  one. So the nodes at which a pattern could apply and the patterns that have
  applied are together never more than the nodes of the graph of the session
  (`FusionsLeft`, with `SessionsServed` the inductive invariant). With
  `LoopsAdvance` and `LoopsInBounds` it follows that the scans end.

`AcceptedGraphs` has the assumptions about graphs, and the assumption
`ItemsServed` of `MCGraphOptimizer` has TLC evaluate them: every graph of the runs
is accepted and provides what is fetched. With its default configuration, the
graphs made for these ten patterns are examples of `GraphsStayWellFormed` and `FusionsStayBounded`. For the
other patterns they are not theorems. `Normalize` and `TensorDot` make them
false (the shared node in the middle, section 4). `LayerNorm` and `TensorDotBias`
remove nodes that could be their own inputs if the graph had a cycle, so cycles
would have to be excluded first. `Gelu`, `ShiftedAffineMap` and the two patterns
of the cascade match a graph in many forms, and their proofs have not been
written; `SigmoidCalibration` has no kernel and never applies. Mixed precision puts
casts behind nodes that are fetched, so they are consumed (`Provides`).

The proofs rest on the named assumptions of the modules: sizes are positive,
the identities of threads, blocks and streams are distinct from the values that
stand for none, `MaxOps` and `MaxTime` are natural numbers, of any size, kernels
are finitely many, addresses are numbers, and what is assigned to a variable is
a tensor. A theorem that needs more than that
says so in its `ASSUME`.

Model-checked only: `WellFormed` and `FusionsBounded` for sessions with the other
patterns or with mixed precision; liveness (`CompletedBlocksReturn`, `DestructorReturns`,
`CallsReturn`, `EventsLogged`, `CopiesReport`, the fair part of
`StreamCallbacks`), which is out of the provers' reach; and the other
properties of the optimizer's results. `MeaningKept` and `TypesAgree` compare what
nodes compute and which types they have: `GraphMeaning` evaluates a graph in
rounds over its nodes, so each would need an induction over data for every
pattern. `FusedAsExpected` is about the graphs of the run, and `NothingLeft`
does not hold of every graph: the iterations are limited (`kMaxIterations`).

## 6. Not modelled

- The runtime registry, the plugin's streams, events and timers, and the legacy
  executor classes: see the plan.
- Allocators and memory forensics: counters and a history beside TensorFlow's
  BFC allocator, which is not part of the repository.
- The layout pass of the optimizer, which is off unless it is asked for, and the
  dumps of graphs.
- Kernels that no fusion pattern is about (convolutions, einsum, sorting,
  strings and many more), and how any kernel computes its result on the device;
  the kernels on reference variables, but for `VariableV2` and `ApplyAdam`.
- Rounding, `NaN` and infinity: kernels compute over a finite field.
- The collective runtime, whose communicators are placeholders; the Python
  package; registration at load time.

The components are listed in `PROJECT.json` with their status. Exceptions,
memory exhaustion of the C++ heap and failures of `musaSetDevice`,
`musaFreeHost` and `musaEventDestroy`, which the code logs and ignores, are left
out.
