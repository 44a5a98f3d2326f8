---------------------------- MODULE DeviceCopies ----------------------------
(***************************************************************************)
(* MusaDevice and MusaDeviceContext (mu/device/musa_device.cc): copies     *)
(* between CPU tensors and device tensors on two copy streams, kernels on  *)
(* the compute stream, the waits that order them, and the destructor.      *)
(*                                                                         *)
(* Actors: the calls of CopyCPUTensorToDevice ("in") and                   *)
(* CopyDeviceTensorToCPU ("out"), each on a thread of its own; the         *)
(* program, which launches kernels and drops tensors; the device; and the  *)
(* owner, which destroys the MusaDevice.                                   *)
(*                                                                         *)
(* MusaEventMgr and GPUPinnedMemoryPool stand here for what they promise   *)
(* (StreamCallbacks, BounceBuffers): a function is called once its mark    *)
(* has passed, a block is handed out once the mark it was freed with has.  *)
(*                                                                         *)
(* Memory is a value per place.  A place is a device tensor, a bounce      *)
(* buffer, or the CPU tensor of a call, which has the name of the call.    *)
(* Every kernel that writes and every CPU tensor that is copied in has a   *)
(* value of its own, so that a stale read shows.                           *)
(***************************************************************************)
EXTENDS MusaStreams, FiniteSets, SequencesExt

CONSTANTS
    Copies,       \* calls of the two copy functions
    Tensors,      \* regions of device memory
    Blocks,       \* addresses of bounce buffers
    Compute,      \* stream_handle_
    H2D,          \* h2d_stream_
    D2H,          \* d2h_stream_
    Program,      \* the holder of references that is not a copy
    Nobody,       \* the owner of blocks no copy has, and no block
    Paths,        \* paths a copy may take: the CPU tensor is pinned, small, or neither
    ComputePaths, \* paths the environment moves to the compute stream
    Failing,      \* calls that may fail
    MaxLaunches   \* bound on the kernels launched

ASSUME DeviceCopiesAssumption ==
    /\ Streams = {Compute, H2D, D2H}
    /\ Compute # H2D /\ Compute # D2H /\ H2D # D2H
    /\ Program \notin Copies
    /\ Nobody \notin Copies \cup Blocks
    /\ Copies \cap Tensors = {} /\ Copies \cap Blocks = {} /\ Tensors \cap Blocks = {}
    /\ Paths \subseteq {"pinned", "small", "bounce"}
    /\ ComputePaths \subseteq {"pinned", "bounce"}
    /\ Failing \subseteq {"musaEventRecord", "musaStreamWaitEvent", "musaMemcpy",
                          "musaHostAlloc", "ThenExecute"}
    /\ MaxLaunches + 2 * Cardinality(Copies) <= MaxOps

VARIABLES
    work,       \* work[s]: the operations of s the device has not completed
    mem,        \* mem[p]: the value at place p
    stale,      \* a kernel read another value than the program gave it
    last,       \* the last value made
    value,      \* value[x]: what tensor x holds as the program sees it
    users,      \* users[x]: who holds a reference to x
    launches,   \* kernels launched
    pc,         \* where each copy is
    job,        \* what each copy was asked to do
    block,      \* block[c]: the bounce buffer of c
    until,      \* until[c]: the mark c synchronizes with
    event,      \* event[c]: the event of c's wait: whether it exists, its mark
    owner,      \* owner[b]: the copy that has block b
    freed,      \* freed[b]: the mark b was freed with
    calls,      \* functions given to ThenExecute and not called yet
    device      \* how far the device has been destroyed

memVars == <<mem, stale>>
programVars == <<last, value, users, launches>>
copyVars == <<pc, job, block, until, event>>
poolVars == <<owner, freed>>
vars == <<enq, done, work, mem, stale, last, value, users, launches, pc, job,
          block, until, event, owner, freed, calls, device>>

Places == Tensors \cup Blocks \cup Copies

\* No program reads this value.
Garbage == 0

Jobs == [dir : {"in", "out"}, path : Paths, sync : BOOLEAN,
         tensor : Tensors, want : Nat]

\* What a stream is given to do.
Ops ==
    [kind : {"write", "read"}, at : Tensors, value : Nat]
        \cup [kind : {"copy"}, from : Places, to : Places, by : Copies]
        \cup [kind : {"wait"}, by : Copies]

NoJob == [dir |-> "none"]

NoEvent == [live |-> FALSE, mark |-> NoMark]

Init ==
    /\ StreamsInit
    /\ work = [s \in Streams |-> <<>>]
    /\ mem = [p \in Places |-> Garbage]
    /\ stale = FALSE
    /\ last = 0
    /\ value = [x \in Tensors |-> Garbage]
    /\ users = [x \in Tensors |-> {}]
    /\ launches = 0
    /\ pc = [c \in Copies |-> "idle"]
    /\ job = [c \in Copies |-> NoJob]
    /\ block = [c \in Copies |-> Nobody]
    /\ until = [c \in Copies |-> NoMark]
    /\ event = [c \in Copies |-> NoEvent]
    /\ owner = [b \in Blocks |-> Nobody]
    /\ freed = [b \in Blocks |-> NoMark]
    /\ calls = {}
    /\ device = "live"

Put(s, op) ==
    /\ Enqueue(s)
    /\ work' = [work EXCEPT ![s] = Append(@, op)]

\* Operations of s that touch place p.
Touches(op, p) ==
    \/ op.kind \in {"write", "read"} /\ op.at = p
    \/ op.kind = "copy" /\ p \in {op.from, op.to}

Pending(s, p) == \E op \in ToSet(work[s]) : Touches(op, p)

-----------------------------------------------------------------------------
(* The program: what TensorFlow does with device tensors *)

\* A kernel writes a new tensor, in memory nobody refers to.  Earlier kernels
\* may still be going to use that memory: they are on the same stream.
Launch(x) ==
    /\ device = "live"
    /\ users[x] = {}
    /\ launches < MaxLaunches
    /\ launches' = launches + 1
    /\ last' = last + 1
    /\ value' = [value EXCEPT ![x] = last']
    /\ users' = [users EXCEPT ![x] = {Program}]
    /\ Put(Compute, [kind |-> "write", at |-> x, value |-> last'])
    /\ UNCHANGED <<memVars, copyVars, poolVars, calls, device>>

\* A kernel reads a tensor.
Consume(x) ==
    /\ device = "live"
    /\ Program \in users[x]
    /\ launches < MaxLaunches
    /\ launches' = launches + 1
    /\ Put(Compute, [kind |-> "read", at |-> x, value |-> value[x]])
    /\ UNCHANGED <<memVars, last, value, users, copyVars, poolVars, calls, device>>

Drop(x) ==
    /\ Program \in users[x]
    /\ users' = [users EXCEPT ![x] = @ \ {Program}]
    /\ UNCHANGED <<streamVars, work, memVars, last, value, launches, copyVars,
                   poolVars, calls, device>>

-----------------------------------------------------------------------------
(* The device *)

\* The CPU tensor of a copy that has reported is used for something else.
Content(p) ==
    IF p \in Copies /\ pc[p] \in {"ok", "failed"} THEN Garbage ELSE mem[p]

\* The next operation of s.  A wait ends when the work its event marks is
\* complete; if the event has been destroyed it may be ignored.
Device(s) ==
    /\ work[s] # <<>>
    /\ LET op == Head(work[s]) IN
       \/ /\ op.kind = "write"
          /\ mem' = [mem EXCEPT ![op.at] = op.value]
          /\ UNCHANGED stale
       \/ /\ op.kind = "read"
          /\ stale' = (stale \/ mem[op.at] # op.value)
          /\ UNCHANGED mem
       \/ /\ op.kind = "copy"
          /\ mem' = [mem EXCEPT ![op.to] = Content(op.from)]
          /\ UNCHANGED stale
       \/ /\ op.kind = "wait"
          /\ Passed(event[op.by].mark) \/ ~event[op.by].live
          /\ UNCHANGED memVars
    /\ Complete(s)
    /\ work' = [work EXCEPT ![s] = Tail(@)]
    /\ UNCHANGED <<programVars, copyVars, poolVars, calls, device>>

-----------------------------------------------------------------------------
(* Copies: which way a copy takes *)

OnCompute(c) ==
    job[c].dir = "in" /\ job[c].sync /\ job[c].path \in ComputePaths

CopyStream(c) ==
    IF OnCompute(c) THEN Compute ELSE IF job[c].dir = "in" THEN H2D ELSE D2H

\* Mutant: copies to the device do not wait for kernels.
WaitsOutOnly(j) ==
    /\ ~(j.dir = "in" /\ j.path \in ComputePaths)
    /\ j.dir = "out"

\* The copy stream waits for the compute stream.
Waits(j) ==
    /\ ~(j.dir = "in" /\ j.path \in ComputePaths)
    /\ j.dir = "out" \/ j.sync

\* Where an asynchronous copy goes on once it has what it needs.
Asynchronous(j) == IF Waits(j) THEN "record" ELSE "copy"

FirstStep(j) ==
    CASE j.path = "bounce" -> "alloc"
      [] j.path = "small"  -> "sync"
      [] j.path = "pinned" -> Asynchronous(j)

\* What musaStreamSynchronize(stream_handle_) waits for, if it is called.
SyncMark(j) == IF j.dir = "out" \/ j.sync THEN StreamMark(Compute) ELSE NoMark

Begin(c, j) ==
    /\ job' = [job EXCEPT ![c] = j]
    /\ pc' = [pc EXCEPT ![c] = FirstStep(j)]
    /\ until' = [until EXCEPT ![c] = IF j.path = "small" THEN SyncMark(j) ELSE NoMark]
    /\ users' = [users EXCEPT ![j.tensor] = @ \cup {c}]
    /\ UNCHANGED <<streamVars, work, stale, launches, block, event, poolVars,
                   calls, device>>

\* CopyCPUTensorToDevice, into memory nobody refers to.  A caller that passes
\* sync_dst_compute = false has made sure that no kernel uses it any more.
CopyCPUTensorToDevice(c, x, path, sync) ==
    /\ device = "live"
    /\ pc[c] = "idle" /\ users[x] = {}
    /\ sync \/ ~Pending(Compute, x)
    /\ last' = last + 1
    /\ mem' = [mem EXCEPT ![c] = last']
    /\ Begin(c, [dir |-> "in", path |-> path, sync |-> sync, tensor |-> x,
                 want |-> last'])
    /\ UNCHANGED value

\* CopyDeviceTensorToCPU, of a tensor the program has.
CopyDeviceTensorToCPU(c, x, path) ==
    /\ device = "live"
    /\ pc[c] = "idle" /\ Program \in users[x]
    /\ Begin(c, [dir |-> "out", path |-> path, sync |-> TRUE, tensor |-> x,
                 want |-> value[x]])
    /\ UNCHANGED <<last, value, mem>>

\* done(OkStatus()): a tensor that was copied in is the program's now.
Report(c) ==
    LET j == job[c] IN
    /\ pc' = [pc EXCEPT ![c] = "ok"]
    /\ value' = IF j.dir = "in" THEN [value EXCEPT ![j.tensor] = j.want] ELSE value
    /\ users' = [users EXCEPT ![j.tensor] =
                    (@ \ {c}) \cup (IF j.dir = "in" THEN {Program} ELSE {})]
    /\ UNCHANGED <<last, launches>>

\* done(error)
Fail(c) ==
    /\ pc' = [pc EXCEPT ![c] = "failed"]
    /\ users' = [users EXCEPT ![job[c].tensor] = @ \ {c}]
    /\ UNCHANGED <<last, value, launches>>

\* FreeAsync(bounce_buffer, bytes, nullptr) synchronizes with the device first.
Synchronize(c, where) ==
    /\ until' = [until EXCEPT ![c] = DeviceMark]
    /\ pc' = [pc EXCEPT ![c] = where]
    /\ UNCHANGED programVars

\* An error before the copy was enqueued: a bounce buffer is given back.
GiveUp(c) ==
    IF block[c] # Nobody
    THEN Synchronize(c, "abandon")
    ELSE Fail(c) /\ UNCHANGED until

-----------------------------------------------------------------------------
(* Synchronous copies *)

\* musaMemcpy, once the compute stream is idle: small copies, and copies that
\* got no bounce buffer.
CopyNow(c) ==
    LET x == job[c].tensor IN
    /\ pc[c] = "sync" /\ Passed(until[c])
    /\ \/ /\ mem' = IF job[c].dir = "in"
                    THEN [mem EXCEPT ![x] = mem[c]]
                    ELSE [mem EXCEPT ![c] = mem[x]]
          /\ Report(c)
       \/ /\ "musaMemcpy" \in Failing
          /\ Fail(c)
          /\ UNCHANGED mem
    /\ until' = [until EXCEPT ![c] = NoMark]
    /\ UNCHANGED <<streamVars, work, stale, job, block, event, poolVars, calls,
                   device>>

-----------------------------------------------------------------------------
(* Bounce buffers *)

\* Blocks the pool may hand out.
Available(b) == owner[b] = Nobody /\ Passed(freed[b])

\* A bounce buffer.  What is copied in goes there at once.
Allocate(c, b) ==
    /\ pc[c] = "alloc" /\ Available(b)
    /\ owner' = [owner EXCEPT ![b] = c]
    /\ block' = [block EXCEPT ![c] = b]
    /\ mem' = IF job[c].dir = "in" THEN [mem EXCEPT ![b] = mem[c]] ELSE mem
    /\ pc' = [pc EXCEPT ![c] = Asynchronous(job[c])]
    /\ UNCHANGED <<streamVars, work, stale, programVars, job, until, event,
                   freed, calls, device>>

\* There is none: the copy is synchronous.
AllocateFails(c) ==
    /\ pc[c] = "alloc"
    /\ "musaHostAlloc" \in Failing \/ \A b \in Blocks : ~Available(b)
    /\ pc' = [pc EXCEPT ![c] = "sync"]
    /\ until' = [until EXCEPT ![c] = SyncMark(job[c])]
    /\ UNCHANGED <<streamVars, work, memVars, programVars, job, block, event,
                   poolVars, calls, device>>

\* Mutant: the event is recorded on the compute stream.
FreeBounceOnCompute(c) ==
    /\ pc[c] = "free"
    /\ owner' = [owner EXCEPT ![block[c]] = Nobody]
    /\ freed' = [freed EXCEPT ![block[c]] = StreamMark(Compute)]
    /\ block' = [block EXCEPT ![c] = Nobody]
    /\ \/ OnCompute(c) /\ Report(c)
       \/ /\ ~OnCompute(c)
          /\ pc' = [pc EXCEPT ![c] = "register"]
          /\ UNCHANGED programVars
    /\ UNCHANGED <<streamVars, work, memVars, job, until, event, calls, device>>

\* FreeAsync on the stream of the copy.  On the compute stream that is all.
FreeBounce(c) ==
    /\ pc[c] = "free"
    /\ owner' = [owner EXCEPT ![block[c]] = Nobody]
    /\ freed' = [freed EXCEPT ![block[c]] = StreamMark(CopyStream(c))]
    /\ block' = [block EXCEPT ![c] = Nobody]
    /\ \/ OnCompute(c) /\ Report(c)
       \/ /\ ~OnCompute(c)
          /\ pc' = [pc EXCEPT ![c] = "register"]
          /\ UNCHANGED programVars
    /\ UNCHANGED <<streamVars, work, memVars, job, until, event, calls, device>>

\* FreeAsync without a stream, after an error or in the function that ends a
\* copy to the CPU, which then drops its reference and reports.
FreeBounceNow(c) ==
    /\ pc[c] \in {"abandon", "unstage"} /\ Passed(until[c])
    /\ owner' = [owner EXCEPT ![block[c]] = Nobody]
    /\ freed' = [freed EXCEPT ![block[c]] = NoMark]
    /\ block' = [block EXCEPT ![c] = Nobody]
    /\ IF pc[c] = "abandon" THEN Fail(c) ELSE Report(c)
    /\ until' = [until EXCEPT ![c] = NoMark]
    /\ UNCHANGED <<streamVars, work, memVars, job, event, calls, device>>

-----------------------------------------------------------------------------
(* wait_h2d_stream_for_compute, wait_d2h_stream_for_compute *)

\* Mutant: the event is recorded on the stream that is to wait.
RecordOnCopyStream(c) ==
    /\ pc[c] = "record"
    /\ event' = [event EXCEPT ![c] =
                    [live |-> TRUE, mark |-> StreamMark(CopyStream(c))]]
    /\ pc' = [pc EXCEPT ![c] = "wait"]
    /\ UNCHANGED <<streamVars, work, memVars, programVars, job, block, until,
                   poolVars, calls, device>>

\* An event marks what the compute stream has to do.
Record(c) ==
    /\ pc[c] = "record"
    /\ event' = [event EXCEPT ![c] =
                    [live |-> TRUE, mark |-> StreamMark(Compute)]]
    /\ pc' = [pc EXCEPT ![c] = "wait"]
    /\ UNCHANGED <<streamVars, work, memVars, programVars, job, block, until,
                   poolVars, calls, device>>

\* It cannot be created or recorded.
RecordFails(c) ==
    /\ pc[c] = "record"
    /\ "musaEventRecord" \in Failing
    /\ GiveUp(c)
    /\ UNCHANGED <<streamVars, work, memVars, job, block, event, poolVars,
                   calls, device>>

\* musaStreamWaitEvent
Wait(c) ==
    /\ pc[c] = "wait"
    /\ Put(CopyStream(c), [kind |-> "wait", by |-> c])
    /\ pc' = [pc EXCEPT ![c] = "keep"]
    /\ UNCHANGED <<memVars, programVars, job, block, until, event, poolVars,
                   calls, device>>

WaitFails(c) ==
    /\ pc[c] = "wait"
    /\ "musaStreamWaitEvent" \in Failing
    /\ event' = [event EXCEPT ![c] = NoEvent]
    /\ GiveUp(c)
    /\ UNCHANGED <<streamVars, work, memVars, job, block, poolVars, calls, device>>

\* What a function given to ThenExecute waits for: the work of the stream, or
\* nothing if the event manager finds no event for it.
CallMarks(c) ==
    {StreamMark(CopyStream(c))} \cup (IF "ThenExecute" \in Failing THEN {NoMark} ELSE {})

\* Mutant: the event is destroyed at once.
KeepNot(c) ==
    /\ pc[c] = "keep"
    /\ event' = [event EXCEPT ![c] = NoEvent]
    /\ pc' = [pc EXCEPT ![c] = "copy"]
    /\ UNCHANGED <<streamVars, work, memVars, programVars, job, block, until,
                   poolVars, calls, device>>

\* The event is destroyed when the copy stream has waited for it.
Keep(c) ==
    /\ pc[c] = "keep"
    /\ \E m \in CallMarks(c) :
           calls' = calls \cup {[copy |-> c, what |-> "destroy", mark |-> m]}
    /\ pc' = [pc EXCEPT ![c] = "copy"]
    /\ UNCHANGED <<streamVars, work, memVars, programVars, job, block, until,
                   event, poolVars, device>>

-----------------------------------------------------------------------------
(* Asynchronous copies *)

\* Where the copy reads or writes host memory.
HostEnd(c) == IF job[c].path = "bounce" THEN block[c] ELSE c

\* musaMemcpyAsync.  A pinned CPU tensor on the compute stream needs no more.
Copy(c) ==
    /\ pc[c] = "copy"
    /\ Put(CopyStream(c),
           LET x == job[c].tensor IN
           IF job[c].dir = "in"
           THEN [kind |-> "copy", from |-> HostEnd(c), to |-> x, by |-> c]
           ELSE [kind |-> "copy", from |-> x, to |-> HostEnd(c), by |-> c])
    /\ \/ OnCompute(c) /\ job[c].path = "pinned" /\ Report(c)
       \/ /\ ~(OnCompute(c) /\ job[c].path = "pinned")
          /\ pc' = [pc EXCEPT ![c] =
                       IF job[c].dir = "in" /\ job[c].path = "bounce"
                       THEN "free" ELSE "register"]
          /\ UNCHANGED programVars
    /\ UNCHANGED <<memVars, job, block, until, event, poolVars, calls, device>>

\* Mutant: done is not called, and its caller waits for ever.
CopyFailsSilently(c) ==
    \/ /\ pc[c] = "copy"
       /\ "musaMemcpy" \in Failing
       /\ pc' = [pc EXCEPT ![c] = "lost"]
       /\ UNCHANGED <<streamVars, work, memVars, programVars, job, block, until,
                      event, poolVars, calls, device>>
    \/ pc[c] = "lost" /\ UNCHANGED vars

\* On the compute stream a bounce buffer goes back through the pool, on the
\* others musaFreeHost is called.
CopyFails(c) ==
    /\ pc[c] = "copy"
    /\ "musaMemcpy" \in Failing
    /\ \/ /\ OnCompute(c)
          /\ GiveUp(c)
          /\ UNCHANGED <<block, owner>>
       \/ /\ ~OnCompute(c)
          /\ Fail(c)
          /\ owner' = [b \in Blocks |-> IF b = block[c] THEN Nobody ELSE owner[b]]
          /\ block' = [block EXCEPT ![c] = Nobody]
          /\ UNCHANGED until
    /\ UNCHANGED <<streamVars, work, memVars, job, event, freed, calls, device>>

\* Mutant: a copy in reports at once.
RegisterOut(c) ==
    /\ pc[c] = "register"
    /\ \/ job[c].dir = "in" /\ Report(c) /\ UNCHANGED calls
       \/ /\ job[c].dir = "out"
          /\ \E m \in CallMarks(c) :
                 calls' = calls \cup {[copy |-> c, what |-> "end", mark |-> m]}
          /\ pc' = [pc EXCEPT ![c] = "pending"]
          /\ UNCHANGED programVars
    /\ UNCHANGED <<streamVars, work, memVars, job, block, until, event, poolVars,
                   device>>

\* ThenExecute for the function that ends the copy.
Register(c) ==
    /\ pc[c] = "register"
    /\ \E m \in CallMarks(c) :
           calls' = calls \cup {[copy |-> c, what |-> "end", mark |-> m]}
    /\ pc' = [pc EXCEPT ![c] = "pending"]
    /\ UNCHANGED <<streamVars, work, memVars, programVars, job, block, until,
                   event, poolVars, device>>

-----------------------------------------------------------------------------
(* Functions the event manager calls *)

DestroyEvent(f) ==
    /\ f \in calls /\ f.what = "destroy" /\ Passed(f.mark)
    /\ calls' = calls \ {f}
    /\ event' = [event EXCEPT ![f.copy] = NoEvent]
    /\ UNCHANGED <<streamVars, work, memVars, programVars, pc, job, block, until,
                   poolVars, device>>

\* Copies without a bounce buffer, and copies in, report.
EndCopy(f) ==
    LET c == f.copy IN
    /\ f \in calls /\ f.what = "end" /\ Passed(f.mark)
    /\ block[c] = Nobody
    /\ calls' = calls \ {f}
    /\ Report(c)
    /\ UNCHANGED <<streamVars, work, memVars, job, block, until, event, poolVars,
                   device>>

\* A copy out empties its bounce buffer first, then gives it back.
Unstage(f) ==
    LET c == f.copy IN
    /\ f \in calls /\ f.what = "end" /\ Passed(f.mark)
    /\ block[c] # Nobody
    /\ calls' = calls \ {f}
    /\ mem' = [mem EXCEPT ![c] = mem[block[c]]]
    /\ Synchronize(c, "unstage")
    /\ UNCHANGED <<streamVars, work, stale, job, block, event, poolVars, device>>

-----------------------------------------------------------------------------
(* ~MusaDevice, when every copy has reported and no kernel will be launched *)

Close ==
    /\ device = "live"
    /\ \A c \in Copies : pc[c] \in {"idle", "ok", "failed"}
    /\ device' = "closing"
    /\ UNCHANGED <<streamVars, work, memVars, programVars, copyVars, poolVars, calls>>

\* Mutant: nothing is waited for.
ReleaseContextAtOnce ==
    /\ device = "closing"
    /\ device' = "no context"
    /\ UNCHANGED <<streamVars, work, memVars, programVars, copyVars, poolVars, calls>>

\* The last reference to the context: its stream, the compute stream, is
\* waited for.
ReleaseContext ==
    /\ device = "closing"
    /\ Passed(StreamMark(Compute))
    /\ device' = "no context"
    /\ UNCHANGED <<streamVars, work, memVars, programVars, copyVars, poolVars, calls>>

\* The event manager calls the functions it still has, whatever they wait for.
DeleteEventMgr ==
    /\ device = "no context"
    /\ device' = "no events"
    /\ event' = [c \in Copies |->
                    IF \E f \in calls : f.copy = c
                    THEN NoEvent ELSE event[c]]
    /\ calls' = {}
    /\ UNCHANGED <<streamVars, work, memVars, programVars, pc, job, block, until,
                   poolVars>>

\* The pool frees its blocks, the allocators their memory.
DeletePool ==
    /\ device = "no events"
    /\ device' = "no pool"
    /\ UNCHANGED <<streamVars, work, memVars, programVars, copyVars, poolVars, calls>>

DeleteAllocators ==
    /\ device = "no pool"
    /\ device' = "no memory"
    /\ UNCHANGED <<streamVars, work, memVars, programVars, copyVars, poolVars, calls>>

-----------------------------------------------------------------------------

Kernels == \E x \in Tensors : Launch(x) \/ Consume(x) \/ Drop(x)

Call(c) ==
    \E x \in Tensors, path \in Paths :
        \/ \E sync \in BOOLEAN : CopyCPUTensorToDevice(c, x, path, sync)
        \/ CopyDeviceTensorToCPU(c, x, path)

\* What a thread inside one of the copy functions does next.
Thread(c) ==
    \/ CopyNow(c)
    \/ \E b \in Blocks : Allocate(c, b)
    \/ AllocateFails(c) \/ FreeBounce(c) \/ FreeBounceNow(c)
    \/ Record(c) \/ RecordFails(c) \/ Wait(c) \/ WaitFails(c) \/ Keep(c)
    \/ Copy(c) \/ CopyFails(c) \/ Register(c)

EventMgr(f) == DestroyEvent(f) \/ EndCopy(f) \/ Unstage(f)

Destructor ==
    \/ ReleaseContext \/ DeleteEventMgr \/ DeletePool \/ DeleteAllocators

\* The device is destroyed and its streams are empty.
Finished ==
    /\ device = "no memory"
    /\ \A s \in Streams : work[s] = <<>>
    /\ UNCHANGED vars

Next ==
    \/ Kernels
    \/ \E s \in Streams : Device(s)
    \/ \E c \in Copies : Call(c) \/ Thread(c)
    \/ \E f \in calls : EventMgr(f)
    \/ Close \/ Destructor
    \/ Finished

Spec == Init /\ [][Next]_vars

-----------------------------------------------------------------------------
(* Properties *)

\* A kernel reads what the program put into its input: by an earlier kernel,
\* or by a copy that had reported, in memory that other kernels and copies may
\* have used before ("dirty data (NaN values)" if not).
KernelsReadTheirInputs == ~stale

\* When a copy to the CPU reports success the CPU tensor has what the program
\* saw in the device tensor when it asked for the copy, although the program
\* may have dropped that tensor since.
ResultsArrive ==
    \A c \in Copies :
        pc[c] = "ok" /\ job[c].dir = "out" => mem[c] = job[c].want

\* "memory is never reused while GPU async copies are in progress": a copy the
\* device still has to run has its bounce buffer to itself.
BounceBuffersKept ==
    \A s \in Streams : \A op \in ToSet(work[s]) : \A b \in Blocks :
        op.kind = "copy" /\ Touches(op, b) =>
            IF owner[b] = Nobody THEN ~Passed(freed[b]) ELSE owner[b] = op.by

\* "Callback invoked when copy completes": no copy that reported success is
\* still to be run.  It holds while no path is moved to the compute stream,
\* where copies report as soon as they are enqueued.
DoneAfterCopy ==
    \A s \in Streams : \A op \in ToSet(work[s]) :
        op.kind = "copy" => pc[op.by] # "ok"

\* "Destroy order matters to avoid use-after-free": when the pool and the
\* allocators are destroyed the device touches their memory no more, although
\* the destructor waits for one stream only.
TeardownSafe ==
    \A s \in Streams :
        /\ device \in {"no pool", "no memory"} => \A b \in Blocks : ~Pending(s, b)
        /\ device = "no memory" => \A x \in Tensors : ~Pending(s, x)

\* Threads inside a call, the functions the event manager has to call and the
\* streams go on.  Nobody need launch a kernel, copy or close the device.
Fairness ==
    /\ \A c \in Copies : WF_vars(Thread(c))
    /\ WF_vars(\E f \in calls : EventMgr(f))
    /\ \A s \in Streams : WF_vars(Device(s))
    /\ WF_vars(Destructor)

FairSpec == Spec /\ Fairness

\* Every copy reports, whatever fails.
CopiesReport ==
    \A c \in Copies : pc[c] # "idle" ~> pc[c] \in {"ok", "failed"}

=============================================================================
