------------------------- MODULE DeviceCopiesValues -------------------------
(***************************************************************************)
(* Theorems about what DeviceCopies brings from where to where: kernels    *)
(* read what the program put into their inputs, and copies to the CPU      *)
(* bring what the program saw when it asked for them.                      *)
(*                                                                         *)
(* The argument: the compute stream does what the program asked for in the *)
(* order it was asked, so what a tensor will hold when the stream comes to *)
(* an operation is fixed by the writes before it (Holds), unless a copy on *)
(* another stream comes between; and such a copy comes after everything on *)
(* the compute stream that it conflicts with (Ordered), because its stream *)
(* or its thread waits for a mark that is not before any of it (Behind).   *)
(***************************************************************************)
EXTENDS DeviceCopiesProofs

-----------------------------------------------------------------------------
(* The invariant *)

Writes(op, x) ==
    \/ op.kind = "write" /\ op.at = x
    \/ op.kind = "copy" /\ op.to = x

\* The value op leaves at what it writes.
Result(op) == IF op.kind = "write" THEN op.value ELSE job[op.by].want

\* What x holds when the compute stream comes to its k-th operation.
Holds(k, x, v) ==
    \/ \E j \in Pos(Compute) :
        /\ j < k /\ Writes(Op(Compute, j), x) /\ Result(Op(Compute, j)) = v
        /\ \A i \in Pos(Compute) : j < i /\ i < k => ~Writes(Op(Compute, i), x)
    \/ /\ \A j \in Pos(Compute) : j < k => ~Writes(Op(Compute, j), x)
       /\ mem[x] = v

\* What the next kernel will find there.
Finally(x, v) == Holds(enq[Compute] + 1, x, v)

\* Kernels a copy on another stream must come after.
Conflicts(op, c) ==
    IF job[c].dir = "in" THEN Touches(op, job[c].tensor) ELSE Writes(op, job[c].tensor)

\* The wait of c is still before it.
Waiting(c) ==
    \E m \in Pos(CopyStream(c)) :
        /\ WaitAt(CopyStream(c), m, c)
        /\ \A n \in Pos(CopyStream(c)) : CopyAt(CopyStream(c), n, c) => m < n

\* Why c will not pass operation k of the compute stream.
Behind(c, k) ==
    /\ pc[c] \in {"alloc", "record"} => job[c].sync
    /\ pc[c] = "sync" => k <= until[c][Compute]
    /\ pc[c] \in {"wait", "keep", "copy", "free", "register", "pending"} =>
        k <= event[c].mark[Compute]
    /\ pc[c] \in {"keep", "copy", "free", "register", "pending"} => Waiting(c)
    /\ pc[c] \in {"free", "register", "pending"} => Copying(c)

Ordered ==
    \A c \in Copies : Active(c) /\ (pc[c] = "sync" \/ ~OnCompute(c)) =>
        \A k \in Pos(Compute) : Conflicts(Op(Compute, k), c) => Behind(c, k)

Reads ==
    \A k \in Pos(Compute) : LET op == Op(Compute, k) IN
        op.kind = "read" => Holds(k, op.at, op.value)

\* Tensors hold what the program sees in them, or will when the compute stream
\* has done what it has to do; the tensor of a copy that is coming in is nobody
\* else's.
TensorValues ==
    \A x \in Tensors :
        (\E u \in users[x] : u = Program \/ job[u].dir = "out") => Finally(x, value[x])

Arrived(c) ==
    pc[c] \in {"free", "register", "pending"} /\ ~OnCompute(c) /\ ~Copying(c)

CopyValue(c) ==
    LET j == job[c] IN
    /\ pc[c] = "free" /\ OnCompute(c) => Finally(j.tensor, j.want)
    /\ Arrived(c) /\ j.dir = "in" =>
        /\ mem[j.tensor] = j.want
        /\ \A k \in Pos(Compute) : ~Touches(Op(Compute, k), j.tensor)
    /\ Active(c) /\ j.dir = "out" => value[j.tensor] = j.want

CopyValues == \A c \in Copies : CopyValue(c)

HostValue(c) ==
    LET j == job[c] IN
    /\ Active(c) /\ j.dir = "in" =>
        /\ mem[c] = j.want
        /\ block[c] # Nobody => mem[block[c]] = j.want
    /\ j.dir = "out" =>
        /\ Arrived(c) => mem[HostEnd(c)] = j.want
        /\ pc[c] \in {"unstage", "ok"} => mem[c] = j.want

HostValues == \A c \in Copies : HostValue(c)

BlockValues ==
    \A s \in Streams : \A n \in Pos(s) : LET op == Op(s, n) IN
        op.kind = "copy" /\ op.from \in Blocks => mem[op.from] = job[op.by].want

ValueInv ==
    /\ Ordered /\ Reads /\ TensorValues /\ CopyValues /\ HostValues /\ BlockValues
    /\ ~stale

Inv == BaseInv /\ CallInv /\ ValueInv

-----------------------------------------------------------------------------
(* Positions *)

\* An operation stays where it is until the device has done it.
LEMMA Left ==
  ASSUME Types, Ways, [Next]_vars, NEW s \in Streams, NEW n \in Pos(s)
  PROVE  \/ n \in Pos(s)' /\ Op(s, n)' = Op(s, n)
         \/ Device(s) /\ n = done[s] + 1
  <1>p. \A t \in Streams, op \in Ops : Put(t, op) => n \in Pos(s)' /\ Op(s, n)' = Op(s, n)
    BY PutEffect DEF Types
  <1>1. CASE Quiet
    BY <1>1 DEF Quiet, Pos, Op
  <1>2. CASE \E x \in Tensors : Launch(x) \/ Consume(x)
    BY <1>2, <1>p, OpsTyped, Puts, StreamNames
  <1>3. CASE \E c \in Copies : Wait(c) \/ Copy(c)
    <2>1. \A c \in Copies : Copy(c) => pc[c] = "copy"
      BY DEF Copy
    <2>2. QED
      BY <1>3, <1>p, <2>1, OpsTyped, Puts, StreamNames
  <1>4. ASSUME NEW t \in Streams, Device(t)
        PROVE  \/ n \in Pos(s)' /\ Op(s, n)' = Op(s, n)
               \/ Device(s) /\ n = done[s] + 1
    <2>1. Pop(t)
      BY <1>4, DeviceEffect DEF Types
    <2>2. /\ Pos(s)' = IF s = t THEN Pos(s) \ {done[t] + 1} ELSE Pos(s)
          /\ \A m \in Pos(s)' : Op(s, m)' = Op(s, m)
      BY <2>1, PopEffect DEF Types
    <2>3. QED
      BY <2>2, <1>4
  <1>5. QED
    BY <1>1, <1>2, <1>3, <1>4, StreamMoves

LEMMA Counters ==
  ASSUME Types, Ways, [Next]_vars, NEW s \in Streams
  PROVE  /\ done[s] \in Nat /\ enq[s] \in Nat /\ done'[s] \in Nat /\ enq'[s] \in Nat
         /\ \/ done'[s] = done[s]
            \/ Device(s) /\ done'[s] = done[s] + 1 /\ done[s] + 1 \in Pos(s)
         /\ \/ enq'[s] = enq[s]
            \/ enq'[s] = enq[s] + 1 /\ done'[s] = done[s] /\ enq[s] + 1 \in Pos(s)'
  <1>t. /\ done[s] \in Nat /\ enq[s] \in Nat /\ done'[s] \in Nat /\ enq'[s] \in Nat
    BY StreamTypesStep DEF Types, StreamTypes, AnyMark
  <1>p. ASSUME NEW t \in Streams, NEW op \in Ops, Put(t, op)
        PROVE  /\ done'[s] = done[s]
               /\ \/ enq'[s] = enq[s]
                  \/ enq'[s] = enq[s] + 1 /\ enq[s] + 1 \in Pos(s)'
    BY <1>p, PutEffect DEF Types
  <1>1. CASE Quiet
    BY <1>1, <1>t DEF Quiet
  <1>2. CASE \E x \in Tensors : Launch(x) \/ Consume(x)
    BY <1>2, <1>p, <1>t, OpsTyped, Puts, StreamNames
  <1>3. CASE \E c \in Copies : Wait(c) \/ Copy(c)
    <2>1. \A c \in Copies : Copy(c) => pc[c] = "copy"
      BY DEF Copy
    <2>2. QED
      BY <1>3, <1>p, <1>t, <2>1, OpsTyped, Puts, StreamNames
  <1>4. ASSUME NEW t \in Streams, Device(t)
        PROVE  /\ enq'[s] = enq[s]
               /\ \/ done'[s] = done[s]
                  \/ Device(s) /\ done'[s] = done[s] + 1 /\ done[s] + 1 \in Pos(s)
    <2>1. Pop(t)
      BY <1>4, DeviceEffect DEF Types
    <2>2. /\ enq' = enq
          /\ done'[s] = IF s = t THEN done[t] + 1 ELSE done[s]
          /\ done[t] + 1 \in Pos(t)
      BY <2>1, PopEffect DEF Types
    <2>3. QED
      BY <2>2, <1>4
  <1>5. QED
    BY <1>1, <1>2, <1>3, <1>4, <1>t, StreamMoves

\* The job of a copy that the device has to do does not change.
LEMMA ResultKept ==
  ASSUME BaseInv, [Next]_vars, NEW s \in Streams, NEW n \in Pos(s)
  PROVE  Op(s, n).kind = "copy" => job'[Op(s, n).by] = job[Op(s, n).by]
  <1>1. Op(s, n) \in Ops
    BY PositionsTyped DEF BaseInv, Types
  <1>2. Op(s, n).kind = "copy" => Op(s, n).by \in Copies /\ pc[Op(s, n).by] # "idle"
    BY <1>1, OpFields DEF BaseInv, OpsMatch, Match
  <1>3. QED
    BY <1>2, Forward DEF BaseInv

-----------------------------------------------------------------------------
(* Memory *)

\* What writes to place p, and what it writes.
Stores(p) ==
    \/ \E c \in Copies : Call(c) /\ p = c
    \/ \E c \in Copies, b \in Blocks :
        Allocate(c, b) /\ job[c].dir = "in" /\ p = b /\ mem'[p] = mem[c]
    \/ \E c \in Copies : LET x == job[c].tensor IN
        /\ CopyNow(c) /\ Report(c)
        /\ IF job[c].dir = "in" THEN p = x /\ mem'[p] = mem[c]
           ELSE p = c /\ mem'[p] = mem[x]
    \/ \E s \in Streams : LET op == Op(s, done[s] + 1) IN
        /\ Device(s)
        /\ \/ op.kind = "write" /\ op.at = p /\ mem'[p] = op.value
           \/ op.kind = "copy" /\ op.to = p /\ mem'[p] = Content(op.from)
    \/ \E f \in calls : Unstage(f) /\ p = f.copy /\ mem'[p] = mem[block[p]]

LEMMA MemSteps ==
  ASSUME Types, Ends, [Next]_vars, NEW p \in Places
  PROVE  mem'[p] = mem[p] \/ Stores(p)
  <1> DEFINE Done == mem'[p] = mem[p] \/ Stores(p)
  <1>t. mem \in [Places -> Nat]
    BY DEF Types, ProgramTypes
  <1>1. CASE Kernels \/ Close \/ Destructor \/ Finished \/ UNCHANGED vars
    BY <1>1 DEF Kernels, Launch, Consume, Drop, Close, Destructor, ReleaseContext,
                DeleteEventMgr, DeletePool, DeleteAllocators, Finished, vars, memVars
  <1>2. ASSUME NEW s \in Streams, Device(s) PROVE Done
    <2> DEFINE op == Op(s, done[s] + 1)
    <2>1. /\ op \in Ops
          /\ \/ op.kind = "write" /\ mem' = [mem EXCEPT ![op.at] = op.value]
             \/ op.kind = "copy" /\ mem' = [mem EXCEPT ![op.to] = Content(op.from)]
             \/ mem' = mem
      BY <1>2, DeviceEffect DEF Types
    <2>2. /\ op.kind = "write" => op.at \in Places
          /\ op.kind = "copy" => op.to \in Places
      BY <2>1, OpFields DEF Places
    <2> HIDE DEF op
    <2>3. \/ mem'[p] = mem[p]
          \/ op.kind = "write" /\ op.at = p /\ mem'[p] = op.value
          \/ op.kind = "copy" /\ op.to = p /\ mem'[p] = Content(op.from)
      BY <2>1, <2>2, <1>t
    <2>4. QED
      BY <2>3, <1>2 DEF Stores, op
  <1>3. ASSUME NEW c \in Copies, Call(c) PROVE Done
    <2>1. c \in Places
      BY DEF Places
    <2>2. mem' = mem \/ mem' = [mem EXCEPT ![c] = last']
      BY <1>3 DEF Call, CopyCPUTensorToDevice, CopyDeviceTensorToCPU
    <2>3. QED
      BY <1>3, <1>t, <2>1, <2>2 DEF Stores
  <1>4. ASSUME NEW c \in Copies, CopyNow(c) PROVE Done
    <2> DEFINE x == job[c].tensor
    <2>1. pc[c] # "idle"
      BY <1>4 DEF CopyNow
    <2>2. x \in Places /\ c \in Places
      BY <2>1, JobFields DEF Places, Types
    <2>3. \/ mem' = mem
          \/ /\ Report(c)
             /\ mem' = IF job[c].dir = "in" THEN [mem EXCEPT ![x] = mem[c]]
                       ELSE [mem EXCEPT ![c] = mem[x]]
      BY <1>4 DEF CopyNow
    <2> HIDE DEF x
    <2>4. \/ mem'[p] = mem[p]
          \/ /\ Report(c)
             /\ IF job[c].dir = "in" THEN p = x /\ mem'[p] = mem[c]
                ELSE p = c /\ mem'[p] = mem[x]
      BY <2>2, <2>3, <1>t
    <2>5. QED
      BY <2>4, <1>4 DEF Stores, x
  <1>5. ASSUME NEW c \in Copies, NEW b \in Blocks, Allocate(c, b) PROVE Done
    <2>1. b \in Places
      BY DEF Places
    <2>2. mem' = IF job[c].dir = "in" THEN [mem EXCEPT ![b] = mem[c]] ELSE mem
      BY <1>5 DEF Allocate
    <2>3. \/ mem'[p] = mem[p]
          \/ job[c].dir = "in" /\ p = b /\ mem'[p] = mem[c]
      BY <2>1, <2>2, <1>t
    <2>4. QED
      BY <2>3, <1>5 DEF Stores
  <1>6. ASSUME NEW c \in Copies, Thread(c), ~CopyNow(c), \A b \in Blocks : ~Allocate(c, b)
        PROVE  Done
    BY <1>6 DEF Thread, AllocateFails, FreeBounce, FreeBounceNow, Record, RecordFails,
                Wait, WaitFails, Keep, Copy, CopyFails, Register, memVars
  <1>7. ASSUME NEW f \in calls, EventMgr(f) PROVE Done
    <2>1. CASE Unstage(f)
      <3>1. f.copy \in Places
        BY DEF Types, OtherTypes, Calls, Places
      <3>2. mem' = [mem EXCEPT ![f.copy] = mem[block[f.copy]]]
        BY <2>1 DEF Unstage
      <3>3. QED
        BY <3>1, <3>2, <2>1, <1>t DEF Stores
    <2>2. CASE DestroyEvent(f) \/ EndCopy(f)
      BY <2>2 DEF DestroyEvent, EndCopy, memVars
    <2>3. QED
      BY <2>1, <2>2, <1>7 DEF EventMgr
  <1>8. QED
    BY <1>1, <1>2, <1>3, <1>4, <1>5, <1>6, <1>7 DEF Next

\* Functions are called after their marks, and copies that have no bounce buffer
\* are not moved to the compute stream.
Direct == MarksPass /\ "pinned" \notin ComputePaths

\* A copy that the device does next brings what it was asked to.
LEMMA CopyBrings ==
  ASSUME Direct, Inv, NEW s \in Streams, NEW n \in Pos(s), Op(s, n).kind = "copy",
         job[Op(s, n).by].dir = "in"
  PROVE  Content(Op(s, n).from) = job[Op(s, n).by].want
  <1> DEFINE op == Op(s, n)
             c == op.by
  <1>b. Types /\ OpsMatch
    BY DEF Inv, BaseInv
  <1>1. op \in Ops /\ c \in Copies
    BY <1>b, PositionsTyped, OpFields DEF Types
  <1>2. /\ pc[c] \in {"free", "register", "pending", "unstage", "ok"}
        /\ job[c].path # "small"
        /\ IF job[c].path = "bounce" THEN op.from \in Blocks ELSE op.from = c
    BY <1>b DEF OpsMatch, Match
  <1>3. CASE op.from \in Blocks
    <2>1. op.from \notin Copies
      BY <1>3, DeviceCopiesAssumption
    <2>2. mem[op.from] = job[c].want
      BY <1>3 DEF Inv, ValueInv, BlockValues
    <2>3. QED
      BY <2>1, <2>2 DEF Content
  <1>4. CASE op.from \notin Blocks
    <2>1. op.from = c /\ job[c].path # "bounce"
      BY <1>2, <1>4
    <2>2. ~OnCompute(c)
      BY <1>2, <2>1, DeviceCopiesAssumption DEF OnCompute, Direct
    <2>3. Active(c)
      BY <2>2 DEF Inv, CallInv, Doing
    <2>4. mem[c] = job[c].want
      BY <2>3, <1>1 DEF Inv, ValueInv, HostValues, HostValue
    <2>5. QED
      BY <2>1, <2>3, <2>4, <1>1 DEF Content, Active
  <1>5. QED
    BY <1>3, <1>4

LEMMA NamesApart ==
  /\ \A c \in Copies : CopyStream(c) = Compute <=> OnCompute(c)
  /\ \A x \in Tensors : x \notin Blocks /\ x \notin Copies /\ x \in Places
  /\ \A b \in Blocks : b \notin Copies /\ b \notin Tensors /\ b \in Places /\ b # Nobody
  /\ \A c \in Copies : /\ c \notin Tensors /\ c \notin Blocks /\ c \in Places
                       /\ c # Program /\ c # Nobody
  BY DeviceCopiesAssumption DEF CopyStream, Places

\* The program's memory changes by what the compute stream does, or by a copy
\* from elsewhere.
Foreign(x) ==
    \E c \in Copies :
        /\ Active(c) /\ job[c].dir = "in" /\ job[c].tensor = x
        /\ mem'[x] = job[c].want
        /\ \/ CopyNow(c) /\ Report(c)
           \/ /\ ~OnCompute(c) /\ Device(CopyStream(c))
              /\ CopyAt(CopyStream(c), done[CopyStream(c)] + 1, c)

LEMMA ComputeStep ==
  ASSUME Direct, Inv, [Next]_vars, NEW x \in Tensors, done'[Compute] # done[Compute]
  PROVE  LET op == Op(Compute, done[Compute] + 1) IN
         /\ done'[Compute] = done[Compute] + 1 /\ done[Compute] + 1 \in Pos(Compute)
         /\ mem'[x] = IF Writes(op, x) THEN Result(op) ELSE mem[x]
  <1> DEFINE n == done[Compute] + 1
             op == Op(Compute, n)
  <1>b. Types /\ Ways /\ OpsMatch
    BY DEF Inv, BaseInv
  <1>1. Device(Compute) /\ done'[Compute] = n /\ n \in Pos(Compute)
    BY <1>b, Counters, StreamNames
  <1>2. /\ op \in Ops
        /\ \/ op.kind = "write" /\ mem' = [mem EXCEPT ![op.at] = op.value]
           \/ op.kind = "copy" /\ mem' = [mem EXCEPT ![op.to] = Content(op.from)]
           \/ op.kind \in {"read", "wait"} /\ mem' = mem
    BY <1>1, <1>b, DeviceEffect, StreamNames DEF Types
  <1>t. mem \in [Places -> Nat] /\ x \in Places
    BY <1>b, NamesApart DEF Types, ProgramTypes
  <1>3. CASE op.kind = "write"
    BY <1>1, <1>2, <1>3, <1>t, OpFields, NamesApart DEF Writes, Result
  <1>4. CASE op.kind = "copy"
    <2>1. Match(Compute, op)
      BY <1>b, <1>1, StreamNames DEF OpsMatch
    <2>2. op.by \in Copies /\ OnCompute(op.by)
      BY <1>2, <1>4, <2>1, OpFields, NamesApart DEF Match
    <2>3. job[op.by].dir = "in"
      BY <2>2 DEF OnCompute
    <2>4. Content(op.from) = job[op.by].want
      BY <2>3, <1>1, <1>4, CopyBrings, StreamNames
    <2>5. op.to \in Places
      BY <1>2, <1>4, OpFields
    <2>6. mem'[x] = IF op.to = x THEN Content(op.from) ELSE mem[x]
      BY <1>2, <1>4, <2>5, <1>t
    <2>7. QED
      BY <2>4, <2>6, <1>1, <1>4 DEF Writes, Result
  <1>5. CASE op.kind \in {"read", "wait"}
    BY <1>1, <1>2, <1>5 DEF Writes
  <1>6. QED
    BY <1>1, <1>2, <1>3, <1>4, <1>5

LEMMA OtherStep ==
  ASSUME Direct, Inv, [Next]_vars, NEW x \in Tensors, done'[Compute] = done[Compute]
  PROVE  mem'[x] = mem[x] \/ Foreign(x)
  <1>b. Types /\ Ways /\ OpsMatch /\ Ends
    BY DEF Inv, BaseInv
  <1>x. x \in Places /\ x \notin Copies /\ x \notin Blocks
    BY NamesApart
  <1>1. SUFFICES ASSUME Stores(x) PROVE Foreign(x)
    BY <1>b, <1>x, MemSteps
  <1>2. ASSUME NEW c \in Copies, CopyNow(c), Report(c), job[c].dir = "in",
               job[c].tensor = x, mem'[x] = mem[c]
        PROVE  Foreign(x)
    <2>1. Active(c)
      BY <1>2 DEF CopyNow, Active
    <2>2. mem[c] = job[c].want
      BY <1>2, <2>1 DEF Inv, ValueInv, HostValues, HostValue
    <2>3. QED
      BY <1>2, <2>1, <2>2 DEF Foreign
  <1>3. ASSUME NEW s \in Streams, Device(s) PROVE s # Compute
    <2>1. done'[s] = done[s] + 1 /\ done[s] \in Nat
      <3>1. Pop(s)
        BY <1>3, <1>b, DeviceEffect DEF Types
      <3>2. QED
        BY <3>1, <1>b, PopEffect DEF Types, StreamTypes, AnyMark
    <2>2. QED
      BY <2>1
  <1>4. ASSUME NEW s \in Streams, Device(s), NEW op, op = Op(s, done[s] + 1),
               \/ op.kind = "write" /\ op.at = x
               \/ op.kind = "copy" /\ op.to = x /\ mem'[x] = Content(op.from)
        PROVE  Foreign(x)
    <2>1. done[s] + 1 \in Pos(s)
      <3>1. Pop(s)
        BY <1>4, <1>b, DeviceEffect DEF Types
      <3>2. QED
        BY <3>1, <1>b, PopEffect DEF Types
    <2>2. op \in Ops /\ Match(s, op)
      BY <2>1, <1>4, <1>b, PositionsTyped DEF OpsMatch, Types
    <2>3. op.kind = "copy"
      BY <2>2, <1>3, <1>4 DEF Match
    <2>4. PICK c \in Copies : c = op.by
      BY <2>2, <2>3, OpFields
    <2>5. pc[c] # "idle" /\ s = CopyStream(c)
      BY <2>2, <2>3, <2>4 DEF Match
    <2>6. job[c].dir = "in"
      <3>1. CASE job[c].dir = "out"
        BY <3>1, <2>2, <2>3, <2>4, <1>4, <1>x DEF Match
      <3>2. QED
        BY <3>1, <2>5, JobFields, <1>b DEF Types
    <2>7. job[c].tensor = x
      BY <2>2, <2>3, <2>4, <2>6, <1>4 DEF Match
    <2>8. ~OnCompute(c)
      BY <2>5, <1>3, <1>4, NamesApart
    <2>9. Active(c)
      BY <2>1, <2>3, <2>4, <2>8, <1>4 DEF Inv, CallInv, Doing
    <2>10. mem'[x] = job[c].want
      BY <2>1, <2>3, <2>4, <2>6, <1>4, CopyBrings
    <2>11. CopyAt(s, done[s] + 1, c)
      BY <2>1, <2>3, <2>4, <1>4 DEF CopyAt
    <2>12. QED
      BY <2>5, <2>6, <2>7, <2>8, <2>9, <2>10, <2>11, <1>4 DEF Foreign
  <1>5. QED
    <2>1. CASE \E c \in Copies : Call(c) /\ x = c
      BY <2>1, <1>x
    <2>2. CASE \E c \in Copies, b \in Blocks : x = b
      BY <2>2, <1>x
    <2>3. CASE \E c \in Copies :
                 /\ CopyNow(c) /\ Report(c)
                 /\ IF job[c].dir = "in" THEN x = job[c].tensor /\ mem'[x] = mem[c]
                    ELSE x = c /\ mem'[x] = mem[job[c].tensor]
      BY <2>3, <1>2, <1>x
    <2>4. CASE \E f \in calls : x = f.copy
      BY <2>4, <1>x, <1>b DEF Types, OtherTypes, Calls
    <2>5. QED
      BY <1>1, <1>4, <2>1, <2>2, <2>3, <2>4 DEF Stores

\* A copy that is done, or done next, has waited long enough: the compute stream
\* has nothing left that conflicts with it.
LEMMA NothingBefore ==
  ASSUME Inv, NEW c \in Copies, Active(c), pc[c] # "unstage",
         \/ pc[c] = "sync" /\ Passed(until[c])
         \/ ~OnCompute(c) /\ CopyAt(CopyStream(c), done[CopyStream(c)] + 1, c),
         NEW k \in Pos(Compute)
  PROVE  ~Conflicts(Op(Compute, k), c)
  <1> DEFINE s == CopyStream(c)
  <1>b. Types /\ Ways /\ OpsMatch
    BY DEF Inv, BaseInv
  <1>1. SUFFICES ASSUME Conflicts(Op(Compute, k), c) PROVE FALSE
    OBVIOUS
  <1>2. Behind(c, k)
    BY <1>1 DEF Inv, ValueInv, Ordered
  <1>3. k \in Nat /\ done[Compute] \in Nat /\ done[Compute] < k
    BY <1>b, PositionsTyped, StreamNames DEF Types
  <1>4. CASE pc[c] = "sync" /\ Passed(until[c])
    <2>1. k <= until[c][Compute] /\ until[c][Compute] <= done[Compute]
      BY <1>2, <1>4, StreamNames DEF Behind, Passed
    <2>2. until[c][Compute] \in Nat
      BY <1>b, StreamNames DEF Types, CopyTypes, AnyMark
    <2>3. QED
      BY <2>1, <2>2, <1>3
  <1>5. CASE ~OnCompute(c) /\ CopyAt(s, done[s] + 1, c)
    <2>1. s \in Streams
      BY StreamNames
    <2>2. done[s] + 1 \in Pos(s) /\ Op(s, done[s] + 1).kind = "copy"
          /\ Op(s, done[s] + 1).by = c
      BY <1>5 DEF CopyAt
    <2>3. pc[c] \in {"free", "register", "pending"}
      BY <2>1, <2>2, <1>b DEF OpsMatch, Match, Active
    <2>4. PICK m \in Pos(s) : m < done[s] + 1
      BY <2>2, <2>3, <1>2, <1>5 DEF Behind, Waiting
    <2>5. m \in Nat /\ done[s] \in Nat /\ done[s] < m
      BY <2>1, <1>b, PositionsTyped DEF Types
    <2>6. QED
      BY <2>4, <2>5
  <1>6. QED
    BY <1>4, <1>5

\* Nobody else has a tensor that a copy brings.
LEMMA ForeignAlone ==
  ASSUME Direct, Inv, [Next]_vars, NEW x \in Tensors, Foreign(x)
  PROVE  /\ \A k \in Pos(Compute) : ~Touches(Op(Compute, k), x)
         /\ \E c \in Copies : users[x] = {c} /\ job[c].dir = "in"
  <1>1. PICK c \in Copies :
            /\ Active(c) /\ job[c].dir = "in" /\ job[c].tensor = x
            /\ \/ CopyNow(c) /\ Report(c)
               \/ ~OnCompute(c) /\ CopyAt(CopyStream(c), done[CopyStream(c)] + 1, c)
    BY DEF Foreign
  <1>2. users[x] = {c}
    BY <1>1 DEF Inv, CallInv, Users
  <1>3. pc[c] # "unstage"
    BY <1>1 DEF Inv, BaseInv, Ways, Way
  <1>4. CopyNow(c) => pc[c] = "sync" /\ Passed(until[c])
    BY DEF CopyNow
  <1>5. QED
    BY <1>1, <1>2, <1>3, <1>4, NothingBefore DEF Conflicts

-----------------------------------------------------------------------------
(* What tensors will hold *)

LEMMA ComputePositions ==
  ASSUME Types, Ways, [Next]_vars
  PROVE  /\ \A j \in Pos(Compute) : j \in Nat /\ done[Compute] < j /\ j <= enq[Compute]
         /\ \A j \in Pos(Compute)' : j \in Nat /\ done'[Compute] < j /\ j <= enq'[Compute]
         /\ \A j \in Pos(Compute) : done'[Compute] < j => j \in Pos(Compute)'
         /\ \A j \in Pos(Compute)' : j <= enq[Compute] => j \in Pos(Compute)
  <1>1. /\ done[Compute] \in Nat /\ enq[Compute] \in Nat
        /\ done'[Compute] \in Nat /\ enq'[Compute] \in Nat
        /\ done'[Compute] = done[Compute] \/ done'[Compute] = done[Compute] + 1
        /\ enq'[Compute] = enq[Compute] \/ enq'[Compute] = enq[Compute] + 1
    BY Counters, StreamNames
  <1>2. /\ Pos(Compute) = done[Compute] + 1 .. enq[Compute]
        /\ Pos(Compute)' = done'[Compute] + 1 .. enq'[Compute]
    BY DEF Pos
  <1>3. QED
    BY <1>1, <1>2

LEMMA OperationKept ==
  ASSUME Inv, [Next]_vars, NEW j \in Pos(Compute), j \in Pos(Compute)'
  PROVE  /\ Op(Compute, j)' = Op(Compute, j)
         /\ \A x : Writes(Op(Compute, j), x)' <=> Writes(Op(Compute, j), x)
         /\ \A x : Writes(Op(Compute, j), x) =>
                Result(Op(Compute, j))' = Result(Op(Compute, j))
  <1>b. BaseInv /\ Types /\ Ways
    BY DEF Inv, BaseInv
  <1>1. Op(Compute, j)' = Op(Compute, j)
    <2>1. ~(Device(Compute) /\ j = done[Compute] + 1)
      <3>1. SUFFICES ASSUME Device(Compute), j = done[Compute] + 1 PROVE FALSE
        OBVIOUS
      <3>2. Pop(Compute)
        BY <3>1, <1>b, DeviceEffect, StreamNames DEF Types
      <3>3. Pos(Compute)' = Pos(Compute) \ {done[Compute] + 1}
        BY <3>2, <1>b, PopEffect, StreamNames DEF Types
      <3>4. QED
        BY <3>1, <3>3
    <2>2. QED
      BY <2>1, <1>b, Left, StreamNames
  <1>2. Op(Compute, j).kind = "copy" => job'[Op(Compute, j).by] = job[Op(Compute, j).by]
    BY <1>b, ResultKept, StreamNames
  <1>3. QED
    BY <1>1, <1>2 DEF Writes, Result

\* What operation k of the compute stream will find in a tensor stays what it is
\* while the stream comes nearer to k, unless a copy from elsewhere comes in.
LEMMA HoldsKept ==
  ASSUME Direct, Inv, [Next]_vars, NEW x \in Tensors, NEW v, NEW k \in Nat,
         done'[Compute] < k, k <= enq[Compute] + 1, Holds(k, x, v), ~Foreign(x)
  PROVE  Holds(k, x, v)'
  <1> DEFINE n == done[Compute] + 1
             W(j) == Writes(Op(Compute, j), x)
             R(j) == Result(Op(Compute, j))
  <1>b. Types /\ Ways
    BY DEF Inv, BaseInv
  <1>1. /\ \A j \in Pos(Compute)' : j < k => j \in Pos(Compute)
        /\ \A j \in Pos(Compute) : done'[Compute] < j => j \in Pos(Compute)'
        /\ \A j \in Pos(Compute) : j \in Nat /\ done[Compute] < j
        /\ \A j \in Pos(Compute)' : j \in Nat /\ done'[Compute] < j
        /\ done[Compute] \in Nat
        /\ done'[Compute] = done[Compute] \/ done'[Compute] = n
    <2>1. /\ done[Compute] \in Nat /\ enq[Compute] \in Nat
          /\ done'[Compute] = done[Compute] \/ done'[Compute] = n
      BY <1>b, Counters, StreamNames
    <2>2. \A j \in Nat : j < k => j <= enq[Compute]
      BY <2>1
    <2>3. QED
      BY <2>1, <2>2, <1>b, ComputePositions
  <1>2. ASSUME NEW j \in Pos(Compute), j \in Pos(Compute)'
        PROVE  /\ W(j)' <=> W(j)
               /\ W(j) => R(j)' = R(j)
    BY <1>2, OperationKept
  <1>3. /\ done'[Compute] = done[Compute] => mem'[x] = mem[x]
        /\ done'[Compute] # done[Compute] =>
            /\ n \in Pos(Compute) /\ done'[Compute] = n
            /\ mem'[x] = IF W(n) THEN R(n) ELSE mem[x]
    BY ComputeStep, OtherStep
  <1>4. Holds(k, x, v) <=>
            \/ \E j \in Pos(Compute) :
                /\ j < k /\ W(j) /\ R(j) = v
                /\ \A i \in Pos(Compute) : j < i /\ i < k => ~W(i)
            \/ /\ \A j \in Pos(Compute) : j < k => ~W(j)
               /\ mem[x] = v
    BY DEF Holds
  <1>5. Holds(k, x, v)' <=>
            \/ \E j \in Pos(Compute)' :
                /\ j < k /\ W(j)' /\ R(j)' = v
                /\ \A i \in Pos(Compute)' : j < i /\ i < k => ~W(i)'
            \/ /\ \A j \in Pos(Compute)' : j < k => ~W(j)'
               /\ mem'[x] = v
    BY DEF Holds
  <1> HIDE DEF W, R
  <1>6. ASSUME NEW j \in Pos(Compute), j < k, W(j), R(j) = v,
               \A i \in Pos(Compute) : j < i /\ i < k => ~W(i)
        PROVE  Holds(k, x, v)'
    <2>1. CASE j \in Pos(Compute)'
      BY <2>1, <1>1, <1>2, <1>5, <1>6
    <2>2. CASE j \notin Pos(Compute)'
      <3>1. ~(done'[Compute] < j) /\ done'[Compute] # done[Compute]
        BY <2>2, <1>1
      <3>2. done'[Compute] = n /\ j = n
        <4>1. done'[Compute] = n /\ ~(n < j)
          BY <3>1, <1>1
        <4>2. j \in Nat /\ done[Compute] \in Nat /\ done[Compute] < j
          BY <1>1
        <4>3. QED
          BY <4>1, <4>2
      <3>3. mem'[x] = v
        BY <3>1, <3>2, <1>3, <1>6
      <3>4. ASSUME NEW i \in Pos(Compute)', i < k PROVE ~W(i)'
        <4>1. i \in Pos(Compute) /\ j < i
          BY <3>2, <3>4, <1>1
        <4>2. QED
          BY <4>1, <3>4, <1>2, <1>6
      <3>5. QED
        BY <3>3, <3>4, <1>5
    <2>3. QED
      BY <2>1, <2>2
  <1>7. ASSUME \A j \in Pos(Compute) : j < k => ~W(j), mem[x] = v
        PROVE  Holds(k, x, v)'
    <2>1. mem'[x] = v
      <3>1. CASE done'[Compute] = done[Compute]
        BY <3>1, <1>3, <1>7
      <3>2. CASE done'[Compute] # done[Compute]
        <4>1. n \in Pos(Compute) /\ n < k
          BY <3>2, <1>3
        <4>2. QED
          BY <3>2, <4>1, <1>3, <1>7
      <3>3. QED
        BY <3>1, <3>2
    <2>2. \A j \in Pos(Compute)' : j < k => ~W(j)'
      BY <1>1, <1>2, <1>7
    <2>3. QED
      BY <2>1, <2>2, <1>5
  <1>8. QED
    BY <1>4, <1>6, <1>7

\* What is new on the compute stream and touches a tensor.
LEMMA NewTouch ==
  ASSUME Inv, [Next]_vars, NEW x \in Tensors, NEW n \in Pos(Compute)',
         n \notin Pos(Compute), Touches(Op(Compute, n), x)'
  PROVE  /\ n = enq[Compute] + 1
         /\ \/ /\ Launch(x)
               /\ Op(Compute, n)' = [kind |-> "write", at |-> x, value |-> last + 1]
            \/ /\ Consume(x)
               /\ Op(Compute, n)' = [kind |-> "read", at |-> x, value |-> value[x]]
            \/ \E c \in Copies :
                /\ Copy(c) /\ OnCompute(c) /\ job[c].tensor = x /\ job[c].dir = "in"
                /\ Op(Compute, n)' = CopyOp(c)
  <1>b. Types /\ Ways
    BY DEF Inv, BaseInv
  <1>1. Touches(Op(Compute, n)', x)
    BY DEF Touches
  <1>2. CASE \E y \in Tensors :
               /\ Launch(y)
               /\ Op(Compute, n)' = [kind |-> "write", at |-> y, value |-> last + 1]
    BY <1>1, <1>2, <1>b, Enqueued, StreamNames DEF Touches
  <1>3. CASE \E y \in Tensors :
               /\ Consume(y)
               /\ Op(Compute, n)' = [kind |-> "read", at |-> y, value |-> value[y]]
    BY <1>1, <1>3, <1>b, Enqueued, StreamNames DEF Touches
  <1>4. ASSUME NEW c \in Copies, Op(Compute, n)' = WaitOp(c) PROVE FALSE
    BY <1>1, <1>4 DEF Touches, WaitOp
  <1>5. ASSUME NEW c \in Copies, Copy(c), Compute = CopyStream(c),
               Op(Compute, n)' = CopyOp(c)
        PROVE  OnCompute(c) /\ job[c].tensor = x /\ job[c].dir = "in"
    <2>1. OnCompute(c) /\ job[c].dir = "in" /\ pc[c] = "copy"
      BY <1>5, NamesApart DEF OnCompute, Copy
    <2>2. HostEnd(c) \in Blocks \cup Copies
      BY <2>1, <1>b DEF HostEnd, Ways, Way, Types, CopyTypes
    <2>3. x # HostEnd(c)
      BY <2>2, NamesApart
    <2>4. QED
      BY <1>1, <1>5, <2>1, <2>3 DEF Touches, CopyOp
  <1>6. QED
    BY <1>b, <1>2, <1>3, <1>4, <1>5, Enqueued, StreamNames

LEMMA FinalKept ==
  ASSUME Direct, Inv, [Next]_vars, NEW x \in Tensors, NEW v, Finally(x, v), ~Foreign(x),
         \A n \in Pos(Compute)' : n \notin Pos(Compute) => ~Writes(Op(Compute, n), x)'
  PROVE  Finally(x, v)'
  <1> DEFINE W(j) == Writes(Op(Compute, j), x)
             R(j) == Result(Op(Compute, j))
  <1>b. Types /\ Ways
    BY DEF Inv, BaseInv
  <1>1. PICK k \in Nat : k = enq[Compute] + 1
    BY <1>b, Counters, StreamNames
  <1>2. PICK l \in Nat : l = enq'[Compute] + 1
    BY <1>b, Counters, StreamNames
  <1>3. /\ done'[Compute] < k
        /\ \A j \in Pos(Compute)' : j \in Nat /\ j < l
        /\ \A j \in Pos(Compute)' : j < k \/ j \notin Pos(Compute)
    <2>1. /\ done[Compute] \in Nat /\ enq[Compute] \in Nat /\ enq'[Compute] \in Nat
          /\ \/ done'[Compute] = done[Compute]
             \/ done'[Compute] = done[Compute] + 1 /\ done[Compute] + 1 \in Pos(Compute)
      BY <1>b, Counters, StreamNames
    <2>2. done[Compute] <= enq[Compute]
      <3>1. done[Compute] + Len(work[Compute]) = enq[Compute] /\ Len(work[Compute]) \in Nat
        BY <1>b, StreamNames, LenProperties DEF Types, StreamTypes
      <3>2. QED
        BY <3>1, <2>1
    <2>3. /\ \A j \in Pos(Compute) : j \in Nat /\ j <= enq[Compute]
          /\ \A j \in Pos(Compute)' : j \in Nat /\ j <= enq'[Compute]
      BY <1>b, ComputePositions
    <2>4. QED
      BY <2>1, <2>2, <2>3, <1>1, <1>2
  <1>4. Holds(k, x, v)
    BY <1>1 DEF Finally
  <1>5. Holds(k, x, v)'
    <2>1. k <= enq[Compute] + 1
      BY <1>1
    <2>2. QED
      BY <1>3, <1>4, <2>1, HoldsKept
  <1>6. ASSUME NEW m
        PROVE  Holds(m, x, v)' <=>
            \/ \E j \in Pos(Compute)' :
                /\ j < m /\ W(j)' /\ R(j)' = v
                /\ \A i \in Pos(Compute)' : j < i /\ i < m => ~W(i)'
            \/ /\ \A j \in Pos(Compute)' : j < m => ~W(j)'
               /\ mem'[x] = v
    BY DEF Holds
  <1>7. \A j \in Pos(Compute)' : j < k \/ ~W(j)'
    BY <1>3
  <1> HIDE DEF W, R
  <1>8. Holds(l, x, v)'
    BY <1>3, <1>5, <1>6, <1>7
  <1>9. Finally(x, v)' <=> \A m : m = enq'[Compute] + 1 => Holds(m, x, v)'
    BY DEF Finally
  <1>10. QED
    BY <1>2, <1>8, <1>9

\* The last write to a tensor is what it will hold.
LEMMA FinalWrite ==
  ASSUME Inv, [Next]_vars, NEW x \in Tensors, NEW n \in Pos(Compute)',
         n = enq[Compute] + 1, Writes(Op(Compute, n), x)'
  PROVE  \A v : v = Result(Op(Compute, n))' => Finally(x, v)'
  <1>b. Types /\ Ways
    BY DEF Inv, BaseInv
  <1>1. /\ enq[Compute] \in Nat /\ enq'[Compute] \in Nat
        /\ enq'[Compute] = enq[Compute] \/ enq'[Compute] = enq[Compute] + 1
        /\ \A j \in Pos(Compute)' : j \in Nat /\ j <= enq'[Compute]
    BY <1>b, Counters, ComputePositions, StreamNames
  <1>2. n = enq'[Compute] /\ n \in Nat
    BY <1>1
  <1>3. \A i \in Pos(Compute)' : ~(n < i)
    BY <1>1, <1>2
  <1>4. n < enq'[Compute] + 1
    BY <1>2
  <1>5. QED
    BY <1>3, <1>4 DEF Finally, Holds

LEMMA ReadsStep ==
  ASSUME Direct, Inv, [Next]_vars
  PROVE  Reads'
  <1>b. Types /\ Ways
    BY DEF Inv, BaseInv
  <1> SUFFICES ASSUME NEW k \in Pos(Compute)', Op(Compute, k)'.kind = "read"
               PROVE  \A x, v : x = Op(Compute, k)'.at /\ v = Op(Compute, k)'.value =>
                          Holds(k, x, v)'
    BY DEF Reads
  <1> SUFFICES ASSUME NEW x, NEW v, x = Op(Compute, k)'.at, v = Op(Compute, k)'.value
               PROVE  Holds(k, x, v)'
    OBVIOUS
  <1>1. k \in Nat /\ done'[Compute] < k
    BY <1>b, ComputePositions
  <1>2. CASE k \in Pos(Compute)
    <2>1. Op(Compute, k)' = Op(Compute, k)
      BY <1>2, OperationKept
    <2>2. Op(Compute, k).kind = "read" /\ x = Op(Compute, k).at /\ v = Op(Compute, k).value
      BY <2>1
    <2>3. x \in Tensors
      BY <1>2, <2>2, <1>b, PositionsTyped, OpFields, StreamNames DEF Types
    <2>4. Holds(k, x, v)
      BY <1>2, <2>2 DEF Inv, ValueInv, Reads
    <2>5. ~Foreign(x)
      BY <1>2, <2>2, <2>3, ForeignAlone DEF Touches
    <2>6. k <= enq[Compute] + 1
      <3>1. k <= enq[Compute] /\ enq[Compute] \in Nat
        BY <1>2, <1>b, ComputePositions, Counters, StreamNames
      <3>2. QED
        BY <3>1, <1>1
    <2>7. QED
      BY <1>1, <2>3, <2>4, <2>5, <2>6, HoldsKept
  <1>3. CASE k \notin Pos(Compute)
    <2>1. \A c : WaitOp(c).kind # "read" /\ CopyOp(c).kind # "read"
      BY DEF WaitOp, CopyOp
    <2>2. k = enq[Compute] + 1
      BY <1>3, <1>b, Enqueued, StreamNames
    <2>3. x \in Tensors /\ Consume(x) /\ v = value[x]
      BY <1>3, <2>1, <1>b, Enqueued, StreamNames
    <2>4. Holds(k, x, v)
      <3>1. Finally(x, v)
        BY <2>3 DEF Consume, Inv, ValueInv, TensorValues
      <3>2. QED
        BY <3>1, <2>2 DEF Finally
    <2>5. ~Foreign(x)
      BY <2>3, ForeignAlone, NamesApart DEF Consume
    <2>6. k <= enq[Compute] + 1
      BY <1>1, <2>2
    <2>7. QED
      BY <1>1, <2>3, <2>4, <2>5, <2>6, HoldsKept
  <1>4. QED
    BY <1>2, <1>3

\* The next kernel to read finds what it should.
LEMMA StaleStep ==
  ASSUME Inv, [Next]_vars
  PROVE  ~stale'
  <1>b. Types /\ Ways /\ OpsMatch /\ ~stale
    BY DEF Inv, BaseInv, ValueInv
  <1>1. CASE \A s \in Streams : ~Device(s)
    <2>1. CASE Kernels \/ Close \/ Destructor \/ Finished \/ UNCHANGED vars
      BY <2>1, <1>b DEF Kernels, Launch, Consume, Drop, Close, Destructor, ReleaseContext,
               DeleteEventMgr, DeletePool, DeleteAllocators, Finished, vars, memVars
    <2>2. ASSUME NEW c \in Copies, Call(c) PROVE ~stale'
      <3>1. \A j : Begin(c, j) => stale' = stale
        BY DEF Begin
      <3>2. QED
        BY <2>2, <3>1, <1>b DEF Call, CopyCPUTensorToDevice, CopyDeviceTensorToCPU
    <2>3. ASSUME NEW c \in Copies, Thread(c) PROVE ~stale'
      BY <2>3, <1>b DEF Thread, CopyNow, Allocate, AllocateFails, FreeBounce,
               FreeBounceNow, Record, RecordFails, Wait, WaitFails, Keep, Copy,
               CopyFails, Register, memVars
    <2>4. ASSUME NEW f \in calls, EventMgr(f) PROVE ~stale'
      BY <2>4, <1>b DEF EventMgr, DestroyEvent, EndCopy, Unstage, memVars
    <2>5. QED
      BY <1>1, <2>1, <2>2, <2>3, <2>4 DEF Next
  <1>2. ASSUME NEW s \in Streams, Device(s) PROVE ~stale'
    <2> DEFINE n == done[s] + 1
               op == Op(s, n)
    <2>1. /\ Pop(s)
          /\ \/ op.kind = "read" /\ stale' = (stale \/ mem[op.at] # op.value)
             \/ stale' = stale
      BY <1>2, <1>b, DeviceEffect DEF Types
    <2>2. n \in Pos(s)
      BY <2>1, <1>b, PopEffect DEF Types
    <2>3. CASE op.kind = "read"
      <3>1. s = Compute
        BY <2>2, <2>3, <1>b DEF OpsMatch, Match
      <3>2. Holds(n, op.at, op.value)
        BY <2>2, <2>3, <3>1 DEF Inv, ValueInv, Reads
      <3>3. \A j \in Pos(Compute) : ~(j < n)
        <4>1. \A j \in Pos(Compute) : j \in Nat /\ done[Compute] < j
          BY <1>b, ComputePositions
        <4>2. done[Compute] \in Nat
          BY <1>b, Counters, StreamNames
        <4>3. QED
          BY <4>1, <4>2, <3>1
      <3>4. mem[op.at] = op.value
        BY <3>1, <3>2, <3>3 DEF Holds
      <3>5. QED
        BY <2>1, <3>4, <1>b
    <2>4. QED
      BY <2>1, <2>3, <1>b
  <1>3. QED
    BY <1>1, <1>2

\* While c is under way nobody makes its tensor hold anything else.
LEMMA WantStays ==
  ASSUME Inv, [Next]_vars, NEW c \in Copies, Active(c)
  PROVE  /\ job'[c] = job[c]
         /\ job[c].dir = "out" => value'[job[c].tensor] = value[job[c].tensor]
  <1> DEFINE x == job[c].tensor
  <1>b. Types /\ Ways /\ Ends /\ Users
    BY DEF Inv, BaseInv, CallInv
  <1>t. value \in [Tensors -> Nat]
    BY <1>b DEF Types, ProgramTypes
  <1>1. job'[c] = job[c]
    BY <1>b, Forward DEF Active
  <1>2. x \in Tensors /\ c \in users[x]
    BY <1>b, JobFields DEF Active, Types, Users
  <1>3. ASSUME job[c].dir = "out" PROVE value'[x] = value[x]
    <2>1. ASSUME NEW y \in Tensors, Launch(y) \/ Drop(y) PROVE value'[x] = value[x]
      <3>1. Launch(y) => y # x
        BY <1>2 DEF Launch
      <3>2. \/ Launch(y) /\ value' = [value EXCEPT ![y] = last']
            \/ value' = value
        BY <2>1 DEF Launch, Drop
      <3>3. QED
        BY <3>1, <3>2, <1>t, <1>2
    <2>2. ASSUME NEW d \in Copies, Call(d) PROVE value'[x] = value[x]
      BY <2>2 DEF Call, CopyCPUTensorToDevice, CopyDeviceTensorToCPU
    <2>3. ASSUME NEW d \in Copies, Active(d), Report(d) \/ Fail(d)
          PROVE  value'[x] = value[x]
      <3>1. \/ value' = value
            \/ job[d].dir = "in" /\ value' = [value EXCEPT ![job[d].tensor] = job[d].want]
        BY <2>3 DEF Report, Fail
      <3>2. job[d].dir = "in" => job[d].tensor # x
        <4>1. job[d].dir = "in" /\ job[d].tensor = x => users[x] = {d}
          BY <2>3, <1>b DEF Users
        <4>2. QED
          BY <4>1, <1>2, <1>3
      <3>3. QED
        BY <3>1, <3>2, <1>t, <1>2
    <2>4. QED
      BY <2>1, <2>2, <2>3, <1>b, ProgramMoves
  <1>4. QED
    BY <1>1, <1>3

\* How a copy comes to report success.
LEMMA ReportMoves ==
  ASSUME Types, Ends, NEW c \in Copies, Active(c), Own(c), Report(c)
  PROVE  \/ CopyNow(c)
         \/ FreeBounce(c) /\ pc[c] = "free" /\ OnCompute(c)
         \/ Copy(c) /\ pc[c] = "copy" /\ OnCompute(c) /\ job[c].path = "pinned"
         \/ FreeBounceNow(c) /\ pc[c] = "unstage"
         \/ \E f \in calls : f.copy = c /\ EndCopy(f) /\ f.what = "end" /\ pc[c] = "pending"
  <1>t. pc \in [Copies -> Steps] /\ pc'[c] = "ok"
    BY DEF Types, CopyTypes, Report
  <1>1. ~Call(c)
    BY CallBegins DEF Active
  <1>2. CASE Thread(c)
    BY <1>2, <1>t DEF Thread, CopyNow, Allocate, AllocateFails, FreeBounce,
              FreeBounceNow, Record, RecordFails, Wait, WaitFails, Keep, Copy,
              CopyFails, Register, Fail, GiveUp, Synchronize, Asynchronous
  <1>3. ASSUME NEW f \in calls, f.copy = c, EventMgr(f)
        PROVE  f.copy = c /\ EndCopy(f) /\ f.what = "end" /\ pc[c] = "pending"
    <2>1. pc[c] # "ok"
      BY DEF Active
    <2>2. EndCopy(f)
      BY <1>3, <1>t, <2>1 DEF EventMgr, DestroyEvent, Unstage, Synchronize
    <2>3. QED
      BY <1>3, <2>2 DEF EndCopy, Ends
  <1>4. QED
    BY <1>1, <1>2, <1>3 DEF Own

\* A tensor that a copy has brought holds what it brought.
LEMMA BroughtIn ==
  ASSUME Direct, Inv, [Next]_vars, NEW c \in Copies, Active(c), Own(c), Report(c),
         job'= job, job[c].dir = "in", NEW x \in Tensors, x = job[c].tensor
  PROVE  \A v : v = job[c].want => Finally(x, v)'
  <1> SUFFICES ASSUME NEW v, v = job[c].want PROVE Finally(x, v)'
    OBVIOUS
  <1>b. BaseInv /\ Types /\ Ends /\ Ways /\ Late
    BY DEF Inv, BaseInv, CallInv
  <1>q. ASSUME UNCHANGED <<enq, done, work>>, mem'[x] = v,
               \A k \in Pos(Compute) : ~Touches(Op(Compute, k), x)
        PROVE  Finally(x, v)'
    <2>1. Pos(Compute)' = Pos(Compute) /\ \A k : Op(Compute, k)' = Op(Compute, k)
      BY <1>q DEF Pos, Op
    <2>2. \A k \in Pos(Compute)' : ~Writes(Op(Compute, k), x)'
      BY <1>q, <2>1 DEF Writes, Touches
    <2>3. QED
      BY <1>q, <2>2 DEF Finally, Holds
  <1>1. CASE CopyNow(c)
    <2>1. UNCHANGED <<enq, done, work>>
      BY <1>1 DEF CopyNow, streamVars
    <2>2. mem'[x] = v
      <3>1. mem[c] = job[c].want
        BY DEF Inv, ValueInv, HostValues, HostValue
      <3>2. mem' = [mem EXCEPT ![x] = mem[c]]
        <4>1. ~Fail(c)
          BY <1>b DEF Report, Fail, Types, CopyTypes
        <4>2. QED
          BY <4>1, <1>1 DEF CopyNow
      <3>3. QED
        BY <3>1, <3>2, <1>b, NamesApart DEF Types, ProgramTypes
    <2>3. \A k \in Pos(Compute) : ~Touches(Op(Compute, k), x)
      BY <1>1, NothingBefore DEF CopyNow, Conflicts
    <2>4. QED
      BY <2>1, <2>2, <2>3, <1>q
  <1>2. CASE FreeBounce(c) /\ pc[c] = "free" /\ OnCompute(c)
    <2>1. UNCHANGED <<enq, done, work, mem, job>>
      BY <1>2 DEF FreeBounce, streamVars, memVars
    <2>2. Finally(x, v)
      BY <1>2 DEF Inv, ValueInv, CopyValues, CopyValue
    <2>3. /\ Pos(Compute)' = Pos(Compute)
          /\ \A k : /\ Writes(Op(Compute, k), x)' <=> Writes(Op(Compute, k), x)
                    /\ Result(Op(Compute, k))' = Result(Op(Compute, k))
      BY <2>1 DEF Pos, Op, Writes, Result
    <2>4. QED
      BY <2>1, <2>2, <2>3 DEF Finally, Holds
  <1>3. CASE job[c].path = "pinned" /\ OnCompute(c)
    BY <1>3 DEF OnCompute, Direct
  <1>4. CASE pc[c] = "unstage"
    BY <1>4, <1>b DEF Ways, Way
  <1>5. ASSUME NEW f \in calls, f.copy = c, EndCopy(f), pc[c] = "pending"
        PROVE  Finally(x, v)'
    <2>1. UNCHANGED <<enq, done, work, mem>>
      BY <1>5 DEF EndCopy, streamVars, memVars
    <2>2. ~OnCompute(c)
      BY <1>5, <1>b DEF Ways, Way
    <2>3. Arrived(c)
      BY <1>5, <1>b, <2>2, EndsDone DEF Arrived, Copying
    <2>4. mem[x] = v /\ \A k \in Pos(Compute) : ~Touches(Op(Compute, k), x)
      BY <2>3 DEF Inv, ValueInv, CopyValues, CopyValue
    <2>5. QED
      BY <2>1, <2>4, <1>q
  <1>6. QED
    BY <1>1, <1>2, <1>3, <1>4, <1>5, <1>b, ReportMoves

LEMMA TensorValuesStep ==
  ASSUME Direct, Inv, [Next]_vars
  PROVE  TensorValues'
  <1>b. BaseInv /\ Types /\ Ends /\ Ways /\ Users
    BY DEF Inv, BaseInv, CallInv
  <1> SUFFICES ASSUME NEW x \in Tensors, NEW u \in users'[x],
                      u = Program \/ job'[u].dir = "out",
                      NEW v, v = value'[x]
               PROVE  Finally(x, v)'
    BY DEF TensorValues
  <1>t. /\ value \in [Tensors -> Nat] /\ job \in [Copies -> Jobs \cup {NoJob}]
        /\ users \in [Tensors -> SUBSET (Copies \cup {Program})]
    BY <1>b DEF Types, ProgramTypes, CopyTypes
  <1>1. ASSUME value'[x] = value[x],
               NEW w \in users[x], w = Program \/ job[w].dir = "out"
        PROVE  Finally(x, v)'
    <2>1. Finally(x, v)
      BY <1>1 DEF Inv, ValueInv, TensorValues
    <2>2. ~Foreign(x)
      BY <1>1, ForeignAlone, NamesApart
    <2>3. ~Launch(x)
      BY DEF Launch
    <2>4. ASSUME NEW c \in Copies, Copy(c), job[c].tensor = x, job[c].dir = "in"
          PROVE  FALSE
      <3>1. users[x] = {c}
        BY <2>4, <1>b DEF Copy, Active, Users
      <3>2. QED
        BY <3>1, <2>4, <1>1, NamesApart
    <2>5. ASSUME NEW n \in Pos(Compute)', n \notin Pos(Compute)
          PROVE  ~Writes(Op(Compute, n), x)'
      <3>1. SUFFICES ASSUME Writes(Op(Compute, n)', x) PROVE FALSE
        BY DEF Writes
      <3>2. Touches(Op(Compute, n), x)'
        BY <3>1 DEF Touches, Writes
      <3>3. Op(Compute, n)'.kind # "read"
        BY <3>1 DEF Writes
      <3>4. QED
        BY <2>3, <2>4, <2>5, <3>2, <3>3, NewTouch
    <2>6. QED
      BY <2>1, <2>2, <2>5, FinalKept
  <1>2. CASE Launch(x)
    <2> DEFINE op == [kind |-> "write", at |-> x, value |-> last + 1]
    <2>1. v = last + 1
      BY <1>2, <1>t DEF Launch
    <2>2. Put(Compute, op) /\ op \in Ops
      BY <1>2, <1>b, Puts, OpsTyped
    <2>3. PICK n : n = enq[Compute] + 1
      OBVIOUS
    <2>4. n \in Pos(Compute)' /\ Op(Compute, n)' = op
      BY <2>2, <2>3, <1>b, PutEffect, StreamNames DEF Types
    <2>5. Writes(Op(Compute, n), x)' /\ v = Result(Op(Compute, n))'
      BY <2>1, <2>4 DEF Writes, Result
    <2>6. QED
      BY <2>3, <2>4, <2>5, FinalWrite
  <1>3. ASSUME NEW y \in Tensors, Launch(y) \/ Drop(y), ~Launch(x)
        PROVE  Finally(x, v)'
    <2>1. job' = job
      BY <1>3 DEF Launch, Drop, copyVars
    <2>2. u \in users[x] /\ value'[x] = value[x]
      <3>1. CASE Launch(y)
        <4>1. y # x
          BY <3>1, <1>3
        <4>2. /\ users' = [users EXCEPT ![y] = {Program}]
              /\ value' = [value EXCEPT ![y] = last']
          BY <3>1 DEF Launch
        <4>3. QED
          BY <4>1, <4>2, <1>t
      <3>2. CASE Drop(y)
        <4>1. users' = [users EXCEPT ![y] = @ \ {Program}] /\ value' = value
          BY <3>2 DEF Drop
        <4>2. QED
          BY <4>1, <1>t
      <3>3. QED
        BY <3>1, <3>2, <1>3
    <2>3. QED
      BY <2>1, <2>2, <1>1
  <1>4. ASSUME NEW c \in Copies, Call(c)
        PROVE  Finally(x, v)'
    <2>1. PICK j : /\ Begin(c, j) /\ value' = value
                   /\ j.dir = "out" => Program \in users[j.tensor]
      <3>1. PICK y \in Tensors, path \in Paths :
                \/ \E sync \in BOOLEAN : CopyCPUTensorToDevice(c, y, path, sync)
                \/ CopyDeviceTensorToCPU(c, y, path)
        BY <1>4 DEF Call
      <3>2. ASSUME NEW sync \in BOOLEAN, CopyCPUTensorToDevice(c, y, path, sync)
            PROVE  \E j : /\ Begin(c, j) /\ value' = value
                          /\ j.dir = "out" => Program \in users[j.tensor]
        <4> DEFINE j == [dir |-> "in", path |-> path, sync |-> sync, tensor |-> y,
                         want |-> last']
        <4>1. Begin(c, j) /\ value' = value
          BY <3>2 DEF CopyCPUTensorToDevice
        <4>2. j.dir # "out"
          OBVIOUS
        <4> HIDE DEF j
        <4>3. QED
          BY <4>1, <4>2
      <3>3. ASSUME CopyDeviceTensorToCPU(c, y, path)
            PROVE  \E j : /\ Begin(c, j) /\ value' = value
                          /\ j.dir = "out" => Program \in users[j.tensor]
        <4> DEFINE j == [dir |-> "out", path |-> path, sync |-> TRUE, tensor |-> y,
                         want |-> value[y]]
        <4>1. Begin(c, j) /\ value' = value /\ Program \in users[y]
          BY <3>3 DEF CopyDeviceTensorToCPU
        <4>2. j.tensor = y
          OBVIOUS
        <4> HIDE DEF j
        <4>3. QED
          BY <4>1, <4>2
      <3>4. QED
        BY <3>1, <3>2, <3>3
    <2>2. pc[c] = "idle"
      BY <1>4, <1>b, CallBegins
    <2>3. /\ users' = [users EXCEPT ![j.tensor] = @ \cup {c}]
          /\ job' = [job EXCEPT ![c] = j]
      BY <2>1 DEF Begin
    <2>4. CASE u \in users[x]
      <3>1. u # c
        <4>1. u = c => Active(c)
          BY <2>4, <1>b, NamesApart DEF Users
        <4>2. QED
          BY <4>1, <2>2 DEF Active
      <3>2. u = Program \/ job[u].dir = "out"
        <4>1. u \in Copies \cup {Program}
          BY <2>4, <1>t
        <4>2. QED
          BY <4>1, <3>1, <2>3, <1>t
      <3>3. QED
        BY <2>1, <2>4, <3>2, <1>1
    <2>5. CASE u \notin users[x]
      <3>1. x = j.tensor /\ u = c
        BY <2>3, <2>5, <1>t
      <3>2. j.dir = "out"
        BY <3>1, <2>3, <1>t, NamesApart
      <3>3. Program \in users[x]
        BY <3>1, <3>2, <2>1
      <3>4. QED
        BY <3>3, <2>1, <1>1
    <2>6. QED
      BY <2>4, <2>5
  <1>5. ASSUME NEW c \in Copies, Active(c), Own(c), Report(c) \/ Fail(c), job' = job
        PROVE  Finally(x, v)'
    <2> DEFINE y == job[c].tensor
    <2>1. y \in Tensors
      BY <1>5, <1>b, JobFields DEF Active, Types
    <2>2. CASE Report(c) /\ job[c].dir = "in" /\ y = x
      <3>1. v = job[c].want
        BY <2>2, <1>t DEF Report
      <3>2. QED
        BY <2>2, <3>1, <1>5, BroughtIn
    <2>3. CASE ~(Report(c) /\ job[c].dir = "in" /\ y = x)
      <3>1. /\ \/ value' = value
               \/ job[c].dir = "in" /\ value' = [value EXCEPT ![y] = job[c].want] /\ Report(c)
            /\ \/ users' = [users EXCEPT ![y] = @ \ {c}]
               \/ /\ job[c].dir = "in" /\ Report(c)
                  /\ users' = [users EXCEPT ![y] = (@ \ {c}) \cup {Program}]
        BY <1>5 DEF Report, Fail
      <3>2. value'[x] = value[x]
        BY <2>3, <3>1, <1>t
      <3>3. u \in users[x]
        BY <2>1, <2>3, <3>1, <1>t
      <3>4. QED
        BY <3>2, <3>3, <1>1, <1>5
    <2>4. QED
      BY <2>2, <2>3
  <1>6. CASE UNCHANGED <<users, value, last, job>>
    BY <1>1, <1>6
  <1>7. QED
    BY <1>2, <1>3, <1>4, <1>5, <1>6, <1>b, ProgramMoves

-----------------------------------------------------------------------------
(* What copies bring to tensors *)

\* The device has the copy when its thread goes on.
LEMMA Enters ==
  ASSUME Types, Ends, Ways, [Next]_vars, NEW c \in Copies,
         pc'[c] \in {"free", "register", "pending"}
  PROVE  /\ job'[c] = job[c]
         /\ \/ pc[c] \in {"free", "register", "pending"}
            \/ Copy(c) /\ pc[c] = "copy" /\ Copying(c)'
  <1>t. pc \in [Copies -> Steps]
    BY DEF Types, CopyTypes
  <1>1. CASE ~Own(c)
    BY <1>1, OthersStay
  <1>2. CASE Call(c)
    <2>1. PICK j \in Jobs : Begin(c, j)
      BY <1>2, CallBegins
    <2>2. FirstStep(j) \in {"alloc", "sync", "record", "copy"}
      BY FirstSteps
    <2>3. QED
      BY <2>1, <2>2, <1>t DEF Begin
  <1>3. ASSUME NEW f \in calls, f.copy = c, EventMgr(f) PROVE pc[c] = pc'[c] /\ job' = job
    BY <1>3, <1>t DEF EventMgr, DestroyEvent, EndCopy, Unstage, Report, Synchronize
  <1>4. CASE Copy(c)
    <2>1. pc[c] = "copy" /\ CopyOp(c) \in Ops /\ job' = job
      BY <1>4, OpsTyped DEF Copy
    <2>2. Put(CopyStream(c), CopyOp(c))
      BY <1>4, Puts
    <2>3. PICK s \in Streams : s = CopyStream(c)
      BY StreamNames
    <2>5. PICK n : n = enq[s] + 1
      OBVIOUS
    <2>6. n \in Pos(s)' /\ Op(s, n)' = CopyOp(c)
      BY <2>1, <2>2, <2>3, <2>5, PutEffect DEF Types
    <2>7. CopyAt(s, n, c)'
      BY <2>6 DEF CopyAt, CopyOp
    <2>8. QED
      BY <2>1, <2>6, <2>7, <1>4 DEF Copying
  <1>5. CASE Thread(c) /\ ~Copy(c)
    BY <1>5, <1>t DEF Thread, CopyNow, Allocate, AllocateFails, FreeBounce,
              FreeBounceNow, Record, RecordFails, Wait, WaitFails, Keep, Report,
              CopyFails, Register, Fail, GiveUp, Synchronize, Asynchronous
  <1>6. QED
    BY <1>1, <1>2, <1>3, <1>4, <1>5 DEF Own

\* Nobody else uses a tensor while a copy brings it.
LEMMA OneUser ==
  ASSUME Inv, NEW c \in Copies, Active(c), job[c].dir = "in",
         NEW x \in Tensors, x = job[c].tensor
  PROVE  /\ ~Launch(x) /\ ~Consume(x)
         /\ \A d \in Copies : Active(d) /\ job[d].tensor = x => d = c
         /\ \A d \in Copies : Copy(d) /\ job[d].tensor = x => d = c
  <1>1. users[x] = {c}
    BY DEF Inv, CallInv, Users
  <1>2. \A d \in Copies : Active(d) => d \in users[job[d].tensor]
    BY DEF Inv, CallInv, Users
  <1>3. \A d : Copy(d) => Active(d)
    BY DEF Copy, Active
  <1>4. QED
    BY <1>1, <1>2, <1>3, NamesApart DEF Launch, Consume

LEMMA CopyValuesStep ==
  ASSUME Direct, Inv, [Next]_vars
  PROVE  CopyValues'
  <1>b. BaseInv /\ Types /\ Ends /\ Ways /\ Users /\ OpsMatch
    BY DEF Inv, BaseInv, CallInv
  <1>t. mem \in [Places -> Nat]
    BY <1>b DEF Types, ProgramTypes
  <1>1. ASSUME NEW c \in Copies, pc'[c] = "free", OnCompute(c)',
               NEW x, x = job'[c].tensor, NEW v, v = job'[c].want
        PROVE  Finally(x, v)'
    <2>1. /\ job'[c] = job[c]
          /\ \/ pc[c] \in {"free", "register", "pending"}
             \/ Copy(c) /\ pc[c] = "copy"
      BY <1>1, <1>b, Enters
    <2>2. OnCompute(c) /\ job[c].dir = "in" /\ Active(c)
      BY <2>1, <1>1 DEF OnCompute, Active
    <2>3. x \in Tensors /\ x = job[c].tensor /\ v = job[c].want
      BY <2>1, <2>2, <1>1, <1>b, JobFields DEF Active, Types
    <2>4. CASE pc[c] # "copy"
      <3>1. pc[c] = "free"
        BY <2>1, <2>2, <2>4, <1>b DEF Ways, Way
      <3>2. Finally(x, v)
        BY <3>1, <2>2, <2>3 DEF Inv, ValueInv, CopyValues, CopyValue
      <3>3. ~Foreign(x)
        <4>1. SUFFICES ASSUME NEW d \in Copies, Active(d), job[d].tensor = x,
                              CopyNow(d) \/ ~OnCompute(d)
                       PROVE  FALSE
          BY DEF Foreign
        <4>2. d = c
          BY <4>1, <2>2, <2>3, OneUser
        <4>3. QED
          BY <4>1, <4>2, <2>2, <3>1 DEF CopyNow
      <3>4. ASSUME NEW n \in Pos(Compute)', n \notin Pos(Compute)
            PROVE  ~Writes(Op(Compute, n), x)'
        <4>1. Writes(Op(Compute, n), x)' => Touches(Op(Compute, n), x)'
          BY DEF Writes, Touches
        <4>2. \A d \in Copies : Copy(d) => pc[d] = "copy"
          BY DEF Copy
        <4>3. ~\E d \in Copies : Copy(d) /\ job[d].tensor = x
          BY <4>2, <2>2, <2>3, <2>4, OneUser
        <4>4. ~Launch(x) /\ ~Consume(x)
          BY <2>2, <2>3, OneUser
        <4>5. QED
          BY <4>1, <4>3, <4>4, <2>3, <3>4, NewTouch
      <3>5. QED
        BY <2>3, <3>2, <3>3, <3>4, FinalKept
    <2>5. CASE pc[c] = "copy"
      <3>1. Copy(c) /\ CopyStream(c) = Compute
        BY <2>1, <2>2, <2>5, NamesApart
      <3>2. Put(Compute, CopyOp(c)) /\ CopyOp(c) \in Ops
        BY <3>1, <2>5, <1>b, Puts, OpsTyped
      <3>3. PICK n : n = enq[Compute] + 1
        OBVIOUS
      <3>4. n \in Pos(Compute)' /\ Op(Compute, n)' = CopyOp(c)
        BY <3>2, <3>3, <1>b, PutEffect, StreamNames DEF Types
      <3>5. CopyOp(c).kind = "copy" /\ CopyOp(c).to = x /\ CopyOp(c).by = c
        BY <2>2, <2>3 DEF CopyOp
      <3>6. Writes(Op(Compute, n), x)'
        BY <3>4, <3>5 DEF Writes
      <3>7. v = Result(Op(Compute, n))'
        BY <3>4, <3>5, <1>1 DEF Result
      <3>8. QED
        BY <2>3, <3>3, <3>4, <3>6, <3>7, FinalWrite
    <2>6. QED
      BY <2>4, <2>5
  <1>2. ASSUME NEW c \in Copies, Arrived(c)', job'[c].dir = "in",
               NEW x, x = job'[c].tensor
        PROVE  /\ mem'[x] = job'[c].want
               /\ \A k \in Pos(Compute)' : ~Touches(Op(Compute, k), x)'
    <2>1. /\ pc'[c] \in {"free", "register", "pending"}
          /\ \A s \in Streams : \A n \in Pos(s)' : ~CopyAt(s, n, c)'
          /\ ~OnCompute(c)'
      BY <1>2 DEF Arrived, Copying
    <2>2. /\ job'[c] = job[c]
          /\ \/ pc[c] \in {"free", "register", "pending"}
             \/ Copy(c) /\ pc[c] = "copy" /\ Copying(c)'
      BY <2>1, <1>b, Enters
    <2>3. ~OnCompute(c) /\ Active(c) /\ job[c].dir = "in"
      BY <2>1, <2>2, <1>2 DEF OnCompute, Active
    <2>4. pc[c] \in {"free", "register", "pending"}
      BY <2>1, <2>2 DEF Copying
    <2>5. x \in Tensors /\ x = job[c].tensor
      BY <2>2, <2>3, <1>2, <1>b, JobFields DEF Active, Types
    <2>6. \A d \in Copies : Copy(d) => pc[d] = "copy"
      BY DEF Copy
    <2>7. ASSUME NEW k \in Pos(Compute)', k \notin Pos(Compute)
          PROVE  ~Touches(Op(Compute, k), x)'
      <3>1. ~\E d \in Copies : Copy(d) /\ job[d].tensor = x
        BY <2>3, <2>4, <2>5, <2>6, OneUser
      <3>2. ~Launch(x) /\ ~Consume(x)
        BY <2>3, <2>5, OneUser
      <3>3. QED
        BY <2>5, <2>7, <3>1, <3>2, NewTouch
    <2>8. ASSUME \A k \in Pos(Compute) : ~Touches(Op(Compute, k), x)
          PROVE  \A k \in Pos(Compute)' : ~Touches(Op(Compute, k), x)'
      <3>1. ASSUME NEW k \in Pos(Compute)', k \in Pos(Compute)
            PROVE  ~Touches(Op(Compute, k), x)'
        <4>1. Op(Compute, k)' = Op(Compute, k)
          BY <3>1, OperationKept
        <4>2. QED
          BY <4>1, <3>1, <2>8 DEF Touches
      <3>2. QED
        BY <3>1, <2>7
    <2>9. CASE Arrived(c)
      <3>1. mem[x] = job[c].want /\ \A k \in Pos(Compute) : ~Touches(Op(Compute, k), x)
        BY <2>3, <2>5, <2>9 DEF Inv, ValueInv, CopyValues, CopyValue
      <3>2. ~Foreign(x)
        <4>1. SUFFICES ASSUME NEW d \in Copies, Active(d), job[d].tensor = x,
                              \/ CopyNow(d)
                              \/ CopyAt(CopyStream(d), done[CopyStream(d)] + 1, d)
                       PROVE  FALSE
          BY DEF Foreign
        <4>2. d = c
          BY <4>1, <2>3, <2>5, OneUser
        <4>3. ~CopyAt(CopyStream(c), done[CopyStream(c)] + 1, c)
          BY <2>9, StreamNames DEF Arrived, Copying, CopyAt
        <4>4. ~CopyNow(c)
          BY <2>4 DEF CopyNow
        <4>5. QED
          BY <4>1, <4>2, <4>3, <4>4
      <3>3. mem'[x] = mem[x]
        <4>1. done[Compute] + 1 \in Pos(Compute) =>
                ~Writes(Op(Compute, done[Compute] + 1), x)
          BY <3>1 DEF Writes, Touches
        <4>2. QED
          BY <4>1, <3>2, <2>5, ComputeStep, OtherStep
      <3>4. QED
        BY <3>1, <3>3, <2>2, <2>8
    <2>10. CASE ~Arrived(c)
      <3>0. PICK s \in Streams : \E n \in Pos(s) : CopyAt(s, n, c)
        BY <2>3, <2>4, <2>10 DEF Arrived, Copying
      <3>1. PICK n \in Pos(s) : CopyAt(s, n, c)
        BY <3>0
      <3>2. Device(s) /\ n = done[s] + 1
        <4>1. ~(n \in Pos(s)' /\ Op(s, n)' = Op(s, n))
          BY <3>1, <2>1 DEF CopyAt
        <4>2. QED
          BY <4>1, <1>b, Left
      <3>3. s = CopyStream(c) /\ Match(s, Op(s, n)) /\ Op(s, n).kind = "copy"
            /\ Op(s, n).by = c
        BY <3>1, <1>b DEF CopyAt, OpsMatch, Match
      <3>4. Op(s, n).to = x
        BY <3>3, <2>3, <2>5 DEF Match
      <3>5. mem'[x] = job[c].want
        <4>1. Content(Op(s, n).from) = job[c].want
          BY <3>1, <3>3, <2>3, CopyBrings
        <4>2. mem' = [mem EXCEPT ![x] = Content(Op(s, n).from)]
          BY <3>2, <3>3, <3>4, <1>b, DeviceEffect DEF Types
        <4>3. QED
          BY <4>1, <4>2, <2>5, <1>t, NamesApart
      <3>6. \A k \in Pos(Compute) : ~Touches(Op(Compute, k), x)
        <4>1. pc[c] # "unstage"
          BY <2>4
        <4>2. QED
          BY <4>1, <2>3, <2>5, <3>1, <3>2, <3>3, NothingBefore DEF Conflicts
      <3>7. QED
        BY <3>5, <3>6, <2>2, <2>8
    <2>11. QED
      BY <2>9, <2>10
  <1>3. ASSUME NEW c \in Copies, Active(c)', job'[c].dir = "out"
        PROVE  value'[job'[c].tensor] = job'[c].want
    <2>1. CASE Active(c)
      <3>1. job'[c] = job[c]
        BY <2>1, WantStays
      <3>2. value[job[c].tensor] = job[c].want
        BY <2>1, <3>1, <1>3 DEF Inv, ValueInv, CopyValues, CopyValue
      <3>3. QED
        BY <2>1, <3>1, <3>2, <1>3, WantStays
    <2>2. CASE ~Active(c)
      <3>1. pc[c] = "idle"
        BY <2>2, <1>3, <1>b, Forward DEF Active
      <3>2. Call(c)
        <4>1. Own(c)
          BY <3>1, <1>3, <1>b, OthersStay DEF Active
        <4>2. ~Thread(c)
          BY <3>1 DEF Thread, CopyNow, Allocate, AllocateFails, FreeBounce,
              FreeBounceNow, Record, RecordFails, Wait, WaitFails, Keep, Copy,
              CopyFails, Register
        <4>3. \A f \in calls : f.copy = c /\ EventMgr(f) => pc'[c] = "idle"
          BY <3>1, <1>b DEF EventMgr, DestroyEvent, EndCopy, Unstage, Ends
        <4>4. QED
          BY <4>1, <4>2, <4>3, <1>3 DEF Own, Active
      <3>3. PICK y \in Tensors, path \in Paths :
                \/ \E sync \in BOOLEAN : CopyCPUTensorToDevice(c, y, path, sync)
                \/ CopyDeviceTensorToCPU(c, y, path)
        BY <3>2 DEF Call
      <3>4. job \in [Copies -> Jobs \cup {NoJob}]
        BY <1>b DEF Types, CopyTypes
      <3>5. ASSUME NEW sync \in BOOLEAN, CopyCPUTensorToDevice(c, y, path, sync)
            PROVE  FALSE
        BY <3>4, <3>5, <1>3 DEF CopyCPUTensorToDevice, Begin
      <3>6. CASE CopyDeviceTensorToCPU(c, y, path)
        BY <3>4, <3>6 DEF CopyDeviceTensorToCPU, Begin
      <3>7. QED
        BY <3>3, <3>5, <3>6
    <2>3. QED
      BY <2>1, <2>2
  <1>4. QED
    BY <1>1, <1>2, <1>3 DEF CopyValues, CopyValue

-----------------------------------------------------------------------------
(* What copies bring to the CPU *)

\* A copy to the CPU that is done next brings what was asked for.
LEMMA OutArrives ==
  ASSUME Inv, NEW c \in Copies, Active(c), job[c].dir = "out", pc[c] # "unstage",
         \/ pc[c] = "sync" /\ Passed(until[c])
         \/ CopyAt(CopyStream(c), done[CopyStream(c)] + 1, c)
  PROVE  mem[job[c].tensor] = job[c].want
  <1>1. PICK x \in Tensors : x = job[c].tensor
    BY JobFields DEF Active, Inv, BaseInv, Types
  <1>2. c \in users[x]
    BY <1>1 DEF Inv, CallInv, Users
  <1>3. value[x] = job[c].want
    BY <1>1 DEF Inv, ValueInv, CopyValues, CopyValue
  <1>4. Finally(x, value[x])
    BY <1>2 DEF Inv, ValueInv, TensorValues
  <1>5. ~OnCompute(c)
    BY DEF OnCompute
  <1>6. \A k \in Pos(Compute) : ~Writes(Op(Compute, k), x)
    BY <1>1, <1>5, NothingBefore DEF Conflicts
  <1>7. QED
    BY <1>1, <1>3, <1>4, <1>6 DEF Finally, Holds

\* What a stream copies to.
LEMMA CopiesTo ==
  ASSUME BaseInv, NEW s \in Streams, NEW n \in Pos(s), NEW op, op = Op(s, n),
         op.kind = "copy"
  PROVE  /\ op \in Ops /\ op.by \in Copies /\ CopyAt(s, n, op.by) /\ s = CopyStream(op.by)
         /\ job[op.by].dir \in {"in", "out"} /\ job[op.by].tensor \in Tensors
         /\ job[op.by].dir = "in" =>
             op.to = job[op.by].tensor /\ (op.from = op.by \/ op.from \in Blocks)
         /\ job[op.by].dir = "out" =>
             /\ op.from = job[op.by].tensor
             /\ op.to = op.by \/ op.to \in Blocks
             /\ pc[op.by] # "ok" => op.to = HostEnd(op.by)
  <1>1. op \in Ops /\ Match(s, op) /\ op.by \in Copies
    BY PositionsTyped, OpFields DEF BaseInv, OpsMatch, Types
  <1>2. pc[op.by] # "idle"
    BY <1>1 DEF Match
  <1>3. job[op.by].dir \in {"in", "out"} /\ job[op.by].tensor \in Tensors
    BY <1>1, <1>2, JobFields DEF BaseInv, Types
  <1>4. QED
    BY <1>1, <1>3 DEF Match, CopyAt

\* What writes to the CPU tensor of a copy, or to its bounce buffer.
LEMMA HostStores ==
  ASSUME Inv, [Next]_vars, NEW c \in Copies, pc[c] # "idle", NEW p \in Places,
         p = c \/ (p \in Blocks /\ p = block[c])
  PROVE  \/ mem'[p] = mem[p]
         \/ /\ job[c].dir = "out"
            /\ \/ CopyNow(c) /\ p = c
               \/ \E s \in Streams : /\ CopyAt(s, done[s] + 1, c)
                                     /\ pc[c] # "ok" => p = HostEnd(c)
               \/ \E f \in calls : Unstage(f) /\ f.copy = c /\ p = c
  <1> DEFINE Brought == /\ job[c].dir = "out"
                        /\ \/ CopyNow(c) /\ p = c
                           \/ \E s \in Streams : /\ CopyAt(s, done[s] + 1, c)
                                                 /\ pc[c] # "ok" => p = HostEnd(c)
                           \/ \E f \in calls : Unstage(f) /\ f.copy = c /\ p = c
  <1>b. BaseInv /\ Types /\ Ends /\ Ways /\ Owners /\ Lent
    BY DEF Inv, BaseInv
  <1>p. p \notin Tensors /\ (p \in Blocks => owner[p] = c) /\ (p \notin Blocks => p = c)
    BY <1>b, NamesApart DEF Owners
  <1>d. job[c].dir \in {"in", "out"} /\ c \notin Blocks
    BY <1>b, JobFields, NamesApart DEF Types
  <1>1. SUFFICES ASSUME Stores(p) PROVE Brought
    BY <1>b, MemSteps
  <1>2. CASE \E d \in Copies : Call(d) /\ p = d
    BY <1>2, <1>b, <1>p, CallBegins, NamesApart
  <1>3. CASE \E d \in Copies, b \in Blocks : Allocate(d, b) /\ p = b
    BY <1>3, <1>p, NamesApart DEF Allocate, Available
  <1>4. ASSUME NEW d \in Copies, CopyNow(d),
               IF job[d].dir = "in" THEN p = job[d].tensor ELSE p = d
        PROVE  Brought
    <2>1. job[d].dir \in {"in", "out"} /\ job[d].tensor \in Tensors
      BY <1>4, <1>b, JobFields DEF CopyNow, Types
    <2>2. p = d /\ job[d].dir = "out"
      BY <2>1, <1>4, <1>p
    <2>3. d = c
      BY <2>2, <1>p, NamesApart
    <2>4. QED
      BY <2>2, <2>3, <1>4
  <1>5. ASSUME NEW s \in Streams, Device(s), NEW op, op = Op(s, done[s] + 1),
               \/ op.kind = "write" /\ op.at = p
               \/ op.kind = "copy" /\ op.to = p
        PROVE  Brought
    <2>1. done[s] + 1 \in Pos(s) /\ op \in Ops
      <3>1. Pop(s)
        BY <1>5, <1>b, DeviceEffect DEF Types
      <3>2. QED
        BY <3>1, <1>5, <1>b, PopEffect, DeviceEffect DEF Types
    <2>2. op.kind = "copy" /\ op.to = p
      BY <2>1, <1>5, <1>p, OpFields
    <2>3. PICK d : d = op.by
      OBVIOUS
    <2>4. /\ d \in Copies /\ CopyAt(s, done[s] + 1, d)
          /\ job[d].dir = "out"
          /\ op.to = d \/ op.to \in Blocks
          /\ pc[d] # "ok" => op.to = HostEnd(d)
      BY <2>1, <2>2, <2>3, <1>5, <1>b, <1>p, CopiesTo
    <2>5. d = c
      <3>1. CASE op.to = d
        BY <3>1, <2>2, <2>4, <1>p, NamesApart
      <3>2. CASE op.to \in Blocks
        <4>1. Touches(op, p) /\ p \in Blocks
          BY <3>2, <2>2 DEF Touches
        <4>2. owner[p] # Nobody
          BY <4>1, <1>p, NamesApart
        <4>3. owner[p] = op.by
          BY <4>1, <4>2, <2>1, <2>2, <1>5, <1>b DEF Lent
        <4>4. QED
          BY <4>1, <4>3, <2>3, <1>p
      <3>3. QED
        BY <3>1, <3>2, <2>4
    <2>6. QED
      BY <2>2, <2>4, <2>5
  <1>6. ASSUME NEW f \in calls, Unstage(f), p = f.copy
        PROVE  Brought
    <2>1. f.copy \in Copies
      BY <1>b DEF Types, OtherTypes, Calls
    <2>2. f.copy = c
      BY <2>1, <1>6, <1>p, NamesApart
    <2>3. pc[c] = "pending" /\ block[c] # Nobody
      BY <2>2, <1>6, <1>b DEF Unstage, Ends
    <2>4. job[c].dir = "out"
      BY <2>3, <1>b, <1>d DEF Ways, Way
    <2>5. QED
      BY <2>2, <2>4, <1>6
  <1>7. QED
    BY <1>1, <1>2, <1>3, <1>4, <1>5, <1>6 DEF Stores

\* How a copy comes to be under way.
LEMMA Starts ==
  ASSUME Types, Ends, Ways, [Next]_vars, NEW c \in Copies, ~Active(c), Active(c)'
  PROVE  /\ Call(c)
         /\ block[c] = Nobody /\ block'[c] = Nobody /\ block' = block /\ event' = event
         /\ UNCHANGED <<enq, done, work>>
         /\ job'[c].dir = "in" =>
             /\ mem' = [mem EXCEPT ![c] = last'] /\ job'[c].want = last'
             /\ users[job'[c].tensor] = {}
             /\ job'[c].sync \/ ~Pending(Compute, job'[c].tensor)
         /\ job'[c].dir = "out" =>
             /\ mem' = mem /\ job'[c].sync
             /\ Program \in users[job'[c].tensor]
         /\ job'[c] \in Jobs /\ pc'[c] = FirstStep(job'[c])
         /\ pc'[c] = "sync" => until'[c] = SyncMark(job'[c])
  <1>t. pc \in [Copies -> Steps] /\ job \in [Copies -> Jobs \cup {NoJob}]
        /\ until \in [Copies -> AnyMark]
    BY DEF Types, CopyTypes
  <1>1. pc[c] = "idle"
    BY Forward DEF Active
  <1>2. Call(c)
    <2>1. Own(c)
      BY <1>1, OthersStay DEF Active
    <2>2. ~Thread(c)
      BY <1>1 DEF Thread, CopyNow, Allocate, AllocateFails, FreeBounce,
          FreeBounceNow, Record, RecordFails, Wait, WaitFails, Keep, Copy,
          CopyFails, Register
    <2>3. \A f \in calls : f.copy = c /\ EventMgr(f) => pc'[c] = "idle"
      BY <1>1 DEF EventMgr, DestroyEvent, EndCopy, Unstage, Ends
    <2>4. QED
      BY <2>1, <2>2, <2>3 DEF Own, Active
  <1>3. PICK y \in Tensors, path \in Paths :
            \/ \E sync \in BOOLEAN : CopyCPUTensorToDevice(c, y, path, sync)
            \/ CopyDeviceTensorToCPU(c, y, path)
    BY <1>2 DEF Call
  <1>4. block[c] = Nobody
    BY <1>1 DEF Ways, Way
  <1>5. \A j : Begin(c, j) =>
            /\ job'[c] = j /\ pc'[c] = FirstStep(j) /\ block' = block /\ event' = event
            /\ until'[c] = IF j.path = "small" THEN SyncMark(j) ELSE NoMark
            /\ UNCHANGED <<enq, done, work>>
    BY <1>t DEF Begin, streamVars
  <1>6. ASSUME NEW j \in Jobs, FirstStep(j) = "sync" PROVE j.path = "small"
    BY <1>6, FirstSteps DEF FirstStep, Asynchronous
  <1>7. ASSUME NEW sync \in BOOLEAN, CopyCPUTensorToDevice(c, y, path, sync)
        PROVE  /\ job'[c] = [dir |-> "in", path |-> path, sync |-> sync, tensor |-> y,
                             want |-> last']
               /\ job'[c] \in Jobs /\ Begin(c, job'[c])
               /\ mem' = [mem EXCEPT ![c] = last']
               /\ users[y] = {} /\ (sync \/ ~Pending(Compute, y))
    <2> DEFINE j == [dir |-> "in", path |-> path, sync |-> sync, tensor |-> y,
                     want |-> last']
    <2>1. Begin(c, j) /\ mem' = [mem EXCEPT ![c] = last'] /\ last' = last + 1
          /\ users[y] = {} /\ (sync \/ ~Pending(Compute, y))
      BY <1>7 DEF CopyCPUTensorToDevice
    <2>2. j \in Jobs
      BY <2>1 DEF Types, ProgramTypes, Jobs
    <2> HIDE DEF j
    <2>3. job'[c] = j
      BY <2>1, <1>5
    <2>4. QED
      BY <2>1, <2>2, <2>3 DEF j
  <1>8. ASSUME CopyDeviceTensorToCPU(c, y, path)
        PROVE  /\ job'[c] = [dir |-> "out", path |-> path, sync |-> TRUE, tensor |-> y,
                             want |-> value[y]]
               /\ job'[c] \in Jobs /\ Begin(c, job'[c]) /\ mem' = mem
               /\ Program \in users[y]
    <2> DEFINE j == [dir |-> "out", path |-> path, sync |-> TRUE, tensor |-> y,
                     want |-> value[y]]
    <2>1. Begin(c, j) /\ mem' = mem /\ Program \in users[y]
      BY <1>8 DEF CopyDeviceTensorToCPU
    <2>2. j \in Jobs
      BY DEF Types, ProgramTypes, Jobs
    <2> HIDE DEF j
    <2>3. job'[c] = j
      BY <2>1, <1>5
    <2>4. QED
      BY <2>1, <2>2, <2>3 DEF j
  <1>9. CASE \E sync \in BOOLEAN : CopyCPUTensorToDevice(c, y, path, sync)
    <2>1. PICK sync \in BOOLEAN : CopyCPUTensorToDevice(c, y, path, sync)
      BY <1>9
    <2>0. job'[c] = [dir |-> "in", path |-> path, sync |-> sync, tensor |-> y,
                     want |-> last']
      BY <2>1, <1>7
    <2>2. job'[c].dir = "in" /\ job'[c].tensor = y /\ job'[c].want = last'
          /\ job'[c] \in Jobs /\ Begin(c, job'[c])
          /\ mem' = [mem EXCEPT ![c] = last'] /\ users[y] = {}
          /\ (job'[c].sync \/ ~Pending(Compute, y))
      <3>1. job'[c] \in Jobs /\ Begin(c, job'[c])
            /\ mem' = [mem EXCEPT ![c] = last'] /\ users[y] = {}
        BY <2>1, <1>7
      <3>2. job'[c].dir = "in" /\ job'[c].tensor = y /\ job'[c].want = last'
        BY <2>0
      <3>3. sync \/ ~Pending(Compute, y)
        BY <2>1, <1>7
      <3>4. CASE sync
        <4>1. job'[c].sync
          BY <2>0, <3>4
        <4>2. QED
          BY <3>1, <3>2, <4>1
      <3>5. QED
        BY <3>1, <3>2, <3>3, <3>4
    <2>3. job'[c].path = "small" \/ pc'[c] # "sync"
      BY <2>2, <1>5, <1>6
    <2>4. QED
      BY <2>2, <2>3, <1>2, <1>4, <1>5
  <1>10. CASE CopyDeviceTensorToCPU(c, y, path)
    <2>1. job'[c].dir = "out" /\ job'[c].tensor = y
          /\ job'[c].sync /\ job'[c] \in Jobs /\ Begin(c, job'[c])
          /\ mem' = mem /\ Program \in users[y]
      BY <1>8, <1>10
    <2>2. job'[c].path = "small" \/ pc'[c] # "sync"
      BY <2>1, <1>5, <1>6
    <2>3. QED
      BY <2>1, <2>2, <1>2, <1>4, <1>5
  <1>11. QED
    BY <1>3, <1>9, <1>10

\* How a copy gets its bounce buffer.
LEMMA Staged ==
  ASSUME Types, Ends, Ways, [Next]_vars, NEW c \in Copies, Active(c),
         block'[c] # block[c], block'[c] # Nobody
  PROVE  \E b \in Blocks : Allocate(c, b) /\ block'[c] = b
  <1>t. block \in [Copies -> Blocks \cup {Nobody}]
    BY DEF Types, CopyTypes
  <1>1. Own(c) /\ ~Call(c)
    BY OthersStay, CallBegins DEF Active
  <1>2. Thread(c)
    <2>1. \A f \in calls : EventMgr(f) => block' = block
      BY DEF EventMgr, DestroyEvent, EndCopy, Unstage
    <2>2. QED
      BY <1>1, <2>1 DEF Own
  <1>3. CASE \E b \in Blocks : Allocate(c, b)
    BY <1>3, <1>t DEF Allocate
  <1>4. CASE ~\E b \in Blocks : Allocate(c, b)
    BY <1>2, <1>4, <1>t DEF Thread, CopyNow, AllocateFails, FreeBounce, FreeBounceNow,
        Record, RecordFails, Wait, WaitFails, Keep, Copy, CopyFails, Register
  <1>5. QED
    BY <1>3, <1>4

LEMMA HostValuesStep ==
  ASSUME Direct, Inv, [Next]_vars
  PROVE  HostValues'
  <1>b. BaseInv /\ Types /\ Ends /\ Ways /\ Users /\ OpsMatch /\ Owners /\ Late
    BY DEF Inv, BaseInv, CallInv
  <1>t. /\ mem \in [Places -> Nat] /\ pc \in [Copies -> Steps]
        /\ block \in [Copies -> Blocks \cup {Nobody}]
    BY <1>b DEF Types, ProgramTypes, CopyTypes
  <1>1. ASSUME NEW c \in Copies, Active(c)', job'[c].dir = "in"
        PROVE  /\ mem'[c] = job'[c].want
               /\ block'[c] # Nobody => mem'[block'[c]] = job'[c].want
    <2>1. CASE Active(c)
      <3>1. job'[c] = job[c] /\ pc[c] # "idle" /\ job[c].dir # "out"
        BY <2>1, <1>1, WantStays DEF Active
      <3>2. mem[c] = job[c].want /\ (block[c] # Nobody => mem[block[c]] = job[c].want)
        BY <2>1, <3>1, <1>1 DEF Inv, ValueInv, HostValues, HostValue
      <3>3. mem'[c] = mem[c]
        BY <3>1, HostStores, NamesApart
      <3>4. ASSUME block[c] # Nobody PROVE mem'[block[c]] = mem[block[c]]
        <4>1. PICK p \in Blocks : p = block[c]
          BY <3>4, <1>t
        <4>2. QED
          BY <4>1, <3>1, HostStores, NamesApart
      <3>5. ASSUME block'[c] # block[c], block'[c] # Nobody
            PROVE  mem'[block'[c]] = mem[c]
        <4>1. PICK b \in Blocks : Allocate(c, b) /\ block'[c] = b
          BY <3>5, <2>1, <1>b, Staged
        <4>2. mem' = [mem EXCEPT ![b] = mem[c]]
          BY <4>1, <3>1, <1>1 DEF Allocate
        <4>3. QED
          BY <4>1, <4>2, <1>t, NamesApart
      <3>6. QED
        BY <3>1, <3>2, <3>3, <3>4, <3>5
    <2>2. CASE ~Active(c)
      BY <2>2, <1>1, <1>b, <1>t, Starts, NamesApart
    <2>3. QED
      BY <2>1, <2>2
  <1>2. ASSUME NEW c \in Copies, Arrived(c)', job'[c].dir = "out"
        PROVE  mem'[HostEnd(c)'] = job'[c].want
    <2>1. /\ pc'[c] \in {"free", "register", "pending"}
          /\ \A s \in Streams : \A n \in Pos(s)' : ~CopyAt(s, n, c)'
          /\ ~Copying(c)'
      BY <1>2 DEF Arrived, Copying
    <2>2. job'[c] = job[c] /\ pc[c] \in {"free", "register", "pending"}
      BY <2>1, <1>b, Enters
    <2>3. Active(c) /\ job[c].dir = "out" /\ ~OnCompute(c)
      BY <2>2, <1>2 DEF OnCompute, Active
    <2>4. HostEnd(c)' = HostEnd(c)
      <3>1. block'[c] = block[c]
        BY <2>1, <2>2, <2>3, <1>b, Forward
      <3>2. QED
        BY <3>1, <2>2 DEF HostEnd
    <2>5. PICK p : p = HostEnd(c)
      OBVIOUS
    <2>6. /\ p \in Places
          /\ p = c \/ (p \in Blocks /\ p = block[c])
      <3>1. pc[c] # "free"
        BY <2>2, <2>3, <1>b DEF Ways, Way
      <3>2. job[c].path = "bounce" => block[c] # Nobody
        BY <2>2, <2>3, <3>1, <1>b DEF Ways, Way
      <3>3. QED
        BY <2>5, <3>2, <1>t, NamesApart DEF HostEnd
    <2>7. CASE Arrived(c)
      <3>1. mem[p] = job[c].want
        BY <2>3, <2>5, <2>7 DEF Inv, ValueInv, HostValues, HostValue
      <3>2. ~\E s \in Streams : CopyAt(s, done[s] + 1, c)
        BY <2>7 DEF Arrived, Copying, CopyAt
      <3>3. ~CopyNow(c)
        BY <2>2 DEF CopyNow
      <3>4. ~\E f \in calls : Unstage(f) /\ f.copy = c
        BY <2>1, <1>t DEF Unstage, Synchronize
      <3>5. mem'[p] = mem[p]
        BY <2>2, <2>6, <3>2, <3>3, <3>4, HostStores
      <3>6. QED
        BY <2>2, <2>4, <2>5, <3>1, <3>5
    <2>8. CASE ~Arrived(c)
      <3>0. PICK s \in Streams : \E n \in Pos(s) : CopyAt(s, n, c)
        BY <2>2, <2>3, <2>8 DEF Arrived, Copying
      <3>1. PICK n \in Pos(s) : CopyAt(s, n, c)
        BY <3>0
      <3>2. Device(s) /\ n = done[s] + 1
        <4>1. ~(n \in Pos(s)' /\ Op(s, n)' = Op(s, n))
          BY <3>1, <2>1 DEF CopyAt
        <4>2. QED
          BY <4>1, <1>b, Left
      <3>3. Op(s, n).kind = "copy" /\ Op(s, n).by = c
        BY <3>1 DEF CopyAt
      <3>4. s = CopyStream(c) /\ Op(s, n).from = job[c].tensor /\ Op(s, n).to = p
            /\ job[c].tensor \in Tensors
        BY <3>3, <2>2, <2>3, <2>5, <1>b, CopiesTo
      <3>5. mem[job[c].tensor] = job[c].want
        BY <2>2, <2>3, <3>1, <3>2, <3>4, OutArrives
      <3>6. mem' = [mem EXCEPT ![p] = Content(job[c].tensor)]
        BY <3>2, <3>3, <3>4, <1>b, DeviceEffect DEF Types
      <3>7. mem'[p] = job[c].want
        BY <3>4, <3>5, <3>6, <2>6, <1>t, NamesApart DEF Content
      <3>8. QED
        BY <2>2, <2>4, <2>5, <3>7
    <2>9. QED
      BY <2>7, <2>8
  <1>3. ASSUME NEW c \in Copies, pc'[c] \in {"unstage", "ok"}, job'[c].dir = "out",
               pc[c] \in {"unstage", "ok"}
        PROVE  mem'[c] = job'[c].want
    <2>1. job'[c] = job[c] /\ pc[c] # "idle"
      BY <1>3, <1>b, Forward
    <2>2. mem[c] = job[c].want
      BY <2>1, <1>3 DEF Inv, ValueInv, HostValues, HostValue
    <2>3. ~CopyNow(c) /\ ~\E f \in calls : Unstage(f) /\ f.copy = c
      BY <1>3, <1>b DEF CopyNow, Unstage, Ends
    <2>4. ASSUME NEW s \in Streams, CopyAt(s, done[s] + 1, c), pc[c] # "ok" => c = HostEnd(c)
          PROVE  FALSE
      <3>1. CASE pc[c] = "ok"
        <4>1. Active(c) \/ OnCompute(c)
          BY <2>4 DEF Inv, CallInv, Doing, CopyAt
        <4>2. QED
          BY <4>1, <3>1, <2>1, <1>3 DEF Active, OnCompute
      <3>2. CASE pc[c] = "unstage"
        <4>1. block[c] # Nobody /\ job[c].path = "bounce"
          BY <3>2, <1>b DEF Ways, Way
        <4>2. HostEnd(c) \in Blocks
          BY <4>1, <1>t DEF HostEnd
        <4>3. QED
          BY <4>2, <3>2, <2>4, NamesApart
      <3>3. QED
        BY <3>1, <3>2, <1>3
    <2>5. mem'[c] = mem[c]
      BY <2>1, <2>3, <2>4, HostStores, NamesApart
    <2>6. QED
      BY <2>1, <2>2, <2>5
  <1>4. ASSUME NEW c \in Copies, pc'[c] = "unstage", job'[c].dir = "out",
               pc[c] \notin {"unstage", "ok"}
        PROVE  mem'[c] = job'[c].want
    <2>1. PICK f \in calls : Unstage(f) /\ f.copy = c
      <3>1. Own(c)
        BY <1>4, <1>b, OthersStay
      <3>2. ~Call(c)
        <4>1. \A j \in Jobs : Begin(c, j) => pc'[c] # "unstage"
          BY <1>t, FirstSteps DEF Begin
        <4>2. QED
          BY <4>1, <1>4, <1>b, CallBegins
      <3>3. ~Thread(c)
        BY <1>4, <1>t DEF Thread, CopyNow, Allocate, AllocateFails, FreeBounce,
            FreeBounceNow, Record, RecordFails, Wait, WaitFails, Keep, Copy, CopyFails,
            Register, Report, Fail, GiveUp, Synchronize, Asynchronous
      <3>4. \A f \in calls : f.copy = c => ~DestroyEvent(f) /\ ~EndCopy(f)
        BY <1>4, <1>t DEF DestroyEvent, EndCopy, Report
      <3>5. QED
        BY <3>1, <3>2, <3>3, <3>4 DEF Own, EventMgr
    <2>2. /\ f.what = "end" /\ Passed(f.mark) /\ block[c] # Nobody /\ job' = job
          /\ mem' = [mem EXCEPT ![c] = mem[block[c]]]
      BY <2>1 DEF Unstage
    <2>3. pc[c] = "pending"
      BY <2>1, <2>2, <1>b DEF Ends
    <2>4. ~OnCompute(c) /\ job[c].path = "bounce"
      BY <2>2, <2>3, <1>b DEF Ways, Way
    <2>5. ~Copying(c)
      <3>1. SUFFICES ASSUME NEW s \in Streams, NEW n \in Pos(s), CopyAt(s, n, c)
                     PROVE  FALSE
        BY DEF Copying
      <3>2. n <= f.mark[s] /\ f.mark[s] <= done[s] /\ f.mark[s] \in Nat
        BY <3>1, <2>1, <2>2, <1>b DEF Late, Passed, Types, OtherTypes, Calls, AnyMark
      <3>3. n \in Nat /\ done[s] \in Nat /\ done[s] < n
        BY <1>b, PositionsTyped DEF Types
      <3>4. QED
        BY <3>2, <3>3
    <2>6. mem[block[c]] = job[c].want
      <3>1. Arrived(c)
        BY <2>3, <2>4, <2>5 DEF Arrived
      <3>2. HostEnd(c) = block[c]
        BY <2>4 DEF HostEnd
      <3>3. QED
        BY <3>1, <3>2, <2>2, <1>4 DEF Inv, ValueInv, HostValues, HostValue
    <2>7. QED
      BY <2>2, <2>6, <1>t, NamesApart
  <1>5. ASSUME NEW c \in Copies, pc'[c] = "ok", job'[c].dir = "out",
               pc[c] \notin {"unstage", "ok"}
        PROVE  mem'[c] = job'[c].want
    <2>1. Active(c) /\ Own(c) /\ Report(c) /\ job' = job
      <3>1. ASSUME NEW d \in Copies, Call(d) PROVE FALSE
        <4>1. pc[d] = "idle" /\ \E j \in Jobs : Begin(d, j)
          BY <3>1, <1>b, CallBegins
        <4>2. \A j \in Jobs : Begin(d, j) => pc'[c] # "ok"
          BY <1>5, <1>t, FirstSteps DEF Begin
        <4>3. QED
          BY <4>1, <4>2, <1>5
      <3>2. ASSUME NEW x \in Tensors, Launch(x) \/ Drop(x) PROVE FALSE
        BY <3>2, <1>5 DEF Launch, Drop, copyVars
      <3>3. PICK d \in Copies : Active(d) /\ Own(d) /\ (Report(d) \/ Fail(d)) /\ job' = job
        BY <3>1, <3>2, <1>5, <1>b, ProgramMoves
      <3>4. d = c /\ Report(d)
        BY <3>3, <1>5, <1>t DEF Report, Fail
      <3>5. QED
        BY <3>3, <3>4
    <2>2. job[c].dir = "out" /\ ~OnCompute(c)
      BY <2>1, <1>5 DEF OnCompute
    <2>3. CASE CopyNow(c)
      <3>1. pc[c] = "sync" /\ Passed(until[c]) /\ ~Fail(c)
        BY <2>1, <2>3, <1>t DEF CopyNow, Report, Fail
      <3>2. mem' = [mem EXCEPT ![c] = mem[job[c].tensor]]
        BY <2>2, <2>3, <3>1 DEF CopyNow
      <3>3. mem[job[c].tensor] = job[c].want
        BY <2>1, <2>2, <3>1, OutArrives
      <3>4. QED
        BY <2>1, <3>2, <3>3, <1>t, NamesApart
    <2>4. ASSUME NEW f \in calls, f.copy = c, EndCopy(f), pc[c] = "pending"
          PROVE  mem'[c] = job'[c].want
      <3>1. block[c] = Nobody /\ mem' = mem
        BY <2>4 DEF EndCopy, memVars
      <3>2. HostEnd(c) = c
        BY <2>2, <2>4, <3>1, <1>b DEF HostEnd, Ways, Way
      <3>3. ~Copying(c)
        BY <2>1, <2>2, <1>b, EndsDone DEF Copying
      <3>4. Arrived(c)
        BY <2>2, <2>4, <3>3 DEF Arrived
      <3>5. QED
        BY <2>1, <2>2, <3>1, <3>2, <3>4 DEF Inv, ValueInv, HostValues, HostValue
    <2>5. QED
      BY <2>1, <2>2, <2>3, <2>4, <1>5, <1>b, ReportMoves
  <1>6. QED
    BY <1>1, <1>2, <1>3, <1>4, <1>5 DEF HostValues, HostValue

\* Nothing is written to a bounce buffer that a copy has still to read.
LEMMA BlockValuesStep ==
  ASSUME Inv, [Next]_vars
  PROVE  BlockValues'
  <1>b. BaseInv /\ Types /\ Ends /\ Ways /\ OpsMatch /\ Owners /\ Lent /\ OneBorrower
        /\ OneOp
    BY DEF Inv, BaseInv
  <1> SUFFICES ASSUME NEW s \in Streams, NEW n \in Pos(s)', Op(s, n)'.kind = "copy",
                      NEW b \in Blocks, Op(s, n)'.from = b
               PROVE  mem'[b] = job'[Op(s, n)'.by].want
    BY DEF BlockValues
  <1>1. CASE n \in Pos(s) /\ Op(s, n)' = Op(s, n)
    <2> DEFINE op == Op(s, n)
    <2>1. op.kind = "copy" /\ op.from = b /\ job'[op.by] = job[op.by]
      BY <1>1, <1>b, ResultKept
    <2>2. mem[b] = job[op.by].want
      BY <1>1, <2>1 DEF Inv, ValueInv, BlockValues
    <2>3. /\ op.by \in Copies /\ CopyAt(s, n, op.by)
          /\ job[op.by].dir = "in" /\ op.to \notin Blocks
      BY <1>1, <2>1, <1>b, CopiesTo, NamesApart
    <2>4. Touches(op, b)
      BY <2>1 DEF Touches
    <2>5. ASSUME NEW d \in Copies, NEW e \in Blocks, Allocate(d, e) PROVE e # b
      <3>1. SUFFICES ASSUME owner[b] = Nobody, Passed(freed[b]) PROVE FALSE
        BY <2>5 DEF Allocate, Available
      <3>2. n <= freed[b][s] /\ freed[b][s] <= done[s] /\ freed[b][s] \in Nat
        BY <3>1, <2>1, <2>4, <1>1, <1>b DEF Lent, Passed, Types, OtherTypes, AnyMark
      <3>3. n \in Nat /\ done[s] \in Nat /\ done[s] < n
        BY <1>1, <1>b, PositionsTyped DEF Types
      <3>4. QED
        BY <3>2, <3>3
    <2>6. ASSUME NEW d \in Copies, CopyNow(d),
                 IF job[d].dir = "in" THEN b = job[d].tensor ELSE b = d
          PROVE  FALSE
      BY <2>6, <1>b, JobFields, NamesApart DEF CopyNow, Types
    <2>7. ASSUME NEW t \in Streams, Device(t), NEW other, other = Op(t, done[t] + 1),
                 \/ other.kind = "write" /\ other.at = b
                 \/ other.kind = "copy" /\ other.to = b
          PROVE  FALSE
      <3>1. PICK m \in Pos(t) : m = done[t] + 1
        <4>1. Pop(t)
          BY <2>7, <1>b, DeviceEffect DEF Types
        <4>2. QED
          BY <4>1, <1>b, PopEffect DEF Types
      <3>2. other = Op(t, m)
        BY <2>7, <3>1
      <3>3. other.kind = "copy" /\ other.to = b
        BY <2>7, <3>2, <1>b, PositionsTyped, OpFields, NamesApart DEF Types
      <3>4. CopyAt(t, m, other.by) /\ Touches(other, b)
        BY <3>2, <3>3, <1>b, CopiesTo DEF Touches
      <3>5. other.by = op.by
        BY <2>1, <2>4, <3>2, <3>3, <3>4, <1>1, <1>b DEF OneBorrower
      <3>6. s = t /\ n = m
        BY <2>3, <3>4, <3>5, <1>1, <1>b DEF OneOp
      <3>7. QED
        BY <2>3, <3>2, <3>3, <3>6
    <2>8. ASSUME NEW f \in calls PROVE b # f.copy
      BY <1>b, NamesApart DEF Types, OtherTypes, Calls
    <2>9. ~Stores(b)
      <3>1. ~\E c \in Copies : Call(c) /\ b = c
        BY NamesApart
      <3> HIDE DEF op
      <3>2. QED
        BY <2>5, <2>6, <2>7, <2>8, <3>1 DEF Stores
    <2>10. mem'[b] = mem[b]
      BY <2>9, <1>b, MemSteps, NamesApart
    <2>11. QED
      BY <1>1, <2>1, <2>2, <2>10
  <1>2. ASSUME NEW c \in Copies, Copy(c), Op(s, n)' = CopyOp(c),
               CopyOp(c).by = c
        PROVE  mem'[b] = job'[Op(s, n)'.by].want
    <2>1. mem' = mem /\ job' = job /\ pc[c] = "copy"
      BY <1>2 DEF Copy, memVars
    <2>2. Active(c) /\ job[c].dir \in {"in", "out"} /\ job[c].tensor \in Tensors
      BY <2>1, <1>b, JobFields DEF Active, Types
    <2>3. job[c].dir = "in" /\ b = HostEnd(c)
      BY <1>2, <2>2, NamesApart DEF CopyOp
    <2>4. b = block[c] /\ b # Nobody
      BY <2>3, NamesApart DEF HostEnd
    <2>5. mem[b] = job[c].want
      BY <2>2, <2>3, <2>4 DEF Inv, ValueInv, HostValues, HostValue
    <2>6. QED
      BY <2>1, <2>5, <1>2
  <1>3. QED
    BY <1>1, <1>2, <1>b, CopyEnqueued

-----------------------------------------------------------------------------
(* The waits *)

\* The steps of a copy that is under way and stays so, errors left aside.
LEMMA OwnMoves ==
  ASSUME Types, NEW c \in Copies, Active(c), Own(c), Active(c)',
         pc'[c] \notin {"unstage", "abandon"}
  PROVE  /\ job' = job
         /\ \/ pc[c] = "alloc" /\ pc'[c] = Asynchronous(job[c])
            \/ pc[c] = "alloc" /\ pc'[c] = "sync" /\ until'[c] = SyncMark(job[c])
            \/ pc[c] = "record" /\ pc'[c] = "wait" /\ event'[c].mark = StreamMark(Compute)
            \/ pc[c] = "wait" /\ Wait(c) /\ pc'[c] = "keep" /\ event'[c] = event[c]
            \/ /\ event'[c] = event[c]
               /\ \/ pc[c] = "keep" /\ pc'[c] = "copy"
                  \/ pc[c] = "copy" /\ pc'[c] \in {"free", "register"}
                  \/ pc[c] = "free" /\ pc'[c] = "register"
                  \/ pc[c] = "register" /\ pc'[c] = "pending"
            \/ /\ pc'[c] = pc[c] /\ until'[c] = until[c]
               /\ \E f \in calls : DestroyEvent(f) /\ f.copy = c
  <1>t. /\ pc \in [Copies -> Steps] /\ until \in [Copies -> AnyMark]
        /\ event \in [Copies -> [live : BOOLEAN, mark : AnyMark]]
    BY DEF Types, CopyTypes
  <1>1. ~Call(c)
    BY CallBegins DEF Active
  <1>2. CASE Thread(c)
    <2>1. CASE \E b \in Blocks : Allocate(c, b)
      BY <2>1, <1>t DEF Allocate
    <2>2. CASE AllocateFails(c)
      BY <2>2, <1>t DEF AllocateFails
    <2>3. CASE Record(c)
      BY <2>3, <1>t DEF Record
    <2>4. CASE Wait(c)
      BY <2>4, <1>t DEF Wait
    <2>5. CASE Keep(c) \/ Register(c)
      BY <2>5, <1>t DEF Keep, Register
    <2>6. CASE FreeBounce(c)
      BY <2>6, <1>t DEF FreeBounce, Report, Active
    <2>7. CASE Copy(c)
      BY <2>7, <1>t DEF Copy, Report, Active
    <2>8. CASE CopyNow(c) \/ FreeBounceNow(c)
      BY <2>8, <1>t DEF CopyNow, FreeBounceNow, Report, Fail, Active
    <2>9. CASE RecordFails(c) \/ WaitFails(c) \/ CopyFails(c)
      BY <2>9, <1>t DEF RecordFails, WaitFails, CopyFails, GiveUp, Synchronize, Fail, Active
    <2>10. QED
      BY <1>2, <2>1, <2>2, <2>3, <2>4, <2>5, <2>6, <2>7, <2>8, <2>9 DEF Thread
  <1>3. ASSUME NEW f \in calls, f.copy = c, EventMgr(f)
        PROVE  DestroyEvent(f) /\ UNCHANGED <<pc, job, until>>
    <2>1. CASE EndCopy(f) \/ Unstage(f)
      BY <2>1, <1>3, <1>t DEF EndCopy, Unstage, Report, Synchronize, Active
    <2>2. QED
      BY <2>1, <1>3 DEF EventMgr, DestroyEvent
  <1>4. QED
    BY <1>1, <1>2, <1>3 DEF Own

\* While the compute stream has something a copy is to come after, the copy's
\* stream waits and the copy stays where it is.
LEMMA WaitingStays ==
  ASSUME Inv, [Next]_vars, NEW c \in Copies, Active(c), Waiting(c),
         NEW k \in Pos(Compute), k <= event[c].mark[Compute]
  PROVE  Waiting(c)'
  <1>b. BaseInv /\ Types /\ Ends /\ Ways /\ OpsMatch
    BY DEF Inv, BaseInv
  <1>1. PICK s \in Streams : s = CopyStream(c)
    BY StreamNames
  <1>2. CopyStream(c)' = s
    BY <1>1, WantStays DEF CopyStream, OnCompute
  <1>3. PICK m \in Pos(s) : WaitAt(s, m, c) /\ \A n \in Pos(s) : CopyAt(s, n, c) => m < n
    BY <1>1 DEF Waiting
  <1>4. m \in Nat /\ m <= enq[s] /\ enq[s] \in Nat
    BY <1>b, PositionsTyped DEF Types
  <1>5. ~(Device(s) /\ m = done[s] + 1)
    <2>1. SUFFICES ASSUME Device(s), m = done[s] + 1 PROVE FALSE
      OBVIOUS
    <2>2. Passed(event[c].mark) \/ ~event[c].live
      BY <2>1, <1>3, <1>b, DeviceEffect DEF WaitAt, Types
    <2>3. event[c].live
      <3>1. device = "live"
        BY DEF Inv, CallInv, Users
      <3>2. QED
        BY <3>1, <1>3 DEF Inv, CallInv, Events, WaitAt
    <2>4. event[c].mark[Compute] <= done[Compute] /\ event[c].mark[Compute] \in Nat
      BY <2>2, <2>3, <1>b, StreamNames DEF Passed, Types, CopyTypes, AnyMark
    <2>5. k \in Nat /\ done[Compute] \in Nat /\ done[Compute] < k
      BY <1>b, PositionsTyped, StreamNames DEF Types
    <2>6. QED
      BY <2>4, <2>5
  <1>6. m \in Pos(s)' /\ Op(s, m)' = Op(s, m)
    BY <1>5, <1>b, Left
  <1>7. WaitAt(s, m, c)'
    BY <1>3, <1>6 DEF WaitAt
  <1>8. ASSUME NEW n \in Pos(s)', CopyAt(s, n, c)' PROVE m < n
    <2>1. CASE n \in Pos(s) /\ Op(s, n)' = Op(s, n)
      BY <2>1, <1>3, <1>8 DEF CopyAt
    <2>2. CASE n = enq[s] + 1
      BY <2>2, <1>4
    <2>3. QED
      BY <2>1, <2>2, <1>b, Enqueued
  <1>9. Waiting(c)' <=> \E i \in Pos(s)' :
            WaitAt(s, i, c)' /\ \A n \in Pos(s)' : CopyAt(s, n, c)' => i < n
    BY <1>2 DEF Waiting
  <1>10. QED
    BY <1>6, <1>7, <1>8, <1>9

LEMMA CopyingStays ==
  ASSUME Inv, [Next]_vars, NEW c \in Copies, Waiting(c), Copying(c)
  PROVE  Copying(c)'
  <1>b. BaseInv /\ Types /\ Ends /\ Ways /\ OpsMatch
    BY DEF Inv, BaseInv
  <1>1. PICK s \in Streams : \E n \in Pos(s) : CopyAt(s, n, c)
    BY DEF Copying
  <1>2. PICK n \in Pos(s) : CopyAt(s, n, c)
    BY <1>1
  <1>3. s = CopyStream(c)
    BY <1>2, <1>b DEF CopyAt, OpsMatch, Match
  <1>4. PICK m \in Pos(s) : m < n
    BY <1>2, <1>3 DEF Waiting
  <1>5. n # done[s] + 1
    <2>1. m \in Nat /\ n \in Nat /\ done[s] \in Nat /\ done[s] < m
      BY <1>b, PositionsTyped DEF Types
    <2>2. QED
      BY <2>1, <1>4
  <1>6. n \in Pos(s)' /\ Op(s, n)' = Op(s, n)
    BY <1>5, <1>b, Left
  <1>7. QED
    BY <1>2, <1>6 DEF Copying, CopyAt

LEMMA OrderedStep ==
  ASSUME Direct, Inv, [Next]_vars
  PROVE  Ordered'
  <1>b. BaseInv /\ Types /\ Ends /\ Ways /\ OpsMatch /\ Users /\ Late
    BY DEF Inv, BaseInv, CallInv
  <1> SUFFICES ASSUME NEW c \in Copies, Active(c)', pc'[c] = "sync" \/ ~OnCompute(c)',
                      NEW k \in Pos(Compute)', Conflicts(Op(Compute, k), c)'
               PROVE  Behind(c, k)'
    BY DEF Ordered
  <1>c. Conflicts(Op(Compute, k), c)' <=>
            IF job'[c].dir = "in" THEN Touches(Op(Compute, k), job[c].tensor)'
            ELSE Writes(Op(Compute, k), job[c].tensor)'
    BY DEF Conflicts
  <1>m. StreamMark(Compute)[Compute] = enq[Compute] /\ enq[Compute] \in Nat
    BY <1>b, MarksTyped, Counters, StreamNames DEF Types
  <1>w. ASSUME NEW j, j.sync, j.dir \in {"in", "out"},
               ~(j.dir = "in" /\ j.path \in ComputePaths)
        PROVE  Waits(j)
    BY <1>w DEF Waits
  <1>1. CASE ~Active(c)
    <2> DEFINE j == job'[c]
    <2>1. /\ UNCHANGED <<enq, done, work>>
          /\ j.dir = "in" => j.sync \/ ~Pending(Compute, j.tensor)
          /\ j.dir = "out" => j.sync
          /\ j \in Jobs /\ pc'[c] = FirstStep(j)
          /\ pc'[c] = "sync" => until'[c] = SyncMark(j)
      BY <1>1, <1>b, Starts
    <2>2. k \in Pos(Compute) /\ Op(Compute, k)' = Op(Compute, k)
      BY <2>1 DEF Pos, Op
    <2>3. k <= enq[Compute]
      BY <2>2, <1>b, ComputePositions
    <2>4. j.sync
      <3>1. SUFFICES ASSUME j.dir = "in" PROVE Pending(Compute, j.tensor)
        BY <2>1 DEF Jobs
      <3>2. Touches(Op(Compute, k), j.tensor)
        <4>1. Conflicts(Op(Compute, k), c)' => Touches(Op(Compute, k)', j.tensor)
          BY <3>1 DEF Conflicts, Touches
        <4>2. QED
          BY <4>1, <2>2
      <3>3. Op(Compute, k) \in ToSet(work[Compute])
        <4>1. /\ work[Compute] \in Seq(Ops) /\ Len(work[Compute]) \in Nat
              /\ done[Compute] + Len(work[Compute]) = enq[Compute]
          BY <1>b, StreamNames, LenProperties DEF Types, StreamTypes
        <4>2. /\ k \in Nat /\ done[Compute] \in Nat /\ enq[Compute] \in Nat
              /\ done[Compute] < k /\ k <= enq[Compute]
          BY <2>2, <1>b, PositionsTyped, StreamNames DEF Types
        <4>3. k - done[Compute] \in 1 .. Len(work[Compute])
          BY <4>1, <4>2
        <4>4. QED
          BY <4>1, <4>3 DEF Op, ToSet
      <3>4. QED
        BY <3>2, <3>3 DEF Pending
    <2>5. pc'[c] \in {"alloc", "sync", "record"}
      <3>1. CASE Waits(j)
        BY <3>1, <2>1, FirstSteps DEF FirstStep, Asynchronous
      <3>2. CASE ~Waits(j)
        <4>1. j.dir = "in" /\ j.path \in ComputePaths
          BY <3>2, <2>1, <2>4, <1>w DEF Jobs
        <4>2. OnCompute(c)'
          BY <4>1, <2>4 DEF OnCompute
        <4>3. QED
          BY <4>2
      <3>3. QED
        BY <3>1, <3>2
    <2>6. pc'[c] = "sync" => k <= until'[c][Compute]
      BY <2>1, <2>3, <2>4, <1>m DEF SyncMark
    <2> HIDE DEF j
    <2>7. QED
      BY <2>4, <2>5, <2>6 DEF Behind, j
  <1>2. ASSUME Active(c)
        PROVE  /\ job'[c] = job[c] /\ pc[c] # "idle" /\ job[c].dir \in {"in", "out"}
               /\ job[c].tensor \in Tensors
               /\ c \in users[job[c].tensor]
               /\ OnCompute(c)' <=> OnCompute(c)
    BY <1>2, <1>b, WantStays, JobFields DEF Active, Types, Users, OnCompute
  <1>3. CASE Active(c) /\ k \notin Pos(Compute)
    <2> DEFINE x == job[c].tensor
    <2>1. Touches(Op(Compute, k), x)' /\ (Op(Compute, k)'.kind = "read" => job[c].dir = "in")
      <3>1. job'[c] = job[c]
        BY <1>2, <1>3
      <3>2. \A y : Writes(Op(Compute, k), y)' =>
                Touches(Op(Compute, k), y)' /\ Op(Compute, k)'.kind # "read"
        BY DEF Writes, Touches
      <3>3. Conflicts(Op(Compute, k), c)' <=>
            IF job[c].dir = "in" THEN Touches(Op(Compute, k), x)'
            ELSE Writes(Op(Compute, k), x)'
        BY <3>1 DEF Conflicts
      <3>4. QED
        BY <3>2, <3>3, <1>2, <1>3
    <2>2. ~Launch(x)
      BY <1>2, <1>3 DEF Launch
    <2>3. job[c].dir = "in" => ~Consume(x)
      BY <1>2, <1>3, OneUser
    <2>4. ASSUME NEW d \in Copies, Copy(d), OnCompute(d), job[d].tensor = x,
                 job[d].dir = "in"
          PROVE  FALSE
      <3>1. Active(d)
        BY <2>4 DEF Copy, Active
      <3>2. users[x] = {d}
        BY <3>1, <2>4, <1>b DEF Users
      <3>3. d = c
        BY <3>2, <1>2, <1>3
      <3>4. OnCompute(c)' /\ pc[c] = "copy"
        BY <3>3, <2>4, <1>2, <1>3 DEF Copy
      <3>5. pc'[c] # "sync"
        <4>1. pc \in [Copies -> Steps]
          BY <1>b DEF Types, CopyTypes
        <4>2. QED
          BY <4>1, <3>3, <2>4 DEF Copy, Report
      <3>6. QED
        BY <3>4, <3>5
    <2>5. QED
      BY <2>1, <2>2, <2>3, <2>4, <1>2, <1>3, NewTouch
  <1>4. CASE Active(c) /\ k \in Pos(Compute)
    <2>1. Op(Compute, k)' = Op(Compute, k) /\ job'[c] = job[c]
      BY <1>2, <1>4, OperationKept
    <2>2. Conflicts(Op(Compute, k), c)
      BY <2>1 DEF Conflicts, Touches, Writes
    <2>3. k <= enq[Compute]
      BY <1>4, <1>b, ComputePositions
    <2>4. pc[c] = "sync" \/ ~OnCompute(c) => Behind(c, k)
      BY <2>2, <1>4 DEF Inv, ValueInv, Ordered
    <2>5. ASSUME pc[c] \in {"keep", "copy", "free", "register", "pending"}, ~OnCompute(c)
          PROVE  Waiting(c)' /\ Waiting(c) /\ k <= event[c].mark[Compute]
      <3>1. Waiting(c) /\ k <= event[c].mark[Compute]
        BY <2>4, <2>5 DEF Behind
      <3>2. QED
        BY <3>1, <1>4, WaitingStays
    <2>6. ASSUME pc'[c] \in {"free", "register", "pending"}
          PROVE  Copying(c)'
      <3>1. SUFFICES ASSUME pc[c] \in {"free", "register", "pending"} PROVE Copying(c)'
        BY <2>6, <1>b, Enters
      <3>2. ~OnCompute(c)
        BY <2>6, <1>2, <1>4
      <3>3. Waiting(c) /\ Copying(c)
        BY <2>4, <3>1, <3>2 DEF Behind
      <3>4. QED
        BY <3>3, CopyingStays
    <2>7. CASE ~Own(c)
      <3>1. device = "live"
        BY <1>4, <1>b DEF Users
      <3>2. /\ pc'[c] = pc[c] /\ until'[c] = until[c] /\ event'[c] = event[c]
        BY <3>1, <2>7, <1>b, OthersStay DEF DeleteEventMgr
      <3>3. Behind(c, k)
        BY <2>4, <3>2, <1>2, <1>4
      <3>4. QED
        BY <3>2, <3>3, <2>1, <2>5, <2>6, <1>2, <1>4 DEF Behind
    <2>8. CASE Own(c) /\ pc'[c] \notin {"unstage", "abandon"}
      <3>1. \/ pc[c] = "alloc" /\ pc'[c] = Asynchronous(job[c])
            \/ pc[c] = "alloc" /\ pc'[c] = "sync" /\ until'[c] = SyncMark(job[c])
            \/ pc[c] = "record" /\ pc'[c] = "wait" /\ event'[c].mark = StreamMark(Compute)
            \/ pc[c] = "wait" /\ Wait(c) /\ pc'[c] = "keep" /\ event'[c] = event[c]
            \/ /\ event'[c] = event[c]
               /\ \/ pc[c] = "keep" /\ pc'[c] = "copy"
                  \/ pc[c] = "copy" /\ pc'[c] \in {"free", "register"}
                  \/ pc[c] = "free" /\ pc'[c] = "register"
                  \/ pc[c] = "register" /\ pc'[c] = "pending"
            \/ /\ pc'[c] = pc[c] /\ until'[c] = until[c]
               /\ \E f \in calls : DestroyEvent(f) /\ f.copy = c
        BY <2>8, <1>4, <1>b, OwnMoves
      <3>2. pc[c] = "alloc" => job[c].sync
        BY <2>4 DEF Behind, OnCompute
      <3>3. CASE pc[c] = "alloc" /\ pc'[c] = Asynchronous(job[c])
        <4>1. ~OnCompute(c)
          BY <3>3, <1>2, <1>4 DEF Asynchronous
        <4>2. Waits(job[c])
          BY <4>1, <3>2, <3>3, <1>2, <1>4, <1>w DEF OnCompute
        <4>3. pc'[c] = "record"
          BY <4>2, <3>3 DEF Asynchronous
        <4>4. QED
          BY <4>3, <3>2, <3>3, <2>1 DEF Behind
      <3>4. CASE pc[c] = "alloc" /\ pc'[c] = "sync" /\ until'[c] = SyncMark(job[c])
        <4>1. until'[c] = StreamMark(Compute)
          BY <3>2, <3>4 DEF SyncMark
        <4>2. QED
          BY <4>1, <3>4, <2>3, <1>m DEF Behind
      <3>5. CASE pc[c] = "record" /\ pc'[c] = "wait" /\ event'[c].mark = StreamMark(Compute)
        BY <3>5, <2>3, <1>m DEF Behind
      <3>6. CASE pc[c] = "wait" /\ Wait(c) /\ pc'[c] = "keep" /\ event'[c] = event[c]
        <4>1. ~OnCompute(c)
          BY <3>6, <1>2, <1>4
        <4>2. k <= event[c].mark[Compute]
          BY <4>1, <3>6, <2>4 DEF Behind
        <4>3. Waiting(c)'
          <5>1. PICK s \in Streams : s = CopyStream(c)
            BY StreamNames
          <5>2. CopyStream(c)' = s
            BY <5>1, <2>1 DEF CopyStream, OnCompute
          <5>3. Put(s, WaitOp(c)) /\ WaitOp(c) \in Ops
            BY <5>1, <3>6, <1>b, Puts, OpsTyped
          <5>4. PICK m : m = enq[s] + 1
            OBVIOUS
          <5>5. /\ Pos(s)' = Pos(s) \cup {m} /\ Op(s, m)' = WaitOp(c)
                /\ \A n \in Pos(s) : Op(s, n)' = Op(s, n)
            BY <5>3, <5>4, <1>b, PutEffect DEF Types
          <5>6. WaitAt(s, m, c)'
            BY <5>5 DEF WaitAt, WaitOp
          <5>7. \A n \in Pos(s)' : ~CopyAt(s, n, c)'
            <6>1. \A n \in Pos(s) : ~CopyAt(s, n, c)
              BY <3>6, <1>b DEF CopyAt, OpsMatch, Match
            <6>2. QED
              BY <6>1, <5>5 DEF CopyAt, WaitOp
          <5>8. Waiting(c)' <=> \E i \in Pos(s)' :
                    WaitAt(s, i, c)' /\ \A n \in Pos(s)' : CopyAt(s, n, c)' => i < n
            BY <5>2 DEF Waiting
          <5>9. QED
            BY <5>5, <5>6, <5>7, <5>8
        <4>4. QED
          BY <4>2, <4>3, <3>6 DEF Behind
      <3>7. CASE /\ event'[c] = event[c]
                 /\ \/ pc[c] = "keep" /\ pc'[c] = "copy"
                    \/ pc[c] = "copy" /\ pc'[c] \in {"free", "register"}
                    \/ pc[c] = "free" /\ pc'[c] = "register"
                    \/ pc[c] = "register" /\ pc'[c] = "pending"
        <4>1. ~OnCompute(c)
          BY <3>7, <1>2, <1>4
        <4>2. Waiting(c)' /\ k <= event[c].mark[Compute]
          BY <4>1, <3>7, <2>5
        <4>3. QED
          BY <4>2, <3>7, <2>6 DEF Behind
      <3>8. ASSUME pc'[c] = pc[c], until'[c] = until[c],
                   NEW f \in calls, DestroyEvent(f), f.copy = c
            PROVE  Behind(c, k)'
        <4>1. f.what = "destroy" /\ Passed(f.mark)
          BY <3>8 DEF DestroyEvent
        <4>2. pc[c] \notin {"alloc", "sync", "record", "wait", "keep"}
          BY <4>1, <3>8, <1>b DEF Late
        <4>3. ASSUME pc[c] \in {"copy", "free", "register", "pending"} PROVE FALSE
          <5>1. ~OnCompute(c)
            BY <4>3, <3>8, <1>2, <1>4
          <5>2. Waiting(c)
            BY <5>1, <4>3, <2>5
          <5>3. PICK s \in Streams : s = CopyStream(c)
            BY StreamNames
          <5>4. PICK m \in Pos(s) : WaitAt(s, m, c)
            BY <5>2, <5>3 DEF Waiting
          <5>5. m <= f.mark[s] /\ f.mark[s] <= done[s] /\ f.mark[s] \in Nat
            BY <5>4, <4>1, <3>8, <1>b DEF Late, Passed, Types, OtherTypes, Calls, AnyMark
          <5>6. m \in Nat /\ done[s] \in Nat /\ done[s] < m
            BY <1>b, PositionsTyped DEF Types
          <5>7. QED
            BY <5>5, <5>6
        <4>4. QED
          BY <4>2, <4>3, <3>8 DEF Behind
      <3>9. QED
        BY <3>1, <3>3, <3>4, <3>5, <3>6, <3>7, <3>8
    <2>9. CASE pc'[c] \in {"unstage", "abandon"}
      BY <2>9 DEF Behind
    <2>10. QED
      BY <2>7, <2>8, <2>9
  <1>5. QED
    BY <1>1, <1>3, <1>4

-----------------------------------------------------------------------------
(* Theorems *)

LEMMA ValueInit == Init => ValueInv
  <1> SUFFICES ASSUME Init PROVE ValueInv
    OBVIOUS
  <1>1. ASSUME NEW s \in Streams PROVE Pos(s) = {}
    <2>1. enq[s] = 0 /\ done[s] = 0
      BY DEF Init, StreamsInit
    <2>2. 0 + 1 .. 0 = {}
      OBVIOUS
    <2>3. QED
      BY <2>1, <2>2 DEF Pos
  <1>2. \A c \in Copies : pc[c] = "idle" /\ job[c].dir = "none"
    BY DEF Init, NoJob
  <1>3. \A x \in Tensors : users[x] = {}
    BY DEF Init
  <1>4. ~stale
    BY DEF Init
  <1>5. Ordered
    BY <1>2 DEF Ordered, Active
  <1>6. Reads /\ BlockValues
    BY <1>1, StreamNames DEF Reads, BlockValues
  <1>7. TensorValues
    BY <1>3 DEF TensorValues
  <1>8. CopyValues /\ HostValues
    BY <1>2 DEF CopyValues, CopyValue, HostValues, HostValue, Active, Arrived
  <1>9. QED
    BY <1>4, <1>5, <1>6, <1>7, <1>8 DEF ValueInv

LEMMA ValueStep ==
  ASSUME Direct
  PROVE  BaseInv /\ CallInv /\ ValueInv /\ [Next]_vars => ValueInv'
  BY OrderedStep, ReadsStep, TensorValuesStep, CopyValuesStep, HostValuesStep,
     BlockValuesStep, StaleStep DEF ValueInv, Inv

LEMMA ValuesHold == Direct => (Spec => []Inv)
  <1> SUFFICES ASSUME Direct PROVE Spec => []Inv
    OBVIOUS
  <1>1. Spec => [](BaseInv /\ CallInv)
    BY CallsHold DEF Direct
  <1>2. Init => ValueInv
    BY ValueInit
  <1>3. BaseInv /\ CallInv /\ ValueInv /\ [Next]_vars => ValueInv'
    BY ValueStep
  <1>4. BaseInv /\ CallInv /\ ValueInv => Inv
    BY DEF Inv
  <1>5. QED
    BY <1>1, <1>2, <1>3, <1>4, PTL DEF Spec

\* The waits order kernels and copies well: a kernel reads what the program put
\* into its input, whatever kernels and copies used that memory before or will
\* use it after.  It needs functions that are not called before their marks, and
\* copies of pinned memory that are not moved to the compute stream: those report
\* while the device has still to read the CPU tensor.
THEOREM InputsRead == Direct => (Spec => []KernelsReadTheirInputs)
  <1> SUFFICES ASSUME Direct PROVE Spec => []KernelsReadTheirInputs
    OBVIOUS
  <1>1. Inv => KernelsReadTheirInputs
    BY DEF Inv, ValueInv, KernelsReadTheirInputs
  <1>2. QED
    BY <1>1, ValuesHold, PTL

\* A copy to the CPU that has reported success has brought what the program saw
\* in the tensor when it asked for it, by way of a bounce buffer or not.
THEOREM ResultsBrought == Direct => (Spec => []ResultsArrive)
  <1> SUFFICES ASSUME Direct PROVE Spec => []ResultsArrive
    OBVIOUS
  <1>1. Inv => ResultsArrive
    BY DEF Inv, ValueInv, HostValues, HostValue, ResultsArrive
  <1>2. QED
    BY <1>1, ValuesHold, PTL

=============================================================================
