------------------------- MODULE DeviceCopiesProofs -------------------------
(***************************************************************************)
(* Theorems about DeviceCopies, for any number of copies, tensors, bounce  *)
(* buffers and kernels: no bounce buffer is used for two copies at once,   *)
(* copies report when they are done, and the destructor takes no memory    *)
(* away that the device still uses.                                        *)
(***************************************************************************)
EXTENDS DeviceCopies, SequenceTheorems, TLAPS

-----------------------------------------------------------------------------
(* The invariant *)

Steps == {"idle", "alloc", "sync", "record", "wait", "keep", "copy", "free",
          "register", "pending", "unstage", "abandon", "ok", "failed"}

AnyMark == [Streams -> Nat]

Calls == [copy : Copies, what : {"destroy", "end"}, mark : AnyMark]

Stages == {"live", "closing", "no context", "no events", "no pool", "no memory"}

StreamTypes ==
    /\ enq \in AnyMark /\ done \in AnyMark
    /\ work \in [Streams -> Seq(Ops)]
    /\ \A s \in Streams : done[s] + Len(work[s]) = enq[s]

ProgramTypes ==
    /\ mem \in [Places -> Nat] /\ stale \in BOOLEAN
    /\ last \in Nat
    /\ value \in [Tensors -> Nat]
    /\ users \in [Tensors -> SUBSET (Copies \cup {Program})]

CopyTypes ==
    /\ pc \in [Copies -> Steps]
    /\ job \in [Copies -> Jobs \cup {NoJob}]
    /\ \A c \in Copies : pc[c] # "idle" => job[c] \in Jobs
    /\ block \in [Copies -> Blocks \cup {Nobody}]
    /\ until \in [Copies -> AnyMark]
    /\ event \in [Copies -> [live : BOOLEAN, mark : AnyMark]]

OtherTypes ==
    /\ owner \in [Blocks -> Copies \cup {Nobody}]
    /\ freed \in [Blocks -> AnyMark]
    /\ calls \subseteq Calls
    /\ device \in Stages

Types == StreamTypes /\ ProgramTypes /\ CopyTypes /\ OtherTypes

\* Operations are known by their place among all those ever enqueued on their
\* stream, which never changes.
Pos(s) == done[s] + 1 .. enq[s]

Op(s, n) == work[s][n - done[s]]

CopyAt(s, n, c) == n \in Pos(s) /\ Op(s, n).kind = "copy" /\ Op(s, n).by = c

WaitAt(s, n, c) == n \in Pos(s) /\ Op(s, n).kind = "wait" /\ Op(s, n).by = c

Copying(c) == \E s \in Streams : \E n \in Pos(s) : CopyAt(s, n, c)

\* What an operation of stream s is, in terms of the copy that enqueued it.
Match(s, op) ==
    /\ op.kind \in {"write", "read"} => s = Compute
    /\ op.kind = "copy" =>
        LET c == op.by IN
        /\ s = CopyStream(c)
        /\ pc[c] \in {"free", "register", "pending", "unstage", "ok"}
        /\ job[c].path # "small"
        /\ job[c].dir = "in" =>
            /\ op.to = job[c].tensor
            /\ IF job[c].path = "bounce" THEN op.from \in Blocks ELSE op.from = c
        /\ job[c].dir = "out" =>
            /\ op.from = job[c].tensor
            /\ IF job[c].path = "bounce" THEN op.to \in Blocks ELSE op.to = c
            /\ pc[c] # "ok" => op.to = HostEnd(c)
    /\ op.kind = "wait" =>
        LET c == op.by IN
        /\ s = CopyStream(c)
        /\ pc[c] \notin {"idle", "alloc", "sync", "record", "wait"}

OpsMatch == \A s \in Streams : \A n \in Pos(s) : Match(s, Op(s, n))

OneOp ==
    \A s, t \in Streams : \A n \in Pos(s), m \in Pos(t) : \A c \in Copies :
        CopyAt(s, n, c) /\ CopyAt(t, m, c) => s = t /\ n = m

\* Where a copy has a bounce buffer, and which steps each way takes.
Way(c) ==
    LET j == job[c] IN
    /\ block[c] # Nobody =>
        /\ j.path = "bounce"
        /\ pc[c] \in {"record", "wait", "keep", "copy", "abandon"}
                       \cup IF j.dir = "in" THEN {"free"}
                            ELSE {"register", "pending", "unstage"}
    /\ pc[c] = "alloc" => j.path = "bounce"
    /\ pc[c] \in {"record", "wait", "keep"} => Waits(j)
    /\ pc[c] \in {"record", "wait", "keep", "copy"} =>
        j.path # "small" /\ (j.path = "bounce" => block[c] # Nobody)
    /\ pc[c] \in {"free", "abandon", "unstage"} => block[c] # Nobody
    /\ pc[c] \in {"register", "pending"} =>
        /\ j.path # "small"
        /\ ~OnCompute(c)
        /\ j.dir = "out" /\ j.path = "bounce" => block[c] # Nobody
    /\ pc[c] # "idle" /\ j.dir = "out" => j.sync

Ways == \A c \in Copies : Way(c)

Owners ==
    /\ \A b \in Blocks : owner[b] # Nobody => block[owner[b]] = b
    /\ \A c \in Copies : block[c] # Nobody => owner[block[c]] = c

\* A block is its copy's as long as an operation on it is pending.
Lent ==
    \A s \in Streams : \A n \in Pos(s) : \A b \in Blocks :
        Op(s, n).kind = "copy" /\ Touches(Op(s, n), b) =>
            IF owner[b] = Nobody THEN n <= freed[b][s] ELSE owner[b] = Op(s, n).by

OneBorrower ==
    \A s, t \in Streams : \A n \in Pos(s), m \in Pos(t) : \A b \in Blocks :
        /\ Op(s, n).kind = "copy" /\ Touches(Op(s, n), b)
        /\ Op(t, m).kind = "copy" /\ Touches(Op(t, m), b)
        => Op(s, n).by = Op(t, m).by

Ends ==
    /\ \A f \in calls : f.what = "end" => pc[f.copy] = "pending"
    /\ \A f, g \in calls :
        f.what = "end" /\ g.what = "end" /\ f.copy = g.copy => f = g
    /\ \A c \in Copies : pc[c] = "unstage" =>
        \A s \in Streams : \A n \in Pos(s) : CopyAt(s, n, c) => n <= until[c][s]

Active(c) == pc[c] \notin {"idle", "ok", "failed"}

Users ==
    /\ \A c \in Copies : Active(c) =>
        /\ c \in users[job[c].tensor]
        /\ job[c].dir = "in" => users[job[c].tensor] = {c}
        /\ device = "live"
    /\ \A x \in Tensors : \A c \in users[x] \ {Program} :
        Active(c) /\ job[c].tensor = x

\* The functions that end copies and destroy events come late enough.
Late ==
    \A f \in calls :
        /\ f.what = "end" =>
            \A s \in Streams : \A n \in Pos(s) : CopyAt(s, n, f.copy) => n <= f.mark[s]
        /\ f.what = "destroy" =>
            /\ pc[f.copy] \notin {"idle", "alloc", "sync", "record", "wait", "keep"}
            /\ \A s \in Streams : \A n \in Pos(s) :
                WaitAt(s, n, f.copy) => n <= f.mark[s]

\* A copy is not over while the device has to do it, unless the compute stream
\* has.
Doing ==
    \A s \in Streams : \A n \in Pos(s) :
        Op(s, n).kind = "copy" => Active(Op(s, n).by) \/ OnCompute(Op(s, n).by)

\* A stream that waits for an event finds it.
Events ==
    /\ \A c \in Copies : pc[c] \in {"wait", "keep"} => event[c].live
    /\ device = "live" =>
        \A s \in Streams : \A n \in Pos(s) :
            Op(s, n).kind = "wait" => event[Op(s, n).by].live

Closed ==
    device \notin {"live", "closing"} => enq[Compute] = done[Compute]

BaseInv == Types /\ OpsMatch /\ OneOp /\ Ways /\ Owners /\ Lent /\ OneBorrower /\ Ends
CallInv == Users /\ Late /\ Doing /\ Events /\ Closed

-----------------------------------------------------------------------------
(* Streams *)

LEMMA StreamNames ==
    /\ Compute \in Streams /\ H2D \in Streams /\ D2H \in Streams
    /\ \A c \in Copies : CopyStream(c) \in Streams
    /\ NoMark \in AnyMark
  BY DeviceCopiesAssumption DEF CopyStream, NoMark, AnyMark

LEMMA PositionsTyped ==
  ASSUME StreamTypes, NEW s \in Streams, NEW n \in Pos(s)
  PROVE  /\ Op(s, n) \in Ops
         /\ n \in Nat /\ done[s] \in Nat /\ enq[s] \in Nat
         /\ done[s] < n /\ n <= enq[s]
  <1>1. /\ n \in Nat /\ done[s] \in Nat /\ enq[s] \in Nat
        /\ done[s] < n /\ n <= enq[s]
    BY DEF StreamTypes, AnyMark, Pos
  <1>2. work[s] \in Seq(Ops) /\ n - done[s] \in 1 .. Len(work[s])
    BY <1>1 DEF StreamTypes
  <1>3. QED
    BY <1>1, <1>2, ElementOfSeq DEF Op

\* What Put does to the positions of each stream.
LEMMA PutEffect ==
  ASSUME StreamTypes, NEW s \in Streams, NEW op \in Ops, Put(s, op)
  PROVE  /\ StreamTypes'
         /\ done' = done
         /\ \A t \in Streams : enq'[t] = IF t = s THEN enq[s] + 1 ELSE enq[t]
         /\ \A t \in Streams : Pos(t)' = IF t = s THEN Pos(t) \cup {enq[s] + 1} ELSE Pos(t)
         /\ \A t \in Streams : \A n \in Pos(t) : Op(t, n)' = Op(t, n)
         /\ \A n : n = enq[s] + 1 => Op(s, n)' = op
         /\ enq[s] + 1 \notin Pos(s)
  <1>1. /\ done' = done
        /\ \A t \in Streams : enq'[t] = IF t = s THEN enq[s] + 1 ELSE enq[t]
        /\ \A t \in Streams : work'[t] = IF t = s THEN Append(work[s], op) ELSE work[t]
        /\ enq' \in AnyMark
    BY DEF Put, Enqueue, StreamTypes, AnyMark
  <1>2. work[s] \in Seq(Ops) /\ Append(work[s], op) \in Seq(Ops)
        /\ Len(Append(work[s], op)) = Len(work[s]) + 1
    BY AppendProperties DEF StreamTypes
  <1>3. StreamTypes'
    <2>1. work' \in [Streams -> Seq(Ops)]
      BY <1>2 DEF Put, StreamTypes
    <2>2. ASSUME NEW t \in Streams PROVE done'[t] + Len(work'[t]) = enq'[t]
      <3>1. /\ done[t] + Len(work[t]) = enq[t]
            /\ Len(work[t]) \in Nat /\ done[t] \in Nat
        BY LenProperties DEF StreamTypes, AnyMark
      <3>2. CASE t = s
        <4>1. enq'[t] = enq[t] + 1 /\ done'[t] = done[t]
              /\ work'[t] = Append(work[s], op)
          BY <3>2, <1>1
        <4>2. Len(work'[t]) = Len(work[t]) + 1
          BY <3>2, <4>1, <1>2
        <4>3. QED
          BY <4>1, <4>2, <3>1
      <3>3. CASE t # s
        BY <3>1, <3>3, <1>1
      <3>4. QED
        BY <3>2, <3>3
    <2>3. done' \in AnyMark
      BY <1>1 DEF StreamTypes
    <2>4. QED
      BY <1>1, <2>1, <2>2, <2>3 DEF StreamTypes
  <1>4. ASSUME NEW t \in Streams
        PROVE  Pos(t)' = IF t = s THEN Pos(t) \cup {enq[s] + 1} ELSE Pos(t)
    <2>1. enq[t] \in Nat /\ done[t] \in Nat /\ done[t] <= enq[t]
      <3>1. done[t] + Len(work[t]) = enq[t] /\ Len(work[t]) \in Nat
        BY LenProperties DEF StreamTypes
      <3>2. QED
        BY <3>1 DEF StreamTypes, AnyMark
    <2>2. CASE t = s
      BY <2>2, <1>1, <2>1 DEF Pos
    <2>3. CASE t # s
      BY <2>3, <1>1 DEF Pos
    <2>4. QED
      BY <2>2, <2>3
  <1>5. ASSUME NEW t \in Streams, NEW n \in Pos(t)
        PROVE  Op(t, n)' = Op(t, n)
    <2>1. n - done[t] \in 1 .. Len(work[t])
      BY PositionsTyped DEF StreamTypes
    <2>2. CASE t # s
      BY <2>2, <1>1 DEF Op
    <2>3. CASE t = s
      <3>1. Append(work[s], op)[n - done[s]] = work[s][n - done[s]]
        BY <2>1, <2>3, <1>2, AppendProperties
      <3>2. QED
        BY <3>1, <2>3, <1>1 DEF Op
    <2>4. QED
      BY <2>2, <2>3
  <1>6. ASSUME NEW n, n = enq[s] + 1 PROVE Op(s, n)' = op
    <2>1. (enq[s] + 1) - done[s] = Len(work[s]) + 1
      <3>1. done[s] + Len(work[s]) = enq[s] /\ Len(work[s]) \in Nat /\ done[s] \in Nat
        BY <1>2, LenProperties DEF StreamTypes, AnyMark
      <3>2. QED
        BY <3>1
    <2>2. Append(work[s], op)[Len(work[s]) + 1] = op
      BY <1>2, AppendProperties
    <2>3. Op(s, n)' = Append(work[s], op)[(enq[s] + 1) - done[s]]
      BY <1>1, <1>6 DEF Op
    <2>4. QED
      BY <2>1, <2>2, <2>3
  <1>7. enq[s] + 1 \notin Pos(s)
    BY DEF Pos, StreamTypes, AnyMark
  <1>8. QED
    BY <1>1, <1>3, <1>4, <1>5, <1>6, <1>7

\* What Device does to them.
Pop(s) ==
    /\ work[s] # <<>>
    /\ Complete(s)
    /\ work' = [work EXCEPT ![s] = Tail(@)]

LEMMA PopEffect ==
  ASSUME StreamTypes, NEW s \in Streams, Pop(s)
  PROVE  /\ StreamTypes'
         /\ enq' = enq
         /\ \A t \in Streams : done'[t] = IF t = s THEN done[s] + 1 ELSE done[t]
         /\ Head(work[s]) = Op(s, done[s] + 1)
         /\ done[s] + 1 \in Pos(s)
         /\ \A t \in Streams : Pos(t)' = IF t = s THEN Pos(t) \ {done[s] + 1} ELSE Pos(t)
         /\ \A n \in Pos(s)' : done[s] + 1 < n
         /\ \A t \in Streams : \A n \in Pos(t)' : Op(t, n)' = Op(t, n)
  <1>1. /\ enq' = enq
        /\ \A t \in Streams : done'[t] = IF t = s THEN done[s] + 1 ELSE done[t]
        /\ \A t \in Streams : work'[t] = IF t = s THEN Tail(work[s]) ELSE work[t]
        /\ done' \in AnyMark
        /\ done[s] \in Nat /\ enq[s] \in Nat /\ done[s] < enq[s]
    BY DEF Pop, Complete, StreamTypes, AnyMark
  <1>2. work[s] \in Seq(Ops) /\ work[s] # <<>>
    BY DEF Pop, StreamTypes
  <1>3. /\ Tail(work[s]) \in Seq(Ops)
        /\ Len(Tail(work[s])) = Len(work[s]) - 1
        /\ \A i \in 1 .. Len(work[s]) - 1 : Tail(work[s])[i] = work[s][i + 1]
        /\ Len(work[s]) \in Nat
        /\ Head(work[s]) = work[s][1]
    BY <1>2, HeadTailProperties, LenProperties
  <1>4. StreamTypes'
    <2>1. work' \in [Streams -> Seq(Ops)]
      BY <1>3 DEF Pop, StreamTypes
    <2>2. ASSUME NEW t \in Streams PROVE done'[t] + Len(work'[t]) = enq'[t]
      <3>1. done[t] + Len(work[t]) = enq[t]
        BY DEF StreamTypes
      <3>2. CASE t = s
        <4>1. enq'[t] = enq[t] /\ done'[t] = done[t] + 1 /\ work'[t] = Tail(work[s])
          BY <3>2, <1>1
        <4>2. Len(work'[t]) = Len(work[t]) - 1 /\ Len(work[t]) \in Nat
          BY <3>2, <4>1, <1>3
        <4>3. done[t] \in Nat
          BY <3>2, <1>1
        <4>4. QED
          BY <4>1, <4>2, <4>3, <3>1
      <3>3. CASE t # s
        BY <3>1, <3>3, <1>1
      <3>4. QED
        BY <3>2, <3>3
    <2>3. QED
      BY <1>1, <2>1, <2>2 DEF StreamTypes
  <1>5. /\ \A t \in Streams : Pos(t)' = IF t = s THEN Pos(t) \ {done[s] + 1} ELSE Pos(t)
        /\ \A n \in Pos(s)' : done[s] + 1 < n
        /\ done[s] + 1 \in Pos(s)
    <2>1. ASSUME NEW t \in Streams, t # s PROVE Pos(t)' = Pos(t)
      BY <2>1, <1>1 DEF Pos
    <2>2. Pos(s)' = done[s] + 2 .. enq[s]
      BY <1>1 DEF Pos
    <2>3. Pos(s)' = Pos(s) \ {done[s] + 1}
      BY <2>2, <1>1 DEF Pos
    <2>4. \A n \in Pos(s)' : done[s] + 1 < n
      BY <2>2, <1>1
    <2>5. done[s] + 1 \in Pos(s)
      BY <1>1 DEF Pos
    <2>6. QED
      BY <2>1, <2>3, <2>4, <2>5
  <1>6. Head(work[s]) = Op(s, done[s] + 1)
    <2>1. (done[s] + 1) - done[s] = 1
      BY <1>1
    <2>2. Op(s, done[s] + 1) = work[s][(done[s] + 1) - done[s]]
      BY DEF Op
    <2>3. QED
      BY <2>1, <2>2, <1>3
  <1>7. ASSUME NEW t \in Streams, NEW n \in Pos(t)'
        PROVE  Op(t, n)' = Op(t, n)
    <2>1. CASE t # s
      BY <2>1, <1>1 DEF Op
    <2>2. CASE t = s
      <3>1. n - (done[s] + 1) \in 1 .. Len(work[s]) - 1
            /\ n - (done[s] + 1) + 1 = n - done[s]
        <4>1. n \in Nat /\ done[s] + 1 < n /\ n <= enq[s]
          BY <2>2, <1>1 DEF Pos
        <4>2. done[s] + Len(work[s]) = enq[s]
          BY DEF StreamTypes
        <4>3. QED
          BY <4>1, <4>2, <1>1, <1>3
      <3>2. Tail(work[s])[n - (done[s] + 1)] = work[s][n - done[s]]
        BY <3>1, <1>3
      <3>3. QED
        BY <3>2, <2>2, <1>1 DEF Op
    <2>3. QED
      BY <2>1, <2>2
  <1>8. QED
    BY <1>1, <1>4, <1>5, <1>6, <1>7

-----------------------------------------------------------------------------
(* Types *)

LEMMA OpFields ==
  ASSUME NEW op \in Ops
  PROVE  /\ op.kind \in {"write", "read", "copy", "wait"}
         /\ op.kind \in {"write", "read"} => op.at \in Tensors /\ op.value \in Nat
         /\ op.kind = "copy" => op.from \in Places /\ op.to \in Places /\ op.by \in Copies
         /\ op.kind = "wait" => op.by \in Copies
  BY DEF Ops

LEMMA JobFields ==
  ASSUME CopyTypes, NEW c \in Copies, pc[c] # "idle"
  PROVE  /\ job[c] \in Jobs
         /\ job[c].dir \in {"in", "out"} /\ job[c].path \in Paths
         /\ job[c].sync \in BOOLEAN /\ job[c].tensor \in Tensors
         /\ job[c].want \in Nat
  BY DEF CopyTypes, Jobs

\* The next operation of s is done: what the device makes of it.
LEMMA DeviceEffect ==
  ASSUME StreamTypes, NEW s \in Streams, Device(s)
  PROVE  LET op == Op(s, done[s] + 1) IN
         /\ Pop(s)
         /\ op \in Ops
         /\ \/ /\ op.kind = "write"
               /\ mem' = [mem EXCEPT ![op.at] = op.value]
               /\ stale' = stale
            \/ /\ op.kind = "read"
               /\ stale' = (stale \/ mem[op.at] # op.value)
               /\ mem' = mem
            \/ /\ op.kind = "copy"
               /\ mem' = [mem EXCEPT ![op.to] = Content(op.from)]
               /\ stale' = stale
            \/ /\ op.kind = "wait"
               /\ Passed(event[op.by].mark) \/ ~event[op.by].live
               /\ mem' = mem /\ stale' = stale
         /\ UNCHANGED <<programVars, copyVars, poolVars, calls, device>>
  <1>1. Pop(s)
    BY DEF Device, Pop
  <1>2. Head(work[s]) = Op(s, done[s] + 1) /\ done[s] + 1 \in Pos(s)
    BY <1>1, PopEffect
  <1>3. Op(s, done[s] + 1) \in Ops
    BY <1>2, PositionsTyped
  <1>4. QED
    BY <1>1, <1>2, <1>3 DEF Device, memVars

\* The operations that are enqueued.
CopyOp(c) ==
    IF job[c].dir = "in"
    THEN [kind |-> "copy", from |-> HostEnd(c), to |-> job[c].tensor, by |-> c]
    ELSE [kind |-> "copy", from |-> job[c].tensor, to |-> HostEnd(c), by |-> c]

WaitOp(c) == [kind |-> "wait", by |-> c]

LEMMA OpsTyped ==
  ASSUME Types
  PROVE  /\ \A x \in Tensors : [kind |-> "write", at |-> x, value |-> last + 1] \in Ops
         /\ \A x \in Tensors : [kind |-> "read", at |-> x, value |-> value[x]] \in Ops
         /\ \A c \in Copies : WaitOp(c) \in Ops
         /\ \A c \in Copies : pc[c] = "copy" /\ Ways => CopyOp(c) \in Ops
  <1>1. \A x \in Tensors : [kind |-> "write", at |-> x, value |-> last + 1] \in Ops
    BY DEF Types, ProgramTypes, Ops
  <1>2. \A x \in Tensors : [kind |-> "read", at |-> x, value |-> value[x]] \in Ops
    BY DEF Types, ProgramTypes, Ops
  <1>3. \A c \in Copies : WaitOp(c) \in Ops
    BY DEF WaitOp, Ops
  <1>4. ASSUME NEW c \in Copies, pc[c] = "copy", Ways PROVE CopyOp(c) \in Ops
    <2>1. job[c].tensor \in Places
      BY <1>4, JobFields DEF Types, Places
    <2>2. HostEnd(c) \in Places
      BY <1>4 DEF Types, CopyTypes, Ways, Way, HostEnd, Places
    <2>3. QED
      BY <2>1, <2>2 DEF CopyOp, Ops
  <1>5. QED
    BY <1>1, <1>2, <1>3, <1>4

LEMMA Puts ==
  /\ \A x : Launch(x) => Put(Compute, [kind |-> "write", at |-> x, value |-> last + 1])
  /\ \A x : Consume(x) => Put(Compute, [kind |-> "read", at |-> x, value |-> value[x]])
  /\ \A c : Wait(c) => Put(CopyStream(c), WaitOp(c))
  /\ \A c : Copy(c) => Put(CopyStream(c), CopyOp(c))
  <1>1. \A x : Launch(x) => Put(Compute, [kind |-> "write", at |-> x, value |-> last + 1])
    BY DEF Launch
  <1>2. QED
    BY <1>1 DEF Consume, Wait, WaitOp, Copy, CopyOp

Quiet == UNCHANGED <<enq, done, work>>

\* All other steps leave the streams alone.
LEMMA StreamMoves ==
  ASSUME [Next]_vars
  PROVE  \/ Quiet
         \/ \E x \in Tensors : Launch(x) \/ Consume(x)
         \/ \E s \in Streams : Device(s)
         \/ \E c \in Copies : Wait(c) \/ Copy(c)
  <1>1. CASE Kernels
    BY <1>1 DEF Kernels, Drop, Quiet, streamVars
  <1>2. CASE \E s \in Streams : Device(s)
    BY <1>2
  <1>3. CASE \E c \in Copies : Call(c)
    <2>1. \A c, j : Begin(c, j) => Quiet
      BY DEF Begin, Quiet, streamVars
    <2>2. QED
      BY <1>3, <2>1 DEF Call, CopyCPUTensorToDevice, CopyDeviceTensorToCPU
  <1>4. ASSUME NEW c \in Copies, Thread(c), ~Wait(c), ~Copy(c)
        PROVE  Quiet
    BY <1>4 DEF Thread, CopyNow, Allocate, AllocateFails, FreeBounce, FreeBounceNow,
                Record, RecordFails, WaitFails, Keep, CopyFails, Register, Quiet,
                streamVars
  <1>5. CASE \E f \in calls : EventMgr(f)
    BY <1>5 DEF EventMgr, DestroyEvent, EndCopy, Unstage, Quiet, streamVars
  <1>6. CASE Close \/ Destructor \/ Finished \/ UNCHANGED vars
    BY <1>6 DEF Close, Destructor, ReleaseContext, DeleteEventMgr, DeletePool,
                DeleteAllocators, Finished, Quiet, streamVars, vars
  <1>7. QED
    BY <1>1, <1>2, <1>3, <1>4, <1>5, <1>6 DEF Next

LEMMA StreamTypesStep == Types /\ Ways /\ [Next]_vars => StreamTypes'
  <1> SUFFICES ASSUME Types, Ways, [Next]_vars PROVE StreamTypes'
    OBVIOUS
  <1> USE DEF Types
  <1>1. CASE Quiet
    BY <1>1 DEF Quiet, StreamTypes
  <1>2. CASE \E x \in Tensors : Launch(x) \/ Consume(x)
    BY <1>2, Puts, OpsTyped, PutEffect, StreamNames
  <1>3. ASSUME NEW s \in Streams, Device(s) PROVE StreamTypes'
    BY <1>3, DeviceEffect, PopEffect
  <1>4. ASSUME NEW c \in Copies, Wait(c) PROVE StreamTypes'
    BY <1>4, Puts, OpsTyped, PutEffect, StreamNames
  <1>5. ASSUME NEW c \in Copies, Copy(c) PROVE StreamTypes'
    <2>1. pc[c] = "copy"
      BY <1>5 DEF Copy
    <2>2. QED
      BY <1>5, <2>1, Puts, OpsTyped, PutEffect, StreamNames
  <1>6. QED
    BY <1>1, <1>2, <1>3, <1>4, <1>5, StreamMoves

LEMMA ProgramTypesStep == Types /\ Ends /\ [Next]_vars => ProgramTypes'
  <1> SUFFICES ASSUME Types, Ends, [Next]_vars PROVE ProgramTypes'
    OBVIOUS
  <1> USE DEF ProgramTypes
  <1>p. /\ Tensors \subseteq Places /\ Blocks \subseteq Places /\ Copies \subseteq Places
        /\ ProgramTypes
    BY DEF Places, Types
  <1> DEFINE ReportTypes ==
                value' \in [Tensors -> Nat]
                /\ users' \in [Tensors -> SUBSET (Copies \cup {Program})]
  <1>r. ASSUME NEW c \in Copies, pc[c] # "idle", Report(c)
        PROVE  last' \in Nat /\ ReportTypes
    BY <1>p, <1>r, JobFields DEF Types, Report
  <1>f. ASSUME NEW c \in Copies, pc[c] # "idle", Fail(c)
        PROVE  last' \in Nat /\ ReportTypes
    BY <1>p, <1>f, JobFields DEF Types, Fail
  <1>g. ASSUME NEW c \in Copies, pc[c] # "idle", GiveUp(c)
        PROVE  last' \in Nat /\ ReportTypes
    BY <1>p, <1>f, <1>g DEF GiveUp, Synchronize, programVars
  <1> HIDE DEF ReportTypes
  <1>1. ASSUME NEW x \in Tensors, Launch(x) \/ Consume(x) \/ Drop(x)
        PROVE  ProgramTypes'
    BY <1>1, <1>p DEF Launch, Consume, Drop, memVars
  <1>2. ASSUME NEW s \in Streams, Device(s) PROVE ProgramTypes'
    <2> DEFINE op == Op(s, done[s] + 1)
    <2>1. op \in Ops /\ UNCHANGED programVars
      BY <1>2, DeviceEffect DEF Types
    <2>2. stale' \in BOOLEAN
      BY <1>p, <1>2, DeviceEffect DEF Types
    <2>3. Content(op.from) \in Nat \/ op.kind # "copy"
      BY <1>p, <2>1, OpFields DEF Content, Garbage
    <2>4. mem' \in [Places -> Nat]
      <3> HIDE DEF op
      <3>1. \/ mem' = [mem EXCEPT ![op.at] = op.value] /\ op.kind = "write"
            \/ mem' = [mem EXCEPT ![op.to] = Content(op.from)] /\ op.kind = "copy"
            \/ mem' = mem
        BY <1>2, DeviceEffect DEF Types, op
      <3>2. QED
        BY <3>1, <2>3, <2>1, <1>p, OpFields
    <2>5. QED
      BY <1>p, <2>1, <2>2, <2>4 DEF programVars
  <1>3. ASSUME NEW c \in Copies, NEW x \in Tensors, NEW path \in Paths,
               NEW sync \in BOOLEAN, CopyCPUTensorToDevice(c, x, path, sync)
        PROVE  ProgramTypes'
    BY <1>3, <1>p DEF CopyCPUTensorToDevice, Begin
  <1>4. ASSUME NEW c \in Copies, NEW x \in Tensors, NEW path \in Paths,
               CopyDeviceTensorToCPU(c, x, path)
        PROVE  ProgramTypes'
    BY <1>4, <1>p DEF CopyDeviceTensorToCPU, Begin
  <1>5. ASSUME NEW c \in Copies, CopyNow(c) PROVE ProgramTypes'
    <2>1. pc[c] # "idle" /\ stale' = stale
      BY <1>5 DEF CopyNow
    <2>2. mem' \in [Places -> Nat]
      BY <1>5, <1>p, <2>1, JobFields DEF CopyNow, Types
    <2>3. Report(c) \/ Fail(c)
      BY <1>5 DEF CopyNow
    <2>4. QED
      BY <2>1, <2>2, <2>3, <1>r, <1>f, <1>p DEF ReportTypes
  <1>6. ASSUME NEW c \in Copies, NEW b \in Blocks, Allocate(c, b)
        PROVE  ProgramTypes'
    BY <1>6, <1>p DEF Allocate, programVars
  <1>7. ASSUME NEW c \in Copies,
               \/ AllocateFails(c) \/ Record(c) \/ Wait(c) \/ Keep(c) \/ Register(c)
        PROVE  ProgramTypes'
    BY <1>7, <1>p DEF AllocateFails, Record, Wait, Keep, Register, memVars, programVars
  <1>8. ASSUME NEW c \in Copies,
               \/ FreeBounce(c) \/ FreeBounceNow(c) \/ RecordFails(c) \/ WaitFails(c)
               \/ Copy(c) \/ CopyFails(c)
        PROVE  ProgramTypes'
    <2>1. pc[c] # "idle" /\ UNCHANGED memVars
      BY <1>8 DEF FreeBounce, FreeBounceNow, RecordFails, WaitFails, Copy, CopyFails
    <2>2. Report(c) \/ Fail(c) \/ GiveUp(c) \/ UNCHANGED programVars
      BY <1>8 DEF FreeBounce, FreeBounceNow, RecordFails, WaitFails, Copy, CopyFails
    <2>3. QED
      BY <2>1, <2>2, <1>r, <1>f, <1>g, <1>p DEF ReportTypes, programVars, memVars
  <1>9. ASSUME NEW f \in calls, EventMgr(f) PROVE ProgramTypes'
    <2>1. CASE DestroyEvent(f)
      BY <2>1, <1>p DEF DestroyEvent, memVars, programVars
    <2>2. CASE EndCopy(f) \/ Unstage(f)
      <3>1. f.copy \in Copies /\ pc[f.copy] # "idle"
        BY <2>2, <1>9 DEF Types, OtherTypes, Calls, Ends, EndCopy, Unstage
      <3>2. CASE EndCopy(f)
        <4>1. Report(f.copy) /\ UNCHANGED memVars
          BY <3>2 DEF EndCopy
        <4>2. QED
          BY <4>1, <3>1, <1>r, <1>p DEF ReportTypes, memVars
      <3>3. CASE Unstage(f)
        BY <3>3, <3>1, <1>p DEF Unstage, Synchronize, programVars, Types, CopyTypes
      <3>4. QED
        BY <2>2, <3>2, <3>3
    <2>3. QED
      BY <1>9, <2>1, <2>2 DEF EventMgr
  <1>10. CASE Close \/ Destructor \/ Finished \/ UNCHANGED vars
    BY <1>10, <1>p DEF Close, Destructor, ReleaseContext, DeleteEventMgr, DeletePool,
                 DeleteAllocators, Finished, memVars, programVars, vars
  <1>11. QED
    BY <1>1, <1>2, <1>3, <1>4, <1>5, <1>6, <1>7, <1>8, <1>9, <1>10
       DEF Next, Kernels, Call, Thread

LEMMA MarksTyped ==
  ASSUME StreamTypes
  PROVE  /\ NoMark \in AnyMark /\ DeviceMark \in AnyMark
         /\ \A s \in Streams : StreamMark(s) \in AnyMark
         /\ \A s \in Streams : StreamMark(s)[s] = enq[s]
         /\ \A j : SyncMark(j) \in AnyMark
         /\ NoEvent \in [live : BOOLEAN, mark : AnyMark]
  <1>1. NoMark \in AnyMark /\ DeviceMark \in AnyMark
    BY DEF NoMark, DeviceMark, AnyMark, StreamTypes
  <1>2. \A s \in Streams : StreamMark(s) \in AnyMark /\ StreamMark(s)[s] = enq[s]
    BY DEF StreamMark, NoMark, AnyMark, StreamTypes
  <1>3. \A j : SyncMark(j) \in AnyMark
    BY <1>1, <1>2, StreamNames DEF SyncMark
  <1>4. NoEvent \in [live : BOOLEAN, mark : AnyMark]
    BY <1>1 DEF NoEvent
  <1>5. QED
    BY <1>1, <1>2, <1>3, <1>4

LEMMA FirstSteps ==
  ASSUME NEW j \in Jobs
  PROVE  /\ j.path \in {"bounce", "small", "pinned"}
         /\ FirstStep(j) \in {"alloc", "sync", "record", "copy"}
  <1>1. j.path \in {"bounce", "small", "pinned"}
    BY DeviceCopiesAssumption DEF Jobs
  <1>2. QED
    BY <1>1 DEF FirstStep, Asynchronous

LEMMA BeginTypes ==
  ASSUME Types, NEW c \in Copies, NEW j \in Jobs, Begin(c, j)
  PROVE  CopyTypes'
  <1>1. FirstStep(j) \in Steps \ {"idle"}
    BY FirstSteps DEF Steps
  <1>2. SyncMark(j) \in AnyMark /\ NoMark \in AnyMark
    BY MarksTyped DEF Types
  <1>3. CopyTypes /\ UNCHANGED <<block, event>>
    BY DEF Types, Begin
  <1>4. pc' \in [Copies -> Steps] /\ until' \in [Copies -> AnyMark]
        /\ job' \in [Copies -> Jobs \cup {NoJob}]
    BY <1>1, <1>2, <1>3 DEF Begin, CopyTypes
  <1>5. \A d \in Copies : pc'[d] # "idle" => job'[d] \in Jobs
    BY <1>1, <1>3 DEF Begin, CopyTypes
  <1>6. QED
    BY <1>3, <1>4, <1>5 DEF CopyTypes

LEMMA CallBegins ==
  ASSUME Types, NEW c \in Copies, Call(c)
  PROVE  /\ pc[c] = "idle" /\ device = "live"
         /\ \E j \in Jobs : Begin(c, j) /\ (j.dir = "out" => j.sync)
  <1>1. ASSUME NEW x \in Tensors, NEW path \in Paths, NEW sync \in BOOLEAN,
               CopyCPUTensorToDevice(c, x, path, sync)
        PROVE  \E j \in Jobs : Begin(c, j) /\ (j.dir = "out" => j.sync)
    <2> DEFINE j == [dir |-> "in", path |-> path, sync |-> sync, tensor |-> x,
                     want |-> last']
    <2>1. j \in Jobs /\ j.dir = "in"
      BY <1>1 DEF Types, ProgramTypes, CopyCPUTensorToDevice, Jobs
    <2>2. Begin(c, j)
      BY <1>1 DEF CopyCPUTensorToDevice
    <2>3. QED
      BY <2>1, <2>2
  <1>2. ASSUME NEW x \in Tensors, NEW path \in Paths, CopyDeviceTensorToCPU(c, x, path)
        PROVE  \E j \in Jobs : Begin(c, j) /\ (j.dir = "out" => j.sync)
    <2> DEFINE j == [dir |-> "out", path |-> path, sync |-> TRUE, tensor |-> x,
                     want |-> value[x]]
    <2>1. j \in Jobs /\ j.sync
      BY DEF Types, ProgramTypes, Jobs
    <2>2. Begin(c, j)
      BY <1>2 DEF CopyDeviceTensorToCPU
    <2>3. QED
      BY <2>1, <2>2
  <1>3. QED
    BY <1>1, <1>2 DEF Call, CopyCPUTensorToDevice, CopyDeviceTensorToCPU

LEMMA CopyTypesStep == Types /\ Ends /\ [Next]_vars => CopyTypes'
  <1> SUFFICES ASSUME Types, Ends, [Next]_vars PROVE CopyTypes'
    OBVIOUS
  <1>t. CopyTypes
    BY DEF Types
  <1>m. /\ NoMark \in AnyMark /\ DeviceMark \in AnyMark
        /\ \A s \in Streams : StreamMark(s) \in AnyMark
        /\ \A j : SyncMark(j) \in AnyMark
        /\ NoEvent \in [live : BOOLEAN, mark : AnyMark]
    BY MarksTyped DEF Types
  <1>1. CASE \/ Kernels \/ \E s \in Streams : Device(s)
             \/ Close \/ ReleaseContext \/ DeletePool \/ DeleteAllocators \/ Finished
             \/ UNCHANGED vars
    <2>1. UNCHANGED copyVars
      BY <1>1, DeviceEffect
         DEF Kernels, Launch, Consume, Drop, Close, ReleaseContext, DeletePool,
             DeleteAllocators, Finished, vars, copyVars, Types
    <2>2. QED
      BY <2>1, <1>t DEF copyVars, CopyTypes
  <1>2. ASSUME NEW c \in Copies, Call(c) PROVE CopyTypes'
    BY <1>2, CallBegins, BeginTypes
  <1>3. ASSUME NEW c \in Copies, Thread(c) PROVE CopyTypes'
    <2>0. pc[c] # "idle" /\ UNCHANGED job
      BY <1>3 DEF Thread, CopyNow, Allocate, AllocateFails, FreeBounce,
                  FreeBounceNow, Record, RecordFails, Wait, WaitFails, Keep, Copy,
                  CopyFails, Register
    <2>1. pc' \in [Copies -> Steps]
      <3>1. \E step \in Steps : pc' = [pc EXCEPT ![c] = step]
        BY <1>3 DEF Thread, CopyNow, Allocate, AllocateFails, FreeBounce,
                  FreeBounceNow, Record, RecordFails, Wait, WaitFails, Keep, Copy,
                  CopyFails, Register, Report, Fail, GiveUp, Synchronize,
                  Asynchronous, Steps
      <3>2. QED
        BY <3>1, <1>t DEF CopyTypes
    <2>2. \A d \in Copies : pc'[d] # "idle" => job'[d] \in Jobs
      <3>1. \A d \in Copies : d # c => pc'[d] = pc[d]
        BY <1>3, <1>t DEF Thread, CopyNow, Allocate, AllocateFails, FreeBounce,
                  FreeBounceNow, Record, RecordFails, Wait, WaitFails, Keep, Copy,
                  CopyFails, Register, Report, Fail, GiveUp, Synchronize, CopyTypes
      <3>2. QED
        BY <3>1, <2>0, <1>t DEF CopyTypes
    <2>3. block' \in [Copies -> Blocks \cup {Nobody}]
      BY <1>3, <1>t DEF Thread, CopyNow, Allocate, AllocateFails, FreeBounce,
                  FreeBounceNow, Record, RecordFails, Wait, WaitFails, Keep, Copy,
                  CopyFails, Register, CopyTypes
    <2>4. until' \in [Copies -> AnyMark]
      BY <1>3, <1>t, <1>m DEF Thread, CopyNow, Allocate, AllocateFails, FreeBounce,
                  FreeBounceNow, Record, RecordFails, Wait, WaitFails, Keep, Copy,
                  CopyFails, Register, GiveUp, Synchronize, CopyTypes
    <2>5. event' \in [Copies -> [live : BOOLEAN, mark : AnyMark]]
      <3> DEFINE recorded == [live |-> TRUE, mark |-> StreamMark(Compute)]
      <3>1. \/ event' = event
            \/ event' = [event EXCEPT ![c] = NoEvent]
            \/ event' = [event EXCEPT ![c] = recorded]
        BY <1>3 DEF Thread, CopyNow, Allocate, AllocateFails, FreeBounce,
                  FreeBounceNow, Record, RecordFails, Wait, WaitFails, Keep, Copy,
                  CopyFails, Register
      <3>2. recorded \in [live : BOOLEAN, mark : AnyMark]
        BY <1>m, StreamNames
      <3>3. QED
        BY <3>1, <3>2, <1>t, <1>m DEF CopyTypes
    <2>6. QED
      BY <2>0, <2>1, <2>2, <2>3, <2>4, <2>5, <1>t DEF CopyTypes
  <1>4. ASSUME NEW f \in calls, EventMgr(f) PROVE CopyTypes'
    <2>1. f.copy \in Copies
      BY DEF Types, OtherTypes, Calls
    <2>2. CASE DestroyEvent(f)
      BY <2>1, <2>2, <1>t, <1>m DEF DestroyEvent, CopyTypes
    <2>3. CASE EndCopy(f)
      BY <2>1, <2>3, <1>t DEF EndCopy, Report, CopyTypes, Steps, Ends
    <2>4. CASE Unstage(f)
      BY <2>1, <2>4, <1>t, <1>m DEF Unstage, Synchronize, CopyTypes, Steps, Ends
    <2>5. QED
      BY <1>4, <2>2, <2>3, <2>4 DEF EventMgr
  <1>5. CASE DeleteEventMgr
    BY <1>5, <1>t, <1>m DEF DeleteEventMgr, CopyTypes
  <1>6. QED
    BY <1>1, <1>2, <1>3, <1>4, <1>5 DEF Next, Destructor

LEMMA OtherTypesStep == Types /\ Ends /\ Ways /\ [Next]_vars => OtherTypes'
  <1> SUFFICES ASSUME Types, Ends, Ways, [Next]_vars PROVE OtherTypes'
    OBVIOUS
  <1>t. OtherTypes
    BY DEF Types
  <1>m. /\ NoMark \in AnyMark
        /\ \A s \in Streams : StreamMark(s) \in AnyMark
    BY MarksTyped DEF Types
  <1>1. CASE \/ Kernels \/ \E s \in Streams : Device(s)
             \/ \E c \in Copies : Call(c)
             \/ Close \/ Destructor \/ Finished \/ UNCHANGED vars
    <2>1. \/ UNCHANGED <<owner, freed, calls, device>>
          \/ UNCHANGED <<owner, freed>> /\ calls' \subseteq calls /\ device' \in Stages
      <3>1. CASE \/ Close \/ Destructor \/ Finished \/ UNCHANGED vars
        BY <3>1 DEF Close, Destructor, ReleaseContext, DeleteEventMgr, DeletePool,
                    DeleteAllocators, Finished, vars, poolVars, Stages
      <3>2. CASE Kernels
        BY <3>2 DEF Kernels, Launch, Consume, Drop, poolVars
      <3>3. CASE \E s \in Streams : Device(s)
        BY <3>3, DeviceEffect DEF poolVars, Types
      <3>4. CASE \E c \in Copies : Call(c)
        <4>1. \A c, j : Begin(c, j) => UNCHANGED <<owner, freed, calls, device>>
          BY DEF Begin, poolVars
        <4>2. QED
          BY <3>4, <4>1 DEF Call, CopyCPUTensorToDevice, CopyDeviceTensorToCPU
      <3>5. QED
        BY <1>1, <3>1, <3>2, <3>3, <3>4
    <2>2. QED
      BY <2>1, <1>t DEF OtherTypes
  <1>2. ASSUME NEW c \in Copies, Thread(c) PROVE OtherTypes'
    <2>1. device' = device
      BY <1>2 DEF Thread, CopyNow, Allocate, AllocateFails, FreeBounce,
                  FreeBounceNow, Record, RecordFails, Wait, WaitFails, Keep, Copy,
                  CopyFails, Register
    <2>2. owner' \in [Blocks -> Copies \cup {Nobody}]
      BY <1>2, <1>t DEF Thread, CopyNow, Allocate, AllocateFails, FreeBounce,
                  FreeBounceNow, Record, RecordFails, Wait, WaitFails, Keep, Copy,
                  CopyFails, Register, poolVars, OtherTypes
    <2>3. freed' \in [Blocks -> AnyMark]
      BY <1>2, <1>t, <1>m, StreamNames DEF Thread, CopyNow, Allocate, AllocateFails, FreeBounce,
                  FreeBounceNow, Record, RecordFails, Wait, WaitFails, Keep, Copy,
                  CopyFails, Register, poolVars, OtherTypes
    <2>4. calls' \subseteq Calls
      <3>1. \A m \in CallMarks(c) : m \in AnyMark
        BY <1>m, StreamNames DEF CallMarks
      <3>2. \/ calls' = calls
            \/ \E m \in CallMarks(c), w \in {"destroy", "end"} :
                  calls' = calls \cup {[copy |-> c, what |-> w, mark |-> m]}
        BY <1>2 DEF Thread, CopyNow, Allocate, AllocateFails, FreeBounce,
                  FreeBounceNow, Record, RecordFails, Wait, WaitFails, Keep, Copy,
                  CopyFails, Register
      <3>3. QED
        BY <3>1, <3>2, <1>t DEF OtherTypes, Calls
    <2>5. QED
      BY <2>1, <2>2, <2>3, <2>4, <1>t DEF OtherTypes
  <1>3. ASSUME NEW f \in calls, EventMgr(f) PROVE OtherTypes'
    BY <1>3, <1>t DEF EventMgr, DestroyEvent, EndCopy, Unstage, poolVars, OtherTypes
  <1>4. QED
    BY <1>1, <1>2, <1>3 DEF Next

-----------------------------------------------------------------------------
(* Copies move one at a time *)

\* A step of copy c.
Own(c) == Call(c) \/ Thread(c) \/ \E f \in calls : f.copy = c /\ EventMgr(f)

LEMMA OthersStay ==
  ASSUME Types, [Next]_vars, NEW c \in Copies, ~Own(c)
  PROVE  /\ pc'[c] = pc[c] /\ job'[c] = job[c] /\ block'[c] = block[c]
         /\ until'[c] = until[c]
         /\ DeleteEventMgr \/ event'[c] = event[c]
  <1> DEFINE Stays == /\ pc'[c] = pc[c] /\ job'[c] = job[c] /\ block'[c] = block[c]
                      /\ until'[c] = until[c]
                      /\ event'[c] = event[c]
  <1>t. /\ pc \in [Copies -> Steps] /\ job \in [Copies -> Jobs \cup {NoJob}]
        /\ block \in [Copies -> Blocks \cup {Nobody}]
        /\ until \in [Copies -> AnyMark]
        /\ event \in [Copies -> [live : BOOLEAN, mark : AnyMark]]
    BY DEF Types, CopyTypes
  <1>1. CASE \/ Kernels \/ \E s \in Streams : Device(s)
             \/ Close \/ ReleaseContext \/ DeletePool \/ DeleteAllocators \/ Finished
             \/ UNCHANGED vars
    <2>1. UNCHANGED copyVars
      BY <1>1, DeviceEffect
         DEF Kernels, Launch, Consume, Drop, Close, ReleaseContext, DeletePool,
             DeleteAllocators, Finished, vars, copyVars, Types
    <2>2. QED
      BY <2>1 DEF copyVars
  <1>2. CASE DeleteEventMgr
    BY <1>2 DEF DeleteEventMgr
  <1>3. ASSUME NEW d \in Copies, Call(d) PROVE Stays
    <2>1. d # c
      BY <1>3 DEF Own
    <2>2. \A j : Begin(d, j) => Stays
      BY <1>t, <2>1 DEF Begin
    <2>3. QED
      BY <1>3, <2>2 DEF Call, CopyCPUTensorToDevice, CopyDeviceTensorToCPU
  <1>4. ASSUME NEW d \in Copies, Thread(d) PROVE Stays
    <2>1. d # c
      BY <1>4 DEF Own
    <2>2. job' = job
      BY <1>4 DEF Thread, CopyNow, Allocate, AllocateFails, FreeBounce,
                FreeBounceNow, Record, RecordFails, Wait, WaitFails, Keep, Copy,
                CopyFails, Register
    <2>3. pc'[c] = pc[c] /\ until'[c] = until[c]
      BY <1>4, <1>t, <2>1
         DEF Thread, CopyNow, Allocate, AllocateFails, FreeBounce,
             FreeBounceNow, Record, RecordFails, Wait, WaitFails, Keep, Copy,
             CopyFails, Register, Report, Fail, GiveUp, Synchronize
    <2>4. block'[c] = block[c] /\ event'[c] = event[c]
      BY <1>4, <1>t, <2>1
         DEF Thread, CopyNow, Allocate, AllocateFails, FreeBounce,
             FreeBounceNow, Record, RecordFails, Wait, WaitFails, Keep, Copy,
             CopyFails, Register
    <2>5. QED
      BY <2>2, <2>3, <2>4
  <1>5. ASSUME NEW f \in calls, EventMgr(f) PROVE Stays
    <2>1. f.copy # c
      BY <1>5 DEF Own
    <2>2. QED
      BY <1>5, <1>t, <2>1
         DEF EventMgr, DestroyEvent, EndCopy, Unstage, Report, Synchronize
  <1>6. QED
    BY <1>1, <1>2, <1>3, <1>4, <1>5 DEF Next, Destructor

\* What c's own step leaves of its job and makes of its block.
LEMMA OwnJob ==
  ASSUME Types, Ends, NEW c \in Copies, Own(c)
  PROVE  pc[c] # "idle" => pc'[c] # "idle" /\ job'[c] = job[c]
  <1>t. /\ pc \in [Copies -> Steps] /\ job \in [Copies -> Jobs \cup {NoJob}]
    BY DEF Types, CopyTypes
  <1>1. CASE Call(c)
    BY <1>1, <1>t, CallBegins, FirstSteps DEF Begin
  <1>2. CASE Thread(c)
    BY <1>2, <1>t DEF Thread, CopyNow, Allocate, AllocateFails, FreeBounce,
                FreeBounceNow, Record, RecordFails, Wait, WaitFails, Keep, Copy,
                CopyFails, Register, Report, Fail, GiveUp, Synchronize, Asynchronous
  <1>3. CASE \E f \in calls : f.copy = c /\ EventMgr(f)
    <2>1. pc'[c] = pc[c] \/ pc'[c] \in {"ok", "unstage"}
      BY <1>3, <1>t DEF EventMgr, DestroyEvent, EndCopy, Unstage, Report, Synchronize
    <2>2. job' = job
      BY <1>3 DEF EventMgr, DestroyEvent, EndCopy, Unstage
    <2>3. QED
      BY <2>1, <2>2
  <1>4. QED
    BY <1>1, <1>2, <1>3 DEF Own

-----------------------------------------------------------------------------
(* Ways and blocks *)

LEMMA OwnWay ==
  ASSUME Types, Ends, NEW c \in Copies, Way(c), Own(c)
  PROVE  Way(c)'
  <1>t. /\ pc \in [Copies -> Steps] /\ job \in [Copies -> Jobs \cup {NoJob}]
        /\ block \in [Copies -> Blocks \cup {Nobody}]
    BY DEF Types, CopyTypes
  <1>1. CASE Call(c)
    <2>1. PICK j \in Jobs : Begin(c, j) /\ (j.dir = "out" => j.sync)
      BY <1>1, CallBegins
    <2>2. /\ job'[c] = j /\ pc'[c] = FirstStep(j) /\ block' = block
          /\ pc[c] = "idle" /\ block[c] = Nobody
      BY <1>1, <2>1, <1>t, CallBegins DEF Begin, Way
    <2>3. /\ FirstStep(j) = "alloc" => j.path = "bounce"
          /\ FirstStep(j) = "record" => j.path = "pinned" /\ Waits(j)
          /\ FirstStep(j) = "copy" => j.path = "pinned"
          /\ FirstStep(j) \in {"alloc", "sync", "record", "copy"}
      BY FirstSteps DEF FirstStep, Asynchronous
    <2>4. QED
      BY <2>1, <2>2, <2>3 DEF Way
  <1>2. CASE Thread(c)
    <2>1. job' = job /\ pc[c] # "idle"
      BY <1>2 DEF Thread, CopyNow, Allocate, AllocateFails, FreeBounce, FreeBounceNow,
                  Record, RecordFails, Wait, WaitFails, Keep, Copy, CopyFails, Register
    <2>2. OnCompute(c)' = OnCompute(c)
      BY <2>1 DEF OnCompute
    <2>3. CASE CopyNow(c) \/ AllocateFails(c)
      BY <2>3, <2>1, <1>t DEF CopyNow, AllocateFails, Report, Fail, Way
    <2>4. ASSUME NEW b \in Blocks, Allocate(c, b) PROVE Way(c)'
      <3>1. /\ pc[c] = "alloc" /\ job[c].path = "bounce"
            /\ block'[c] = b /\ b # Nobody
            /\ pc'[c] = IF Waits(job[c]) THEN "record" ELSE "copy"
        BY <2>4, <1>t, DeviceCopiesAssumption DEF Allocate, Asynchronous, Way
      <3>2. QED
        BY <3>1, <2>1 DEF Way
    <2>5. CASE FreeBounce(c) \/ FreeBounceNow(c)
      BY <2>5, <2>1, <2>2, <1>t DEF FreeBounce, FreeBounceNow, Report, Fail, Way
    <2>6. CASE Record(c) \/ Wait(c) \/ Keep(c) \/ Register(c)
      BY <2>6, <2>1, <2>2, <1>t DEF Record, Wait, Keep, Register, Way
    <2>7. CASE RecordFails(c) \/ WaitFails(c)
      BY <2>7, <2>1, <1>t DEF RecordFails, WaitFails, GiveUp, Synchronize, Fail, Way
    <2>8. CASE Copy(c)
      <3>1. job[c].path \in {"bounce", "small", "pinned"}
        BY <2>1, FirstSteps, JobFields DEF Types
      <3>2. QED
        BY <2>8, <3>1, <2>1, <2>2, <1>t DEF Copy, Report, Way, OnCompute
    <2>9. CASE CopyFails(c)
      BY <2>9, <2>1, <1>t DEF CopyFails, GiveUp, Synchronize, Fail, Way
    <2>10. QED
      BY <1>2, <2>3, <2>4, <2>5, <2>6, <2>7, <2>8, <2>9 DEF Thread
  <1>3. ASSUME NEW f \in calls, f.copy = c, EventMgr(f) PROVE Way(c)'
    <2>1. UNCHANGED <<job, block>>
      BY <1>3 DEF EventMgr, DestroyEvent, EndCopy, Unstage
    <2>2. OnCompute(c)' = OnCompute(c)
      BY <2>1 DEF OnCompute
    <2>3. CASE DestroyEvent(f)
      BY <2>1, <2>2, <2>3 DEF DestroyEvent, Way
    <2>4. CASE EndCopy(f)
      BY <1>3, <2>1, <2>4, <1>t DEF EndCopy, Report, Way, Ends
    <2>5. CASE Unstage(f)
      BY <1>3, <2>1, <2>5, <1>t DEF Unstage, Synchronize, Way, Ends
    <2>6. QED
      BY <1>3, <2>3, <2>4, <2>5 DEF EventMgr
  <1>4. QED
    BY <1>1, <1>2, <1>3 DEF Own

LEMMA WaysStep == Types /\ Ends /\ Ways /\ [Next]_vars => Ways'
  <1> SUFFICES ASSUME Types, Ends, Ways, [Next]_vars, NEW c \in Copies
               PROVE  Way(c)'
    BY DEF Ways
  <1>1. CASE Own(c)
    BY <1>1, OwnWay DEF Ways
  <1>2. CASE ~Own(c)
    <2>1. pc'[c] = pc[c] /\ job'[c] = job[c] /\ block'[c] = block[c]
      BY <1>2, OthersStay
    <2>2. OnCompute(c)' = OnCompute(c)
      BY <2>1 DEF OnCompute
    <2>3. QED
      BY <2>1, <2>2 DEF Ways, Way
  <1>3. QED
    BY <1>1, <1>2

\* Blocks are handed out and given back.
LEMMA OwnerMoves ==
  ASSUME Types, Ends, [Next]_vars
  PROVE  \/ UNCHANGED <<owner, block, freed>>
         \/ \E c \in Copies, b \in Blocks : Allocate(c, b)
         \/ \E c \in Copies : FreeBounce(c) \/ FreeBounceNow(c)
         \/ \E c \in Copies : CopyFails(c)
  <1>1. CASE \/ Kernels \/ \E s \in Streams : Device(s)
             \/ Close \/ Destructor \/ Finished \/ UNCHANGED vars
    BY <1>1, DeviceEffect
       DEF Kernels, Launch, Consume, Drop, Close, Destructor, ReleaseContext,
           DeleteEventMgr, DeletePool, DeleteAllocators, Finished, vars,
           copyVars, poolVars, Types
  <1>2. CASE \E c \in Copies : Call(c)
    BY <1>2, CallBegins DEF Begin, poolVars
  <1>3. ASSUME NEW c \in Copies, Thread(c), ~CopyFails(c), ~FreeBounce(c),
               ~FreeBounceNow(c), \A b \in Blocks : ~Allocate(c, b)
        PROVE  UNCHANGED <<owner, block, freed>>
    BY <1>3 DEF Thread, CopyNow, AllocateFails, Record, RecordFails, Wait, WaitFails,
                Keep, Copy, Register, poolVars
  <1>4. CASE \E f \in calls : EventMgr(f)
    BY <1>4 DEF EventMgr, DestroyEvent, EndCopy, Unstage, poolVars
  <1>5. QED
    BY <1>1, <1>2, <1>3, <1>4 DEF Next

LEMMA OwnersStep == Types /\ Ends /\ Ways /\ Owners /\ [Next]_vars => Owners'
  <1> SUFFICES ASSUME Types, Ends, Ways, Owners, [Next]_vars PROVE Owners'
    OBVIOUS
  <1>t. /\ block \in [Copies -> Blocks \cup {Nobody}]
        /\ owner \in [Blocks -> Copies \cup {Nobody}]
        /\ Nobody \notin Copies \cup Blocks
    BY DeviceCopiesAssumption DEF Types, CopyTypes, OtherTypes
  <1>1. CASE UNCHANGED <<owner, block, freed>>
    BY <1>1 DEF Owners
  <1>2. ASSUME NEW c \in Copies, NEW b \in Blocks, Allocate(c, b) PROVE Owners'
    <2>1. block[c] = Nobody /\ owner[b] = Nobody
      BY <1>2 DEF Allocate, Available, Ways, Way
    <2>2. QED
      BY <1>2, <1>t, <2>1 DEF Allocate, Owners
  <1>3. ASSUME NEW c \in Copies, FreeBounce(c) \/ FreeBounceNow(c) PROVE Owners'
    <2>1. /\ owner' = [owner EXCEPT ![block[c]] = Nobody]
          /\ block' = [block EXCEPT ![c] = Nobody]
          /\ block[c] # Nobody
      BY <1>3 DEF FreeBounce, FreeBounceNow, Ways, Way
    <2>2. QED
      BY <1>t, <2>1 DEF Owners
  <1>4. ASSUME NEW c \in Copies, CopyFails(c) PROVE Owners'
    <2>1. \/ UNCHANGED <<owner, block>>
          \/ /\ owner' = [b \in Blocks |-> IF b = block[c] THEN Nobody ELSE owner[b]]
             /\ block' = [block EXCEPT ![c] = Nobody]
      BY <1>4 DEF CopyFails
    <2>2. QED
      BY <1>t, <2>1 DEF Owners
  <1>5. QED
    BY <1>1, <1>2, <1>3, <1>4, OwnerMoves

-----------------------------------------------------------------------------
(* Operations and the copies they belong to *)

\* The steps at which a copy may have a copy operation, and those at which its
\* stream may have a wait, are never left.
LEMMA Forward ==
  ASSUME Types, Ends, Ways, [Next]_vars, NEW c \in Copies
  PROVE  /\ pc[c] # "idle" => pc'[c] # "idle" /\ job'[c] = job[c]
         /\ pc[c] \in {"free", "register", "pending", "unstage", "ok"} =>
             /\ pc'[c] \in {"free", "register", "pending", "unstage", "ok"}
             /\ job[c].dir = "out" /\ pc'[c] # "ok" => block'[c] = block[c]
         /\ pc[c] \notin {"idle", "alloc", "sync", "record", "wait"} =>
             pc'[c] \notin {"idle", "alloc", "sync", "record", "wait"}
         /\ pc[c] \notin {"idle", "alloc", "sync", "record", "wait", "keep"} =>
             pc'[c] \notin {"idle", "alloc", "sync", "record", "wait", "keep"}
         /\ pc[c] \in {"ok", "failed"} => pc'[c] = pc[c]
  <1>t. /\ pc \in [Copies -> Steps] /\ job \in [Copies -> Jobs \cup {NoJob}]
        /\ block \in [Copies -> Blocks \cup {Nobody}]
    BY DEF Types, CopyTypes
  <1>1. CASE ~Own(c)
    BY <1>1, OthersStay
  <1>2. CASE Call(c)
    BY <1>2, CallBegins
  <1>3. CASE Thread(c)
    <2>1. pc[c] # "idle" => pc'[c] # "idle" /\ job'[c] = job[c]
      BY <1>3, OwnJob DEF Own
    <2>2. CASE CopyNow(c) \/ AllocateFails(c) \/ (\E b \in Blocks : Allocate(c, b))
      BY <2>2, <2>1 DEF CopyNow, AllocateFails, Allocate
    <2>3. CASE FreeBounce(c) \/ FreeBounceNow(c)
      BY <2>3, <2>1, <1>t DEF FreeBounce, FreeBounceNow, Report, Fail, Ways, Way
    <2>4. CASE Record(c) \/ RecordFails(c) \/ Wait(c) \/ WaitFails(c) \/ Keep(c)
      BY <2>4, <2>1, <1>t DEF Record, RecordFails, Wait, WaitFails, Keep
    <2>5. CASE Copy(c) \/ CopyFails(c) \/ Register(c)
      BY <2>5, <2>1, <1>t DEF Copy, CopyFails, Register, Report, Fail, GiveUp,
                              Synchronize
    <2>6. QED
      BY <1>3, <2>2, <2>3, <2>4, <2>5 DEF Thread
  <1>4. ASSUME NEW f \in calls, f.copy = c, EventMgr(f)
        PROVE  /\ \/ pc'[c] = pc[c]
                  \/ pc[c] = "pending" /\ pc'[c] \in {"ok", "unstage"}
               /\ UNCHANGED <<job, block>>
    <2>1. UNCHANGED <<job, block>>
      BY <1>4 DEF EventMgr, DestroyEvent, EndCopy, Unstage
    <2>2. f.what = "end" => pc[c] = "pending"
      BY <1>4 DEF Ends
    <2>3. \/ pc' = pc
          \/ f.what = "end" /\ pc' = [pc EXCEPT ![c] = "ok"]
          \/ f.what = "end" /\ pc' = [pc EXCEPT ![c] = "unstage"]
      BY <1>4 DEF EventMgr, DestroyEvent, EndCopy, Unstage, Report, Synchronize
    <2>4. \A step : pc' = [pc EXCEPT ![c] = step] => pc'[c] = step
      BY <1>t
    <2>5. QED
      BY <2>1, <2>2, <2>3, <2>4
  <1>5. QED
    BY <1>1, <1>2, <1>3, <1>4 DEF Own

LEMMA MatchKept ==
  ASSUME Types, Ends, Ways, [Next]_vars, NEW s \in Streams, NEW op \in Ops, Match(s, op)
  PROVE  Match(s, op)'
  <1>1. CASE op.kind \in {"write", "read"}
    BY <1>1 DEF Match
  <1>2. CASE op.kind = "copy"
    <2> DEFINE c == op.by
    <2>1. c \in Copies
      BY <1>2, OpFields
    <2>2. pc[c] \in {"free", "register", "pending", "unstage", "ok"}
      BY <1>2 DEF Match
    <2> HIDE DEF c
    <2>3. job'[c] = job[c] /\ CopyStream(c)' = CopyStream(c)
      BY <2>1, <2>2, Forward DEF CopyStream, OnCompute
    <2>4. /\ pc'[c] \in {"free", "register", "pending", "unstage", "ok"}
          /\ job[c].dir = "out" /\ pc'[c] # "ok" => HostEnd(c)' = HostEnd(c)
      BY <2>1, <2>2, <2>3, Forward DEF HostEnd
    <2>5. pc'[c] # "ok" => pc[c] # "ok"
      BY <2>1, Forward
    <2>6. QED
      BY <1>2, <2>3, <2>4, <2>5 DEF Match, c
  <1>3. CASE op.kind = "wait"
    <2> DEFINE c == op.by
    <2>1. c \in Copies
      BY <1>3, OpFields
    <2>2. pc[c] \notin {"idle", "alloc", "sync", "record", "wait"}
      BY <1>3 DEF Match
    <2> HIDE DEF c
    <2>3. job'[c] = job[c] /\ CopyStream(c)' = CopyStream(c)
      BY <2>1, <2>2, Forward DEF CopyStream, OnCompute
    <2>4. pc'[c] \notin {"idle", "alloc", "sync", "record", "wait"}
      BY <2>1, <2>2, Forward
    <2>5. QED
      BY <1>3, <2>3, <2>4 DEF Match, c
  <1>4. QED
    BY <1>1, <1>2, <1>3, OpFields

\* A conjunct about single operations is kept by the operations that stay, so
\* only the new one counts.
LEMMA OpsMatchStep == Types /\ Ends /\ Ways /\ OpsMatch /\ [Next]_vars => OpsMatch'
  <1> SUFFICES ASSUME Types, Ends, Ways, OpsMatch, [Next]_vars PROVE OpsMatch'
    OBVIOUS
  <1>k. ASSUME NEW s \in Streams, NEW n \in Pos(s), Op(s, n)' = Op(s, n)
        PROVE  Match(s, Op(s, n))'
    <2>1. Op(s, n) \in Ops /\ Match(s, Op(s, n))
      BY PositionsTyped DEF Types, OpsMatch
    <2>2. ASSUME NEW op \in Ops, op = Op(s, n) PROVE Match(s, op)'
      BY <2>1, <2>2, MatchKept
    <2>3. QED
      BY <1>k, <2>1, <2>2 DEF Match
  <1>n. ASSUME NEW s \in Streams, NEW op \in Ops, Put(s, op), Match(s, op)'
        PROVE  OpsMatch'
    <2> SUFFICES ASSUME NEW t \in Streams, NEW n \in Pos(t)'
                 PROVE  Match(t, Op(t, n))'
      BY DEF OpsMatch
    <2>1. CASE n \in Pos(t)
      BY <2>1, <1>n, <1>k, PutEffect DEF Types
    <2>2. CASE n \notin Pos(t)
      <3>1. t = s /\ n = enq[s] + 1
        BY <2>2, <1>n, PutEffect DEF Types
      <3>2. Op(t, n)' = op
        BY <3>1, <1>n, PutEffect DEF Types
      <3>3. QED
        BY <3>1, <3>2, <1>n DEF Match
    <2>3. QED
      BY <2>1, <2>2
  <1>1. CASE Quiet
    BY <1>1, <1>k DEF Quiet, OpsMatch, Pos, Op
  <1>2. ASSUME NEW s \in Streams, Device(s) PROVE OpsMatch'
    BY <1>2, <1>k, DeviceEffect, PopEffect DEF OpsMatch, Types
  <1>3. ASSUME NEW x \in Tensors, Launch(x) PROVE OpsMatch'
    <2> DEFINE op == [kind |-> "write", at |-> x, value |-> last + 1]
    <2>1. op \in Ops /\ Put(Compute, op)
      BY <1>3, Puts, OpsTyped
    <2>2. ASSUME NEW o \in Ops, o = op PROVE Match(Compute, o)'
      BY <2>2 DEF Match
    <2>3. QED
      BY <2>1, <2>2, <1>n, StreamNames
  <1>4. ASSUME NEW x \in Tensors, Consume(x) PROVE OpsMatch'
    <2> DEFINE op == [kind |-> "read", at |-> x, value |-> value[x]]
    <2>1. op \in Ops /\ Put(Compute, op)
      BY <1>4, Puts, OpsTyped
    <2>2. ASSUME NEW o \in Ops, o = op PROVE Match(Compute, o)'
      BY <2>2 DEF Match
    <2>3. QED
      BY <2>1, <2>2, <1>n, StreamNames
  <1>5. ASSUME NEW c \in Copies, Wait(c) PROVE OpsMatch'
    <2> DEFINE op == WaitOp(c)
    <2>1. op \in Ops /\ Put(CopyStream(c), op)
      BY <1>5, Puts, OpsTyped
    <2>2. CopyStream(c)' = CopyStream(c) /\ pc'[c] = "keep"
      BY <1>5 DEF Wait, CopyStream, OnCompute, Types, CopyTypes
    <2>3. ASSUME NEW o \in Ops, o = op, NEW s, s = CopyStream(c) PROVE Match(s, o)'
      BY <2>2, <2>3 DEF Match, WaitOp
    <2>4. QED
      BY <2>1, <2>3, <1>n, StreamNames
  <1>6. ASSUME NEW c \in Copies, Copy(c) PROVE OpsMatch'
    <2> DEFINE op == CopyOp(c)
    <2>0. pc[c] = "copy"
      BY <1>6 DEF Copy
    <2>1. op \in Ops /\ Put(CopyStream(c), op)
      BY <1>6, <2>0, Puts, OpsTyped
    <2>2. /\ job' = job /\ block' = block
          /\ CopyStream(c)' = CopyStream(c) /\ HostEnd(c)' = HostEnd(c)
          /\ pc'[c] \in {"free", "register", "ok"}
      BY <1>6 DEF Copy, Report, CopyStream, OnCompute, HostEnd, Types, CopyTypes
    <2>3. /\ job[c].path # "small" /\ job[c].dir \in {"in", "out"}
          /\ IF job[c].path = "bounce" THEN HostEnd(c) \in Blocks ELSE HostEnd(c) = c
      BY <2>0, JobFields DEF Types, CopyTypes, Ways, Way, HostEnd
    <2>4. ASSUME NEW o \in Ops, o = op, NEW s, s = CopyStream(c) PROVE Match(s, o)'
      BY <2>2, <2>3, <2>4 DEF Match, CopyOp
    <2>5. QED
      BY <2>1, <2>4, <1>n, StreamNames
  <1>7. QED
    BY <1>1, <1>2, <1>3, <1>4, <1>5, <1>6, StreamMoves

\* Every operation of a stream was there before the step, or is what the step
\* put there.
LEMMA Enqueued ==
  ASSUME Types, Ways, [Next]_vars, NEW s \in Streams, NEW n \in Pos(s)'
  PROVE  \/ n \in Pos(s) /\ Op(s, n)' = Op(s, n)
         \/ /\ n = enq[s] + 1 /\ n \notin Pos(s)
            /\ \/ \E x \in Tensors :
                   /\ Launch(x) /\ s = Compute
                   /\ Op(s, n)' = [kind |-> "write", at |-> x, value |-> last + 1]
               \/ \E x \in Tensors :
                   /\ Consume(x) /\ s = Compute
                   /\ Op(s, n)' = [kind |-> "read", at |-> x, value |-> value[x]]
               \/ \E c \in Copies :
                   /\ Wait(c) /\ s = CopyStream(c) /\ Op(s, n)' = WaitOp(c)
               \/ \E c \in Copies :
                   /\ Copy(c) /\ s = CopyStream(c) /\ Op(s, n)' = CopyOp(c)
  <1>1. CASE Quiet
    BY <1>1 DEF Quiet, Pos, Op
  <1>2. ASSUME NEW t \in Streams, Device(t)
        PROVE  n \in Pos(s) /\ Op(s, n)' = Op(s, n)
    BY <1>2, DeviceEffect, PopEffect DEF Types
  <1>3. ASSUME NEW x \in Tensors, Launch(x), ~(n \in Pos(s) /\ Op(s, n)' = Op(s, n))
        PROVE  /\ n = enq[s] + 1 /\ n \notin Pos(s) /\ s = Compute
               /\ Op(s, n)' = [kind |-> "write", at |-> x, value |-> last + 1]
    <2> DEFINE op == [kind |-> "write", at |-> x, value |-> last + 1]
    <2>1. op \in Ops /\ Put(Compute, op)
      BY <1>3, Puts, OpsTyped
    <2> HIDE DEF op
    <2>2. QED
      BY <2>1, <1>3, PutEffect, StreamNames DEF Types, op
  <1>4. ASSUME NEW x \in Tensors, Consume(x), ~(n \in Pos(s) /\ Op(s, n)' = Op(s, n))
        PROVE  /\ n = enq[s] + 1 /\ n \notin Pos(s) /\ s = Compute
               /\ Op(s, n)' = [kind |-> "read", at |-> x, value |-> value[x]]
    <2> DEFINE op == [kind |-> "read", at |-> x, value |-> value[x]]
    <2>1. op \in Ops /\ Put(Compute, op)
      BY <1>4, Puts, OpsTyped
    <2> HIDE DEF op
    <2>2. QED
      BY <2>1, <1>4, PutEffect, StreamNames DEF Types, op
  <1>5. ASSUME NEW c \in Copies, Wait(c), ~(n \in Pos(s) /\ Op(s, n)' = Op(s, n))
        PROVE  /\ n = enq[s] + 1 /\ n \notin Pos(s)
               /\ s = CopyStream(c) /\ Op(s, n)' = WaitOp(c)
    <2>1. WaitOp(c) \in Ops /\ Put(CopyStream(c), WaitOp(c))
      BY <1>5, Puts, OpsTyped
    <2>2. QED
      BY <2>1, <1>5, PutEffect, StreamNames DEF Types
  <1>6. ASSUME NEW c \in Copies, Copy(c), ~(n \in Pos(s) /\ Op(s, n)' = Op(s, n))
        PROVE  /\ n = enq[s] + 1 /\ n \notin Pos(s)
               /\ s = CopyStream(c) /\ Op(s, n)' = CopyOp(c)
    <2>0. pc[c] = "copy"
      BY <1>6 DEF Copy
    <2>1. CopyOp(c) \in Ops /\ Put(CopyStream(c), CopyOp(c))
      BY <1>6, <2>0, Puts, OpsTyped
    <2>2. QED
      BY <2>1, <1>6, PutEffect, StreamNames DEF Types
  <1>7. QED
    BY <1>1, <1>2, <1>3, <1>4, <1>5, <1>6, StreamMoves

\* The same of the copies among them: c has at most the one it enqueues now.
LEMMA CopyEnqueued ==
  ASSUME Types, Ways, OpsMatch, [Next]_vars, NEW s \in Streams, NEW n \in Pos(s)',
         Op(s, n)'.kind = "copy"
  PROVE  \/ n \in Pos(s) /\ Op(s, n)' = Op(s, n)
         \/ \E c \in Copies :
             /\ Copy(c) /\ s = CopyStream(c) /\ n = enq[s] + 1 /\ n \notin Pos(s)
             /\ Op(s, n)' = CopyOp(c)
             /\ CopyOp(c).by = c /\ CopyOp(c).kind = "copy"
             /\ \A t \in Streams : \A m \in Pos(t) : ~CopyAt(t, m, c)
  <1>1. ASSUME NEW c \in Copies, Copy(c)
        PROVE  /\ CopyOp(c).by = c /\ CopyOp(c).kind = "copy"
               /\ \A t \in Streams : \A m \in Pos(t) : ~CopyAt(t, m, c)
    <2>1. pc[c] = "copy"
      BY <1>1 DEF Copy
    <2>2. QED
      BY <2>1 DEF CopyOp, CopyAt, OpsMatch, Match
  <1>2. \A c : WaitOp(c).kind # "copy"
    BY DEF WaitOp
  <1>3. QED
    BY <1>1, <1>2, Enqueued

LEMMA OneOpStep == Types /\ Ways /\ OpsMatch /\ OneOp /\ [Next]_vars => OneOp'
  <1> SUFFICES ASSUME Types, Ways, OpsMatch, OneOp, [Next]_vars,
                      NEW s \in Streams, NEW t \in Streams,
                      NEW n \in Pos(s)', NEW m \in Pos(t)', NEW c \in Copies,
                      CopyAt(s, n, c)', CopyAt(t, m, c)'
               PROVE  s = t /\ n = m
    BY DEF OneOp
  <1>1. /\ Op(s, n)'.kind = "copy" /\ Op(s, n)'.by = c
        /\ Op(t, m)'.kind = "copy" /\ Op(t, m)'.by = c
    BY DEF CopyAt
  <1>2. \/ CopyAt(s, n, c)
        \/ /\ s = CopyStream(c) /\ n = enq[s] + 1
           /\ \A r \in Streams : \A i \in Pos(r) : ~CopyAt(r, i, c)
    BY <1>1, CopyEnqueued DEF CopyAt
  <1>3. \/ CopyAt(t, m, c)
        \/ /\ t = CopyStream(c) /\ m = enq[t] + 1
           /\ \A r \in Streams : \A i \in Pos(r) : ~CopyAt(r, i, c)
    BY <1>1, CopyEnqueued DEF CopyAt
  <1>4. QED
    BY <1>2, <1>3 DEF OneOp, CopyAt

\* Of the two ends of a copy operation one may be a block: its copy's.
LEMMA CopyTouches ==
  ASSUME Types, Ways, NEW c \in Copies, pc[c] = "copy", NEW b \in Blocks,
         Touches(CopyOp(c), b)
  PROVE  block[c] = b /\ job[c].path = "bounce"
  <1>1. job[c].tensor \in Tensors
    BY JobFields DEF Types
  <1>2. b # job[c].tensor /\ b # c
    BY <1>1, DeviceCopiesAssumption
  <1>3. CopyOp(c).kind = "copy" /\ b \in {CopyOp(c).from, CopyOp(c).to}
    BY DEF Touches, CopyOp
  <1>4. {CopyOp(c).from, CopyOp(c).to} = {job[c].tensor, HostEnd(c)}
    BY DEF CopyOp
  <1>5. QED
    BY <1>2, <1>3, <1>4 DEF HostEnd

LEMMA LentStep ==
  Types /\ Ends /\ Ways /\ OpsMatch /\ Owners /\ Lent /\ [Next]_vars => Lent'
  <1> SUFFICES ASSUME Types, Ends, Ways, OpsMatch, Owners, Lent, [Next]_vars,
                      NEW s \in Streams, NEW n \in Pos(s)', NEW b \in Blocks,
                      Op(s, n)'.kind = "copy", Touches(Op(s, n)', b)
               PROVE  IF owner'[b] = Nobody THEN n <= freed'[b][s]
                      ELSE owner'[b] = Op(s, n)'.by
    BY DEF Lent, Touches
  <1>t. /\ owner \in [Blocks -> Copies \cup {Nobody}]
        /\ freed \in [Blocks -> AnyMark]
        /\ Nobody \notin Copies \cup Blocks
    BY DeviceCopiesAssumption DEF Types, OtherTypes
  <1>1. ASSUME NEW c \in Copies, Copy(c), Op(s, n)' = CopyOp(c)
        PROVE  owner'[b] = c /\ CopyOp(c).by = c
    <2>1. pc[c] = "copy" /\ owner' = owner
      BY <1>1 DEF Copy, poolVars
    <2>2. block[c] = b
      BY <1>1, <2>1, CopyTouches
    <2>3. QED
      BY <2>1, <2>2, <1>t DEF Owners, CopyOp
  <1>2. CASE n \in Pos(s) /\ Op(s, n)' = Op(s, n)
    <2>1. IF owner[b] = Nobody THEN n <= freed[b][s] ELSE owner[b] = Op(s, n).by
      BY <1>2 DEF Lent
    <2>p. n \in Nat /\ done[s] \in Nat /\ done[s] < n /\ n <= enq[s] /\ Op(s, n) \in Ops
      BY <1>2, PositionsTyped DEF Types
    <2>m. Match(s, Op(s, n))
      BY <1>2 DEF OpsMatch
    <2>2. CASE UNCHANGED <<owner, block, freed>>
      BY <1>2, <2>1, <2>2
    <2>3. ASSUME NEW c \in Copies, NEW d \in Blocks, Allocate(c, d)
          PROVE  owner'[b] = owner[b] /\ freed' = freed
      <3>1. d # b
        BY <2>3, <2>1, <2>p, <1>t DEF Allocate, Available, Passed, AnyMark
      <3>2. QED
        BY <2>3, <3>1, <1>t DEF Allocate
    <2>4. ASSUME NEW c \in Copies, FreeBounce(c)
          PROVE  IF owner'[b] = Nobody THEN n <= freed'[b][s]
                 ELSE owner'[b] = Op(s, n).by
      <3>1. /\ owner' = [owner EXCEPT ![block[c]] = Nobody]
            /\ freed' = [freed EXCEPT ![block[c]] = StreamMark(CopyStream(c))]
            /\ block[c] # Nobody
        BY <2>4 DEF FreeBounce, Ways, Way
      <3>2. CASE block[c] = b
        <4>1. Op(s, n).by = c
          BY <3>2, <2>1, <1>t DEF Owners
        <4>2. s = CopyStream(c)
          BY <4>1, <2>m, <1>2 DEF Match
        <4>3. freed'[b][s] = enq[s]
          BY <3>1, <3>2, <4>2, <1>t, MarksTyped DEF Types
        <4>4. owner'[b] = Nobody
          BY <3>1, <3>2, <1>t
        <4>5. QED
          BY <4>3, <4>4, <2>p
      <3>3. CASE block[c] # b
        BY <3>1, <3>3, <2>1
      <3>4. QED
        BY <3>2, <3>3
    <2>5. ASSUME NEW c \in Copies, FreeBounceNow(c)
          PROVE  owner'[b] = owner[b] /\ freed'[b] = freed[b]
      <3>1. /\ owner' = [owner EXCEPT ![block[c]] = Nobody]
            /\ freed' = [freed EXCEPT ![block[c]] = NoMark]
            /\ block[c] # Nobody
            /\ pc[c] \in {"abandon", "unstage"} /\ Passed(until[c])
        BY <2>5 DEF FreeBounceNow, Ways, Way
      <3>2. block[c] # b
        <4>1. SUFFICES ASSUME block[c] = b PROVE FALSE
          OBVIOUS
        <4>2. Op(s, n).by = c
          BY <4>1, <2>1, <1>t DEF Owners
        <4>3. pc[c] = "unstage"
          BY <4>2, <2>m, <3>1, <1>2 DEF Match
        <4>4. n <= until[c][s]
          BY <4>2, <4>3, <1>2 DEF Ends, CopyAt
        <4>5. until[c][s] <= done[s] /\ until[c][s] \in Nat
          BY <3>1 DEF Passed, Types, CopyTypes, AnyMark
        <4>6. QED
          BY <4>4, <4>5, <2>p
      <3>3. QED
        BY <3>1, <3>2
    <2>6. ASSUME NEW c \in Copies, CopyFails(c)
          PROVE  owner'[b] = owner[b] /\ freed'[b] = freed[b]
      <3>1. block[c] # b \/ owner' = owner
        <4>1. pc[c] = "copy"
          BY <2>6 DEF CopyFails
        <4>2. Op(s, n).by # c
          BY <4>1, <2>m, <1>2 DEF Match
        <4>3. QED
          BY <4>2, <2>1, <1>t DEF Owners
      <3>2. QED
        BY <2>6, <3>1, <1>t DEF CopyFails
    <2>7. QED
      BY <1>2, <2>1, <2>2, <2>3, <2>4, <2>5, <2>6, OwnerMoves
  <1>3. QED
    BY <1>1, <1>2, <1>t, CopyEnqueued

LEMMA OneBorrowerStep ==
  ASSUME Types, Ways, OpsMatch, Owners, Lent, OneBorrower, [Next]_vars
  PROVE  OneBorrower'
  <1> SUFFICES ASSUME NEW s \in Streams, NEW t \in Streams,
                      NEW n \in Pos(s)', NEW m \in Pos(t)', NEW b \in Blocks,
                      Op(s, n)'.kind = "copy", Touches(Op(s, n)', b),
                      Op(t, m)'.kind = "copy", Touches(Op(t, m)', b)
               PROVE  Op(s, n)'.by = Op(t, m)'.by
    BY DEF OneBorrower, Touches
  <1>t. Nobody \notin Copies \cup Blocks
    BY DeviceCopiesAssumption
  <1>1. ASSUME NEW c \in Copies, Copy(c), Touches(CopyOp(c), b)
        PROVE  /\ owner[b] = c
               /\ \A r \in Streams : \A i \in Pos(r) :
                   Op(r, i).kind = "copy" /\ Touches(Op(r, i), b) => Op(r, i).by = c
    <2>1. block[c] = b
      BY <1>1, CopyTouches DEF Copy
    <2>2. owner[b] = c
      BY <2>1, <1>t DEF Owners
    <2>3. QED
      BY <2>2, <1>t DEF Lent
  <1>2. CASE /\ n \in Pos(s) /\ Op(s, n)' = Op(s, n)
             /\ m \in Pos(t) /\ Op(t, m)' = Op(t, m)
    BY <1>2 DEF OneBorrower
  <1>3. QED
    BY <1>1, <1>2, CopyEnqueued

-----------------------------------------------------------------------------
(* Functions the event manager has *)

LEMMA CallsMove ==
  ASSUME [Next]_vars
  PROVE  \/ calls' \subseteq calls
         \/ \E c \in Copies : Keep(c) \/ Register(c)
  <1>1. CASE \/ Kernels \/ (\E s \in Streams : Device(s))
             \/ Close \/ Destructor \/ Finished \/ UNCHANGED vars
    BY <1>1 DEF Kernels, Launch, Consume, Drop, Device, Close, Destructor,
           ReleaseContext, DeleteEventMgr, DeletePool, DeleteAllocators, Finished, vars
  <1>2. ASSUME NEW c \in Copies, Call(c) PROVE calls' = calls
    <2>1. \A j : Begin(c, j) => calls' = calls
      BY DEF Begin
    <2>2. QED
      BY <1>2, <2>1 DEF Call, CopyCPUTensorToDevice, CopyDeviceTensorToCPU
  <1>3. ASSUME NEW c \in Copies, Thread(c), ~Keep(c), ~Register(c)
        PROVE  calls' = calls
    BY <1>3 DEF Thread, CopyNow, Allocate, AllocateFails, FreeBounce, FreeBounceNow,
                Record, RecordFails, Wait, WaitFails, Copy, CopyFails
  <1>4. ASSUME NEW f \in calls, EventMgr(f) PROVE calls' \subseteq calls
    BY <1>4 DEF EventMgr, DestroyEvent, EndCopy, Unstage
  <1>5. QED
    BY <1>1, <1>2, <1>3, <1>4 DEF Next

\* A copy that waits for its function goes on when it is called, and then the
\* function is gone.
LEMMA PendingStays ==
  ASSUME Types, Ends, [Next]_vars, NEW f \in calls, f.what = "end", f \in calls'
  PROVE  pc'[f.copy] = "pending"
  <1> DEFINE c == f.copy
  <1>1. c \in Copies /\ pc[c] = "pending"
    BY DEF Ends, Types, OtherTypes, Calls
  <1>2. CASE ~Own(c)
    BY <1>1, <1>2, OthersStay
  <1>3. ~Call(c)
    BY <1>1, CallBegins
  <1>4. ~Thread(c)
    BY <1>1 DEF Thread, CopyNow, Allocate, AllocateFails, FreeBounce,
                FreeBounceNow, Record, RecordFails, Wait, WaitFails, Keep, Copy,
                CopyFails, Register
  <1>5. ASSUME NEW g \in calls, g.copy = c, EventMgr(g) PROVE DestroyEvent(g)
    <2>1. CASE EndCopy(g) \/ Unstage(g)
      <3>1. g.what = "end" /\ calls' = calls \ {g}
        BY <2>1 DEF EndCopy, Unstage
      <3>2. g = f
        BY <3>1, <1>5 DEF Ends
      <3>3. QED
        BY <3>1, <3>2
    <2>2. QED
      BY <2>1, <1>5 DEF EventMgr
  <1>6. QED
    BY <1>1, <1>2, <1>3, <1>4, <1>5 DEF Own, DestroyEvent

LEMMA EndsStep == Types /\ Ends /\ Ways /\ OpsMatch /\ [Next]_vars => Ends'
  <1> SUFFICES ASSUME Types, Ends, Ways, OpsMatch, [Next]_vars PROVE Ends'
    OBVIOUS
  <1>t. pc \in [Copies -> Steps] /\ until \in [Copies -> AnyMark]
    BY DEF Types, CopyTypes
  <1>n. ASSUME NEW f \in calls', f \notin calls, f.what = "end"
        PROVE  /\ f.copy \in Copies
               /\ calls' = calls \cup {f} /\ Register(f.copy)
               /\ pc[f.copy] = "register" /\ pc'[f.copy] = "pending"
    <2>1. PICK c \in Copies : Keep(c) \/ Register(c)
      BY <1>n, CallsMove
    <2>2. CASE Keep(c)
      BY <1>n, <2>2 DEF Keep
    <2>3. CASE Register(c)
      <3>1. f.copy = c /\ calls' = calls \cup {f}
        BY <1>n, <2>3 DEF Register
      <3>2. QED
        BY <3>1, <2>1, <2>3, <1>t DEF Register
    <2>4. QED
      BY <2>1, <2>2, <2>3
  <1>1. ASSUME NEW f \in calls', f.what = "end" PROVE pc'[f.copy] = "pending"
    BY <1>1, <1>n, PendingStays
  <1>2. ASSUME NEW f \in calls', NEW g \in calls', f.what = "end", g.what = "end",
               f.copy = g.copy
        PROVE  f = g
    BY <1>2, <1>n DEF Ends
  <1>3. ASSUME NEW c \in Copies, pc'[c] = "unstage", NEW s \in Streams,
               NEW n \in Pos(s)', CopyAt(s, n, c)'
        PROVE  n <= until'[c][s]
    <2>1. CASE pc[c] = "unstage"
      <3>1. ~Call(c) /\ ~Thread(c)
        <4>1. ~Call(c)
          BY <2>1, CallBegins
        <4>2. ASSUME Thread(c) PROVE pc'[c] # "unstage"
          BY <4>2, <2>1, <1>t DEF Thread, CopyNow, Allocate, AllocateFails, FreeBounce,
                FreeBounceNow, Record, RecordFails, Wait, WaitFails, Keep, Copy,
                CopyFails, Register, Report
        <4>3. QED
          BY <4>1, <4>2, <1>3
      <3>2. until'[c] = until[c]
        <4>1. ASSUME NEW f \in calls, f.copy = c, EventMgr(f) PROVE until' = until
          BY <4>1, <2>1 DEF EventMgr, DestroyEvent, EndCopy, Unstage, Ends
        <4>2. QED
          BY <3>1, <4>1, OthersStay DEF Own
      <3>3. ~Copy(c)
        BY <2>1 DEF Copy
      <3>4. n \in Pos(s) /\ CopyAt(s, n, c)
        BY <3>3, <1>3, CopyEnqueued DEF CopyAt
      <3>5. QED
        BY <2>1, <3>2, <3>4 DEF Ends
    <2>2. CASE pc[c] # "unstage"
      <3>1. \E f \in calls : f.copy = c /\ Unstage(f)
        <4>1. Own(c)
          BY <2>2, <1>3, OthersStay
        <4>2. ~Call(c)
          BY <1>3, <1>t, CallBegins, FirstSteps DEF Begin
        <4>3. ~Thread(c)
          BY <2>2, <1>3, <1>t
             DEF Thread, CopyNow, Allocate, AllocateFails, FreeBounce, FreeBounceNow,
                 Record, RecordFails, Wait, WaitFails, Keep, Copy, CopyFails,
                 Register, Report, Fail, GiveUp, Synchronize, Asynchronous
        <4>4. ASSUME NEW f \in calls, f.copy = c, DestroyEvent(f) \/ EndCopy(f)
              PROVE  FALSE
          BY <4>4, <2>2, <1>3, <1>t DEF DestroyEvent, EndCopy, Report
        <4>5. QED
          BY <4>1, <4>2, <4>3, <4>4 DEF Own, EventMgr
      <3>0. PICK f \in calls : f.copy = c /\ Unstage(f)
        BY <3>1
      <3>2. enq' = enq /\ until'[c] = enq
        BY <3>0, <1>t DEF Unstage, Synchronize, DeviceMark, streamVars
      <3>3. enq \in [Streams -> Nat] /\ done' = done /\ done \in [Streams -> Nat]
        BY <3>0 DEF Unstage, streamVars, Types, StreamTypes, AnyMark
      <3>4. QED
        BY <3>2, <3>3 DEF Pos
    <2>3. QED
      BY <2>1, <2>2
  <1>4. QED
    BY <1>1, <1>2, <1>3 DEF Ends

-----------------------------------------------------------------------------
(* Bounce buffers are kept *)

LEMMA BaseInit == Init => BaseInv
  <1> SUFFICES ASSUME Init PROVE BaseInv
    OBVIOUS
  <1>1. ASSUME NEW s \in Streams PROVE Pos(s) = {}
    <2>1. enq[s] = 0 /\ done[s] = 0
      BY DEF Init, StreamsInit
    <2>2. 0 + 1 .. 0 = {}
      OBVIOUS
    <2>3. QED
      BY <2>1, <2>2 DEF Pos
  <1>2. StreamTypes
    <2>1. <<>> \in Seq(Ops) /\ Len(<<>>) = 0
      OBVIOUS
    <2>2. QED
      BY <2>1 DEF Init, StreamsInit, StreamTypes, AnyMark
  <1>3. NoMark \in AnyMark
    BY StreamNames
  <1>4. ProgramTypes /\ CopyTypes
    BY <1>3 DEF Init, ProgramTypes, CopyTypes, Steps, NoEvent, Garbage
  <1>5. OtherTypes
    BY <1>3 DEF Init, OtherTypes, Stages
  <1>6. Ways /\ Owners /\ Ends
    BY <1>1, DeviceCopiesAssumption DEF Init, Ways, Way, Owners, Ends
  <1>7. QED
    BY <1>1, <1>2, <1>4, <1>5, <1>6
       DEF BaseInv, Types, OpsMatch, OneOp, Lent, OneBorrower

LEMMA BaseStep == BaseInv /\ [Next]_vars => BaseInv'
  <1> SUFFICES ASSUME BaseInv, [Next]_vars PROVE BaseInv'
    OBVIOUS
  <1>1. Types'
    BY StreamTypesStep, ProgramTypesStep, CopyTypesStep, OtherTypesStep DEF BaseInv, Types
  <1>2. OpsMatch' /\ OneOp' /\ Ways'
    BY OpsMatchStep, OneOpStep, WaysStep DEF BaseInv
  <1>3. Owners' /\ Lent' /\ OneBorrower' /\ Ends'
    BY OwnersStep, LentStep, OneBorrowerStep, EndsStep DEF BaseInv
  <1>4. QED
    BY <1>1, <1>2, <1>3 DEF BaseInv

LEMMA BaseHolds == Spec => []BaseInv
  BY BaseInit, BaseStep, PTL DEF Spec

LEMMA InWork ==
  ASSUME StreamTypes, NEW s \in Streams, NEW op \in ToSet(work[s])
  PROVE  \E n \in Pos(s) : Op(s, n) = op
  <1>1. PICK i \in 1 .. Len(work[s]) : work[s][i] = op
    BY DEF ToSet, StreamTypes
  <1>2. done[s] \in Nat /\ done[s] + Len(work[s]) = enq[s] /\ Len(work[s]) \in Nat
    BY LenProperties DEF StreamTypes, AnyMark
  <1>3. done[s] + i \in Pos(s) /\ (done[s] + i) - done[s] = i
    BY <1>2 DEF Pos
  <1>4. QED
    BY <1>1, <1>3 DEF Op

\* "memory is never reused while GPU async copies are in progress", whatever
\* fails: a block whose copy is still to be run belongs to that copy, or waits
\* in the pool for a mark at or behind it.
THEOREM NeverReused == Spec => []BounceBuffersKept
  <1>1. BaseInv => BounceBuffersKept
    <2> SUFFICES ASSUME BaseInv, NEW s \in Streams, NEW op \in ToSet(work[s]),
                        NEW b \in Blocks, op.kind = "copy", Touches(op, b)
                 PROVE  IF owner[b] = Nobody THEN ~Passed(freed[b])
                        ELSE owner[b] = op.by
      BY DEF BounceBuffersKept
    <2>1. PICK n \in Pos(s) : Op(s, n) = op
      BY InWork DEF BaseInv, Types
    <2>2. IF owner[b] = Nobody THEN n <= freed[b][s] ELSE owner[b] = op.by
      BY <2>1 DEF BaseInv, Lent
    <2>3. n \in Nat /\ done[s] \in Nat /\ done[s] < n
      BY PositionsTyped DEF BaseInv, Types
    <2>4. freed[b][s] \in Nat
      BY DEF BaseInv, Types, OtherTypes, AnyMark
    <2>5. QED
      BY <2>2, <2>3, <2>4 DEF Passed
  <1>2. QED
    BY <1>1, BaseHolds, PTL

-----------------------------------------------------------------------------
(* Who has the tensors *)

\* How a copy ends, and that no other step changes who has a tensor and what
\* the program sees in it.
LEMMA ProgramMoves ==
  ASSUME Types, Ends, [Next]_vars
  PROVE  \/ \E x \in Tensors : Launch(x) \/ Drop(x)
         \/ \E c \in Copies : Call(c)
         \/ \E c \in Copies :
             Active(c) /\ Own(c) /\ (Report(c) \/ Fail(c)) /\ job' = job
         \/ /\ UNCHANGED <<users, value, last, job>>
            /\ \A c \in Copies : Active(c)' <=> Active(c)
            /\ \A c \in Copies : pc'[c] = "ok" <=> pc[c] = "ok"
  <1> DEFINE Same ==
            /\ UNCHANGED <<users, value, last, job>>
            /\ \A c \in Copies : Active(c)' <=> Active(c)
            /\ \A c \in Copies : pc'[c] = "ok" <=> pc[c] = "ok"
  <1>t. pc \in [Copies -> Steps]
    BY DEF Types, CopyTypes
  <1>m. ASSUME NEW c \in Copies, Active(c), UNCHANGED <<users, value, last, job>>,
               NEW step, step \notin {"idle", "ok", "failed"},
               pc' = [pc EXCEPT ![c] = step]
        PROVE  Same
    <2>1. \A d \in Copies : pc'[d] = IF d = c THEN step ELSE pc[d]
      BY <1>m, <1>t
    <2>2. QED
      BY <2>1, <1>m DEF Active
  <1>1. ASSUME NEW x \in Tensors, Consume(x) PROVE Same
    BY <1>1 DEF Consume, copyVars, Active
  <1>2. ASSUME NEW s \in Streams, Device(s) PROVE Same
    BY <1>2, DeviceEffect DEF copyVars, programVars, Active, Types
  <1>3. CASE Close \/ Destructor \/ Finished \/ UNCHANGED vars
    BY <1>3 DEF Close, Destructor, ReleaseContext, DeleteEventMgr, DeletePool,
                DeleteAllocators, Finished, vars, copyVars, programVars, Active
  <1>4. ASSUME NEW c \in Copies, Thread(c), ~Report(c), ~Fail(c) PROVE Same
    <2>1. job' = job /\ Active(c)
      BY <1>4, <1>t DEF Thread, CopyNow, Allocate, AllocateFails, FreeBounce,
                FreeBounceNow, Record, RecordFails, Wait, WaitFails, Keep, Copy,
                CopyFails, Register, Active
    <2>2. UNCHANGED <<users, value, last>>
      BY <1>4 DEF Thread, CopyNow, Allocate, AllocateFails, FreeBounce,
                FreeBounceNow, Record, RecordFails, Wait, WaitFails, Keep, Copy,
                CopyFails, Register, GiveUp, Synchronize, programVars
    <2>3. \E step \in Steps \ {"idle", "ok", "failed"} : pc' = [pc EXCEPT ![c] = step]
      BY <1>4 DEF Thread, CopyNow, Allocate, AllocateFails, FreeBounce,
                FreeBounceNow, Record, RecordFails, Wait, WaitFails, Keep, Copy,
                CopyFails, Register, GiveUp, Synchronize, Asynchronous, Steps
    <2>4. QED
      BY <2>1, <2>2, <2>3, <1>m
  <1>5. ASSUME NEW c \in Copies, Thread(c), Report(c) \/ Fail(c)
        PROVE  Active(c) /\ Own(c) /\ (Report(c) \/ Fail(c)) /\ job' = job
    BY <1>5, <1>t DEF Thread, CopyNow, Allocate, AllocateFails, FreeBounce,
              FreeBounceNow, Record, RecordFails, Wait, WaitFails, Keep, Copy,
              CopyFails, Register, Active, Own
  <1>6. ASSUME NEW f \in calls, EventMgr(f)
        PROVE  \/ Same
               \/ \E c \in Copies :
                   Active(c) /\ Own(c) /\ (Report(c) \/ Fail(c)) /\ job' = job
    <2>1. f.copy \in Copies /\ (f.what = "end" => Active(f.copy))
      BY DEF Types, OtherTypes, Calls, Ends, Active
    <2>2. CASE DestroyEvent(f)
      BY <2>2 DEF DestroyEvent, programVars, Active
    <2>3. CASE EndCopy(f)
      BY <2>1, <2>3, <1>6 DEF EndCopy, Own
    <2>4. CASE Unstage(f)
      <3>1. /\ UNCHANGED <<users, value, last, job>>
            /\ pc' = [pc EXCEPT ![f.copy] = "unstage"] /\ f.what = "end"
        BY <2>4 DEF Unstage, Synchronize, programVars
      <3>2. ASSUME NEW c \in Copies, c = f.copy PROVE Same
        <4>1. /\ UNCHANGED <<users, value, last, job>>
              /\ pc' = [pc EXCEPT ![c] = "unstage"] /\ Active(c)
          BY <3>1, <3>2, <2>1
        <4>2. QED
          BY <4>1, <1>m
      <3>3. QED
        BY <3>2, <2>1
    <2>5. QED
      BY <1>6, <2>2, <2>3, <2>4 DEF EventMgr
  <1>7. QED
    BY <1>1, <1>2, <1>3, <1>4, <1>5, <1>6 DEF Next, Kernels

LEMMA DeviceLive ==
  ASSUME [Next]_vars, NEW c \in Copies, Active(c), device = "live"
  PROVE  device' = "live"
  <1>1. ~Close
    BY DEF Close, Active
  <1>2. \A d, j : Begin(d, j) => device' = device
    BY DEF Begin
  <1>3. ASSUME NEW d \in Copies, Call(d) \/ Thread(d) PROVE device' = device
    BY <1>2, <1>3
       DEF Call, CopyCPUTensorToDevice, CopyDeviceTensorToCPU, Thread, CopyNow,
           Allocate, AllocateFails, FreeBounce, FreeBounceNow, Record, RecordFails,
           Wait, WaitFails, Keep, Copy, CopyFails, Register
  <1>4. CASE Kernels \/ (\E s \in Streams : Device(s)) \/ (\E f \in calls : EventMgr(f))
    BY <1>4 DEF Kernels, Launch, Consume, Drop, Device, EventMgr, DestroyEvent,
                EndCopy, Unstage
  <1>5. CASE Destructor \/ Finished \/ UNCHANGED vars
    BY <1>5 DEF Destructor, ReleaseContext, DeleteEventMgr, DeletePool,
                DeleteAllocators, Finished, vars
  <1>6. QED
    BY <1>1, <1>3, <1>4, <1>5 DEF Next

LEMMA UsersStep == BaseInv /\ Users /\ [Next]_vars => Users'
  <1> SUFFICES ASSUME Types, Ends, Ways, Users, [Next]_vars PROVE Users'
    BY DEF BaseInv
  <1>t. /\ pc \in [Copies -> Steps] /\ job \in [Copies -> Jobs \cup {NoJob}]
        /\ users \in [Tensors -> SUBSET (Copies \cup {Program})]
        /\ Program \notin Copies
    BY DeviceCopiesAssumption DEF Types, CopyTypes, ProgramTypes
  <1>j. \A c \in Copies : Active(c) => job[c].tensor \in Tensors
    BY JobFields DEF Types, Active
  <1>d. \A c \in Copies : Active(c) => device' = "live"
    BY DeviceLive DEF Users
  <1>1. ASSUME NEW x \in Tensors, Launch(x) PROVE Users'
    <2>1. /\ users' = [users EXCEPT ![x] = {Program}] /\ users[x] = {}
          /\ pc' = pc /\ job' = job
      BY <1>1 DEF Launch, copyVars
    <2>2. QED
      BY <2>1, <1>t, <1>j, <1>d DEF Users, Active
  <1>2. ASSUME NEW x \in Tensors, Drop(x) PROVE Users'
    <2>1. /\ users' = [users EXCEPT ![x] = @ \ {Program}] /\ Program \in users[x]
          /\ pc' = pc /\ job' = job
      BY <1>2 DEF Drop, copyVars
    <2>2. QED
      BY <2>1, <1>t, <1>j, <1>d DEF Users, Active
  <1>3. ASSUME NEW c \in Copies, Call(c) PROVE Users'
    <2>1. PICK j \in Jobs : Begin(c, j)
      BY <1>3, CallBegins
    <2>2. /\ j.tensor \in Tensors
          /\ users' = [users EXCEPT ![j.tensor] = @ \cup {c}]
          /\ job' = [job EXCEPT ![c] = j]
          /\ pc' = [pc EXCEPT ![c] = FirstStep(j)]
          /\ pc[c] = "idle" /\ device' = "live"
      BY <1>3, <2>1, CallBegins DEF Begin, Jobs
    <2>3. FirstStep(j) \in {"alloc", "sync", "record", "copy"}
      BY FirstSteps
    <2>4. IF j.dir = "in" THEN users[j.tensor] = {} ELSE Program \in users[j.tensor]
      <3>1. job'[c] = j
        BY <2>2, <1>t
      <3>2. CASE \E x \in Tensors, path \in Paths, sync \in BOOLEAN :
                    CopyCPUTensorToDevice(c, x, path, sync)
        <4>1. PICK x \in Tensors : users[x] = {} /\ job'[c].tensor = x /\ job'[c].dir = "in"
          BY <3>2, <1>t DEF CopyCPUTensorToDevice, Begin
        <4>2. QED
          BY <3>1, <4>1
      <3>3. CASE \E x \in Tensors, path \in Paths : CopyDeviceTensorToCPU(c, x, path)
        <4>1. PICK x \in Tensors : Program \in users[x] /\ job'[c].tensor = x
                                   /\ job'[c].dir = "out"
          BY <3>3, <1>t DEF CopyDeviceTensorToCPU, Begin
        <4>2. QED
          BY <3>1, <4>1
      <3>4. QED
        BY <1>3, <3>2, <3>3 DEF Call
    <2>5. \A d \in Copies : /\ pc'[d] = IF d = c THEN FirstStep(j) ELSE pc[d]
                            /\ job'[d] = IF d = c THEN j ELSE job[d]
      BY <2>2, <1>t
    <2>6. \A x \in Tensors : users'[x] = IF x = j.tensor THEN users[x] \cup {c} ELSE users[x]
      BY <2>2, <1>t
    <2>7. ASSUME NEW d \in Copies, Active(d)'
          PROVE  /\ d \in users'[job'[d].tensor]
                 /\ job'[d].dir = "in" => users'[job'[d].tensor] = {d}
      <3>1. CASE d = c
        BY <3>1, <2>2, <2>4, <2>5, <2>6
      <3>2. CASE d # c
        <4>1. Active(d) /\ job'[d] = job[d]
          BY <3>2, <2>5, <2>7 DEF Active
        <4>2. /\ d \in users[job[d].tensor] /\ job[d].tensor \in Tensors
              /\ job[d].dir = "in" => users[job[d].tensor] = {d}
          BY <4>1, <1>j DEF Users
        <4>3. job[d].dir = "in" => job[d].tensor # j.tensor
          <5>1. Program \notin {d} /\ {d} # {}
            BY <1>t
          <5>2. QED
            BY <5>1, <4>2, <2>4
        <4>4. QED
          BY <4>1, <4>2, <4>3, <2>6
      <3>3. QED
        BY <3>1, <3>2
    <2>8. ASSUME NEW x \in Tensors, NEW d \in users'[x] \ {Program}
          PROVE  Active(d)' /\ job'[d].tensor = x
      <3>1. d \in Copies
        BY <2>6, <1>t
      <3>2. CASE d = c
        <4>1. c \notin users[x]
          BY <2>2, <1>t DEF Users, Active
        <4>2. QED
          BY <4>1, <3>2, <2>2, <2>3, <2>5, <2>6, <2>8 DEF Active
      <3>3. CASE d # c
        <4>1. d \in users[x] \ {Program}
          BY <3>3, <2>6, <2>8
        <4>2. QED
          BY <4>1, <3>1, <3>3, <2>5 DEF Users, Active
      <3>4. QED
        BY <3>2, <3>3
    <2>9. QED
      BY <2>2, <2>7, <2>8 DEF Users
  <1>4. ASSUME NEW c \in Copies, Active(c), Report(c) \/ Fail(c), job' = job
        PROVE  Users'
    <2> DEFINE y == job[c].tensor
    <2>1. /\ \A d \in Copies : Active(d)' <=> (d # c /\ Active(d))
      BY <1>4, <1>t DEF Report, Fail, Active
    <2>2. \A x \in Tensors : x # y => users'[x] = users[x]
      BY <1>4, <1>t DEF Report, Fail
    <2>3. /\ y \in Tensors
          /\ \/ users'[y] = users[y] \ {c}
             \/ users'[y] = (users[y] \ {c}) \cup {Program} /\ job[c].dir = "in"
             \/ users'[y] = (users[y] \ {c}) \cup {}
      BY <1>4, <1>t, <1>j DEF Report, Fail
    <2>4. \A d \in Copies : Active(d) /\ job[d].dir = "in" => d = c \/ job[d].tensor # y
      BY <1>4, <1>j DEF Users
    <2>5. job[c].dir = "in" => users[y] = {c}
      BY <1>4 DEF Users
    <2> HIDE DEF y
    <2>6. ASSUME NEW d \in Copies, Active(d)'
          PROVE  /\ d \in users'[job[d].tensor]
                 /\ job[d].dir = "in" => users'[job[d].tensor] = {d}
      <3>1. /\ d # c /\ Active(d) /\ job[d].tensor \in Tensors
            /\ d \in users[job[d].tensor]
            /\ job[d].dir = "in" => users[job[d].tensor] = {d}
        BY <2>1, <2>6, <1>j DEF Users
      <3>2. QED
        BY <3>1, <2>2, <2>3, <2>4
    <2>7. ASSUME NEW x \in Tensors, NEW d \in users'[x] \ {Program}
          PROVE  Active(d)' /\ job[d].tensor = x
      <3>1. d \in users[x] \ {Program} /\ d \in Copies
        BY <2>2, <2>3, <2>7, <1>t
      <3>2. Active(d) /\ job[d].tensor = x
        BY <3>1 DEF Users
      <3>3. d # c
        BY <3>2, <2>2, <2>3, <2>7, <1>t, <1>4 DEF y
      <3>4. QED
        BY <3>1, <3>2, <3>3, <2>1
    <2>8. QED
      BY <2>1, <2>6, <2>7, <1>4, <1>d DEF Users
  <1>5. CASE /\ UNCHANGED <<users, value, last, job>>
             /\ \A c \in Copies : Active(c)' <=> Active(c)
    BY <1>5, <1>t, <1>d DEF Users
  <1>6. QED
    BY <1>1, <1>2, <1>3, <1>4, <1>5, ProgramMoves

-----------------------------------------------------------------------------
(* Copies are done before they report *)

LEMMA WaitEnqueued ==
  ASSUME Types, Ways, [Next]_vars, NEW s \in Streams, NEW n \in Pos(s)',
         Op(s, n)'.kind = "wait"
  PROVE  \/ n \in Pos(s) /\ Op(s, n)' = Op(s, n)
         \/ \E c \in Copies :
             /\ Wait(c) /\ s = CopyStream(c) /\ n = enq[s] + 1 /\ n \notin Pos(s)
             /\ Op(s, n)' = WaitOp(c)
             /\ WaitOp(c).by = c /\ WaitOp(c).kind = "wait"
  <1>1. \A c : CopyOp(c).kind # "wait" /\ WaitOp(c).by = c /\ WaitOp(c).kind = "wait"
    BY DEF CopyOp, WaitOp
  <1>2. QED
    BY <1>1, Enqueued

LEMMA LateStep ==
  ASSUME "ThenExecute" \notin Failing, BaseInv, Late, [Next]_vars
  PROVE  Late'
  <1>b. Types /\ Ends /\ Ways /\ OpsMatch
    BY DEF BaseInv
  <1>t. pc \in [Copies -> Steps] /\ \A f \in calls : f.copy \in Copies
    BY <1>b DEF Types, CopyTypes, OtherTypes, Calls
  <1>1. ASSUME NEW f \in calls', f \notin calls
        PROVE  /\ f.copy \in Copies
               /\ f.mark = StreamMark(CopyStream(f.copy))
               /\ UNCHANGED <<enq, done, work, job>>
               /\ f.what = "end" \/ (f.what = "destroy" /\ pc'[f.copy] = "copy")
    <2>1. PICK c \in Copies : Keep(c) \/ Register(c)
      BY <1>1, CallsMove
    <2>2. CallMarks(c) = {StreamMark(CopyStream(c))}
      BY DEF CallMarks
    <2>3. CASE Keep(c)
      <3>1. f = [copy |-> c, what |-> "destroy", mark |-> StreamMark(CopyStream(c))]
        BY <1>1, <2>2, <2>3 DEF Keep
      <3>2. QED
        BY <3>1, <2>1, <2>3, <1>t DEF Keep, streamVars
    <2>4. CASE Register(c)
      <3>1. f = [copy |-> c, what |-> "end", mark |-> StreamMark(CopyStream(c))]
        BY <1>1, <2>2, <2>4 DEF Register
      <3>2. QED
        BY <3>1, <2>1, <2>4 DEF Register, streamVars
    <2>5. QED
      BY <2>1, <2>3, <2>4
  <1>2. ASSUME NEW f \in calls', f \notin calls, NEW s \in Streams, NEW n \in Pos(s)',
               CopyAt(s, n, f.copy)' \/ WaitAt(s, n, f.copy)'
        PROVE  n <= f.mark[s]
    <2>1. n \in Pos(s) /\ Op(s, n)' = Op(s, n)
      BY <1>1, <1>2 DEF Pos, Op
    <2>2. s = CopyStream(f.copy)
      BY <2>1, <1>1, <1>2, <1>b DEF OpsMatch, Match, CopyAt, WaitAt
    <2>3. f.mark[s] = enq[s]
      BY <2>2, <1>1, <1>2, <1>b, MarksTyped DEF Types
    <2>4. QED
      BY <2>1, <2>3, <1>b, PositionsTyped DEF Types
  <1>3. ASSUME NEW f \in calls', f.what = "end", NEW s \in Streams, NEW n \in Pos(s)',
               CopyAt(s, n, f.copy)'
        PROVE  n <= f.mark[s]
    <2>1. CASE f \in calls
      <3>1. f.copy \in Copies /\ pc[f.copy] = "pending"
        BY <2>1, <1>3, <1>b, <1>t DEF Ends
      <3>2. CopyAt(s, n, f.copy)
        <4>1. /\ Op(s, n)'.kind = "copy" /\ Op(s, n)'.by = f.copy
              /\ \A c \in Copies : Copy(c) => c # f.copy
          BY <3>1, <1>3 DEF CopyAt, Copy
        <4>2. QED
          BY <4>1, <1>b, CopyEnqueued DEF CopyAt
      <3>3. QED
        BY <3>2, <2>1, <1>3 DEF Late, CopyAt
    <2>2. QED
      BY <2>1, <1>2, <1>3
  <1>4. ASSUME NEW f \in calls', f.what = "destroy"
        PROVE  /\ pc'[f.copy] \notin {"idle", "alloc", "sync", "record", "wait", "keep"}
               /\ \A s \in Streams : \A n \in Pos(s)' :
                   WaitAt(s, n, f.copy)' => n <= f.mark[s]
    <2>1. CASE f \in calls
      <3>1. /\ f.copy \in Copies
            /\ pc[f.copy] \notin {"idle", "alloc", "sync", "record", "wait", "keep"}
        BY <2>1, <1>4, <1>t DEF Late
      <3>2. pc'[f.copy] \notin {"idle", "alloc", "sync", "record", "wait", "keep"}
        BY <3>1, <1>b, Forward
      <3>3. ASSUME NEW s \in Streams, NEW n \in Pos(s)', WaitAt(s, n, f.copy)'
            PROVE  n <= f.mark[s]
        <4>0. /\ Op(s, n)'.kind = "wait" /\ Op(s, n)'.by = f.copy
              /\ \A c \in Copies : Wait(c) => c # f.copy
          BY <3>1, <3>3 DEF WaitAt, Wait
        <4>1. WaitAt(s, n, f.copy)
          BY <4>0, <1>b, WaitEnqueued DEF WaitAt
        <4>2. QED
          BY <4>1, <2>1, <1>4 DEF Late, WaitAt
      <3>4. QED
        BY <3>2, <3>3
    <2>2. CASE f \notin calls
      BY <2>2, <1>1, <1>2, <1>4
    <2>3. QED
      BY <2>1, <2>2
  <1>5. QED
    BY <1>3, <1>4 DEF Late

\* A copy that ends has no operation left on the copy streams.
LEMMA EndsDone ==
  ASSUME BaseInv, Late, NEW c \in Copies, Active(c), Own(c), Report(c) \/ Fail(c),
         ~OnCompute(c)
  PROVE  \A s \in Streams : \A n \in Pos(s) : ~CopyAt(s, n, c)
  <1> SUFFICES ASSUME NEW s \in Streams, NEW n \in Pos(s), CopyAt(s, n, c) PROVE FALSE
    OBVIOUS
  <1>b. Types /\ Ends /\ Ways /\ OpsMatch
    BY DEF BaseInv
  <1>t. pc \in [Copies -> Steps] /\ pc'[c] \in {"ok", "failed"}
    BY <1>b DEF Types, CopyTypes, Report, Fail
  <1>1. pc[c] \in {"free", "register", "pending", "unstage"}
    BY <1>b DEF OpsMatch, Match, CopyAt, Active
  <1>2. n \in Nat /\ done[s] \in Nat /\ done[s] < n
    BY <1>b, PositionsTyped DEF Types
  <1>3. ~Call(c)
    BY <1>1, <1>b, CallBegins
  <1>4. CASE Thread(c)
    <2>1. FreeBounceNow(c) /\ pc[c] = "unstage"
      BY <1>4, <1>1, <1>t
         DEF Thread, CopyNow, Allocate, AllocateFails, FreeBounce, FreeBounceNow,
             Record, RecordFails, Wait, WaitFails, Keep, Copy, CopyFails, Register
    <2>2. n <= until[c][s]
      BY <2>1, <1>b DEF Ends
    <2>3. until[c][s] \in Nat /\ until[c][s] <= done[s]
      BY <2>1, <1>b DEF FreeBounceNow, Passed, Types, CopyTypes, AnyMark
    <2>4. QED
      BY <2>2, <2>3, <1>2
  <1>5. ASSUME NEW f \in calls, f.copy = c, EventMgr(f) PROVE FALSE
    <2>1. CASE f.what = "end"
      <3>1. n <= f.mark[s]
        BY <2>1, <1>5 DEF Late
      <3>2. f.mark[s] \in Nat /\ f.mark[s] <= done[s]
        BY <2>1, <1>5, <1>b
           DEF EventMgr, DestroyEvent, EndCopy, Unstage, Passed, Types, OtherTypes,
               Calls, AnyMark
      <3>3. QED
        BY <3>1, <3>2, <1>2
    <2>2. CASE f.what # "end"
      BY <2>2, <1>1, <1>5, <1>t DEF EventMgr, DestroyEvent, EndCopy, Unstage
    <2>3. QED
      BY <2>1, <2>2
  <1>6. QED
    BY <1>3, <1>4, <1>5 DEF Own

LEMMA DoingStep ==
  ASSUME BaseInv, Late, Doing, [Next]_vars
  PROVE  Doing'
  <1>b. Types /\ Ends /\ Ways /\ OpsMatch
    BY DEF BaseInv
  <1>t. pc \in [Copies -> Steps]
    BY <1>b DEF Types, CopyTypes
  <1> SUFFICES ASSUME NEW s \in Streams, NEW n \in Pos(s)', Op(s, n)'.kind = "copy",
                      NEW c, c = Op(s, n)'.by
               PROVE  Active(c)' \/ OnCompute(c)'
    BY DEF Doing
  <1>1. CASE n \in Pos(s) /\ Op(s, n)' = Op(s, n)
    <2>1. /\ c \in Copies /\ CopyAt(s, n, c)
          /\ pc[c] \in {"free", "register", "pending", "unstage", "ok"}
          /\ Active(c) \/ OnCompute(c)
      BY <1>1, <1>b, PositionsTyped, OpFields DEF Types, OpsMatch, Match, CopyAt, Doing
    <2>2. job'[c] = job[c]
      BY <2>1, <1>b, Forward
    <2>3. CASE OnCompute(c)
      BY <2>2, <2>3 DEF OnCompute
    <2>4. CASE ~OnCompute(c)
      <3>1. ASSUME NEW d \in Copies, Active(d), Own(d), Report(d) \/ Fail(d)
            PROVE  d # c
        <4>1. OnCompute(d) \/ \A t \in Streams : \A m \in Pos(t) : ~CopyAt(t, m, d)
          BY <3>1, EndsDone
        <4>2. QED
          BY <4>1, <2>1, <2>4, <1>1 DEF OnCompute, CopyAt
      <3>2. Active(c)'
        <4>1. ASSUME NEW d \in Copies, Active(d), Own(d), Report(d) \/ Fail(d)
              PROVE  pc'[c] = pc[c]
          BY <4>1, <3>1, <2>1, <1>t DEF Report, Fail
        <4>2. ASSUME NEW d \in Copies, Call(d) PROVE pc'[c] = pc[c]
          <5>1. d # c
            BY <4>2, <2>1, <1>b, CallBegins
          <5>2. QED
            BY <4>2, <5>1, <2>1, <1>b, <1>t, CallBegins DEF Begin
        <4>3. ASSUME NEW x \in Tensors, Launch(x) \/ Drop(x) PROVE pc' = pc
          BY <4>3 DEF Launch, Drop, copyVars
        <4>4. QED
          BY <4>1, <4>2, <4>3, <2>1, <2>4, <1>b, ProgramMoves DEF Active
      <3>3. QED
        BY <3>2
    <2>5. QED
      BY <2>3, <2>4
  <1>2. ASSUME NEW d \in Copies, Copy(d), Op(s, n)' = CopyOp(d), CopyOp(d).by = d
        PROVE  Active(c)' \/ OnCompute(c)'
    <2>1. c = d /\ job' = job
      BY <1>2 DEF Copy
    <2>2. pc'[d] \in {"free", "register"} \/ OnCompute(d)
      BY <1>2, <1>t DEF Copy
    <2>3. QED
      BY <2>1, <2>2 DEF Active, OnCompute
  <1>3. QED
    BY <1>1, <1>2, <1>b, CopyEnqueued

\* No function destroys an event that a stream still has to wait for, or that
\* none waits for yet.
LEMMA EventKept ==
  ASSUME BaseInv, Users, Late, [Next]_vars, NEW c \in Copies, event[c].live,
         device' = "live",
         \/ pc[c] = "keep"
         \/ pc[c] = "wait" /\ pc'[c] # "failed" /\ pc'[c] # "abandon"
         \/ \E s \in Streams : \E n \in Pos(s) : WaitAt(s, n, c)
  PROVE  event'[c].live
  <1>b. Types /\ Ends /\ Ways /\ OpsMatch
    BY DEF BaseInv
  <1>t. /\ pc \in [Copies -> Steps]
        /\ event \in [Copies -> [live : BOOLEAN, mark : AnyMark]]
    BY <1>b DEF Types, CopyTypes
  <1>1. pc[c] \notin {"idle", "alloc", "sync", "record"}
    BY DEF OpsMatch, Match, WaitAt, BaseInv
  <1>2. CASE ~Own(c)
    <2>1. ~DeleteEventMgr
      BY DEF DeleteEventMgr
    <2>2. QED
      BY <1>2, <2>1, <1>b, OthersStay
  <1>3. CASE Call(c)
    BY <1>1, <1>3, <1>b, CallBegins
  <1>4. CASE Thread(c)
    <2>1. CASE WaitFails(c)
      <3>1. pc[c] = "wait" /\ pc'[c] \in {"failed", "abandon"}
        BY <2>1, <1>t DEF WaitFails, GiveUp, Synchronize, Fail
      <3>2. QED
        BY <3>1 DEF OpsMatch, Match, WaitAt, BaseInv
    <2>2. CASE ~WaitFails(c)
      <3>1. event' = event
        BY <1>1, <1>4, <2>2 DEF Thread, CopyNow, Allocate, AllocateFails, FreeBounce,
              FreeBounceNow, Record, RecordFails, Wait, Keep, Copy, CopyFails, Register
      <3>2. QED
        BY <3>1
    <2>3. QED
      BY <2>1, <2>2
  <1>5. ASSUME NEW f \in calls, f.copy = c, EventMgr(f) PROVE event' = event
    <2>1. CASE DestroyEvent(f)
      <3>1. pc[c] \notin {"wait", "keep"}
        BY <2>1, <1>5 DEF DestroyEvent, Late
      <3>2. PICK s \in Streams : \E n \in Pos(s) : WaitAt(s, n, c)
        BY <3>1
      <3>7. PICK n \in Pos(s) : WaitAt(s, n, c)
        BY <3>2
      <3>3. n <= f.mark[s]
        BY <2>1, <3>7, <1>5 DEF DestroyEvent, Late
      <3>4. f.mark[s] \in Nat /\ f.mark[s] <= done[s]
        BY <2>1, <1>b DEF DestroyEvent, Passed, Types, OtherTypes, Calls, AnyMark
      <3>5. n \in Nat /\ done[s] \in Nat /\ done[s] < n
        BY <1>b, PositionsTyped DEF Types
      <3>6. QED
        BY <3>3, <3>4, <3>5
    <2>2. CASE EndCopy(f) \/ Unstage(f)
      BY <2>2 DEF EndCopy, Unstage
    <2>3. QED
      BY <2>1, <2>2, <1>5 DEF EventMgr
  <1>6. QED
    BY <1>2, <1>3, <1>4, <1>5 DEF Own

LEMMA StageStep ==
  ASSUME [Next]_vars, device' = "live"
  PROVE  device = "live"
  <1>1. \A d, j : Begin(d, j) => device' = device
    BY DEF Begin
  <1>2. ASSUME NEW d \in Copies, Call(d) \/ Thread(d) PROVE device' = device
    BY <1>1, <1>2
       DEF Call, CopyCPUTensorToDevice, CopyDeviceTensorToCPU, Thread, CopyNow,
           Allocate, AllocateFails, FreeBounce, FreeBounceNow, Record, RecordFails,
           Wait, WaitFails, Keep, Copy, CopyFails, Register
  <1>3. CASE Kernels \/ (\E s \in Streams : Device(s)) \/ (\E f \in calls : EventMgr(f))
    BY <1>3 DEF Kernels, Launch, Consume, Drop, Device, EventMgr, DestroyEvent,
                EndCopy, Unstage
  <1>4. CASE Close \/ Destructor \/ Finished \/ UNCHANGED vars
    BY <1>4 DEF Close, Destructor, ReleaseContext, DeleteEventMgr, DeletePool,
                DeleteAllocators, Finished, vars
  <1>5. QED
    BY <1>2, <1>3, <1>4 DEF Next

LEMMA EventsStep ==
  ASSUME BaseInv, Users, Late, Events, [Next]_vars
  PROVE  Events'
  <1>b. Types /\ Ends /\ Ways /\ OpsMatch
    BY DEF BaseInv
  <1>t. /\ pc \in [Copies -> Steps]
        /\ event \in [Copies -> [live : BOOLEAN, mark : AnyMark]]
    BY <1>b DEF Types, CopyTypes
  <1>1. ASSUME NEW c \in Copies, pc'[c] \in {"wait", "keep"} PROVE event'[c].live
    <2>1. CASE Record(c)
      BY <2>1, <1>t DEF Record
    <2>2. CASE ~Record(c)
      <3>1. pc[c] \in {"wait", "keep"}
        <4>1. ~Call(c)
          BY <1>1, <1>b, <1>t, CallBegins, FirstSteps DEF Begin
        <4>2. CASE Thread(c)
          BY <4>2, <2>2, <1>1, <1>t
             DEF Thread, CopyNow, Allocate, AllocateFails, FreeBounce, FreeBounceNow,
                 RecordFails, Wait, WaitFails, Keep, Copy, CopyFails,
                 Register, Report, Fail, GiveUp, Synchronize, Asynchronous
        <4>3. ASSUME NEW f \in calls, f.copy = c, EventMgr(f) PROVE pc' = pc
          BY <4>3, <1>1, <1>t DEF EventMgr, DestroyEvent, EndCopy, Unstage, Report,
                                  Synchronize
        <4>4. QED
          BY <4>1, <4>2, <4>3, <1>1, <1>b, OthersStay DEF Own
      <3>2. device' = "live" /\ event[c].live
        BY <3>1, DeviceLive DEF Users, Events, Active
      <3>3. QED
        BY <3>1, <3>2, <1>1, EventKept
    <2>3. QED
      BY <2>1, <2>2
  <1>2. ASSUME device' = "live", NEW s \in Streams, NEW n \in Pos(s)',
               Op(s, n)'.kind = "wait"
        PROVE  event'[Op(s, n)'.by].live
    <2>1. CASE n \in Pos(s) /\ Op(s, n)' = Op(s, n)
      <3> DEFINE c == Op(s, n).by
      <3>1. Op(s, n) \in Ops /\ Op(s, n).kind = "wait"
        BY <1>2, <2>1, <1>b, PositionsTyped DEF Types
      <3>2. c \in Copies /\ WaitAt(s, n, c)
        BY <3>1, <2>1, OpFields DEF WaitAt
      <3>3. event[c].live
        BY <1>2, <2>1, <3>1, StageStep DEF Events
      <3>4. ASSUME NEW d \in Copies, event[d].live, WaitAt(s, n, d)
            PROVE  event'[d].live
        BY <3>4, <2>1, <1>2, EventKept
      <3>5. event'[c].live
        BY <3>2, <3>3, <3>4
      <3>6. QED
        BY <2>1, <3>5
    <2>2. ASSUME NEW c \in Copies, Wait(c), Op(s, n)' = WaitOp(c), WaitOp(c).by = c
          PROVE  event'[Op(s, n)'.by].live
      <3>1. event' = event /\ pc[c] = "wait"
        BY <2>2 DEF Wait
      <3>2. QED
        BY <2>2, <3>1 DEF Events
    <2>3. QED
      BY <2>1, <2>2, <1>2, <1>b, WaitEnqueued
  <1>3. QED
    BY <1>1, <1>2 DEF Events

LEMMA ClosedStep ==
  ASSUME BaseInv, Users, Closed, [Next]_vars
  PROVE  Closed'
  <1>b. Types /\ Ways
    BY DEF BaseInv
  <1>t. /\ enq[Compute] \in Nat /\ done[Compute] \in Nat
        /\ Compute \in Streams
        /\ done[Compute] <= enq[Compute]
    <2>1. done[Compute] + Len(work[Compute]) = enq[Compute] /\ Len(work[Compute]) \in Nat
      BY <1>b, StreamNames, LenProperties DEF Types, StreamTypes
    <2>2. QED
      BY <2>1, <1>b, StreamNames DEF Types, StreamTypes, AnyMark
  <1>1. CASE device \in {"live", "closing"} /\ device' \notin {"live", "closing"}
    <2>1. ReleaseContext
      <3>1. \A d, j : Begin(d, j) => device' = device
        BY DEF Begin
      <3>2. ASSUME NEW d \in Copies, Call(d) \/ Thread(d) PROVE device' = device
        BY <3>1, <3>2
           DEF Call, CopyCPUTensorToDevice, CopyDeviceTensorToCPU, Thread, CopyNow,
               Allocate, AllocateFails, FreeBounce, FreeBounceNow, Record,
               RecordFails, Wait, WaitFails, Keep, Copy, CopyFails, Register
      <3>3. CASE \/ Kernels \/ (\E s \in Streams : Device(s))
                 \/ (\E f \in calls : EventMgr(f))
        BY <3>3, <1>1 DEF Kernels, Launch, Consume, Drop, Device, EventMgr,
                          DestroyEvent, EndCopy, Unstage
      <3>4. QED
        BY <1>1, <3>2, <3>3
           DEF Next, Close, Destructor, DeleteEventMgr, DeletePool, DeleteAllocators,
               Finished, vars
    <2>2. StreamMark(Compute)[Compute] <= done[Compute] /\ UNCHANGED <<enq, done>>
      BY <2>1, <1>t DEF ReleaseContext, Passed, streamVars
    <2>3. enq[Compute] <= done[Compute]
      BY <2>2, <1>b, <1>t, MarksTyped DEF Types
    <2>4. QED
      BY <2>2, <2>3, <1>t DEF Closed
  <1>2. CASE device \notin {"live", "closing"}
    <2>1. ASSUME NEW c \in Copies PROVE ~Wait(c) /\ ~Copy(c)
      BY <1>2 DEF Users, Active, Wait, Copy
    <2>2. \A x \in Tensors : ~Launch(x) /\ ~Consume(x)
      BY <1>2 DEF Launch, Consume
    <2>3. ASSUME NEW s \in Streams, Device(s)
          PROVE  enq'[Compute] = enq[Compute] /\ done'[Compute] = done[Compute]
      <3>1. s # Compute
        BY <2>3, <1>2, <1>t DEF Device, Complete, Closed
      <3>2. QED
        BY <2>3, <3>1, <1>b, <1>t, DeviceEffect, PopEffect DEF Types
    <2>4. QED
      BY <2>1, <2>2, <2>3, <1>2, StreamMoves DEF Closed, Quiet
  <1>3. CASE device' \in {"live", "closing"}
    BY <1>3 DEF Closed
  <1>4. QED
    BY <1>1, <1>2, <1>3

\* What the rest relies on: the event manager calls a function only once the work
\* it was registered behind is complete (NoEarlyCall of MusaEventMgr).
MarksPass == "ThenExecute" \notin Failing

LEMMA CallsHold == MarksPass => (Spec => [](BaseInv /\ CallInv))
  <1> SUFFICES ASSUME MarksPass PROVE Spec => [](BaseInv /\ CallInv)
    OBVIOUS
  <1>1. Init => CallInv
    <2> SUFFICES ASSUME Init PROVE CallInv
      OBVIOUS
    <2>1. ASSUME NEW s \in Streams PROVE Pos(s) = {} /\ enq[s] = 0 /\ done[s] = 0
      <3>1. enq[s] = 0 /\ done[s] = 0
        BY DEF Init, StreamsInit
      <3>2. 0 + 1 .. 0 = {}
        OBVIOUS
      <3>3. QED
        BY <3>1, <3>2 DEF Pos
    <2>2. QED
      BY <2>1, StreamNames DEF Init, CallInv, Users, Late, Doing, Events, Closed, Active
  <1>2. BaseInv /\ CallInv /\ [Next]_vars => CallInv'
    BY UsersStep, LateStep, DoingStep, EventsStep, ClosedStep DEF CallInv, MarksPass
  <1>3. QED
    BY <1>1, <1>2, BaseInit, BaseStep, PTL DEF Spec

\* "Callback invoked when copy completes": a copy that reported success is not
\* among the operations a stream has still to run, if no path is moved to the
\* compute stream and no function is called before its mark.
THEOREM ReportedOnlyAfter ==
  ComputePaths = {} /\ MarksPass => (Spec => []DoneAfterCopy)
  <1> SUFFICES ASSUME ComputePaths = {}, MarksPass PROVE Spec => []DoneAfterCopy
    OBVIOUS
  <1>1. BaseInv /\ CallInv => DoneAfterCopy
    <2> SUFFICES ASSUME BaseInv, CallInv, NEW s \in Streams,
                        NEW op \in ToSet(work[s]), op.kind = "copy"
                 PROVE  pc[op.by] # "ok"
      BY DEF DoneAfterCopy
    <2>1. PICK n \in Pos(s) : Op(s, n) = op
      BY InWork DEF BaseInv, Types
    <2>2. Active(op.by) \/ OnCompute(op.by)
      BY <2>1 DEF CallInv, Doing
    <2>3. QED
      BY <2>2 DEF Active, OnCompute
  <1>2. QED
    BY <1>1, CallsHold, PTL

\* "Destroy order matters to avoid use-after-free": once the pool and the
\* allocators are destroyed no stream has an operation on their memory left.
\* The compute stream is empty since the context was released, and what the
\* copy streams have left are waits: every copy has reported, and none reports
\* before it is done.
THEOREM TornDownSafely == MarksPass => (Spec => []TeardownSafe)
  <1> SUFFICES ASSUME MarksPass PROVE Spec => []TeardownSafe
    OBVIOUS
  <1>1. BaseInv /\ CallInv => TeardownSafe
    <2>1. ASSUME BaseInv, CallInv, device \in {"no pool", "no memory"},
                 NEW s \in Streams, NEW n \in Pos(s), NEW p
          PROVE  ~Touches(Op(s, n), p)
      <3> DEFINE op == Op(s, n)
      <3>1. /\ n \in Nat /\ done[s] \in Nat /\ enq[s] \in Nat
            /\ done[s] < n /\ n <= enq[s]
            /\ op \in Ops
        BY <2>1, PositionsTyped DEF BaseInv, Types
      <3>2. s # Compute
        <4>1. done[s] # enq[s]
          BY <3>1
        <4>2. enq[Compute] = done[Compute]
          BY <2>1 DEF CallInv, Closed
        <4>3. QED
          BY <4>1, <4>2
      <3>3. SUFFICES ASSUME op.kind = "copy" PROVE FALSE
        BY <3>1, <3>2, <2>1 DEF BaseInv, OpsMatch, Match, Touches
      <3>4. op.by \in Copies /\ s = CopyStream(op.by)
        BY <3>1, <3>3, <2>1, OpFields DEF BaseInv, OpsMatch, Match
      <3>5. Active(op.by)
        BY <3>2, <3>3, <3>4, <2>1 DEF CallInv, Doing, CopyStream
      <3>6. QED
        BY <3>4, <3>5, <2>1 DEF CallInv, Users
    <2>2. QED
      BY <2>1, InWork DEF TeardownSafe, Pending, BaseInv, Types
  <1>2. QED
    BY <1>1, CallsHold, PTL

=============================================================================
