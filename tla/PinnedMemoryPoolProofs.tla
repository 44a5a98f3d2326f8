----------------------- MODULE PinnedMemoryPoolProofs -----------------------
(***************************************************************************)
(* Theorems about PinnedMemoryPool, for any number of clients, blocks,     *)
(* streams and sizes.  It implements BounceBuffers when no musaEventQuery  *)
(* and no synchronize call fails.                                          *)
(***************************************************************************)
EXTENDS PinnedMemoryPool, TLAPS

USE MaxOpsAssumption, PoolAssumption

\* mu_ is held across a run of PollPendingFrees and at no other time.
LockInv ==
    /\ \A c \in Clients : pc[c] = "allocate" <=> mu = c
    /\ pollPc = "poll" <=> mu = Poller
    /\ mu = NoThread => unseen = {}

\* A client has a block between Allocate and FreeAsync.
HoldInv ==
    \A c \in Clients :
        buf[c] # NoBuffer <=> pc[c] \in {"held", "copied", "push", "synchronize"}

TypeInv == TypeOK /\ LockInv /\ HoldInv

LEMMA MarkTypes ==
    ASSUME StreamsTypeOK, NEW s \in Streams
    PROVE  /\ NoMark \in Marks
           /\ StreamMark(s) \in Marks
           /\ DeviceMark \in Marks
BY DEF StreamsTypeOK, Marks, NoMark, StreamMark, DeviceMark

LEMMA LaterType ==
    ASSUME NEW m1 \in Marks, NEW m2 \in Marks
    PROVE  Later(m1, m2) \in Marks
BY DEF Marks, Later

LEMMA TypeInit == Init => TypeInv
<1> SUFFICES ASSUME Init PROVE TypeInv
    OBVIOUS
<1>1. StreamsTypeOK /\ NoMark \in Marks
  BY DEF Init, StreamsInit, StreamsTypeOK, Marks, NoMark
<1>2. TypeOK
  <2>1. \A s \in Streams : done[s] <= enq[s]
    <3>1. enq = done
      BY DEF Init, StreamsInit
    <3> QED
      BY <1>1, <3>1 DEF StreamsTypeOK, Marks
  <2>2. /\ goal \in [Clients -> Marks]
        /\ lastUse \in [Buffers -> Marks]
    BY <1>1 DEF Init
  <2> QED
    BY <1>1, <2>1, <2>2 DEF Init, TypeOK
<1>3. LockInv /\ HoldInv
  BY DEF Init, LockInv, HoldInv
<1> QED
  BY <1>2, <1>3 DEF TypeInv

LEMMA TypeStep == TypeInv /\ [Next]_vars => TypeInv'
<1> SUFFICES ASSUME TypeInv, [Next]_vars PROVE TypeInv'
    OBVIOUS
<1> USE DEF TypeInv
<1>0. StreamsTypeOK /\ NoMark \in Marks
  BY DEF TypeOK, StreamsTypeOK, Marks, NoMark
<1>1. ASSUME NEW c \in Clients, NEW n \in Sizes, AllocateBegin(c, n)
      PROVE  TypeInv'
  BY <1>1 DEF AllocateBegin, TypeOK, StreamsTypeOK, LockInv, HoldInv, hostVars
<1>2. ASSUME NEW c \in Clients, NEW f \in freeList, AllocateReuse(c, f)
      PROVE  TypeInv'
  BY <1>2 DEF AllocateReuse, TypeOK, StreamsTypeOK, LockInv, HoldInv, hostVars,
              FreeBlocks
<1>3. ASSUME NEW c \in Clients, AllocateMiss(c)
      PROVE  TypeInv'
  BY <1>3 DEF AllocateMiss, TypeOK, StreamsTypeOK, LockInv, HoldInv, hostVars,
              listVars
<1>4. ASSUME NEW c \in Clients, NEW b \in Buffers, HostAlloc(c, b)
      PROVE  TypeInv'
  BY <1>4 DEF HostAlloc, TypeOK, StreamsTypeOK, LockInv, HoldInv, listVars,
              AllocSize
<1>5. ASSUME NEW c \in Clients, HostAllocFails(c)
      PROVE  TypeInv'
  BY <1>0, <1>5 DEF HostAllocFails, Return, TypeOK, StreamsTypeOK, LockInv,
                    HoldInv, hostVars, listVars
<1>6. ASSUME NEW c \in Clients, NEW s \in Streams, Copy(c, s)
      PROVE  TypeInv'
  <2>1. /\ enq' = [enq EXCEPT ![s] = @ + 1]
        /\ enq[s] < MaxOps /\ done' = done
    BY <1>6 DEF Copy, Enqueue
  <2>2. StreamsTypeOK' /\ \A t \in Streams : done'[t] <= enq'[t]
    BY <2>1 DEF TypeOK, StreamsTypeOK, Marks
  <2>3. [NoMark EXCEPT ![s] = enq'[s]] \in Marks
    BY <2>2 DEF StreamsTypeOK, Marks, NoMark
  <2>4. lastUse' \in [Buffers -> Marks]
    BY <1>6, <2>3, LaterType DEF Copy, TypeOK
  <2> QED
    BY <1>6, <2>2, <2>4 DEF Copy, TypeOK, LockInv, HoldInv, listVars
<1>7. ASSUME NEW c \in Clients, RecordEvent(c) \/ RecordEventFails(c)
      PROVE  TypeInv'
  <2>1. StreamMark(via[c]) \in Marks
    BY <1>0 DEF TypeOK, StreamsTypeOK, Marks, NoMark, StreamMark
  <2> QED
    BY <1>7, <2>1 DEF RecordEvent, RecordEventFails, EventMark, TypeOK,
                      StreamsTypeOK, LockInv, HoldInv, hostVars, listVars
<1>8. ASSUME NEW c \in Clients, FreeNoStream(c)
      PROVE  TypeInv'
  BY <1>8 DEF FreeNoStream, DeviceMark, TypeOK, StreamsTypeOK, LockInv, HoldInv,
              hostVars, listVars
<1>9. ASSUME NEW c \in Clients, PushPending(c)
      PROVE  TypeInv'
  <2>1. buf[c] \in Buffers /\ goal[c] \in Marks /\ AllocSize(req[c]) \in Nat
    BY <1>9 DEF PushPending, TypeOK, HoldInv, AllocSize
  <2>2. pending' \subseteq PendingBlocks /\ unseen' \subseteq pending'
    BY <1>9, <2>1 DEF PushPending, TypeOK, PendingBlocks
  <2> QED
    BY <1>0, <1>9, <2>2 DEF PushPending, Return, Notify, TypeOK, StreamsTypeOK,
                            LockInv, HoldInv, hostVars
<1>10. ASSUME NEW c \in Clients, FreeHost(c) \/ CopyFails(c)
       PROVE  TypeInv'
  BY <1>0, <1>10 DEF FreeHost, CopyFails, GiveBack, Return, TypeOK, StreamsTypeOK,
                     LockInv, HoldInv, listVars
<1>11. ASSUME NEW p \in unseen, QueryDone(p) \/ QueryNotReady(p)
       PROVE  TypeInv'
  <2>1. freeList' \subseteq FreeBlocks /\ pending' \subseteq PendingBlocks
          /\ unseen' \subseteq pending' /\ (unseen = {} => unseen' = {})
    BY <1>11 DEF QueryDone, QueryNotReady, TypeOK, FreeBlocks, PendingBlocks
  <2> QED
    BY <1>11, <2>1 DEF QueryDone, QueryNotReady, TypeOK, StreamsTypeOK, LockInv,
                       HoldInv, hostVars, clientVars
<1>12. ASSUME PollerStep
       PROVE  TypeInv'
  BY <1>12 DEF PollerStep, PollerWait, PollerBegin, PollerEnd, TypeOK,
               StreamsTypeOK, LockInv, HoldInv, hostVars, clientVars, listVars
<1>13. ASSUME StopPolling
       PROVE  TypeInv'
  BY <1>13 DEF StopPolling, Notify, TypeOK, StreamsTypeOK, LockInv, HoldInv,
               hostVars, clientVars, listVars
<1>14. ASSUME ReleaseAll
       PROVE  TypeInv'
  <2>1. cap' \in [Buffers -> Nat] /\ lastUse' \in [Buffers -> Marks]
    BY <1>0, <1>14 DEF ReleaseAll, ReleaseLists, Listed, TypeOK
  <2> QED
    BY <1>14, <2>1 DEF ReleaseAll, ReleaseLists, TypeOK, StreamsTypeOK, LockInv,
                       HoldInv, clientVars
<1>15. ASSUME NEW s \in Streams, Device(s)
       PROVE  TypeInv'
  <2>1. StreamsTypeOK' /\ \A t \in Streams : done'[t] <= enq'[t]
    BY <1>15 DEF Device, Complete, TypeOK, StreamsTypeOK, Marks
  <2> QED
    BY <1>15, <2>1 DEF Device, TypeOK, LockInv, HoldInv, hostVars, clientVars,
                       listVars
<1>16. ASSUME UNCHANGED vars
       PROVE  TypeInv'
  BY <1>16 DEF vars, TypeOK, StreamsTypeOK, LockInv, HoldInv
<1> QED
  BY <1>1, <1>2, <1>3, <1>4, <1>5, <1>6, <1>7, <1>8, <1>9, <1>10, <1>11, <1>12,
     <1>13, <1>14, <1>15, <1>16 DEF Next, ClientStep, Query, OwnerStep, Finished

\* Every variable keeps its type, PollPendingFrees runs under mu_, and a
\* client has a block exactly while it is between Allocate and FreeAsync.
THEOREM TypeCorrect == Spec => []TypeOK
<1>1. Spec => []TypeInv
  BY TypeInit, TypeStep, PTL DEF Spec
<1>2. TypeInv => TypeOK
  BY DEF TypeInv
<1> QED
  BY <1>1, <1>2, PTL

-----------------------------------------------------------------------------

\* No client is inside the pool once its destructor has begun.
QuietInv == ownerPc # "live" => \A c \in Clients : pc[c] = "idle"

LEMMA QuietStep ==
    TypeInv /\ QuietInv /\ [Next]_vars => QuietInv'
<1> SUFFICES ASSUME TypeInv, QuietInv, [Next]_vars PROVE QuietInv'
    OBVIOUS
<1> USE DEF TypeInv, TypeOK, QuietInv
<1>1. ASSUME NEW c \in Clients, NEW n \in Sizes, AllocateBegin(c, n)
      PROVE  QuietInv'
  BY <1>1 DEF AllocateBegin
<1>2. ASSUME NEW c \in Clients, ClientStep(c)
      PROVE  QuietInv'
  <2>1. pc[c] # "idle" /\ ownerPc' = ownerPc
    BY <1>2 DEF ClientStep, AllocateReuse, AllocateMiss, HostAlloc,
                HostAllocFails, Copy, RecordEvent, RecordEventFails,
                FreeNoStream, PushPending, FreeHost, CopyFails, GiveBack
  <2> QED
    BY <2>1
<1>3. ASSUME NEW p \in unseen, QueryDone(p) \/ QueryNotReady(p)
      PROVE  QuietInv'
  BY <1>3 DEF QueryDone, QueryNotReady, clientVars
<1>4. ASSUME PollerStep PROVE QuietInv'
  BY <1>4 DEF PollerStep, PollerWait, PollerBegin, PollerEnd, clientVars
<1>5. ASSUME OwnerStep PROVE QuietInv'
  BY <1>5 DEF OwnerStep, StopPolling, ReleaseAll, ReleaseLists, clientVars
<1>6. ASSUME NEW s \in Streams, Device(s) PROVE QuietInv'
  BY <1>6 DEF Device, clientVars
<1>7. ASSUME UNCHANGED vars PROVE QuietInv'
  BY <1>7 DEF vars
<1> QED
  BY <1>1, <1>2, <1>3, <1>4, <1>5, <1>6, <1>7 DEF Next, Query, Finished

-----------------------------------------------------------------------------

\* A listed block has room for the size it is listed with.
SizeInv ==
    /\ \A p \in pending : p.size <= cap[p.ptr]
    /\ \A f \in freeList : f.size <= cap[f.ptr]
    /\ CapacityCoversRequest

BlockInv == SoleOwner /\ NoLeak /\ SizeInv

LEMMA BlockInit == Init => QuietInv /\ BlockInv
<1> SUFFICES ASSUME Init PROVE QuietInv /\ BlockInv
    OBVIOUS
<1>1. Held = {} /\ Ptrs(pending) = {} /\ Ptrs(freeList) = {}
  BY DEF Init, Held, Ptrs
<1>2. SoleOwner /\ NoLeak
  BY <1>1 DEF Init, SoleOwner, NoLeak
<1> QED
  BY <1>2 DEF Init, QuietInv, BlockInv, SizeInv, CapacityCoversRequest

\* AllocSize never rounds down, and never to nothing.
LEMMA AllocSizeRounds ==
    ASSUME NEW n \in Nat
    PROVE  AllocSize(n) \in Nat \ {0} /\ AllocSize(n) >= n
BY DEF AllocSize

\* Only the steps below touch the lists, the clients' blocks or the blocks.
LEMMA BlockStep ==
    TypeInv /\ QuietInv /\ BlockInv /\ [Next]_vars => BlockInv'
<1> SUFFICES ASSUME TypeInv, QuietInv, BlockInv, [Next]_vars PROVE BlockInv'
    OBVIOUS
<1> USE DEF TypeInv, BlockInv
<1>1. ASSUME UNCHANGED <<buf, req, pending, freeList, cap>>
      PROVE  BlockInv'
  <2>1. /\ Held' = Held
        /\ Ptrs(pending)' = Ptrs(pending)
        /\ Ptrs(freeList)' = Ptrs(freeList)
    BY <1>1 DEF Held, Ptrs
  <2>2. SoleOwner'
    BY <1>1, <2>1 DEF SoleOwner
  <2>3. NoLeak'
    BY <1>1, <2>1 DEF NoLeak
  <2>4. SizeInv'
    BY <1>1 DEF SizeInv, CapacityCoversRequest
  <2> QED
    BY <2>2, <2>3, <2>4
<1>2. ASSUME NEW c \in Clients, NEW n \in Sizes, AllocateBegin(c, n)
      PROVE  BlockInv'
  <2>1. buf[c] = NoBuffer
    BY <1>2 DEF AllocateBegin, HoldInv
  <2>2. UNCHANGED <<buf, pending, freeList, cap>>
          /\ req' = [req EXCEPT ![c] = n]
    BY <1>2 DEF AllocateBegin, hostVars
  <2>3. SoleOwner' /\ NoLeak'
    <3>1. Held' = Held /\ Ptrs(pending)' = Ptrs(pending) /\ Ptrs(freeList)' = Ptrs(freeList)
      BY <2>2 DEF Held, Ptrs
    <3>2. SoleOwner'
      BY <2>2, <3>1 DEF SoleOwner
    <3>3. NoLeak'
      BY <2>2, <3>1 DEF NoLeak
    <3> QED
      BY <3>2, <3>3
  <2>4. ASSUME NEW d \in Clients, buf'[d] # NoBuffer
        PROVE  cap'[buf'[d]] >= AllocSize(req'[d])
    <3>1. d # c /\ buf'[d] = buf[d] /\ req'[d] = req[d]
      BY <2>1, <2>2, <2>4 DEF TypeOK
    <3> QED
      BY <2>2, <2>4, <3>1 DEF SizeInv, CapacityCoversRequest
  <2>5. SizeInv'
    BY <2>2, <2>4 DEF SizeInv, CapacityCoversRequest
  <2> QED
    BY <2>3, <2>5
<1>3. ASSUME NEW c \in Clients, NEW f \in freeList, AllocateReuse(c, f)
      PROVE  BlockInv'
  <2>1. /\ buf[c] = NoBuffer
        /\ buf' = [buf EXCEPT ![c] = f.ptr]
        /\ freeList' = freeList \ {f}
        /\ f.size >= AllocSize(req[c])
        /\ UNCHANGED <<req, pending, cap>>
    BY <1>3 DEF AllocateReuse, HoldInv, Fitting, hostVars
  <2>2. f.ptr \in Buffers /\ f.size \in Nat /\ f.ptr \in Ptrs(freeList)
    BY DEF TypeOK, FreeBlocks, Ptrs
  <2>3. Held' = Held \cup {f.ptr}
    BY <2>1, <2>2 DEF Held, TypeOK
  <2>4. Ptrs(pending)' = Ptrs(pending) /\ Ptrs(freeList)' = Ptrs(freeList) \ {f.ptr}
    BY <2>1 DEF Ptrs, SoleOwner
  <2>5. SoleOwner'
    <3>1. f.ptr \notin Held /\ f.ptr \notin Ptrs(pending)
      BY <2>2 DEF SoleOwner
    <3>2. \A d, e \in Clients : buf'[d] = buf'[e] /\ buf'[d] # NoBuffer => d = e
      BY <2>1, <2>2, <3>1 DEF SoleOwner, TypeOK, Held
    <3>3. /\ (Held \cap Ptrs(pending))' = {}
          /\ (Held \cap Ptrs(freeList))' = {}
          /\ (Ptrs(pending) \cap Ptrs(freeList))' = {}
      BY <2>3, <2>4, <3>1 DEF SoleOwner
    <3> QED
      BY <2>1, <3>2, <3>3 DEF SoleOwner
  <2>6. NoLeak'
    BY <2>1, <2>2, <2>3, <2>4 DEF NoLeak
  <2>7. CapacityCoversRequest'
    BY <2>1, <2>2, AllocSizeRounds DEF SizeInv, CapacityCoversRequest, TypeOK
  <2> QED
    BY <2>1, <2>5, <2>6, <2>7 DEF SizeInv
<1>4. ASSUME NEW c \in Clients, NEW b \in Buffers, HostAlloc(c, b)
      PROVE  BlockInv'
  <2>1. /\ buf[c] = NoBuffer /\ cap[b] = 0
        /\ buf' = [buf EXCEPT ![c] = b]
        /\ cap' = [cap EXCEPT ![b] = AllocSize(req[c])]
        /\ UNCHANGED <<req, pending, freeList>>
    BY <1>4 DEF HostAlloc, HoldInv, listVars
  <2>2. AllocSize(req[c]) \in Nat \ {0}
    BY AllocSizeRounds DEF TypeOK
  <2>3. b \notin Held \cup Ptrs(pending) \cup Ptrs(freeList)
    BY <2>1 DEF NoLeak
  <2>4. /\ Held' = Held \cup {b}
        /\ Ptrs(pending)' = Ptrs(pending)
        /\ Ptrs(freeList)' = Ptrs(freeList)
    BY <2>1 DEF Held, Ptrs, TypeOK
  <2>5. SoleOwner'
    BY <2>1, <2>3, <2>4 DEF SoleOwner, TypeOK, Held
  <2>6. NoLeak'
    BY <2>1, <2>2, <2>4 DEF NoLeak, TypeOK
  <2>7. SizeInv'
    BY <2>1, <2>2, <2>3 DEF SizeInv, CapacityCoversRequest, TypeOK, Held, Ptrs,
                            FreeBlocks, PendingBlocks
  <2> QED
    BY <2>5, <2>6, <2>7
<1>5. ASSUME NEW c \in Clients, HostAllocFails(c)
      PROVE  BlockInv'
  <2>1. /\ buf[c] = NoBuffer
        /\ buf' = buf
        /\ req' = [req EXCEPT ![c] = 0]
        /\ UNCHANGED <<pending, freeList, cap>>
    BY <1>5 DEF HostAllocFails, Return, HoldInv, listVars, hostVars, TypeOK
  <2>2. /\ Held' = Held
        /\ Ptrs(pending)' = Ptrs(pending)
        /\ Ptrs(freeList)' = Ptrs(freeList)
    BY <2>1 DEF Held, Ptrs
  <2>3. SoleOwner' /\ NoLeak'
    BY <2>1, <2>2 DEF SoleOwner, NoLeak
  <2> QED
    BY <2>1, <2>3 DEF SizeInv, CapacityCoversRequest, TypeOK
<1>6. ASSUME NEW c \in Clients, PushPending(c)
      PROVE  BlockInv'
  <2> DEFINE p == [ptr |-> buf[c], size |-> AllocSize(req[c]), event |-> goal[c]]
  <2>1. /\ buf[c] \in Held /\ buf[c] \in Buffers
        /\ buf' = [buf EXCEPT ![c] = NoBuffer]
        /\ req' = [req EXCEPT ![c] = 0]
        /\ pending' = pending \cup {p}
        /\ UNCHANGED <<freeList, cap>>
    BY <1>6 DEF PushPending, Return, HoldInv, Held, hostVars, TypeOK
  <2>2. /\ Held' = Held \ {buf[c]}
        /\ Ptrs(pending)' = Ptrs(pending) \cup {buf[c]}
        /\ Ptrs(freeList)' = Ptrs(freeList)
    <3>1. Held' = Held \ {buf[c]}
      BY <2>1 DEF Held, TypeOK, SoleOwner
    <3>2. Ptrs(pending)' = Ptrs(pending) \cup {p.ptr}
      BY <2>1 DEF Ptrs
    <3>3. Ptrs(freeList)' = Ptrs(freeList)
      BY <2>1 DEF Ptrs
    <3> QED
      BY <3>1, <3>2, <3>3
  <2>3. \A q \in pending : q.ptr # p.ptr
    BY <2>1 DEF SoleOwner, Ptrs
  <2>4. SoleOwner'
    <3>1. \A d, e \in Clients : buf'[d] = buf'[e] /\ buf'[d] # NoBuffer => d = e
      BY <2>1 DEF SoleOwner, TypeOK
    <3>2. \A q, r \in pending' : q.ptr = r.ptr => q = r
      BY <2>1, <2>3 DEF SoleOwner
    <3>3. (Held \cap Ptrs(pending))' = {}
      BY <2>2 DEF SoleOwner
    <3>4. (Held \cap Ptrs(freeList))' = {}
      BY <2>2 DEF SoleOwner
    <3>5. (Ptrs(pending) \cap Ptrs(freeList))' = {}
      <4>1. buf[c] \notin Ptrs(freeList) /\ Ptrs(pending) \cap Ptrs(freeList) = {}
        BY <2>1 DEF SoleOwner
      <4> QED
        BY <2>2, <4>1
    <3> QED
      BY <2>1, <3>1, <3>2, <3>3, <3>4, <3>5 DEF SoleOwner
  <2>5. NoLeak'
    BY <2>1, <2>2 DEF NoLeak
  <2>6. p.size <= cap[p.ptr]
    BY <2>1, AllocSizeRounds DEF SizeInv, CapacityCoversRequest, TypeOK, Held
  <2>7. SizeInv'
    BY <2>1, <2>6 DEF SizeInv, CapacityCoversRequest, TypeOK
  <2> QED
    BY <2>4, <2>5, <2>7
<1>7. ASSUME NEW c \in Clients, FreeHost(c) \/ CopyFails(c)
      PROVE  BlockInv'
  <2>1. /\ buf[c] \in Held /\ buf[c] \in Buffers
        /\ buf' = [buf EXCEPT ![c] = NoBuffer]
        /\ req' = [req EXCEPT ![c] = 0]
        /\ cap' = [cap EXCEPT ![buf[c]] = 0]
        /\ UNCHANGED <<pending, freeList>>
    BY <1>7 DEF FreeHost, CopyFails, GiveBack, Return, HoldInv, Held, listVars,
                TypeOK
  <2>2. /\ Held' = Held \ {buf[c]}
        /\ Ptrs(pending)' = Ptrs(pending)
        /\ Ptrs(freeList)' = Ptrs(freeList)
    BY <2>1 DEF Held, Ptrs, TypeOK, SoleOwner
  <2>3. SoleOwner'
    BY <2>1, <2>2 DEF SoleOwner, TypeOK
  <2>4. NoLeak'
    BY <2>1, <2>2 DEF NoLeak, TypeOK, SoleOwner
  <2>5. SizeInv'
    <3>1. buf[c] \notin Ptrs(pending) /\ buf[c] \notin Ptrs(freeList)
      BY <2>1 DEF SoleOwner
    <3>2. cap \in [Buffers -> Nat] /\ \A b \in Buffers \ {buf[c]} : cap'[b] = cap[b]
      BY <2>1 DEF TypeOK
    <3>3. /\ \A p \in pending : p.ptr \in Buffers /\ p.ptr # buf[c]
          /\ \A f \in freeList : f.ptr \in Buffers /\ f.ptr # buf[c]
      BY <3>1 DEF TypeOK, FreeBlocks, PendingBlocks, Ptrs
    <3>4. /\ \A p \in pending' : p.size <= cap'[p.ptr]
          /\ \A f \in freeList' : f.size <= cap'[f.ptr]
      BY <2>1, <3>2, <3>3 DEF SizeInv
    <3>5. ASSUME NEW d \in Clients, buf'[d] # NoBuffer
          PROVE  cap'[buf'[d]] >= AllocSize(req'[d])
      <4>1. d # c /\ buf'[d] = buf[d] /\ req'[d] = req[d]
        BY <2>1, <3>5 DEF TypeOK
      <4>2. buf[d] \in Buffers \ {buf[c]}
        BY <2>1, <3>5, <4>1 DEF TypeOK, SoleOwner
      <4> QED
        BY <3>2, <3>5, <4>1, <4>2 DEF SizeInv, CapacityCoversRequest
    <3> QED
      BY <3>4, <3>5 DEF SizeInv, CapacityCoversRequest
  <2> QED
    BY <2>3, <2>4, <2>5
<1>8. ASSUME NEW p \in unseen, QueryDone(p)
      PROVE  BlockInv'
  <2> DEFINE f == [ptr |-> p.ptr, size |-> p.size]
  <2>1. /\ p \in pending
        /\ pending' = pending \ {p}
        /\ freeList' = freeList \cup {f}
        /\ UNCHANGED <<buf, req, cap>>
    BY <1>8 DEF QueryDone, clientVars, hostVars, TypeOK
  <2>2. /\ Held' = Held
        /\ Ptrs(pending)' = Ptrs(pending) \ {p.ptr}
        /\ Ptrs(freeList)' = Ptrs(freeList) \cup {p.ptr}
    <3>1. Held' = Held
      BY <2>1 DEF Held
    <3>2. Ptrs(pending)' = Ptrs(pending) \ {p.ptr}
      BY <2>1 DEF Ptrs, SoleOwner
    <3>3. Ptrs(freeList)' = Ptrs(freeList) \cup {f.ptr}
      BY <2>1 DEF Ptrs
    <3> QED
      BY <3>1, <3>2, <3>3
  <2>3. p.ptr \in Ptrs(pending) /\ \A g \in freeList : g.ptr # p.ptr
    BY <2>1 DEF SoleOwner, Ptrs
  <2>4. SoleOwner'
    <3>1. \A g, h \in freeList' : g.ptr = h.ptr => g = h
      BY <2>1, <2>3 DEF SoleOwner
    <3>2. /\ (Held \cap Ptrs(pending))' = {}
          /\ (Held \cap Ptrs(freeList))' = {}
          /\ (Ptrs(pending) \cap Ptrs(freeList))' = {}
      BY <2>2, <2>3 DEF SoleOwner
    <3>3. /\ \A d, e \in Clients : buf'[d] = buf'[e] /\ buf'[d] # NoBuffer => d = e
          /\ \A q, r \in pending' : q.ptr = r.ptr => q = r
      BY <2>1 DEF SoleOwner
    <3> QED
      BY <3>1, <3>2, <3>3 DEF SoleOwner
  <2>5. NoLeak'
    BY <2>1, <2>2, <2>3 DEF NoLeak
  <2>6. SizeInv'
    BY <2>1 DEF SizeInv, CapacityCoversRequest
  <2> QED
    BY <2>4, <2>5, <2>6
<1>9. ASSUME ReleaseAll
      PROVE  BlockInv'
  <2>1. Held = {} /\ Held' = {}
    BY <1>9 DEF ReleaseAll, ReleaseLists, Listed, QuietInv, HoldInv, Held, clientVars
  <2>2. Ptrs(pending)' = {} /\ Ptrs(freeList)' = {}
    BY <1>9 DEF ReleaseAll, ReleaseLists, Listed, Ptrs
  <2>3. \A b \in Buffers : cap'[b] = 0
    BY <1>9, <2>1 DEF ReleaseAll, ReleaseLists, Listed, NoLeak, Ptrs
  <2>4. SoleOwner' /\ NoLeak'
    BY <1>9, <2>1, <2>2, <2>3 DEF ReleaseAll, ReleaseLists, SoleOwner, NoLeak,
                                  clientVars
  <2> QED
    BY <1>9, <2>1, <2>4 DEF ReleaseAll, ReleaseLists, SizeInv,
                            CapacityCoversRequest, QuietInv, HoldInv, clientVars
<1>10. ASSUME NEW c \in Clients,
              \/ AllocateMiss(c)
              \/ \E s \in Streams : Copy(c, s)
              \/ RecordEvent(c) \/ RecordEventFails(c) \/ FreeNoStream(c)
       PROVE  UNCHANGED <<buf, req, pending, freeList, cap>>
  BY <1>10 DEF AllocateMiss, Copy, RecordEvent, RecordEventFails, FreeNoStream,
               listVars, hostVars
<1>11. ASSUME \/ \E p \in unseen : QueryNotReady(p)
              \/ PollerStep \/ StopPolling
              \/ \E s \in Streams : Device(s)
              \/ UNCHANGED vars
       PROVE  UNCHANGED <<buf, req, pending, freeList, cap>>
  BY <1>11 DEF QueryNotReady, PollerStep, PollerWait, PollerBegin, PollerEnd,
               StopPolling, Device, vars, clientVars, listVars, hostVars
<1> QED
  BY <1>1, <1>2, <1>3, <1>4, <1>5, <1>6, <1>7, <1>8, <1>9, <1>10, <1>11
     DEF Next, ClientStep, Query, OwnerStep, Finished

LEMMA BlocksHold == Spec => []BlockInv
<1>1. Spec => [](TypeInv /\ QuietInv /\ BlockInv)
  BY TypeInit, TypeStep, QuietStep, BlockInit, BlockStep, PTL DEF Spec
<1> QED
  BY <1>1, PTL

\* Blocks are where the pool and its clients think they are: each is in one
\* place, so that Allocate hands none to two copies and nothing frees it twice,
\* whatever calls fail.
THEOREM Ownership == Spec => []SoleOwner
<1>1. BlockInv => SoleOwner
  BY DEF BlockInv
<1> QED
  BY <1>1, BlocksHold, PTL

\* No block is forgotten, whatever calls fail, and none that musaFreeHost was
\* called on is kept: when the pool is gone all its memory is free.
THEOREM NoneForgotten == Spec => []NoLeak
<1>1. BlockInv => NoLeak
  BY DEF BlockInv
<1> QED
  BY <1>1, BlocksHold, PTL

\* A block is as large as the request it serves, although FreeAsync lists it
\* with the byte count of its last use: that count is never more than the block
\* has (SizeInv).
THEOREM RoomForRequest == Spec => []CapacityCoversRequest
<1>1. BlockInv => CapacityCoversRequest
  BY DEF BlockInv, SizeInv
<1> QED
  BY <1>1, BlocksHold, PTL

-----------------------------------------------------------------------------

\* Once mark m has passed, so has every copy that touches block b.
Covered(b, m) ==
    \A s \in Streams : lastUse[b][s] <= m[s] \/ lastUse[b][s] <= done[s]

\* The copies enqueued so far are all the device can be running, and each
\* place a block can be in bounds those that still touch it.
UseInv ==
    /\ \A b \in Buffers, s \in Streams : lastUse[b][s] <= enq[s]
    /\ \A b \in Buffers : cap[b] = 0 => ~InFlight(b)
    /\ \A f \in freeList : ~InFlight(f.ptr)
    /\ \A p \in pending : Covered(p.ptr, p.event)
    /\ \A c \in Clients :
          /\ pc[c] = "held" => ~InFlight(buf[c])
          /\ pc[c] = "copied" =>
                /\ via[c] \in Streams
                /\ \A s \in Streams \ {via[c]} : lastUse[buf[c]][s] <= done[s]
          /\ pc[c] \in {"push", "synchronize"} => Covered(buf[c], goal[c])

LEMMA UseInit == Init => UseInv
<1> SUFFICES ASSUME Init PROVE UseInv
    OBVIOUS
<1>1. /\ \A b \in Buffers, s \in Streams : lastUse[b][s] = 0
      /\ \A s \in Streams : enq[s] = 0 /\ done[s] = 0
  BY DEF Init, StreamsInit, NoMark
<1>2. \A b \in Buffers : ~InFlight(b)
  BY <1>1 DEF InFlight, Passed
<1> QED
  BY <1>1, <1>2 DEF Init, UseInv

\* What the device has completed, and so every mark it has passed, stays so.
LEMMA PassedStays ==
    ASSUME TypeInv, TypeInv', NEW m \in Marks, Passed(m),
           \A s \in Streams : done[s] <= done'[s]
    PROVE  Passed(m)'
BY DEF TypeInv, TypeOK, StreamsTypeOK, Marks, Passed

LEMMA CoveredStays ==
    ASSUME TypeInv, TypeInv', NEW b \in Buffers, NEW m \in Marks, Covered(b, m),
           lastUse' = lastUse, \A s \in Streams : done[s] <= done'[s]
    PROVE  Covered(b, m)'
BY DEF TypeInv, TypeOK, StreamsTypeOK, Marks, Covered

\* When a mark that covers a block has passed, the block is idle.
LEMMA CoveredPassed ==
    ASSUME TypeInv, NEW b \in Buffers, NEW m \in Marks, Covered(b, m), Passed(m)
    PROVE  ~InFlight(b)
BY DEF TypeInv, TypeOK, StreamsTypeOK, Marks, Covered, Passed, InFlight

\* The only error that breaks it is that of a query, which the pool takes for
\* the end of the copy: even a block freed too early by an error of the
\* synchronize calls is covered again, because its address is new.
LEMMA UseStep ==
    ASSUME "musaEventQuery" \notin Failing,
           TypeInv, TypeInv', QuietInv, BlockInv, UseInv, [Next]_vars
    PROVE  UseInv'
<1> DEFINE Busy == {"held", "copied", "push", "synchronize"}
           SameClient(c) == pc'[c] = pc[c] /\ buf'[c] = buf[c]
                              /\ via'[c] = via[c] /\ goal'[c] = goal[c]
           ClientUse(c) ==
             /\ pc[c] = "held" => ~InFlight(buf[c])
             /\ pc[c] = "copied" =>
                   /\ via[c] \in Streams
                   /\ \A s \in Streams \ {via[c]} : lastUse[buf[c]][s] <= done[s]
             /\ pc[c] \in {"push", "synchronize"} => Covered(buf[c], goal[c])
<1>0. /\ \A c \in Clients : pc[c] \in Busy => buf[c] \in Buffers /\ goal[c] \in Marks
      /\ \A b \in Buffers : lastUse[b] \in Marks
      /\ \A f \in freeList : f.ptr \in Buffers
      /\ \A p \in pending : p.ptr \in Buffers /\ p.event \in Marks
  BY DEF TypeInv, TypeOK, HoldInv, FreeBlocks, PendingBlocks
\* Time passing never hurts: what holds of a client's block goes on to hold.
<1>1. ASSUME lastUse' = lastUse, \A s \in Streams : done[s] <= done'[s],
             NEW c \in Clients, SameClient(c)
      PROVE  ClientUse(c)'
  <2>1. CASE pc[c] \notin Busy
    BY <1>1, <2>1
  <2>2. CASE pc[c] \in Busy
    <3>1. ClientUse(c) /\ buf[c] \in Buffers /\ goal[c] \in Marks
      BY <1>0, <2>2 DEF UseInv
    <3>2. pc[c] = "held" => ~InFlight(buf[c])'
      BY <1>0, <1>1, <3>1, PassedStays DEF InFlight
    <3>3. pc[c] \in {"push", "synchronize"} => Covered(buf[c], goal[c])'
      BY <1>1, <3>1, CoveredStays
    <3>4. pc[c] = "copied" =>
            /\ via'[c] \in Streams
            /\ \A s \in Streams \ {via'[c]} : lastUse'[buf'[c]][s] <= done'[s]
      BY <1>0, <1>1, <3>1 DEF TypeInv, TypeOK, StreamsTypeOK, Marks
    <3> QED
      BY <1>1, <3>2, <3>3, <3>4
  <2> QED
    BY <2>1, <2>2
\* So does what holds of the blocks the pool lists.
<1>2. ASSUME lastUse' = lastUse, cap' = cap, enq' = enq,
             \A s \in Streams : done[s] <= done'[s],
             freeList' \subseteq freeList, pending' \subseteq pending,
             \A c \in Clients : pc'[c] \in Busy => ClientUse(c)'
      PROVE  UseInv'
  <2>1. \A b \in Buffers : ~InFlight(b) => ~InFlight(b)'
    BY <1>0, <1>2, PassedStays DEF InFlight
  <2>2. \A p \in pending' : Covered(p.ptr, p.event)'
    <3> TAKE p \in pending'
    <3>1. p \in pending /\ p.ptr \in Buffers /\ p.event \in Marks
      BY <1>0, <1>2
    <3> QED
      BY <1>2, <3>1, CoveredStays DEF UseInv
  <2>3. \A f \in freeList' : ~InFlight(f.ptr)'
    BY <1>0, <1>2, <2>1 DEF UseInv
  <2>4. \A b \in Buffers : cap'[b] = 0 => ~InFlight(b)'
    BY <1>2, <2>1 DEF UseInv
  <2>5. \A b \in Buffers, s \in Streams : lastUse'[b][s] <= enq'[s]
    BY <1>2 DEF UseInv
  <2> QED
    BY <1>2, <2>2, <2>3, <2>4, <2>5 DEF UseInv
<1>3. ASSUME UNCHANGED <<lastUse, cap, enq, freeList, pending>>,
             \A s \in Streams : done[s] <= done'[s],
             \A c \in Clients : pc'[c] \in Busy => SameClient(c)
      PROVE  UseInv'
  BY <1>1, <1>2, <1>3
\* On these steps the device does nothing.
<1>4. ASSUME done' = done
      PROVE  \A s \in Streams : done[s] <= done'[s]
  BY <1>4 DEF TypeInv, TypeOK, StreamsTypeOK, Marks
<1>5. ASSUME NEW c \in Clients,
             \/ \E n \in Sizes : AllocateBegin(c, n)
             \/ AllocateMiss(c) \/ HostAllocFails(c)
      PROVE  UseInv'
  <2>1. UNCHANGED <<lastUse, cap, enq, done, freeList, pending>>
    BY <1>5 DEF AllocateBegin, AllocateMiss, HostAllocFails, listVars, hostVars
  <2>2. \A d \in Clients : pc'[d] \in Busy => SameClient(d)
    BY <1>5 DEF AllocateBegin, AllocateMiss, HostAllocFails, Return, TypeInv, TypeOK
  <2> QED
    BY <1>3, <1>4, <2>1, <2>2
<1>6. ASSUME \/ \E p \in unseen : QueryNotReady(p)
             \/ PollerStep \/ StopPolling
             \/ UNCHANGED vars
      PROVE  UseInv'
  <2>1. UNCHANGED <<lastUse, cap, enq, done, freeList, pending, pc, buf, via, goal>>
    BY <1>6 DEF QueryNotReady, PollerStep, PollerWait, PollerBegin, PollerEnd,
                StopPolling, vars, clientVars, listVars, hostVars
  <2> QED
    BY <1>3, <1>4, <2>1
<1>7. ASSUME NEW s \in Streams, Device(s)
      PROVE  UseInv'
  <2>1. UNCHANGED <<lastUse, cap, enq, freeList, pending, pc, buf, via, goal>>
    BY <1>7 DEF Device, Complete, clientVars, listVars, hostVars
  <2>2. \A t \in Streams : done[t] <= done'[t]
    BY <1>7 DEF Device, Complete, TypeInv, TypeOK, StreamsTypeOK, Marks
  <2> QED
    BY <1>3, <2>1, <2>2
<1>8. ASSUME NEW c \in Clients, NEW f \in freeList, AllocateReuse(c, f)
      PROVE  UseInv'
  <2>1. /\ UNCHANGED <<lastUse, cap, enq, done, pending>>
        /\ freeList' \subseteq freeList
        /\ pc' = [pc EXCEPT ![c] = "held"] /\ buf' = [buf EXCEPT ![c] = f.ptr]
        /\ UNCHANGED <<via, goal>>
    BY <1>8 DEF AllocateReuse, hostVars
  <2>2. \A d \in Clients \ {c} : ClientUse(d)'
    BY <1>1, <1>4, <2>1 DEF TypeInv, TypeOK
  <2>3. ClientUse(c)'
    <3>1. pc'[c] = "held" /\ buf'[c] = f.ptr
      BY <2>1 DEF TypeInv, TypeOK
    <3>2. ~InFlight(f.ptr)'
      BY <2>1, <1>0 DEF UseInv, InFlight, Passed
    <3> QED
      BY <3>1, <3>2 DEF InFlight
  <2> QED
    BY <1>2, <1>4, <2>1, <2>2, <2>3
<1>9. ASSUME NEW c \in Clients,
             RecordEvent(c) \/ RecordEventFails(c) \/ FreeNoStream(c)
      PROVE  UseInv'
  <2>1. /\ UNCHANGED <<lastUse, cap, enq, done, freeList, pending, buf, via>>
        /\ \A d \in Clients \ {c} : SameClient(d)
        /\ pc'[c] \in {"push", "synchronize"}
    BY <1>9 DEF RecordEvent, RecordEventFails, FreeNoStream, listVars, hostVars,
                TypeInv, TypeOK
  <2>2. buf[c] \in Buffers
    BY <1>9, <1>0 DEF RecordEvent, RecordEventFails, FreeNoStream
  <2>3. CASE FreeNoStream(c)
    <3>1. goal'[c] = enq
      BY <2>3 DEF FreeNoStream, DeviceMark, TypeInv, TypeOK
    <3>2. Covered(buf[c], goal[c])'
      BY <2>1, <2>2, <3>1 DEF Covered, UseInv
    <3> QED
      BY <1>1, <1>2, <1>4, <2>1, <3>2
  <2>4. CASE RecordEvent(c) \/ RecordEventFails(c)
    <3>1. goal'[c] = StreamMark(via[c]) /\ pc[c] = "copied"
      BY <2>4 DEF RecordEvent, RecordEventFails, EventMark, TypeInv, TypeOK
    <3>2. via[c] \in Streams
            /\ \A s \in Streams \ {via[c]} : lastUse[buf[c]][s] <= done[s]
      BY <3>1 DEF UseInv
    <3>3. goal'[c][via[c]] = enq[via[c]]
      BY <3>1, <3>2 DEF StreamMark, NoMark
    <3>4. Covered(buf[c], goal[c])'
      BY <2>1, <2>2, <3>2, <3>3 DEF Covered, UseInv
    <3> QED
      BY <1>1, <1>2, <1>4, <2>1, <3>4
  <2> QED
    BY <1>9, <2>3, <2>4
<1>10. ASSUME NEW c \in Clients, PushPending(c)
       PROVE  UseInv'
  <2> DEFINE p == [ptr |-> buf[c], size |-> AllocSize(req[c]), event |-> goal[c]]
  <2>1. /\ UNCHANGED <<lastUse, cap, enq, done, freeList>>
        /\ pending' = pending \cup {p}
        /\ pc'[c] = "idle"
        /\ \A d \in Clients \ {c} : SameClient(d)
    BY <1>10 DEF PushPending, Return, hostVars, TypeInv, TypeOK
  <2>2. \A d \in Clients : pc'[d] \in Busy => ClientUse(d)'
    BY <1>1, <1>4, <2>1
  <2>3. \A q \in pending' : Covered(q.ptr, q.event)
    BY <1>10, <2>1 DEF PushPending, UseInv
  <2>4. \A q \in pending' : Covered(q.ptr, q.event)'
    BY <2>1, <2>3 DEF Covered
  <2>5. /\ \A f \in freeList' : ~InFlight(f.ptr)'
        /\ \A b \in Buffers : cap'[b] = 0 => ~InFlight(b)'
        /\ \A b \in Buffers, s \in Streams : lastUse'[b][s] <= enq'[s]
    BY <2>1 DEF UseInv, InFlight, Passed
  <2> QED
    BY <2>2, <2>4, <2>5 DEF UseInv
<1>11. ASSUME NEW p \in unseen, QueryDone(p)
       PROVE  UseInv'
  <2>1. /\ UNCHANGED <<lastUse, cap, enq, done, pc, buf, via, goal>>
        /\ pending' \subseteq pending
        /\ freeList' = freeList \cup {[ptr |-> p.ptr, size |-> p.size]}
        /\ Passed(p.event) /\ p \in pending
    BY <1>11 DEF QueryDone, hostVars, clientVars, TypeInv, TypeOK
  <2>2. ~InFlight(p.ptr)
    BY <1>0, <2>1, CoveredPassed DEF UseInv
  <2>3. \A f \in freeList' : ~InFlight(f.ptr)
    BY <2>1, <2>2 DEF UseInv
  <2>4. \A f \in freeList' : ~InFlight(f.ptr)'
    BY <2>1, <2>3 DEF InFlight, Passed
  <2>5. \A c \in Clients : ClientUse(c)'
    BY <1>1, <1>4, <2>1
  <2>6. \A q \in pending' : Covered(q.ptr, q.event)'
    BY <2>1 DEF UseInv, Covered
  <2>7. /\ \A b \in Buffers : cap'[b] = 0 => ~InFlight(b)'
        /\ \A b \in Buffers, s \in Streams : lastUse'[b][s] <= enq'[s]
    BY <2>1 DEF UseInv, InFlight, Passed
  <2> QED
    BY <2>4, <2>5, <2>6, <2>7 DEF UseInv
<1>12. ASSUME NEW c \in Clients, NEW b \in Buffers, HostAlloc(c, b)
       PROVE  UseInv'
  <2>1. /\ UNCHANGED <<lastUse, enq, done, freeList, pending>>
        /\ cap[b] = 0
        /\ \A a \in Buffers : cap'[a] = 0 => cap[a] = 0
        /\ pc'[c] = "held" /\ buf'[c] = b
        /\ \A d \in Clients \ {c} : SameClient(d)
    <3>1. AllocSize(req[c]) # 0
      BY AllocSizeRounds DEF TypeInv, TypeOK
    <3> QED
      BY <1>12, <3>1 DEF HostAlloc, listVars, TypeInv, TypeOK
  <2>2. \A a \in Buffers : InFlight(a)' = InFlight(a)
    BY <2>1 DEF InFlight, Passed
  <2>3. ClientUse(c)'
    BY <2>1, <2>2 DEF UseInv
  <2>4. \A d \in Clients : ClientUse(d)'
    BY <1>1, <1>4, <2>1, <2>3
  <2>5. \A q \in pending' : Covered(q.ptr, q.event)'
    BY <2>1 DEF UseInv, Covered
  <2> QED
    BY <1>0, <2>1, <2>2, <2>4, <2>5 DEF UseInv
<1>13. ASSUME NEW c \in Clients, NEW s \in Streams, Copy(c, s)
       PROVE  UseInv'
  <2> DEFINE b == buf[c]
  <2>1. /\ b \in Held /\ b \in Buffers /\ pc[c] = "held"
        /\ UNCHANGED <<done, cap, freeList, pending, buf, goal>>
        /\ enq' = [enq EXCEPT ![s] = @ + 1]
        /\ pc'[c] = "copied" /\ via'[c] = s
        /\ \A d \in Clients \ {c} : SameClient(d)
    BY <1>0, <1>13 DEF Copy, Enqueue, Held, HoldInv, listVars, TypeInv, TypeOK
  <2>2. \A a \in Buffers \ {b} : lastUse'[a] = lastUse[a]
    BY <1>13 DEF Copy, TypeInv, TypeOK
  <2>3. /\ lastUse'[b][s] <= enq'[s]
        /\ \A t \in Streams \ {s} : lastUse'[b][t] = lastUse[b][t]
    <3>1. lastUse'[b] = Later(lastUse[b], [NoMark EXCEPT ![s] = enq'[s]])
      BY <1>13, <2>1 DEF Copy, TypeInv, TypeOK
    <3>2. lastUse[b] \in Marks /\ enq'[s] \in Nat /\ lastUse[b][s] <= enq'[s]
      BY <1>0, <2>1 DEF UseInv, TypeInv, TypeOK, StreamsTypeOK, Marks
    <3> QED
      BY <3>1, <3>2 DEF Later, NoMark, Marks
  <2>4. \A a \in Buffers, t \in Streams : lastUse'[a][t] <= enq'[t]
    <3> TAKE a \in Buffers, t \in Streams
    <3>1. lastUse[a][t] <= enq[t] /\ enq[t] <= enq'[t]
            /\ lastUse[a][t] \in Nat /\ enq[t] \in Nat /\ enq'[t] \in Nat
      BY <1>0, <2>1 DEF UseInv, TypeInv, TypeOK, StreamsTypeOK, Marks
    <3>2. CASE a = b /\ t = s
      BY <2>3, <3>2
    <3>3. CASE ~(a = b /\ t = s)
      <4>1. lastUse'[a][t] = lastUse[a][t]
        BY <2>2, <2>3, <3>3
      <4> QED
        BY <3>1, <4>1
    <3> QED
      BY <3>2, <3>3
  <2>5. \A a \in Buffers \ {b} : ~InFlight(a) => ~InFlight(a)'
    BY <2>1, <2>2 DEF InFlight, Passed
  <2>6. /\ b \notin Ptrs(freeList) /\ b \notin Ptrs(pending)
        /\ cap[b] # 0
        /\ \A d \in Clients \ {c} : buf[d] # b
    BY <2>1 DEF BlockInv, SoleOwner, NoLeak, TypeInv, TypeOK
  <2>7. /\ \A f \in freeList' : ~InFlight(f.ptr)'
        /\ \A a \in Buffers : cap'[a] = 0 => ~InFlight(a)'
    BY <1>0, <2>1, <2>5, <2>6 DEF UseInv, Ptrs
  <2>8. \A p \in pending' : Covered(p.ptr, p.event)'
    BY <1>0, <2>1, <2>2, <2>6 DEF UseInv, Covered, Ptrs
  <2>9. \A d \in Clients \ {c} : pc'[d] \in Busy => ClientUse(d)'
    <3> SUFFICES ASSUME NEW d \in Clients \ {c}, pc'[d] \in Busy
                 PROVE  ClientUse(d)'
        OBVIOUS
    <3>1. buf[d] \in Buffers \ {b} /\ SameClient(d) /\ ClientUse(d)
      BY <1>0, <2>1, <2>6 DEF UseInv
    <3>2. pc'[d] = "held" => ~InFlight(buf[d])'
      BY <2>5, <3>1
    <3>3. pc'[d] \in {"push", "synchronize"} => Covered(buf[d], goal[d])'
      BY <2>1, <2>2, <3>1 DEF Covered
    <3> QED
      BY <2>1, <2>2, <3>1, <3>2, <3>3
  <2>10. ClientUse(c)'
    <3>1. \A t \in Streams \ {s} : lastUse'[b][t] <= done'[t]
      BY <2>1, <2>3 DEF UseInv, InFlight, Passed
    <3> QED
      BY <2>1, <3>1
  <2> QED
    BY <2>4, <2>7, <2>8, <2>9, <2>10 DEF UseInv
<1>14. ASSUME NEW c \in Clients, FreeHost(c) \/ CopyFails(c)
       PROVE  UseInv'
  <2>0. PICK b \in Buffers : b = buf[c]
    BY <1>0, <1>14 DEF FreeHost, CopyFails
  <2>1. /\ b \in Buffers
        /\ UNCHANGED <<enq, done, freeList, pending>>
        /\ \A a \in Buffers \ {b} : lastUse'[a] = lastUse[a] /\ cap'[a] = cap[a]
        /\ lastUse'[b] = NoMark
        /\ pc'[c] = "idle"
        /\ \A d \in Clients \ {c} : SameClient(d)
    BY <2>0, <1>14 DEF FreeHost, CopyFails, GiveBack, Return, listVars, TypeInv,
                       TypeOK
  <2>2. \A s \in Streams : lastUse'[b][s] = 0 /\ enq[s] \in Nat /\ done[s] \in Nat
    BY <2>1 DEF NoMark, TypeInv, TypeOK, StreamsTypeOK, Marks
  <2>3. ~InFlight(b)'
    BY <2>1, <2>2 DEF InFlight, Passed
  <2>4. \A a \in Buffers : ~InFlight(a) => ~InFlight(a)'
    <3>1. \A a \in Buffers \ {b} : ~InFlight(a) => ~InFlight(a)'
      BY <2>1 DEF InFlight, Passed
    <3> QED
      BY <2>3, <3>1
  <2>5. \A a \in Buffers, m \in Marks : Covered(a, m) => \A s \in Streams :
            lastUse'[a][s] <= m[s] \/ lastUse'[a][s] <= done'[s]
    BY <2>1, <2>2 DEF Covered
  <2>6. \A d \in Clients : pc'[d] \in Busy => ClientUse(d)'
    <3> SUFFICES ASSUME NEW d \in Clients, pc'[d] \in Busy
                 PROVE  ClientUse(d)'
        OBVIOUS
    <3>1. /\ buf[d] \in Buffers /\ goal[d] \in Marks
          /\ SameClient(d) /\ ClientUse(d)
      BY <1>0, <2>1 DEF UseInv
    <3>2. pc'[d] = "held" => ~InFlight(buf[d])'
      BY <2>4, <3>1
    <3>3. pc'[d] \in {"push", "synchronize"} => Covered(buf[d], goal[d])'
      BY <2>5, <3>1 DEF Covered
    <3>4. pc'[d] = "copied" =>
            \A s \in Streams \ {via[d]} : lastUse'[buf[d]][s] <= done'[s]
      BY <2>1, <2>2, <3>1
    <3> QED
      BY <3>1, <3>2, <3>3, <3>4
  <2>7. /\ \A f \in freeList' : ~InFlight(f.ptr)'
        /\ \A a \in Buffers : cap'[a] = 0 => ~InFlight(a)'
    <3>1. \A f \in freeList' : ~InFlight(f.ptr)'
      BY <1>0, <2>1, <2>4 DEF UseInv
    <3>2. \A a \in Buffers \ {b} : cap'[a] = 0 => ~InFlight(a)
      BY <2>1 DEF UseInv
    <3> QED
      BY <2>3, <2>4, <3>1, <3>2
  <2>8. \A p \in pending' : Covered(p.ptr, p.event)'
    BY <1>0, <2>1, <2>5 DEF UseInv, Covered
  <2>9. \A a \in Buffers, s \in Streams : lastUse'[a][s] <= enq'[s]
    BY <2>1, <2>2 DEF UseInv
  <2> QED
    BY <2>6, <2>7, <2>8, <2>9 DEF UseInv
<1>15. ASSUME ReleaseAll
       PROVE  UseInv'
  <2>1. /\ UNCHANGED <<enq, done>>
        /\ pending' = {} /\ freeList' = {}
        /\ \A c \in Clients : pc'[c] = "idle"
        /\ \A a \in Buffers : lastUse'[a] = lastUse[a] \/ lastUse'[a] = NoMark
        /\ \A a \in Buffers : cap'[a] = cap[a] \/ lastUse'[a] = NoMark
    BY <1>15 DEF ReleaseAll, ReleaseLists, Listed, QuietInv, clientVars
  <2>2. \A s \in Streams : NoMark[s] = 0 /\ enq[s] \in Nat /\ done[s] \in Nat
    BY DEF NoMark, TypeInv, TypeOK, StreamsTypeOK, Marks
  <2>3. \A a \in Buffers : cap'[a] = 0 => ~InFlight(a)'
    BY <2>1, <2>2 DEF UseInv, InFlight, Passed
  <2>4. \A a \in Buffers, s \in Streams : lastUse'[a][s] <= enq'[s]
    BY <2>1, <2>2 DEF UseInv
  <2> QED
    BY <2>1, <2>3, <2>4 DEF UseInv
<1> QED
  BY <1>5, <1>6, <1>7, <1>8, <1>9, <1>10, <1>11, <1>12, <1>13, <1>14, <1>15
     DEF Next, ClientStep, Query, OwnerStep, Finished

\* "Memory is never reused while GPU async copies are in progress", as long
\* as no musaEventQuery fails, whatever other calls do.
THEOREM ReuseSafe ==
    ASSUME "musaEventQuery" \notin Failing
    PROVE  Spec => []NoReuseInFlight
<1>1. Spec => [](TypeInv /\ QuietInv /\ BlockInv /\ UseInv)
  BY TypeInit, TypeStep, QuietStep, BlockInit, BlockStep, UseInit, UseStep, PTL
     DEF Spec
<1>2. UseInv => NoReuseInFlight
  BY DEF UseInv, NoReuseInFlight, Ptrs
<1> QED
  BY <1>1, <1>2, PTL

\* While the pool lives, musaFreeHost is called on idle blocks only, if no
\* query and no synchronize call fails.
THEOREM ReleaseSafe ==
    ASSUME "musaEventQuery" \notin Failing, "musaSynchronize" \notin Failing
    PROVE  Spec => ReleasedMemoryIsIdle
<1> DEFINE Inv == TypeInv /\ QuietInv /\ BlockInv /\ UseInv
           Safe == \A b \in Buffers :
                      cap[b] # 0 /\ cap'[b] = 0 /\ ownerPc # "join" => ~InFlight(b)
<1>1. Spec => []Inv
  BY TypeInit, TypeStep, QuietStep, BlockInit, BlockStep, UseInit, UseStep, PTL
     DEF Spec
<1>2. Inv /\ [Next]_vars => [Safe]_vars
  <2> SUFFICES ASSUME Inv, [Next]_vars, NEW b \in Buffers,
                      cap[b] # 0, cap'[b] = 0, ownerPc # "join"
               PROVE  ~InFlight(b)
      OBVIOUS
  <2>1. ASSUME NEW c \in Clients, FreeHost(c)
        PROVE  ~InFlight(b)
    <3>1. /\ b = buf[c] /\ pc[c] = "synchronize"
          /\ Passed(goal[c]) /\ goal[c] \in Marks
      BY <2>1 DEF FreeHost, GiveBack, TypeInv, TypeOK
    <3> QED
      BY <3>1, CoveredPassed DEF UseInv
  <2>2. ASSUME NEW c \in Clients, NEW a \in Buffers, HostAlloc(c, a)
        PROVE  FALSE
    BY <2>2, AllocSizeRounds DEF HostAlloc, TypeInv, TypeOK
  <2>3. ASSUME NEW c \in Clients, CopyFails(c)
        PROVE  ~InFlight(b)
    BY <2>3 DEF CopyFails, GiveBack, UseInv, TypeInv, TypeOK
  <2>4. cap' = cap \/ (\E c \in Clients : FreeHost(c) \/ CopyFails(c))
                   \/ (\E c \in Clients, a \in Buffers : HostAlloc(c, a))
    BY DEF Next, ClientStep, Query, PollerStep, OwnerStep, Device, Finished, vars,
           AllocateBegin, AllocateReuse, AllocateMiss, HostAllocFails, Copy,
           RecordEvent, RecordEventFails, FreeNoStream, PushPending, QueryDone,
           QueryNotReady, PollerWait, PollerBegin, PollerEnd, StopPolling,
           ReleaseAll, ReleaseLists, hostVars
  <2> QED
    BY <2>1, <2>2, <2>3, <2>4
<1>3. Spec => [][Safe]_vars
  BY <1>1, <1>2, PTL DEF Spec
<1> QED
  BY <1>3 DEF ReleasedMemoryIsIdle

-----------------------------------------------------------------------------
(* The refinement *)

\* An address that is not allocated has no history.
FreshInv == \A b \in Buffers : cap[b] = 0 => lastUse[b] = NoMark

LEMMA FreshStep ==
    ASSUME TypeInv, BlockInv, FreshInv, [Next]_vars
    PROVE  FreshInv'
<1>1. ASSUME UNCHANGED <<cap, lastUse>> PROVE FreshInv'
  BY <1>1 DEF FreshInv, NoMark
<1>2. ASSUME NEW c \in Clients, NEW b \in Buffers, HostAlloc(c, b)
      PROVE  FreshInv'
  BY <1>2, AllocSizeRounds DEF HostAlloc, FreshInv, TypeInv, TypeOK, NoMark
<1>3. ASSUME NEW c \in Clients, NEW s \in Streams, Copy(c, s)
      PROVE  FreshInv'
  <2>1. cap[buf[c]] # 0 /\ cap' = cap
    BY <1>3 DEF Copy, BlockInv, NoLeak, Held, TypeInv, TypeOK, HoldInv
  <2>2. \A b \in Buffers : b # buf[c] => lastUse'[b] = lastUse[b]
    BY <1>3 DEF Copy, TypeInv, TypeOK
  <2> QED
    BY <2>1, <2>2 DEF FreshInv, NoMark
<1>4. ASSUME NEW c \in Clients, FreeHost(c) \/ CopyFails(c)
      PROVE  FreshInv'
  <2>1. \A b \in Buffers : \/ lastUse'[b] = NoMark
                           \/ lastUse'[b] = lastUse[b] /\ cap'[b] = cap[b]
    BY <1>4 DEF FreeHost, CopyFails, GiveBack, TypeInv, TypeOK
  <2> QED
    BY <2>1 DEF FreshInv, NoMark
<1>5. ASSUME ReleaseAll PROVE FreshInv'
  BY <1>5 DEF ReleaseAll, ReleaseLists, FreshInv, NoMark
<1> QED
  BY <1>1, <1>2, <1>3, <1>4, <1>5
     DEF Next, ClientStep, Query, PollerStep, OwnerStep, Device, Finished, vars,
         AllocateBegin, AllocateReuse, AllocateMiss, HostAllocFails,
         RecordEvent, RecordEventFails, FreeNoStream, PushPending, QueryDone,
         QueryNotReady, PollerWait, PollerBegin, PollerEnd, StopPolling, hostVars

\* What the steps of the pool may rely on.
IInv == TypeInv /\ QuietInv /\ BlockInv /\ UseInv /\ FreshInv

\* The owner of a block is the client that holds it, the pool if the block is
\* listed, and the system if it is not allocated.
LEMMA Owners ==
    ASSUME TypeInv, BlockInv, NEW b \in Buffers
    PROVE  /\ \A c \in Clients : buf[c] = b => OwnerOf(b) = c
           /\ b \notin Held =>
                 OwnerOf(b) = IF cap[b] # 0 THEN "pool" ELSE "system"
<1>1. ASSUME NEW c \in Clients, buf[c] = b
      PROVE  OwnerOf(b) = c
  <2>1. b \in Held /\ b # NoBuffer
    BY <1>1 DEF Held
  <2>2. \A d \in Clients : buf[d] = b => d = c
    BY <1>1, <2>1 DEF BlockInv, SoleOwner
  <2> QED
    BY <1>1, <2>1, <2>2 DEF OwnerOf
<1>2. b \notin Held => OwnerOf(b) = IF cap[b] # 0 THEN "pool" ELSE "system"
  BY DEF OwnerOf
<1> QED
  BY <1>1, <1>2

\* The same after a step.
LEMMA NextOwners ==
    ASSUME TypeInv', BlockInv', NEW b \in Buffers
    PROVE  /\ \A c \in Clients : buf'[c] = b => OwnerOf(b)' = c
           /\ b \notin Held' =>
                 OwnerOf(b)' = IF cap'[b] # 0 THEN "pool" ELSE "system"
<1>1. ASSUME NEW c \in Clients, buf'[c] = b
      PROVE  OwnerOf(b)' = c
  <2>1. b \in Held' /\ b # NoBuffer
    BY <1>1 DEF Held
  <2>2. \A d \in Clients : buf'[d] = b => d = c
    BY <1>1, <2>1 DEF BlockInv, SoleOwner
  <2> QED
    BY <1>1, <2>1, <2>2 DEF OwnerOf
<1>2. b \notin Held' => OwnerOf(b)' = IF cap'[b] # 0 THEN "pool" ELSE "system"
  BY DEF OwnerOf
<1> QED
  BY <1>1, <1>2

\* A step that moves block b at most changes the owner of b at most.
LEMMA OwnerChange ==
    ASSUME TypeInv, TypeInv', BlockInv, BlockInv', NEW b \in Buffers,
           \A a \in Buffers \ {b} :
               /\ cap'[a] = cap[a]
               /\ \A c \in Clients : buf'[c] = a <=> buf[c] = a
    PROVE  BlockOwner' = [BlockOwner EXCEPT ![b] = OwnerOf(b)']
<1>1. ASSUME NEW a \in Buffers \ {b}
      PROVE  OwnerOf(a)' = OwnerOf(a)
  <2>1. CASE \E c \in Clients : buf[c] = a
    <3>1. PICK c \in Clients : buf[c] = a
      BY <2>1
    <3>2. buf'[c] = a
      BY <3>1
    <3> QED
      BY <3>1, <3>2, Owners, NextOwners
  <2>2. CASE ~\E c \in Clients : buf[c] = a
    <3>1. a \notin Held /\ a \notin Held'
      BY <2>2 DEF Held
    <3> QED
      BY <3>1, Owners, NextOwners
  <2> QED
    BY <2>1, <2>2
<1> QED
  BY <1>1 DEF BlockOwner

LEMMA OwnersSame ==
    ASSUME TypeInv, TypeInv', BlockInv, BlockInv', UNCHANGED <<buf, cap>>
    PROVE  BlockOwner' = BlockOwner
BY DEF BlockOwner, OwnerOf, Held

LEMMA PromiseInit == Init => Promise!Init
<1> SUFFICES ASSUME Init PROVE Promise!Init
    OBVIOUS
<1>1. Held = {}
  BY DEF Init, Held
<1>2. BlockOwner = [b \in Buffers |-> "system"]
  BY <1>1 DEF Init, BlockOwner, OwnerOf
<1> QED
  BY <1>2 DEF Init, Promise!Init, Promise!StreamsInit, StreamsInit, Promise!NoMark,
              NoMark

LEMMA PromiseStep ==
    ASSUME "musaEventQuery" \notin Failing, "musaSynchronize" \notin Failing,
           IInv, IInv', [Next]_vars
    PROVE  [Promise!Next]_(Promise!vars)
<1> USE DEF IInv
<1> DEFINE Open == ownerPc # "gone"
<1>1. ASSUME UNCHANGED <<enq, done, buf, cap, lastUse>>, Open' = Open
      PROVE  UNCHANGED Promise!vars
  BY <1>1, OwnersSame DEF Promise!vars
\* The block a client gives up or gets is the only one that moves.
<1>2. ASSUME NEW c \in Clients, NEW b \in Buffers, buf[c] = b,
             buf' = [buf EXCEPT ![c] = NoBuffer],
             \A a \in Buffers \ {b} : cap'[a] = cap[a],
             cap'[b] \in {0, cap[b]}
      PROVE  /\ BlockOwner[b] = c
             /\ BlockOwner' = [BlockOwner EXCEPT ![b] =
                                   IF cap'[b] # 0 THEN "pool" ELSE "system"]
  <2>1. OwnerOf(b) = c
    BY <1>2, Owners
  <2>2. b \notin Held'
    BY <1>2 DEF Held, BlockInv, SoleOwner, TypeInv, TypeOK
  <2>3. OwnerOf(b)' = IF cap'[b] # 0 THEN "pool" ELSE "system"
    BY <2>2, NextOwners
  <2>4. \A a \in Buffers \ {b}, d \in Clients : buf'[d] = a <=> buf[d] = a
    BY <1>2 DEF TypeInv, TypeOK
  <2>5. BlockOwner' = [BlockOwner EXCEPT ![b] = OwnerOf(b)']
    BY <1>2, <2>4, OwnerChange
  <2> QED
    BY <2>1, <2>3, <2>5 DEF BlockOwner
<1>3. ASSUME NEW c \in Clients, NEW b \in Buffers, buf[c] = NoBuffer, b \notin Held,
             ownerPc = "live", ~InFlight(b),
             buf' = [buf EXCEPT ![c] = b],
             \A a \in Buffers \ {b} : cap'[a] = cap[a],
             UNCHANGED <<enq, done, ownerPc, lastUse>>
      PROVE  Promise!Take(c, b)
  <2>1. OwnerOf(b) \in {"pool", "system"}
    BY <1>3, Owners
  <2>2. OwnerOf(b)' = c
    BY <1>3, NextOwners DEF TypeInv, TypeOK
  <2>3. \A a \in Buffers \ {b}, d \in Clients : buf'[d] = a <=> buf[d] = a
    BY <1>3 DEF TypeInv, TypeOK
  <2>4. BlockOwner' = [BlockOwner EXCEPT ![b] = c]
    BY <1>3, <2>2, <2>3, OwnerChange
  <2>5. BlockOwner[b] \in {"pool", "system"}
    BY <2>1 DEF BlockOwner
  <2> QED
    BY <1>3, <2>4, <2>5 DEF Promise!Take, Promise!Idle, Promise!Passed, InFlight,
                            Passed
<1>4. ASSUME NEW c \in Clients, NEW f \in freeList, AllocateReuse(c, f)
      PROVE  Promise!Take(c, f.ptr)
  <2>1. f.ptr \in Buffers /\ f.ptr \notin Held /\ ~InFlight(f.ptr)
    BY DEF TypeInv, TypeOK, FreeBlocks, BlockInv, SoleOwner, UseInv, Ptrs
  <2>2. ownerPc = "live" /\ buf[c] = NoBuffer
    BY <1>4 DEF AllocateReuse, QuietInv, TypeInv, HoldInv
  <2> QED
    BY <1>3, <1>4, <2>1, <2>2 DEF AllocateReuse, hostVars
<1>5. ASSUME NEW c \in Clients, NEW b \in Buffers, HostAlloc(c, b)
      PROVE  Promise!Take(c, b)
  <2>1. b \notin Held /\ ~InFlight(b)
    BY <1>5 DEF HostAlloc, BlockInv, NoLeak, UseInv
  <2>2. ownerPc = "live" /\ buf[c] = NoBuffer
    BY <1>5 DEF HostAlloc, QuietInv, TypeInv, HoldInv
  <2>3. \A a \in Buffers \ {b} : cap'[a] = cap[a]
    BY <1>5 DEF HostAlloc, TypeInv, TypeOK
  <2> QED
    BY <1>3, <1>5, <2>1, <2>2, <2>3 DEF HostAlloc
<1>6. ASSUME NEW c \in Clients, NEW s \in Streams, Copy(c, s)
      PROVE  Promise!Use(buf[c], s)
  <2>1. buf[c] \in Buffers /\ buf[c] # NoBuffer
    BY <1>6 DEF Copy, TypeInv, TypeOK, HoldInv
  <2>2. BlockOwner[buf[c]] \in Clients
    BY <2>1, Owners DEF BlockOwner
  <2>3. BlockOwner' = BlockOwner
    BY <1>6, OwnersSame DEF Copy
  <2> QED
    BY <1>6, <2>2, <2>3 DEF Copy, Enqueue, Later, NoMark, Promise!Use,
                            Promise!Enqueue, Promise!Later, Promise!NoMark
<1>7. ASSUME NEW c \in Clients, FreeHost(c) \/ CopyFails(c)
      PROVE  \E b \in Buffers : Promise!Release(b)
  <2>1. PICK b \in Buffers : b = buf[c]
    BY <1>7 DEF FreeHost, CopyFails, TypeInv, TypeOK, HoldInv
  <2>2. ~InFlight(b)
    <3>1. CASE CopyFails(c)
      BY <2>1, <3>1 DEF CopyFails, UseInv
    <3>2. CASE FreeHost(c)
      BY <2>1, <3>2, CoveredPassed DEF FreeHost, UseInv, TypeInv, TypeOK
    <3> QED
      BY <1>7, <3>1, <3>2
  <2>3. /\ buf' = [buf EXCEPT ![c] = NoBuffer]
        /\ cap' = [cap EXCEPT ![b] = 0]
        /\ lastUse' = [lastUse EXCEPT ![b] = NoMark]
        /\ UNCHANGED <<enq, done, ownerPc>>
    BY <1>7, <2>1 DEF FreeHost, CopyFails, GiveBack, Return
  <2>4. /\ BlockOwner[b] = c
        /\ BlockOwner' = [BlockOwner EXCEPT ![b] = "system"]
    BY <1>2, <2>1, <2>3 DEF TypeInv, TypeOK
  <2> QED
    BY <2>2, <2>3, <2>4 DEF Promise!Release, Promise!Idle, Promise!Passed,
                            Promise!NoMark, InFlight, Passed, NoMark
<1>8. ASSUME NEW c \in Clients, PushPending(c)
      PROVE  \E b \in Buffers : Promise!Retire(b)
  <2>1. PICK b \in Buffers : b = buf[c]
    BY <1>8 DEF PushPending, TypeInv, TypeOK, HoldInv
  <2>2. /\ buf' = [buf EXCEPT ![c] = NoBuffer]
        /\ UNCHANGED <<enq, done, ownerPc, cap, lastUse>>
    BY <1>8 DEF PushPending, Return, hostVars
  <2>3. cap[b] # 0
    BY <2>1 DEF Held, BlockInv, NoLeak, TypeInv, TypeOK
  <2>4. /\ BlockOwner[b] = c
        /\ BlockOwner' = [BlockOwner EXCEPT ![b] = "pool"]
    BY <1>2, <2>1, <2>2, <2>3 DEF TypeInv, TypeOK
  <2> QED
    BY <2>2, <2>4 DEF Promise!Retire
<1>9. ASSUME ReleaseAll
      PROVE  Promise!Destroy
  <2>1. /\ ownerPc = "join" /\ ownerPc' = "gone"
        /\ UNCHANGED <<enq, done, buf>>
        /\ cap' = [b \in Buffers |-> IF b \in Listed THEN 0 ELSE cap[b]]
        /\ lastUse' = [b \in Buffers |-> IF b \in Listed THEN NoMark
                                         ELSE lastUse[b]]
    BY <1>9 DEF ReleaseAll, ReleaseLists, clientVars
  <2>2. Held = {} /\ Held' = {}
    BY <2>1 DEF QuietInv, TypeInv, HoldInv, Held
  <2>3. \A b \in Buffers : BlockOwner[b] \notin Clients
    BY <2>2, Owners DEF BlockOwner
  <2>4. \A b \in Buffers : cap'[b] = 0 /\ lastUse'[b] = NoMark
    BY <2>1, <2>2 DEF BlockInv, NoLeak, FreshInv, Listed, TypeInv, TypeOK
  <2>5. BlockOwner' = [b \in Buffers |-> "system"]
    BY <2>2, <2>4, NextOwners DEF BlockOwner
  <2>6. lastUse' = [b \in Buffers |-> NoMark]
    BY <2>1, <2>4
  <2> QED
    BY <2>1, <2>3, <2>5, <2>6 DEF Promise!Destroy, Promise!NoMark, NoMark
<1>10. ASSUME NEW s \in Streams, Device(s)
       PROVE  Promise!Device(s)
  <2>1. UNCHANGED <<buf, cap, lastUse, ownerPc>>
    BY <1>10 DEF Device, hostVars, clientVars
  <2> QED
    BY <1>10, <2>1, OwnersSame DEF Device, Complete, Promise!Device, Promise!Complete
\* The other steps do not show.
<1>11. ASSUME NEW c \in Clients,
              \/ \E n \in Sizes : AllocateBegin(c, n)
              \/ AllocateMiss(c) \/ RecordEvent(c) \/ RecordEventFails(c)
              \/ FreeNoStream(c)
       PROVE  UNCHANGED <<enq, done, buf, cap, lastUse, ownerPc>>
  BY <1>11 DEF AllocateBegin, AllocateMiss, RecordEvent, RecordEventFails,
               FreeNoStream, listVars, hostVars
<1>12. ASSUME NEW c \in Clients, HostAllocFails(c)
       PROVE  UNCHANGED <<enq, done, buf, cap, lastUse, ownerPc>>
  BY <1>12 DEF HostAllocFails, Return, hostVars, TypeInv, TypeOK, HoldInv
<1>13. ASSUME Query \/ PollerStep \/ StopPolling \/ UNCHANGED vars
       PROVE  UNCHANGED <<enq, done, buf, cap, lastUse>> /\ Open' = Open
  BY <1>13 DEF Query, QueryDone, QueryNotReady, PollerStep, PollerWait,
               PollerBegin, PollerEnd, StopPolling, vars, clientVars, hostVars
<1>14. ASSUME NEW c \in Clients, ClientStep(c)
       PROVE  [Promise!Next]_(Promise!vars)
  <2>1. ASSUME NEW f \in freeList, AllocateReuse(c, f)
        PROVE  Promise!Next
    <3>1. f.ptr \in Buffers
      BY DEF TypeInv, TypeOK, FreeBlocks
    <3> QED
      BY <1>4, <2>1, <3>1 DEF Promise!Next
  <2>2. ASSUME NEW s \in Streams, Copy(c, s)
        PROVE  Promise!Next
    <3>1. buf[c] \in Buffers
      BY <2>2 DEF Copy, TypeInv, TypeOK, HoldInv
    <3> QED
      BY <1>6, <2>2, <3>1 DEF Promise!Next
  <2> QED
    BY <1>1, <1>5, <1>7, <1>8, <1>11, <1>12, <1>14, <2>1, <2>2
       DEF ClientStep, Promise!Next
<1> QED
  BY <1>1, <1>9, <1>10, <1>11, <1>13, <1>14
     DEF Next, OwnerStep, Finished, Promise!Next

\* The class comment of pinned_memory_pool.h as a whole: seen from outside, the
\* pool only ever hands out and gives back blocks no copy uses, and each block
\* has one owner, however its threads and the device interleave.
THEOREM Implements ==
    ASSUME "musaEventQuery" \notin Failing, "musaSynchronize" \notin Failing
    PROVE  Spec => KeepsPromise
<1>1. Init => IInv
  BY TypeInit, BlockInit, UseInit DEF IInv, FreshInv, Init
<1>2. IInv /\ [Next]_vars => IInv'
  BY TypeStep, QuietStep, BlockStep, UseStep, FreshStep DEF IInv
<1>3. Spec => []IInv
  BY <1>1, <1>2, PTL DEF Spec
<1>4. IInv /\ IInv' /\ [Next]_vars => [Promise!Next]_(Promise!vars)
  BY PromiseStep
<1> QED
  BY <1>3, <1>4, PromiseInit, PTL DEF Spec, KeepsPromise, Promise!Spec

=============================================================================
