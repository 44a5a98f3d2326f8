---------------------------- MODULE MusaStreams ----------------------------
(***************************************************************************)
(* What the code under src/ relies on of the MUSA runtime's streams and    *)
(* events (musa_runtime.h is not part of the repository).                  *)
(*                                                                         *)
(* A stream executes the operations enqueued on it in order, at its own    *)
(* pace.  It is represented by two counters: the operations enqueued and   *)
(* the operations completed.  A mark is a position on every stream.  An    *)
(* event recorded on stream s is the mark of everything enqueued on s so   *)
(* far: musaEventQuery answers success once that mark has passed and       *)
(* musaErrorNotReady before, and musaStreamSynchronize and                 *)
(* musaDeviceSynchronize return once a mark taken at the call has passed.  *)
(***************************************************************************)
EXTENDS Integers

CONSTANTS
    Streams,    \* the musaStream_t handles in use
    MaxOps      \* bound: operations ever enqueued on one stream

ASSUME MaxOpsAssumption == MaxOps \in Nat

VARIABLES
    enq,        \* enq[s]: operations enqueued on stream s
    done        \* done[s]: operations of stream s the device has completed

streamVars == <<enq, done>>

Marks == [Streams -> 0 .. MaxOps]

StreamsTypeOK ==
    /\ enq \in Marks
    /\ done \in Marks

StreamsInit ==
    /\ enq = [s \in Streams |-> 0]
    /\ done = [s \in Streams |-> 0]

NoMark == [s \in Streams |-> 0]

\* Everything enqueued on s so far: what musaEventRecord(event, s) captures.
StreamMark(s) == [NoMark EXCEPT ![s] = enq[s]]

\* Everything enqueued on any stream so far.
DeviceMark == enq

Passed(mark) == \A s \in Streams : mark[s] <= done[s]

\* The latest of two marks, stream by stream.
Later(m1, m2) == [s \in Streams |-> IF m1[s] < m2[s] THEN m2[s] ELSE m1[s]]

Enqueue(s) ==
    /\ enq[s] < MaxOps
    /\ enq' = [enq EXCEPT ![s] = @ + 1]
    /\ UNCHANGED done

\* The device completes the next operation of s.
Complete(s) ==
    /\ done[s] < enq[s]
    /\ done' = [done EXCEPT ![s] = @ + 1]
    /\ UNCHANGED enq

=============================================================================
