------------------------------ MODULE EventLog ------------------------------
(***************************************************************************)
(* What MusaTelemetry promises those who record events                     *)
(* (mu/device/musa_telemetry.h): RecordEvent "adds the event to an async   *)
(* queue", from which events are logged in the order they joined it.  An   *)
(* event may be dropped before it is logged.  Threads, locks, sessions and *)
(* the limit of the buffer are left out.                                   *)
(***************************************************************************)
EXTENDS Naturals, SequencesExt

CONSTANT Events

VARIABLES
    queue,      \* events recorded and neither logged nor dropped
    log,        \* events logged
    lost        \* events dropped

vars == <<queue, log, lost>>

Known == ToSet(queue) \cup ToSet(log) \cup lost

Init == queue = <<>> /\ log = <<>> /\ lost = {}

Record(e) ==
    /\ e \notin Known
    /\ queue' = Append(queue, e)
    /\ UNCHANGED <<log, lost>>

\* The queue has no room: its i-th event makes way for e.
RecordDropping(e, i) ==
    /\ e \notin Known
    /\ i \in 1..Len(queue)
    /\ queue' = Append(RemoveAt(queue, i), e)
    /\ lost' = lost \cup {queue[i]}
    /\ UNCHANGED log

Log ==
    /\ queue # <<>>
    /\ log' = Append(log, Head(queue))
    /\ queue' = Tail(queue)
    /\ UNCHANGED lost

Next ==
    \/ \E e \in Events : Record(e) \/ \E i \in 1..Len(queue) : RecordDropping(e, i)
    \/ Log

Spec == Init /\ [][Next]_vars

=============================================================================
