--------------------------- MODULE StreamCallbacks ---------------------------
(***************************************************************************)
(* What MusaEventMgr promises its callers (mu/device/musa_event_mgr.h):    *)
(* a function given to ThenExecute is called once, when the work enqueued  *)
(* on the stream at that time is complete; earlier only if the manager     *)
(* gives up waiting for it.  Events, lists, polling and threads are left   *)
(* out.                                                                    *)
(***************************************************************************)
EXTENDS MusaStreams

CONSTANT Callbacks

VARIABLES
    registered, \* functions given to ThenExecute
    want,       \* want[f]: the work that must be complete when f is called
    givenUp,    \* functions the manager will call without waiting
    called      \* functions called

vars == <<enq, done, registered, want, givenUp, called>>

Init ==
    /\ StreamsInit
    /\ registered = {}
    /\ want = [f \in Callbacks |-> NoMark]
    /\ givenUp = {}
    /\ called = {}

Register(f, s) ==
    /\ f \notin registered
    /\ registered' = registered \cup {f}
    /\ want' = [want EXCEPT ![f] = StreamMark(s)]
    /\ UNCHANGED <<enq, done, givenUp, called>>

\* No event for f: it is called at once.
RegisterFails(f, s) ==
    /\ f \notin registered
    /\ registered' = registered \cup {f}
    /\ want' = [want EXCEPT ![f] = StreamMark(s)]
    /\ givenUp' = givenUp \cup {f}
    /\ called' = called \cup {f}
    /\ UNCHANGED <<enq, done>>

GiveUp(F) ==
    /\ F \subseteq registered \ called
    /\ givenUp' = givenUp \cup F
    /\ UNCHANGED <<enq, done, registered, want, called>>

Call(f) ==
    /\ f \in registered \ called
    /\ Passed(want[f]) \/ f \in givenUp
    /\ called' = called \cup {f}
    /\ UNCHANGED <<enq, done, registered, want, givenUp>>

Stream(s) ==
    /\ Enqueue(s) \/ Complete(s)
    /\ UNCHANGED <<registered, want, givenUp, called>>

Next ==
    \/ \E f \in Callbacks, s \in Streams : Register(f, s) \/ RegisterFails(f, s)
    \/ \E F \in SUBSET Callbacks : GiveUp(F)
    \/ \E f \in Callbacks : Call(f)
    \/ \E s \in Streams : Stream(s)

Spec == Init /\ [][Next]_vars

\* A function whose work is complete is called, whatever becomes of the others.
FairSpec == Spec /\ \A f \in Callbacks : WF_vars(Call(f))

=============================================================================
