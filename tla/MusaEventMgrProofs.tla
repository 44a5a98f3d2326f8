------------------------- MODULE MusaEventMgrProofs -------------------------
(***************************************************************************)
(* Theorems about MusaEventMgr, for any number of clients, callbacks,      *)
(* streams, events and operations.                                         *)
(***************************************************************************)
EXTENDS MusaEventMgr, TLAPS

USE EventMgrAssumption DEF lockVars, listVars, eventVars, runVars, callVars

Instants == [Streams -> Int]

Places == {"idle", "lock", "wait", "live", "body", "return", "poll", "recycle",
           "dispatch", "schedule", "final", "exited", "stop", "join", "drain", "gone"}

Types ==
    /\ enq \in Instants /\ done \in Instants
    /\ mu \in Agents \cup {NoAgent}
    /\ stop \in BOOLEAN /\ shutdown \in BOOLEAN
    /\ used \subseteq Entries /\ unseen \subseteq used
    /\ freeEvents \subseteq Events
    /\ pc \in [Agents -> Places]
    /\ batch \in [Agents -> SUBSET Entries]
    /\ scheduled \subseteq Callbacks
    /\ host \in [Callbacks -> Agents \cup {ThreadPool, NoAgent}]
    /\ live \subseteq Events
    /\ captured \in [Events -> Instants]
    /\ registered \subseteq Callbacks
    /\ want \in [Callbacks -> Instants]
    /\ runs \in [Callbacks -> Nat]
    /\ excused \subseteq Callbacks /\ early \subseteq Callbacks

\* Who holds mu_ across several steps runs PollEvents, and nobody else queries.
LockInv ==
    /\ mu # NoAgent => pc[mu] = "poll"
    /\ unseen # {} => mu # NoAgent

\* An agent has a vector of entries only on its way through FreeMemory, or
\* through the end of PollLoop or of the destructor.
BatchInv ==
    \A a \in Agents :
        batch[a] = {} \/ pc[a] \in {"poll", "recycle", "dispatch", "schedule", "final"}

\* A callback that has not been called runs nothing.
IdleInv == \A f \in Callbacks : runs[f] = 0 => pc[f] = "idle"

\* A callback that awaits its event, in a list or in a vector.
Waits(f) == f \in registered /\ runs[f] = 0 /\ f \notin scheduled

\* A callback that has not been called is in one place at most.
OnceInv ==
    /\ \A f \in Callbacks : runs[f] <= 1
    /\ \A f \in Callbacks \ registered : runs[f] = 0
    /\ \A f \in scheduled : f \in registered /\ runs[f] = 0
    /\ \A u \in used : Waits(u.func)
    /\ \A a \in Agents : \A u \in batch[a] : Waits(u.func)
    /\ \A u, v \in used : u.func = v.func => u = v
    /\ \A a \in Agents : \A u \in batch[a], v \in used : u.func # v.func
    /\ \A a, b \in Agents : \A u \in batch[a], v \in batch[b] :
          u.func = v.func => a = b /\ u = v

ControlInv == LockInv /\ BatchInv /\ IdleInv

LEMMA MarkTypes ==
    ASSUME enq \in Instants, NEW s \in Streams
    PROVE  NoMark \in Instants /\ StreamMark(s) \in Instants
BY DEF Instants, NoMark, StreamMark

LEMMA OnceInit == Init => Types /\ ControlInv /\ OnceInv
<1> SUFFICES ASSUME Init PROVE Types /\ ControlInv /\ OnceInv
    OBVIOUS
<1>1. NoMark \in Instants /\ enq \in Instants /\ done \in Instants
  BY DEF Init, StreamsInit, Instants, NoMark
<1>2. Types
  BY <1>1 DEF Init, Types, Agents, Places
<1>3. LockInv /\ BatchInv
  BY DEF Init, LockInv, BatchInv
<1>4. IdleInv
  BY DEF Init, IdleInv, Agents
<1>5. OnceInv
  BY DEF Init, OnceInv
<1> QED
  BY <1>2, <1>3, <1>4, <1>5 DEF ControlInv

LEMMA TypesStep == Types /\ LockInv /\ [Next]_vars => Types'
<1> SUFFICES ASSUME Types, LockInv, [Next]_vars PROVE Types'
    OBVIOUS
<1> USE DEF Types, LockInv
<1>1. ASSUME NEW s \in Streams, Work(s) \/ Device(s) PROVE Types'
  <2>1. enq' \in Instants /\ done' \in Instants
    BY <1>1 DEF Work, Device, Enqueue, Complete, Instants
  <2> QED
    BY <1>1, <2>1 DEF Work, Device
<1>2. ASSUME NEW a \in Agents, NEW s \in Streams, NEW f \in Callbacks, NEW e \in Events,
             QueueInUse(a, s, f, e)
      PROVE  Types'
  <2>1. [event |-> e, func |-> f] \in Entries
    BY DEF Entries
  <2>2. pc' \in [Agents -> Places]
    BY <1>2 DEF QueueInUse, Woken, Places
  <2> QED
    BY <1>2, <2>1, <2>2, MarkTypes DEF QueueInUse, Register, PopFree
<1>3. ASSUME NEW a \in Agents, NEW s \in Streams, NEW f \in Callbacks, QueueFails(a, s, f)
      PROVE  Types'
  <2>1. freeEvents' \subseteq Events /\ live' \subseteq Events
    BY <1>3 DEF QueueFails, NoEvent, NextEvents
  <2>2. pc' \in [Agents -> Places]
    BY <1>3 DEF QueueFails, Places
  <2>3. /\ host' \in [Callbacks -> Agents \cup {ThreadPool, NoAgent}]
        /\ runs' \in [Callbacks -> Nat]
        /\ early' \subseteq Callbacks
    BY <1>3 DEF QueueFails
  <2> QED
    BY <1>3, <2>1, <2>2, <2>3, MarkTypes DEF QueueFails, Register
<1>4. ASSUME NEW u \in unseen, QueryReady(u) \/ QueryNotReady(u) \/ QueryFails(u)
      PROVE  Types'
  <2>1. u \in Entries /\ u.func \in Callbacks
    BY DEF Entries
  <2> QED
    BY <1>4, <2>1 DEF QueryReady, QueryNotReady, QueryFails
<1>5. ASSUME NEW a \in Agents, Unlock(a) \/ Recycle(a) \/ ReadFlag(a) \/ Dispatched(a)
      PROVE  Types'
  <2>1. pc' \in [Agents -> Places]
    BY <1>5 DEF Unlock, Recycle, ReadFlag, Dispatched, Places
  <2>2. freeEvents' \subseteq Events
    BY <1>5 DEF Unlock, Recycle, ReadFlag, Dispatched, Entries
  <2> QED
    BY <1>5, <2>1, <2>2 DEF Unlock, Recycle, ReadFlag, Dispatched
<1>6. ASSUME NEW a \in Agents, NEW u \in batch[a], CallNow(a, u) \/ FinalCall(a, u)
      PROVE  Types'
  <2>1. u \in Entries /\ u.func \in Callbacks
    BY DEF Entries
  <2>2. pc' \in [Agents -> Places]
    BY <1>6 DEF CallNow, FinalCall, Places
  <2> QED
    BY <1>6, <2>1, <2>2 DEF CallNow, FinalCall, Call
<1>7. ASSUME NEW a \in Agents, NEW u \in batch[a], Schedule(a, u)
      PROVE  Types'
  <2>1. u \in Entries /\ u.func \in Callbacks
    BY DEF Entries
  <2>2. pc' \in [Agents -> Places]
    BY <1>7 DEF Schedule, Places
  <2> QED
    BY <1>7, <2>1, <2>2 DEF Schedule
<1>8. ASSUME NEW f \in Callbacks, PoolRuns(f) \/ BodyReturns(f)
      PROVE  Types'
  <2>1. pc' \in [Agents -> Places]
    BY <1>8 DEF PoolRuns, BodyReturns, Places
  <2> QED
    BY <1>8, <2>1 DEF PoolRuns, BodyReturns, Call
<1>9. ASSUME NEW a \in Agents, TakeAll(a), mu = NoAgent
      PROVE  Types'
  <2>1. pc' \in [Agents -> Places] /\ excused' \subseteq Callbacks
    BY <1>9 DEF TakeAll, Places, Entries
  <2> QED
    BY <1>9, <2>1 DEF TakeAll
<1>10. ASSUME PollerWait \/ PollerBegin \/ PollerExits PROVE Types'
  <2>1. Poller \in Agents
    BY DEF Agents
  <2>2. pc' \in [Agents -> Places]
    BY <1>10, <2>1 DEF PollerWait, PollerBegin, PollerExits, Places
  <2> QED
    BY <1>10, <2>1, <2>2 DEF PollerWait, PollerBegin, PollerExits
<1>11. ASSUME SetShutdown \/ StopPollingLoop \/ DestroyFree \/ Drained PROVE Types'
  <2>1. pc' \in [Agents -> Places]
    BY <1>11 DEF SetShutdown, StopPollingLoop, DestroyFree, Drained, Woken, Places
  <2> QED
    BY <1>11, <2>1 DEF SetShutdown, StopPollingLoop, DestroyFree, Drained
<1>12. ASSUME UNCHANGED vars PROVE Types'
  BY <1>12 DEF vars
<1>13. Poller \in Agents /\ Owner \in Agents
  BY DEF Agents
<1> QED
  BY <1>1, <1>2, <1>3, <1>4, <1>5, <1>6, <1>7, <1>8, <1>9, <1>10, <1>11, <1>12, <1>13
     DEF Next, ThenExecute, Progress, FreeMemory, Query, PollLoop, PollerStops,
         Destructor, Sweep, Finished


LEMMA ControlStep == Types /\ ControlInv /\ OnceInv /\ [Next]_vars => ControlInv'
<1> SUFFICES ASSUME Types, ControlInv, OnceInv, [Next]_vars PROVE ControlInv'
    OBVIOUS
<1> USE DEF Types, ControlInv, LockInv, BatchInv, IdleInv
<1>0. Poller \in Agents /\ Owner \in Agents /\ Callbacks \subseteq Agents
  BY DEF Agents
<1>1. ASSUME NEW s \in Streams, Work(s) \/ Device(s) PROVE ControlInv'
  BY <1>1 DEF Work, Device
<1>2. ASSUME NEW a \in Agents, NEW s \in Streams, NEW f \in Callbacks, NEW e \in Events,
             QueueInUse(a, s, f, e)
      PROVE  ControlInv'
  BY <1>0, <1>2 DEF QueueInUse, Register, MayCall, Woken
<1>3. ASSUME NEW a \in Agents, NEW s \in Streams, NEW f \in Callbacks, QueueFails(a, s, f)
      PROVE  ControlInv'
  <2>1. runs[f] = 0 /\ pc[f] = "idle" /\ f \in Agents
    BY <1>0, <1>3 DEF QueueFails, Register, OnceInv
  <2> QED
    BY <1>0, <1>3, <2>1 DEF QueueFails, Register, MayCall
<1>4. ASSUME NEW u \in unseen, QueryReady(u) \/ QueryNotReady(u) \/ QueryFails(u)
      PROVE  ControlInv'
  BY <1>4 DEF QueryReady, QueryNotReady, QueryFails
<1>5. ASSUME NEW a \in Agents, Unlock(a) \/ Recycle(a) \/ ReadFlag(a) \/ Dispatched(a)
      PROVE  ControlInv'
  BY <1>0, <1>5 DEF Unlock, Recycle, ReadFlag, Dispatched
<1>6. ASSUME NEW a \in Agents, NEW u \in batch[a], CallNow(a, u) \/ FinalCall(a, u)
      PROVE  ControlInv'
  <2>1. u.func \in Callbacks /\ pc[u.func] = "idle" /\ runs[u.func] = 0
    BY DEF OnceInv, Waits, Entries
  <2> QED
    BY <1>0, <1>6, <2>1 DEF CallNow, FinalCall, Call
<1>7. ASSUME NEW a \in Agents, NEW u \in batch[a], Schedule(a, u)
      PROVE  ControlInv'
  BY <1>0, <1>7 DEF Schedule
<1>8. ASSUME NEW f \in Callbacks, PoolRuns(f) \/ BodyReturns(f)
      PROVE  ControlInv'
  <2>1. f \in scheduled => runs[f] = 0
    BY DEF OnceInv
  <2> QED
    BY <1>0, <1>8, <2>1 DEF PoolRuns, BodyReturns, Call
<1>9. ASSUME PollerStops \/ Sweep PROVE ControlInv'
  BY <1>0, <1>9 DEF PollerStops, Sweep, TakeAll
<1>10. ASSUME PollerWait \/ PollerBegin \/ PollerExits PROVE ControlInv'
  BY <1>0, <1>10 DEF PollerWait, PollerBegin, PollerExits
<1>11. ASSUME SetShutdown \/ StopPollingLoop \/ DestroyFree \/ Drained PROVE ControlInv'
  BY <1>0, <1>11 DEF SetShutdown, StopPollingLoop, DestroyFree, Drained, Woken
<1>12. ASSUME UNCHANGED vars PROVE ControlInv'
  BY <1>12 DEF vars
<1> QED
  BY <1>0, <1>1, <1>2, <1>3, <1>4, <1>5, <1>6, <1>7, <1>8, <1>9, <1>10, <1>11, <1>12
     DEF Next, ThenExecute, Progress, FreeMemory, Query, PollLoop, Destructor, Finished

LEMMA OnceStep == Types /\ ControlInv /\ OnceInv /\ [Next]_vars => OnceInv'
<1> SUFFICES ASSUME Types, ControlInv, OnceInv, [Next]_vars PROVE OnceInv'
    OBVIOUS
<1> USE DEF Types, OnceInv, Waits
<1>0. Poller \in Agents /\ Owner \in Agents /\ Callbacks \subseteq Agents
  BY DEF Agents
<1>1. ASSUME UNCHANGED <<used, batch, scheduled, registered, runs>> PROVE OnceInv'
  BY <1>1
<1>2. ASSUME NEW a \in Agents, NEW s \in Streams, NEW f \in Callbacks, NEW e \in Events,
             QueueInUse(a, s, f, e)
      PROVE  OnceInv'
  BY <1>2 DEF QueueInUse, Register, Entries
<1>3. ASSUME NEW a \in Agents, NEW s \in Streams, NEW f \in Callbacks, QueueFails(a, s, f)
      PROVE  OnceInv'
  BY <1>3 DEF QueueFails, Register, Entries
<1>4. ASSUME NEW u \in unseen, QueryReady(u) \/ QueryFails(u)
      PROVE  OnceInv'
  BY <1>4 DEF QueryReady, QueryFails, ControlInv, LockInv
<1>5. ASSUME NEW a \in Agents, NEW u \in batch[a], CallNow(a, u) \/ FinalCall(a, u)
      PROVE  OnceInv'
  <2>1. u \in Entries /\ u.func \in Callbacks
    BY DEF Entries
  <2> QED
    BY <1>5, <2>1 DEF CallNow, FinalCall, Call, Entries
<1>6. ASSUME NEW a \in Agents, NEW u \in batch[a], Schedule(a, u)
      PROVE  OnceInv'
  <2>1. u \in Entries /\ u.func \in Callbacks
    BY DEF Entries
  <2> QED
    BY <1>6, <2>1 DEF Schedule, Entries
<1>7. ASSUME NEW f \in Callbacks, PoolRuns(f) PROVE OnceInv'
  BY <1>7 DEF PoolRuns, Call, Entries
<1>8. ASSUME NEW a \in Agents, TakeAll(a) PROVE OnceInv'
  BY <1>8 DEF TakeAll, Entries
<1> QED
  BY <1>0, <1>1, <1>2, <1>3, <1>4, <1>5, <1>6, <1>7, <1>8
     DEF Next, ThenExecute, Progress, FreeMemory, Query, PollLoop, Destructor, Finished,
         Work, Device, QueryNotReady, Unlock, Recycle, ReadFlag, Dispatched, BodyReturns,
         PollerStops, Sweep, PollerWait, PollerBegin, PollerExits, SetShutdown,
         StopPollingLoop, DestroyFree, Drained, vars


\* ThenExecute, the poller, the pool and the destructor can all come to call a
\* callback: it is called once at most, whatever MUSA calls fail.
THEOREM CalledOnce == Spec => []RunsOnce
<1>1. Spec => [](Types /\ ControlInv /\ OnceInv)
  <2>1. Types /\ ControlInv /\ OnceInv /\ [Next]_vars => (Types /\ ControlInv /\ OnceInv)'
    BY TypesStep, ControlStep, OnceStep DEF ControlInv
  <2> QED
    BY OnceInit, <2>1, PTL DEF Spec
<1>2. OnceInv => RunsOnce
  BY DEF OnceInv, RunsOnce
<1> QED
  BY <1>1, <1>2, PTL

-----------------------------------------------------------------------------

\* An event has one use: it is free, awaited by one callback, or taken by one
\* agent that has yet to recycle or destroy it.
UseInv ==
    /\ \A u \in used : u.event \notin freeEvents
    /\ \A u, v \in used : u.event = v.event => u = v
    /\ \A a \in Agents : \A u \in Taken(a) : u.event \notin freeEvents
    /\ \A a \in Agents : \A u \in Taken(a), v \in used : u.event # v.event
    /\ \A a, b \in Agents : \A u \in Taken(a), v \in Taken(b) :
          u.event = v.event => a = b /\ u = v

\* EventsAccounted, event by event.
KnownInv ==
    \A e \in Events :
        e \in live <=>
            \/ e \in freeEvents
            \/ \E u \in used : u.event = e
            \/ \E a \in Agents : \E u \in Taken(a) : u.event = e

LEMMA KnownAccounted == Types /\ KnownInv => EventsAccounted
<1> SUFFICES ASSUME Types, KnownInv PROVE EventsAccounted
    OBVIOUS
<1> DEFINE Others == UNION {EventsOf(Taken(a)) : a \in Agents}
<1>1. \A e : e \in EventsOf(used) <=> \E u \in used : u.event = e
  BY DEF EventsOf
<1>2. \A e : e \in Others <=> \E a \in Agents : \E u \in Taken(a) : u.event = e
  BY DEF EventsOf
<1>3. freeEvents \cup EventsOf(used) \cup Others \subseteq Events
  BY <1>1, <1>2 DEF Types, Entries, Taken
<1>4. live \subseteq Events
  BY DEF Types
<1> HIDE DEF Others
<1>5. ASSUME NEW e \in Events
      PROVE  e \in live <=> e \in freeEvents \/ e \in EventsOf(used) \/ e \in Others
  BY <1>1, <1>2 DEF KnownInv
<1>6. live = freeEvents \cup EventsOf(used) \cup Others
  BY <1>3, <1>4, <1>5
<1> QED
  BY <1>6 DEF EventsAccounted, Others

EventInv == UseInv /\ KnownInv

LEMMA EventStep ==
    ASSUME Types, ControlInv, OnceInv, EventInv, [Next]_vars
    PROVE  EventInv'
<1> USE DEF Types, EventInv, UseInv, KnownInv
<1>0. Poller \in Agents /\ Owner \in Agents /\ Callbacks \subseteq Agents
  BY DEF Agents
<1>t. \A a \in Agents : Taken(a) \subseteq Entries
  BY DEF Taken
<1>1. ASSUME UNCHANGED <<used, freeEvents, live, batch, pc>> PROVE EventInv'
  <2>1. \A b \in Agents : Taken(b)' = Taken(b)
    BY <1>1 DEF Taken
  <2> QED
    BY <1>1, <2>1
<1>2. ASSUME NEW a \in Agents, NEW s \in Streams, NEW f \in Callbacks, NEW e \in Events,
             QueueInUse(a, s, f, e)
      PROVE  EventInv'
  <2>1. \A b \in Agents : Taken(b)' = Taken(b)
    <3>1. pc' = [pc EXCEPT ![a] = "poll", ![Poller] = Woken] /\ batch' = batch
      BY <1>2 DEF QueueInUse
    <3>2. a # Poller /\ pc[a] \in {"idle", "body"}
      BY <1>2 DEF QueueInUse, Register, MayCall
    <3>3. batch[a] = {} /\ (pc[Poller] = "wait" => batch[Poller] = {})
      BY <1>0, <3>2 DEF ControlInv, BatchInv
    <3>4. \A b \in Agents : pc'[b] = IF b = a THEN "poll"
                                      ELSE IF b = Poller THEN Woken ELSE pc[b]
      BY <1>0, <3>1, <3>2
    <3>5. Taken(a) = {} /\ Taken(a)' = {}
      BY <3>1, <3>2, <3>3 DEF Taken
    <3>6. Taken(Poller)' = Taken(Poller)
      BY <1>0, <3>1, <3>2, <3>3, <3>4 DEF Taken, Woken
    <3>7. \A b \in Agents \ {a, Poller} : Taken(b)' = Taken(b)
      BY <3>1, <3>4 DEF Taken
    <3> QED
      BY <3>5, <3>6, <3>7
  <2>2. e \in freeEvents \/ e \notin live
    BY <1>2 DEF QueueInUse, NextEvents
  <2>3. /\ used' = used \cup {[event |-> e, func |-> f]}
        /\ freeEvents' = freeEvents \ {e} /\ live' = live \cup {e}
    BY <1>2 DEF QueueInUse, PopFree
  <2>8. UseInv'
    BY <2>1, <2>2, <2>3 DEF Entries
  <2>9. KnownInv'
    <3> DEFINE u0 == [event |-> e, func |-> f]
    <3>0. u0.event = e /\ used' = used \cup {u0}
      BY <2>3
    <3> HIDE DEF u0
    <3>1. ASSUME NEW d \in Events
          PROVE  (\E u \in used' : u.event = d) <=> (d = e \/ \E u \in used : u.event = d)
      BY <3>0
    <3> QED
      BY <2>1, <2>2, <2>3, <3>1
  <2> QED
    BY <2>8, <2>9
<1>3. ASSUME NEW a \in Agents, NEW s \in Streams, NEW f \in Callbacks, QueueFails(a, s, f)
      PROVE  EventInv'
  <2>0. pc[f] = "idle" /\ runs[f] = 0
    BY <1>3 DEF QueueFails, Register, OnceInv, ControlInv, IdleInv
  <2>1. \A b \in Agents : Taken(b)' = Taken(b)
    <3>1. batch[a] = {} /\ batch[f] = {} /\ batch' = batch
      BY <1>0, <1>3, <2>0 DEF QueueFails, Register, MayCall, ControlInv, BatchInv
    <3>2. \A b \in Agents \ {a, f} : pc'[b] = pc[b]
      BY <1>3 DEF QueueFails
    <3> QED
      BY <3>1, <3>2 DEF Taken
  <2>2. CASE UNCHANGED <<live, freeEvents>>
    BY <1>3, <2>1, <2>2 DEF QueueFails
  <2>3. ASSUME NEW e \in NextEvents, live' = live \cup {e}, freeEvents' = freeEvents \cup {e}
        PROVE  EventInv'
    <3>1. e \in Events /\ (e \in freeEvents \/ e \notin live)
      BY <2>3 DEF NextEvents
    <3> QED
      BY <1>3, <2>1, <2>3, <3>1 DEF QueueFails, Entries
  <2> QED
    BY <1>3, <2>2, <2>3 DEF QueueFails, NoEvent
<1>4. ASSUME NEW u \in unseen, QueryReady(u) \/ QueryFails(u)
      PROVE  EventInv'
  <2>1. PICK a \in Agents : a = mu /\ pc[a] = "poll" /\ u \in used
    BY DEF ControlInv, LockInv
  <2>2. /\ Taken(a)' = Taken(a) \cup {u}
        /\ \A b \in Agents \ {a} : Taken(b)' = Taken(b)
    BY <1>4, <2>1 DEF QueryReady, QueryFails, Taken
  <2>3. used' = used \ {u} /\ UNCHANGED <<freeEvents, live>>
    BY <1>4 DEF QueryReady, QueryFails
  <2>8. UseInv'
    BY <2>1, <2>2, <2>3
  <2>9. KnownInv'
    BY <2>1, <2>2, <2>3
  <2> QED
    BY <2>8, <2>9
<1>5. ASSUME NEW a \in Agents, Recycle(a)
      PROVE  EventInv'
  <2>1. /\ Taken(a)' = {} /\ Taken(a) = batch[a]
        /\ \A b \in Agents \ {a} : Taken(b)' = Taken(b)
    BY <1>5 DEF Recycle, Taken
  <2>2. /\ freeEvents' = freeEvents \cup {u.event : u \in batch[a]}
        /\ UNCHANGED <<used, live>>
    BY <1>5 DEF Recycle
  <2>3. \A b \in Agents : Taken(b)' \subseteq Taken(b) /\ (Taken(b)' # {} => b # a)
    BY <2>1
  <2>4. \A v : (\A u \in Taken(a) : u.event # v.event) /\ v.event \notin freeEvents
               => v.event \notin freeEvents'
    BY <2>1, <2>2
  <2>5. \A v \in used : v.event \notin freeEvents'
    BY <2>4
  <2>6. \A b \in Agents : \A v \in Taken(b)' : v.event \notin freeEvents'
    BY <2>3, <2>4
  <2>8. UseInv'
    BY <2>2, <2>3, <2>5, <2>6
  <2>9. KnownInv'
    BY <2>1, <2>2 DEF Entries
  <2> QED
    BY <2>8, <2>9
<1>6. ASSUME NEW a \in Agents, NEW u \in batch[a], CallNow(a, u) \/ Schedule(a, u)
      PROVE  EventInv'
  <2>1. u.func \in Callbacks /\ pc[u.func] = "idle"
    BY DEF OnceInv, Waits, Entries, ControlInv, IdleInv
  <2>2. \A b \in Agents : Taken(b)' = Taken(b)
    BY <1>0, <1>6, <2>1 DEF CallNow, Schedule, Taken
  <2>8. UseInv'
    BY <1>6, <2>2 DEF CallNow, Schedule
  <2>9. KnownInv'
    BY <1>6, <2>2 DEF CallNow, Schedule
  <2> QED
    BY <2>8, <2>9
<1>7. ASSUME NEW a \in Agents, NEW u \in batch[a], FinalCall(a, u)
      PROVE  EventInv'
  <2>1. u.func \in Callbacks /\ pc[u.func] = "idle"
    BY DEF OnceInv, Waits, Entries, ControlInv, IdleInv
  <2>2. /\ u \in Taken(a) /\ Taken(a)' = Taken(a) \ {u}
        /\ \A b \in Agents \ {a} : Taken(b)' = Taken(b)
    BY <1>0, <1>7, <2>1 DEF FinalCall, Taken
  <2>3. live' = live \ {u.event} /\ UNCHANGED <<used, freeEvents>>
    BY <1>7 DEF FinalCall
  <2>8. UseInv'
    BY <2>2, <2>3
  <2>9. KnownInv'
    BY <2>2, <2>3
  <2> QED
    BY <2>8, <2>9
<1>8. ASSUME PollerStops \/ Sweep
      PROVE  EventInv'
  <2>1. PICK a \in {Poller, Owner} : TakeAll(a) /\ pc[a] \in {"lock", "join"}
    BY <1>8 DEF PollerStops, Sweep
  <2>2. /\ Taken(a) = {} /\ Taken(a)' = used
        /\ \A b \in Agents \ {a} : Taken(b)' = Taken(b)
    BY <1>0, <2>1 DEF TakeAll, Taken
  <2>3. used' = {} /\ UNCHANGED <<live, freeEvents>>
    BY <2>1 DEF TakeAll
  <2>8. UseInv'
    BY <1>0, <2>2, <2>3
  <2>9. KnownInv'
    BY <1>0, <2>2, <2>3
  <2> QED
    BY <2>8, <2>9
<1>9. ASSUME DestroyFree PROVE EventInv'
  <2>1. \A b \in Agents : Taken(b)' = Taken(b)
    <3>1. /\ pc[Owner] = "final" /\ batch[Owner] = {} /\ batch' = batch
          /\ pc' = [pc EXCEPT ![Owner] = "drain"]
      BY <1>9 DEF DestroyFree
    <3>2. \A b \in Agents : pc'[b] = IF b = Owner THEN "drain" ELSE pc[b]
      BY <1>0, <3>1
    <3>3. Taken(Owner) = {} /\ Taken(Owner)' = {}
      BY <3>1 DEF Taken
    <3>4. \A b \in Agents \ {Owner} : Taken(b)' = Taken(b)
      BY <3>1, <3>2 DEF Taken
    <3> QED
      BY <3>3, <3>4
  <2>8. UseInv'
    BY <1>9, <2>1 DEF DestroyFree
  <2>9. KnownInv'
    BY <1>9, <2>1 DEF DestroyFree
  <2> QED
    BY <2>8, <2>9
\* The other actions move an agent that has taken nothing.
<1>10. ASSUME NEW a \in Agents, Unlock(a) \/ ReadFlag(a) \/ Dispatched(a)
       PROVE  EventInv'
  <2>1. \A b \in Agents : Taken(b)' = Taken(b)
    BY <1>10 DEF Unlock, ReadFlag, Dispatched, Taken
  <2>8. UseInv'
    BY <1>10, <2>1 DEF Unlock, ReadFlag, Dispatched
  <2>9. KnownInv'
    BY <1>10, <2>1 DEF Unlock, ReadFlag, Dispatched
  <2> QED
    BY <2>8, <2>9
<1>11. ASSUME NEW f \in Callbacks, PoolRuns(f) \/ BodyReturns(f)
       PROVE  EventInv'
  <2>1. f \in scheduled => pc[f] = "idle"
    BY DEF OnceInv, ControlInv, IdleInv
  <2>2. \A b \in Agents : Taken(b)' = Taken(b)
    BY <1>0, <1>11, <2>1 DEF PoolRuns, BodyReturns, Taken
  <2>8. UseInv'
    BY <1>11, <2>2 DEF PoolRuns, BodyReturns
  <2>9. KnownInv'
    BY <1>11, <2>2 DEF PoolRuns, BodyReturns
  <2> QED
    BY <2>8, <2>9
<1>12. ASSUME PollerWait \/ PollerBegin \/ PollerExits
       PROVE  EventInv'
  <2>1. batch[Poller] = {} /\ batch' = batch
    BY <1>0, <1>12 DEF PollerWait, PollerBegin, PollerExits, ControlInv, BatchInv
  <2>2. \A b \in Agents \ {Poller} : pc'[b] = pc[b]
    BY <1>0, <1>12 DEF PollerWait, PollerBegin, PollerExits
  <2>3. \A b \in Agents : Taken(b)' = Taken(b)
    BY <2>1, <2>2 DEF Taken
  <2>8. UseInv'
    BY <1>12, <2>3 DEF PollerWait, PollerBegin, PollerExits
  <2>9. KnownInv'
    BY <1>12, <2>3 DEF PollerWait, PollerBegin, PollerExits
  <2> QED
    BY <2>8, <2>9
<1>13. ASSUME SetShutdown \/ StopPollingLoop \/ Drained
       PROVE  EventInv'
  <2>1. \A b \in Agents : Taken(b)' = Taken(b)
    BY <1>0, <1>13 DEF SetShutdown, StopPollingLoop, Drained, Woken, Taken
  <2>8. UseInv'
    BY <1>13, <2>1 DEF SetShutdown, StopPollingLoop, Drained
  <2>9. KnownInv'
    BY <1>13, <2>1 DEF SetShutdown, StopPollingLoop, Drained
  <2> QED
    BY <2>8, <2>9
<1> QED
  BY <1>0, <1>1, <1>2, <1>3, <1>4, <1>5, <1>6, <1>7, <1>8, <1>9, <1>10, <1>11, <1>12, <1>13
     DEF Next, ThenExecute, Progress, FreeMemory, Query, PollLoop, Destructor, Finished,
         Work, Device, QueryNotReady, vars


LEMMA EventInit == Init => EventInv
BY DEF Init, EventInv, UseInv, KnownInv, Taken

\* Whatever MUSA calls fail, no event leaks and none is used after it has been
\* destroyed.
THEOREM EventsKept == Spec => []EventsAccounted
<1> DEFINE Inv == Types /\ ControlInv /\ OnceInv /\ EventInv
<1>1. Init => Inv
  BY OnceInit, EventInit
<1>2. Inv /\ [Next]_vars => Inv'
  BY TypesStep, ControlStep, OnceStep, EventStep DEF ControlInv
<1>3. Inv => EventsAccounted
  BY KnownAccounted DEF EventInv
<1> QED
  BY <1>1, <1>2, <1>3, PTL DEF Spec

-----------------------------------------------------------------------------

\* The work that callback f waits for is complete, or the manager has given up
\* waiting for it.
Due(f) == f \in excused \/ Passed(want[f])

\* An event in used_events_ has the mark that its callback waits for; a
\* callback that has left the list is due.
DueInv ==
    /\ \A u \in used : captured[u.event] = want[u.func]
    /\ \A a \in Agents : \A u \in batch[a] : Due(u.func)
    /\ \A f \in scheduled : Due(f)
    /\ early \subseteq excused

LEMMA DueInit == Init => DueInv
BY DEF Init, DueInv

LEMMA DueKept ==
    ASSUME Types, Types', NEW f \in Callbacks, Due(f),
           want'[f] = want[f], excused \subseteq excused',
           \A s \in Streams : done[s] <= done'[s]
    PROVE  Due(f)'
<1>1. CASE f \in excused
  BY <1>1 DEF Due
<1>2. CASE Passed(want[f])
  <2>1. want[f] \in Instants /\ done \in Instants /\ done' \in Instants
    BY DEF Types
  <2>2. ASSUME NEW s \in Streams PROVE want'[f][s] <= done'[s]
    <3>1. want[f][s] <= done[s] /\ done[s] <= done'[s]
      BY <1>2 DEF Passed
    <3>2. want[f][s] \in Int /\ done[s] \in Int /\ done'[s] \in Int
      BY <2>1 DEF Instants
    <3> QED
      BY <3>1, <3>2
  <2> QED
    BY <2>2 DEF Due, Passed
<1> QED
  BY <1>1, <1>2 DEF Due

LEMMA DueStep ==
    ASSUME Types, Types', ControlInv, OnceInv, EventInv, DueInv, [Next]_vars
    PROVE  DueInv'
<1> USE DEF DueInv
<1>0. Poller \in Agents /\ Owner \in Agents
  BY DEF Agents
<1>t. /\ \A u \in used : u \in Entries /\ u.func \in Callbacks /\ u.event \in Events
      /\ \A a \in Agents : \A u \in batch[a] : u \in Entries /\ u.func \in Callbacks
      /\ scheduled \subseteq Callbacks /\ done \in Instants
      /\ \A s \in Streams : done[s] <= done[s]
  BY DEF Types, Entries, Instants
\* Steps that register nothing and call nothing.
<1>1. ASSUME UNCHANGED <<want, captured, early>>,
             excused \subseteq excused',
             \A s \in Streams : done[s] <= done'[s],
             used' \subseteq used,
             \A a \in Agents : \A u \in batch'[a] :
                u.func \in Callbacks /\ (Due(u.func) \/ u.func \in excused'),
             \A f \in scheduled' : Due(f)
      PROVE  DueInv'
  <2>1. \A f \in Callbacks : Due(f) => Due(f)'
    BY <1>1, DueKept
  <2>2. \A f \in excused' : Due(f)'
    BY DEF Due
  <2>3. scheduled' \subseteq Callbacks
    BY DEF Types
  <2> QED
    BY <1>1, <2>1, <2>2, <2>3
<1>2. ASSUME NEW s \in Streams, Work(s) \/ Device(s) PROVE DueInv'
  <2>1. \A r \in Streams : done[r] <= done'[r]
    BY <1>2, <1>t DEF Work, Device, Enqueue, Complete, Instants
  <2> QED
    BY <1>1, <1>2, <1>t, <2>1 DEF Work, Device
<1>3. ASSUME NEW a \in Agents, NEW s \in Streams, NEW f \in Callbacks, NEW e \in Events,
             QueueInUse(a, s, f, e)
      PROVE  DueInv'
  <2>1. /\ want' = [want EXCEPT ![f] = StreamMark(s)]
        /\ captured' = [captured EXCEPT ![e] = StreamMark(s)]
        /\ used' = used \cup {[event |-> e, func |-> f]}
        /\ f \notin registered /\ (e \in freeEvents \/ e \notin live)
        /\ UNCHANGED <<done, batch, scheduled, excused, early>>
    BY <1>3 DEF QueueInUse, Register, NextEvents
  <2>2. /\ \A u \in used : u.func # f /\ u.event # e
        /\ \A b \in Agents : \A u \in batch[b] : u.func # f
        /\ f \notin scheduled
    BY <1>t, <2>1 DEF OnceInv, Waits, EventInv, UseInv, KnownInv
  <2>3. \A g \in Callbacks \ {f} : Due(g) => Due(g)'
    BY <1>t, <2>1, DueKept DEF Types
  <2>4. \A u \in used' : captured'[u.event] = want'[u.func]
    BY <1>t, <2>1, <2>2 DEF Types
  <2> QED
    BY <1>t, <2>1, <2>2, <2>3, <2>4
<1>4. ASSUME NEW a \in Agents, NEW s \in Streams, NEW f \in Callbacks, QueueFails(a, s, f)
      PROVE  DueInv'
  <2>1. /\ want' = [want EXCEPT ![f] = StreamMark(s)]
        /\ f \notin registered /\ early' \subseteq early \cup {f}
        /\ excused' = excused \cup {f}
        /\ UNCHANGED <<done, used, captured, batch, scheduled>>
    BY <1>4 DEF QueueFails, Register
  <2>2. /\ \A u \in used : u.func # f
        /\ \A b \in Agents : \A u \in batch[b] : u.func # f
        /\ f \notin scheduled
    BY <2>1 DEF OnceInv, Waits
  <2>3. \A g \in Callbacks \ {f} : Due(g) => Due(g)'
    BY <1>t, <2>1, DueKept DEF Types
  <2>4. \A u \in used' : captured'[u.event] = want'[u.func]
    BY <1>t, <2>1, <2>2 DEF Types
  <2> QED
    BY <1>t, <2>1, <2>2, <2>3, <2>4
<1>5. ASSUME NEW u \in unseen, QueryReady(u) \/ QueryFails(u)
      PROVE  DueInv'
  <2>1. mu \in Agents /\ u \in used
    BY DEF ControlInv, LockInv, Types
  <2>2. Due(u.func) \/ u.func \in excused'
    BY <1>5, <2>1 DEF QueryReady, QueryFails, Ready, Due
  <2>3. \A a \in Agents : batch'[a] \subseteq batch[a] \cup {u}
    BY <1>5, <2>1 DEF QueryReady, QueryFails, Types
  <2> QED
    BY <1>1, <1>5, <1>t, <2>1, <2>2, <2>3 DEF QueryReady, QueryFails
<1>6. ASSUME NEW a \in Agents, NEW u \in batch[a], CallNow(a, u) \/ FinalCall(a, u)
      PROVE  DueInv'
  <2>1. early' \subseteq excused'
    BY <1>6 DEF CallNow, FinalCall, Call, Due
  <2>2. /\ \A b \in Agents : batch'[b] \subseteq batch[b]
        /\ UNCHANGED <<done, want, captured, excused, used, scheduled>>
    BY <1>6 DEF CallNow, FinalCall, Types
  <2>3. \A f \in Callbacks : Due(f) => Due(f)'
    BY <1>t, <2>2, DueKept
  <2> QED
    BY <1>t, <2>1, <2>2, <2>3
<1>7. ASSUME NEW a \in Agents, NEW u \in batch[a], Schedule(a, u)
      PROVE  DueInv'
  <2>1. /\ \A b \in Agents : batch'[b] \subseteq batch[b]
        /\ scheduled' = scheduled \cup {u.func}
        /\ UNCHANGED <<done, want, captured, excused, used, early>>
    BY <1>7 DEF Schedule, Types
  <2> QED
    BY <1>1, <1>t, <2>1
<1>8. ASSUME NEW f \in Callbacks, PoolRuns(f) PROVE DueInv'
  <2>1. early' \subseteq excused'
    BY <1>8 DEF PoolRuns, Call, Due
  <2>2. /\ scheduled' \subseteq scheduled
        /\ UNCHANGED <<done, want, captured, excused, used, batch>>
    BY <1>8 DEF PoolRuns
  <2>3. \A g \in Callbacks : Due(g) => Due(g)'
    BY <1>t, <2>2, DueKept
  <2> QED
    BY <1>t, <2>1, <2>2, <2>3
<1>9. ASSUME NEW a \in Agents, TakeAll(a) PROVE DueInv'
  <2>1. /\ batch' = [batch EXCEPT ![a] = used] /\ used' = {}
        /\ excused' = excused \cup {u.func : u \in used}
        /\ UNCHANGED <<done, want, captured, scheduled, early>>
    BY <1>9 DEF TakeAll
  <2>2. \A b \in Agents : \A u \in batch'[b] : u \in batch[b] \/ u \in used
    BY <2>1 DEF Types
  <2> QED
    BY <1>1, <1>t, <2>1, <2>2
<1>10. ASSUME UNCHANGED <<done, want, captured, excused, used, batch, scheduled, early>>
       PROVE  DueInv'
  BY <1>1, <1>10, <1>t
<1> QED
  BY <1>0, <1>2, <1>3, <1>4, <1>5, <1>6, <1>7, <1>8, <1>9, <1>10
     DEF Next, ThenExecute, Progress, FreeMemory, Query, PollLoop, Destructor, Finished,
         QueryNotReady, Unlock, Recycle, ReadFlag, Dispatched, BodyReturns, PollerStops,
         Sweep, PollerWait, PollerBegin, PollerExits, SetShutdown, StopPollingLoop,
         DestroyFree, Drained, vars

IInv == Types /\ ControlInv /\ OnceInv /\ EventInv /\ DueInv

LEMMA Inductive == Spec => []IInv
<1>1. Init => IInv
  BY OnceInit, EventInit, DueInit DEF IInv
<1>2. IInv /\ [Next]_vars => IInv'
  BY TypesStep, ControlStep, OnceStep, EventStep, DueStep DEF IInv, ControlInv
<1> QED
  BY <1>1, <1>2, PTL DEF Spec

\* "Execute func when all pending stream actions have completed": a callback is
\* called before that only if a MUSA call failed for it, or the destructor took
\* its event unqueried.
THEOREM NeverEarly == Spec => []NoEarlyCall
<1>1. IInv => NoEarlyCall
  BY DEF IInv, DueInv, NoEarlyCall
<1> QED
  BY <1>1, Inductive, PTL

-----------------------------------------------------------------------------

\* Events may not be created or recorded.
EventsMayFail == Failing \cap {"musaEventCreate", "musaEventRecord"} # {}

\* An agent that runs a callback stays where it called it: under mu_ only where
\* ThenExecute got no event.
HostInv ==
    \A f \in Callbacks :
        host[f] \in Agents =>
            \/ pc[host[f]] \in {"dispatch", "final"}
            \/ pc[host[f]] = "poll" /\ EventsMayFail

LEMMA HostInit == Init => HostInv
BY DEF Init, HostInv, Agents

LEMMA HostStep ==
    ASSUME Types, ControlInv, OnceInv, HostInv, [Next]_vars
    PROVE  HostInv'
<1> USE DEF Types, HostInv
<1>0. Poller \in Agents /\ Owner \in Agents /\ Callbacks \subseteq Agents
  BY DEF Agents
\* Steps that call nothing and move no agent that runs a callback.
<1>1. ASSUME \A f \in Callbacks : host'[f] \in Agents =>
                 host'[f] = host[f] /\ pc'[host[f]] = pc[host[f]]
      PROVE  HostInv'
  BY <1>1
<1>2. ASSUME NEW a \in Agents, NEW s \in Streams, NEW f \in Callbacks, NEW e \in Events,
             QueueInUse(a, s, f, e)
      PROVE  HostInv'
  BY <1>0, <1>2 DEF QueueInUse, Register, MayCall, Woken
<1>3. ASSUME NEW a \in Agents, NEW s \in Streams, NEW f \in Callbacks, QueueFails(a, s, f)
      PROVE  HostInv'
  <2>1. f \in Agents /\ pc[f] = "idle" /\ pc[a] \in {"idle", "body"} /\ f # a
    BY <1>0, <1>3 DEF QueueFails, Register, MayCall, OnceInv, ControlInv, IdleInv
  <2>2. EventsMayFail
    BY <1>3 DEF QueueFails, NoEvent, EventsMayFail
  <2> QED
    BY <1>3, <2>1, <2>2 DEF QueueFails
<1>4. ASSUME NEW a \in Agents, Unlock(a) \/ Recycle(a) \/ ReadFlag(a) \/ Dispatched(a)
      PROVE  HostInv'
  BY <1>4 DEF Unlock, Recycle, ReadFlag, Dispatched, Free
<1>5. ASSUME NEW a \in Agents, NEW u \in batch[a], CallNow(a, u) \/ FinalCall(a, u)
      PROVE  HostInv'
  <2>1. u.func \in Callbacks /\ u.func \in Agents /\ pc[u.func] = "idle" /\ u.func # a
    BY <1>0, <1>5 DEF OnceInv, Waits, ControlInv, IdleInv, Entries, CallNow, FinalCall
  <2> QED
    BY <1>5, <2>1 DEF CallNow, FinalCall, Call
<1>6. ASSUME NEW a \in Agents, NEW u \in batch[a], Schedule(a, u)
      PROVE  HostInv'
  BY <1>6 DEF Schedule
<1>7. ASSUME NEW f \in Callbacks, PoolRuns(f) \/ BodyReturns(f)
      PROVE  HostInv'
  <2>1. pc[f] \in {"idle", "body", "return"}
    BY <1>7 DEF OnceInv, ControlInv, IdleInv, PoolRuns, BodyReturns
  <2>2. PICK p \in Places : pc' = [pc EXCEPT ![f] = p]
    BY <1>7 DEF PoolRuns, BodyReturns, Places
  <2>3. ThreadPool \notin Agents /\ NoAgent \notin Agents
    BY DEF Agents
  <2>4. \A g \in Callbacks : host'[g] \in Agents => host'[g] = host[g] /\ host[g] # f
    BY <1>7, <2>1, <2>3 DEF PoolRuns, BodyReturns, Call
  <2> QED
    BY <1>1, <2>2, <2>4
<1>8. ASSUME PollerWait \/ PollerBegin \/ PollerStops \/ PollerExits
      PROVE  HostInv'
  BY <1>0, <1>8 DEF PollerWait, PollerBegin, PollerStops, TakeAll, PollerExits, Free
<1>9. ASSUME SetShutdown \/ StopPollingLoop \/ Sweep \/ DestroyFree \/ Drained
      PROVE  HostInv'
  BY <1>0, <1>9 DEF SetShutdown, StopPollingLoop, Woken, Sweep, TakeAll, DestroyFree,
                    Drained, Free
<1> QED
  BY <1>0, <1>1, <1>2, <1>3, <1>4, <1>5, <1>6, <1>7, <1>8, <1>9
     DEF Next, ThenExecute, Progress, FreeMemory, Query, PollLoop, Destructor, Finished,
         Work, Device, QueryReady, QueryNotReady, QueryFails, vars

LEMMA HostsStay == Spec => []HostInv
<1>1. IInv /\ HostInv /\ [Next]_vars => HostInv'
  BY HostStep DEF IInv
<1> QED
  BY HostInit, <1>1, Inductive, PTL DEF Spec

\* Callbacks run "outside the lock to avoid blocking", however they come to be
\* called, if the manager gets an event for every ThenExecute; queries may fail.
THEOREM OutsideLock ==
    ASSUME ~EventsMayFail
    PROVE  Spec => []CallsOutsideLock
<1>1. IInv /\ HostInv => CallsOutsideLock
  BY DEF IInv, Types, ControlInv, LockInv, HostInv, CallsOutsideLock
<1> QED
  BY <1>1, Inductive, HostsStay, PTL

-----------------------------------------------------------------------------
(* The destructor loses no callback if the bodies of the callbacks do not  *)
(* call ThenExecute themselves: a body that the thread pool runs after the *)
(* last sweep may register what nobody will look at.                       *)

In(f, S) == \E u \in S : u.func = f

\* A callback that has not been called is in a list, in a vector or in the
\* queue of the thread pool.
KeptInv ==
    \A f \in registered :
        \/ runs[f] # 0
        \/ f \in scheduled
        \/ In(f, used)
        \/ \E a \in Agents : In(f, batch[a])

\* Where each agent can be.
PlaceInv ==
    /\ pc[Owner] \in {"live", "stop", "join", "final", "drain", "gone"}
    /\ pc[Poller] \in {"lock", "wait", "poll", "recycle", "dispatch", "schedule",
                       "final", "exited"}
    /\ \A c \in Clients :
          pc[c] \in {"idle", "poll", "recycle", "dispatch", "schedule"}
    /\ \A f \in Callbacks : pc[f] \in {"idle", "body"}

\* How far the destructor has come.
EndInv ==
    /\ pc[Owner] # "live" => \A c \in Clients : pc[c] = "idle"
    /\ pc[Owner] \in {"final", "drain", "gone"} => pc[Poller] = "exited" /\ used = {}
    /\ pc[Owner] = "gone" =>
          scheduled = {} /\ \A f \in Callbacks : host[f] # ThreadPool

LEMMA KeptStep ==
    ASSUME IInv, KeptInv, [Next]_vars
    PROVE  KeptInv'
<1> USE DEF IInv, Types, KeptInv, In
<1>0. Poller \in Agents /\ Owner \in Agents
  BY DEF Agents
<1>1. ASSUME UNCHANGED <<registered, runs, scheduled, used, batch>> PROVE KeptInv'
  BY <1>1
<1>2. ASSUME NEW a \in Agents, NEW s \in Streams, NEW f \in Callbacks, NEW e \in Events,
             QueueInUse(a, s, f, e)
      PROVE  KeptInv'
  <2>1. /\ registered' = registered \cup {f}
        /\ used' = used \cup {[event |-> e, func |-> f]}
        /\ UNCHANGED <<runs, scheduled, batch>>
    BY <1>2 DEF QueueInUse, Register
  <2>2. In(f, used')
    <3>1. [event |-> e, func |-> f].func = f
      OBVIOUS
    <3> QED
      BY <2>1, <3>1
  <2>3. \A g \in registered : In(g, used) => In(g, used')
    BY <2>1
  <2> QED
    BY <2>1, <2>2, <2>3
<1>3. ASSUME NEW a \in Agents, NEW s \in Streams, NEW f \in Callbacks, QueueFails(a, s, f)
      PROVE  KeptInv'
  BY <1>3 DEF QueueFails, Register
<1>4. ASSUME NEW u \in unseen, QueryReady(u) \/ QueryFails(u)
      PROVE  KeptInv'
  <2>1. mu \in Agents /\ u \in used
    BY DEF ControlInv, LockInv
  <2>2. /\ used' = used \ {u} /\ batch' = [batch EXCEPT ![mu] = @ \cup {u}]
        /\ UNCHANGED <<registered, runs, scheduled>>
    BY <1>4 DEF QueryReady, QueryFails
  <2> QED
    BY <2>1, <2>2
<1>5. ASSUME NEW a \in Agents, NEW u \in batch[a], CallNow(a, u) \/ FinalCall(a, u)
      PROVE  KeptInv'
  <2>1. /\ batch' = [batch EXCEPT ![a] = @ \ {u}]
        /\ runs' = [runs EXCEPT ![u.func] = @ + 1]
        /\ UNCHANGED <<registered, scheduled, used>>
    BY <1>5 DEF CallNow, FinalCall, Call
  <2>2. u.func \in Callbacks
    BY DEF Entries
  <2> QED
    BY <2>1, <2>2
<1>6. ASSUME NEW a \in Agents, NEW u \in batch[a], Schedule(a, u)
      PROVE  KeptInv'
  <2>1. /\ batch' = [batch EXCEPT ![a] = @ \ {u}]
        /\ scheduled' = scheduled \cup {u.func}
        /\ UNCHANGED <<registered, runs, used>>
    BY <1>6 DEF Schedule
  <2> QED
    BY <2>1
<1>7. ASSUME NEW f \in Callbacks, PoolRuns(f) PROVE KeptInv'
  BY <1>7 DEF PoolRuns, Call
<1>8. ASSUME PollerStops \/ Sweep PROVE KeptInv'
  <2>1. PICK a \in {Poller, Owner} : TakeAll(a) /\ pc[a] \in {"lock", "join"}
    BY <1>8 DEF PollerStops, Sweep
  <2>2. batch[a] = {}
    BY <1>0, <2>1 DEF ControlInv, BatchInv
  <2>3. /\ batch' = [batch EXCEPT ![a] = used] /\ used' = {}
        /\ UNCHANGED <<registered, runs, scheduled>>
    BY <2>1 DEF TakeAll
  <2> QED
    BY <1>0, <2>2, <2>3
<1> QED
  BY <1>0, <1>1, <1>2, <1>3, <1>4, <1>5, <1>6, <1>7, <1>8
     DEF Next, ThenExecute, Progress, FreeMemory, Query, PollLoop, Destructor, Finished,
         Work, Device, QueryNotReady, Unlock, Recycle, ReadFlag, Dispatched, BodyReturns,
         PollerWait, PollerBegin, PollerExits, SetShutdown, StopPollingLoop,
         DestroyFree, Drained, vars

LEMMA EndStep ==
    ASSUME Chained = {}, IInv, PlaceInv, EndInv, [Next]_vars
    PROVE  PlaceInv' /\ EndInv'
<1> USE DEF IInv, Types, PlaceInv, EndInv
<1>0. /\ Poller \in Agents /\ Owner \in Agents /\ Clients \subseteq Agents
      /\ Callbacks \subseteq Agents
  BY DEF Agents
<1>1. ASSUME UNCHANGED <<pc, scheduled, used, host>> PROVE PlaceInv' /\ EndInv'
  BY <1>1
<1>2. ASSUME NEW a \in Agents, NEW s \in Streams, NEW f \in Callbacks, NEW e \in Events,
             QueueInUse(a, s, f, e)
      PROVE  PlaceInv' /\ EndInv'
  <2>1. a \in Clients /\ pc[Owner] = "live"
    BY <1>2 DEF QueueInUse, Register, MayCall
  <2>2. pc' = [pc EXCEPT ![a] = "poll", ![Poller] = Woken]
    BY <1>2 DEF QueueInUse
  <2> QED
    BY <1>0, <2>1, <2>2 DEF Woken
<1>3. ASSUME NEW a \in Agents, NEW s \in Streams, NEW f \in Callbacks, QueueFails(a, s, f)
      PROVE  PlaceInv' /\ EndInv'
  <2>1. a \in Clients /\ pc[Owner] = "live"
    BY <1>3 DEF QueueFails, Register, MayCall
  <2>2. pc' = [pc EXCEPT ![a] = "poll", ![f] = "body"]
    BY <1>3 DEF QueueFails
  <2> QED
    BY <1>0, <2>1, <2>2
<1>4. ASSUME NEW u \in unseen, QueryReady(u) \/ QueryFails(u)
      PROVE  PlaceInv' /\ EndInv'
  BY <1>4 DEF QueryReady, QueryFails
<1>5. ASSUME NEW a \in Agents, Unlock(a) \/ Recycle(a) \/ ReadFlag(a) \/ Dispatched(a)
      PROVE  PlaceInv' /\ EndInv'
  <2>1. a \in Clients \cup {Poller}
    BY <1>5 DEF Agents, Unlock, Recycle, ReadFlag, Dispatched
  <2> QED
    BY <1>0, <1>5, <2>1 DEF Unlock, Recycle, ReadFlag, Dispatched
<1>6. ASSUME NEW a \in Agents, NEW u \in batch[a], CallNow(a, u) \/ FinalCall(a, u)
      PROVE  PlaceInv' /\ EndInv'
  <2>1. u.func \in Callbacks
    BY DEF Entries
  <2>2. /\ pc' = [pc EXCEPT ![u.func] = "body"] /\ UNCHANGED <<used, scheduled>>
        /\ host' = [host EXCEPT ![u.func] = a] /\ a # ThreadPool
    BY <1>6 DEF CallNow, FinalCall, Call, Agents
  <2> QED
    BY <1>0, <2>1, <2>2
<1>7. ASSUME NEW a \in Agents, NEW u \in batch[a], Schedule(a, u)
      PROVE  PlaceInv' /\ EndInv'
  <2>1. a \in Clients \cup {Poller} /\ pc[Owner] # "gone"
    BY <1>7 DEF Agents, Schedule
  <2> QED
    BY <1>0, <1>7, <2>1 DEF Schedule
<1>8. ASSUME NEW f \in Callbacks, PoolRuns(f) \/ BodyReturns(f)
      PROVE  PlaceInv' /\ EndInv'
  BY <1>0, <1>8 DEF PoolRuns, BodyReturns, Call
<1>9. ASSUME PollerWait \/ PollerBegin \/ PollerStops \/ PollerExits
      PROVE  PlaceInv' /\ EndInv'
  BY <1>0, <1>9 DEF PollerWait, PollerBegin, PollerStops, TakeAll, PollerExits
<1>10. ASSUME SetShutdown \/ StopPollingLoop \/ Sweep \/ DestroyFree \/ Drained
       PROVE  PlaceInv' /\ EndInv'
  BY <1>0, <1>10 DEF SetShutdown, StopPollingLoop, Woken, Sweep, TakeAll, DestroyFree,
                     Drained
<1> QED
  BY <1>0, <1>1, <1>2, <1>3, <1>4, <1>5, <1>6, <1>7, <1>8, <1>9, <1>10
     DEF Next, ThenExecute, Progress, FreeMemory, Query, PollLoop, Destructor, Finished,
         Work, Device, QueryNotReady, vars

\* When the destructor has returned, every callback ever registered has been
\* called and has returned: none was lost between a list, a vector, the two
\* sweeps and the queue of the thread pool.
THEOREM NoneLost ==
    ASSUME Chained = {}
    PROVE  Spec => []NoCallbackLost
<1> DEFINE Inv == KeptInv /\ PlaceInv /\ EndInv
<1>1. Init => Inv
  BY DEF Init, KeptInv, PlaceInv, EndInv, Agents
<1>2. IInv /\ Inv /\ [Next]_vars => Inv'
  BY KeptStep, EndStep
<1>3. IInv /\ HostInv /\ Inv => NoCallbackLost
  <2> SUFFICES ASSUME IInv, HostInv, Inv, pc[Owner] = "gone", NEW f \in registered
               PROVE  runs[f] # 0 /\ host[f] = NoAgent
    BY DEF NoCallbackLost
  <2>1. \A a \in Agents : pc[a] \in {"gone", "exited", "idle", "body"}
    BY DEF Agents, PlaceInv, EndInv
  <2>2. \A a \in Agents : batch[a] = {}
    BY <2>1 DEF IInv, ControlInv, BatchInv
  <2>3. f \in Callbacks /\ host[f] \in Agents \cup {ThreadPool, NoAgent}
    BY DEF IInv, Types
  <2>4. host[f] \notin Agents
    BY <2>1, <2>3 DEF HostInv
  <2> QED
    BY <2>2, <2>3, <2>4 DEF KeptInv, EndInv, In
<1> QED
  BY <1>1, <1>2, <1>3, Inductive, HostsStay, PTL DEF Spec

-----------------------------------------------------------------------------
(* The event manager implements the safety part of StreamCallbacks,        *)
(* whatever MUSA calls fail.                                               *)

\* The functions that StreamCallbacks counts as called.
Called == {f \in Callbacks : runs[f] # 0}

LEMMA PromiseInit == Init => Promise!Init
<1> SUFFICES ASSUME Init PROVE Promise!Init
    OBVIOUS
<1>1. Called = {}
  BY DEF Init, Called
<1> QED
  BY <1>1 DEF Init, Called, Promise!Init, Promise!StreamsInit, StreamsInit,
              Promise!NoMark, NoMark

\* The callback that is called is the only one that becomes called.
LEMMA CalledAfter ==
    ASSUME Types, NEW f \in Callbacks, runs' = [runs EXCEPT ![f] = @ + 1]
    PROVE  Called' = Called \cup {f}
<1>1. \A g \in Callbacks : runs'[g] = IF g = f THEN runs[g] + 1 ELSE runs[g]
  BY DEF Types
<1>2. runs[f] \in Nat
  BY DEF Types
<1> QED
  BY <1>1, <1>2 DEF Called

LEMMA PromiseStep ==
    ASSUME IInv, [Next]_vars
    PROVE  [Promise!Next]_(Promise!vars)
<1> USE DEF IInv
<1>0. /\ \A u \in used : u.func \in registered \ Called /\ u.func \in Callbacks
      /\ \A a \in Agents : \A u \in batch[a] :
            u.func \in registered \ Called /\ u.func \in Callbacks /\ Due(u.func)
      /\ \A f \in scheduled : f \in registered \ Called /\ f \in Callbacks /\ Due(f)
  BY DEF OnceInv, Waits, DueInv, Types, Entries, Called
<1>1. ASSUME UNCHANGED <<enq, done, registered, want, excused, runs>>
      PROVE  UNCHANGED Promise!vars
  BY <1>1 DEF Promise!vars
<1>2. ASSUME NEW f \in Callbacks, f \in registered \ Called, Due(f),
             runs' = [runs EXCEPT ![f] = @ + 1],
             UNCHANGED <<enq, done, registered, want, excused>>
      PROVE  Promise!Next
  <2>1. Called' = Called \cup {f}
    BY <1>2, CalledAfter
  <2>2. Promise!Call(f)
    BY <1>2, <2>1 DEF Promise!Call, Called, Due, Passed, Promise!Passed
  <2> QED
    BY <2>2 DEF Promise!Next
<1>3. ASSUME NEW F \in SUBSET Callbacks, F \subseteq registered \ Called,
             excused' = excused \cup F,
             UNCHANGED <<enq, done, registered, want, runs>>
      PROVE  Promise!Next
  <2>1. Promise!GiveUp(F)
    BY <1>3 DEF Promise!GiveUp, Called
  <2> QED
    BY <2>1 DEF Promise!Next
<1>4. ASSUME NEW s \in Streams, Work(s) \/ Device(s) PROVE Promise!Next
  <2>1. Promise!Stream(s)
    BY <1>4 DEF Work, Device, Promise!Stream, Enqueue, Complete, Promise!Enqueue,
                Promise!Complete
  <2> QED
    BY <2>1 DEF Promise!Next
<1>5. ASSUME NEW a \in Agents, NEW s \in Streams, NEW f \in Callbacks, NEW e \in Events,
             QueueInUse(a, s, f, e)
      PROVE  Promise!Next
  <2>1. Promise!Register(f, s)
    BY <1>5 DEF QueueInUse, Register, Promise!Register, StreamMark, NoMark,
                Promise!StreamMark, Promise!NoMark
  <2> QED
    BY <2>1 DEF Promise!Next
<1>6. ASSUME NEW a \in Agents, NEW s \in Streams, NEW f \in Callbacks, QueueFails(a, s, f)
      PROVE  Promise!Next
  <2>1. Called' = Called \cup {f}
    BY <1>6, CalledAfter DEF QueueFails
  <2>2. Promise!RegisterFails(f, s)
    BY <1>6, <2>1 DEF QueueFails, Register, Promise!RegisterFails, StreamMark, NoMark,
                      Promise!StreamMark, Promise!NoMark, Called
  <2> QED
    BY <2>2 DEF Promise!Next
<1>7. ASSUME NEW u \in unseen, QueryReady(u) \/ QueryNotReady(u)
      PROVE  UNCHANGED Promise!vars
  BY <1>1, <1>7 DEF QueryReady, QueryNotReady
<1>8. ASSUME NEW u \in unseen, QueryFails(u)
      PROVE  Promise!Next
  <2>1. u.func \in registered \ Called /\ u.func \in Callbacks
    BY <1>0 DEF Types
  <2>2. {u.func} \in SUBSET Callbacks /\ {u.func} \subseteq registered \ Called
    BY <2>1
  <2>3. /\ excused' = excused \cup {u.func}
        /\ UNCHANGED <<enq, done, registered, want, runs>>
    BY <1>8 DEF QueryFails
  <2> QED
    BY <1>3, <2>2, <2>3
<1>9. ASSUME NEW a \in Agents, NEW u \in batch[a], CallNow(a, u) \/ FinalCall(a, u)
      PROVE  Promise!Next
  BY <1>0, <1>2, <1>9 DEF CallNow, FinalCall, Call
<1>10. ASSUME NEW f \in Callbacks, PoolRuns(f) PROVE Promise!Next
  BY <1>0, <1>2, <1>10 DEF PoolRuns, Call
<1>11. ASSUME NEW a \in Agents, TakeAll(a) PROVE Promise!Next
  <2>1. {u.func : u \in used} \subseteq registered \ Called /\ {u.func : u \in used} \subseteq Callbacks
    BY <1>0
  <2> QED
    BY <1>3, <1>11, <2>1 DEF TakeAll
<1>12. Poller \in Agents /\ Owner \in Agents
  BY DEF Agents
<1> QED
  BY <1>1, <1>4, <1>5, <1>6, <1>7, <1>8, <1>9, <1>10, <1>11, <1>12
     DEF Next, ThenExecute, Progress, FreeMemory, Query, PollLoop, Destructor, Finished,
         Unlock, Recycle, ReadFlag, Schedule, Dispatched, BodyReturns, PollerStops, Sweep,
         PollerWait, PollerBegin, PollerExits, SetShutdown, StopPollingLoop, DestroyFree,
         Drained, vars

\* The comments of musa_event_mgr.h as a whole: seen from outside, a function
\* given to ThenExecute is called once, when the work it was given with is
\* complete or the manager has given up on it, and at no other time.
THEOREM Implements == Spec => Promise!Spec
<1>1. IInv /\ [Next]_vars => [Promise!Next]_(Promise!vars)
  BY PromiseStep
<1> QED
  BY <1>1, Inductive, PromiseInit, PTL DEF Spec, Promise!Spec

=============================================================================
