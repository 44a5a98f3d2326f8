---------------------------- MODULE MusaEventMgr ----------------------------
(***************************************************************************)
(* MusaEventMgr (mu/device/musa_event_mgr.cc): runs a callback once the    *)
(* work enqueued so far on a stream is complete.                           *)
(*                                                                         *)
(* Code is run by agents: client threads, which call ThenExecute; the      *)
(* dedicated polling thread; the owner, the thread that destroys the       *)
(* manager; and callbacks, whose bodies may call ThenExecute themselves    *)
(* and which run on the agent that calls them (their host) or on a thread  *)
(* of threadpool_.  A host goes on when the callback it runs returns.      *)
(*                                                                         *)
(* ThenExecuteWithStatus differs from ThenExecute by the argument of the   *)
(* callback only, so one action stands for both.  A callback is registered *)
(* once: two registrations of one function are two callbacks.  The order   *)
(* within used_events_, free_events_, a ToFreeVector and the thread pool's *)
(* queue is left open, so these are sets; PollEvents queries one event per *)
(* step, because the device goes on meanwhile.                             *)
(***************************************************************************)
EXTENDS MusaStreams, FiniteSets

CONSTANTS
    Clients,    \* client threads
    Callbacks,  \* the callbacks that may be registered
    Chained,    \* those whose body may call ThenExecute
    Poller,     \* polling_thread_
    Owner,      \* the thread that destroys the manager
    ThreadPool, \* the host of the callbacks threadpool_ runs
    NoAgent,    \* nobody
    NumThreads, \* threads of threadpool_
    Events,     \* the event handles the runtime may create
    Failing     \* MUSA calls that may fail

ASSUME EventMgrAssumption ==
    /\ Chained \subseteq Callbacks
    /\ Clients \cap Callbacks = {}
    /\ {Poller, Owner} \cap (Clients \cup Callbacks) = {}
    /\ Poller # Owner
    /\ {ThreadPool, NoAgent} \cap (Clients \cup Callbacks \cup {Poller, Owner}) = {}
    /\ ThreadPool # NoAgent
    /\ NumThreads \in Nat \ {0}
    /\ Failing \subseteq {"musaEventCreate", "musaEventRecord", "musaEventQuery"}

Agents == Clients \cup Callbacks \cup {Poller, Owner}

VARIABLES
    mu,         \* who holds mu_ across several steps
    stop,       \* stop_polling_
    shutdown,   \* shutting_down_
    used,       \* used_events_: an event and the callback that awaits it
    freeEvents, \* free_events_
    unseen,     \* entries the running PollEvents has yet to query
    pc,         \* where each agent is
    batch,      \* batch[a]: the ToFreeVector of agent a
    scheduled,  \* callbacks in the queue of threadpool_
    host,       \* host[f]: who is running callback f
    live,       \* handles created and not destroyed
    captured,   \* captured[e]: the mark event e recorded
    registered, \* callbacks given to ThenExecute
    want,       \* want[f]: the work callback f was registered after
    runs,       \* runs[f]: how often f was called
    excused,    \* callbacks the manager gave up waiting for
    early       \* callbacks called before the work they wait for was complete

lockVars == <<mu, stop, shutdown>>
listVars == <<used, freeEvents, unseen>>
eventVars == <<live, captured>>
runVars == <<host, runs, early>>
callVars == <<registered, want, excused>>
vars == <<enq, done, mu, stop, shutdown, used, freeEvents, unseen, pc, batch,
          scheduled, host, live, captured, registered, want, runs, excused,
          early>>

Entries == [event : Events, func : Callbacks]

Init ==
    /\ StreamsInit
    /\ mu = NoAgent
    /\ stop = FALSE
    /\ shutdown = FALSE
    /\ used = {}
    /\ freeEvents = {}
    /\ unseen = {}
    /\ pc = [a \in Agents |-> CASE a = Poller -> "lock"
                                [] a = Owner -> "live"
                                [] OTHER -> "idle"]
    /\ batch = [a \in Agents |-> {}]
    /\ scheduled = {}
    /\ host = [f \in Callbacks |-> NoAgent]
    /\ live = {}
    /\ captured = [e \in Events |-> NoMark]
    /\ registered = {}
    /\ want = [f \in Callbacks |-> NoMark]
    /\ runs = [f \in Callbacks |-> 0]
    /\ excused = {}
    /\ early = {}

\* Agent a is not waiting for a callback it runs.
Free(a) == \A f \in Callbacks : host[f] # a

\* h calls callback f.  pc' is left to the action.
Call(f, h) ==
    /\ host' = [host EXCEPT ![f] = h]
    /\ runs' = [runs EXCEPT ![f] = @ + 1]
    /\ early' = IF Passed(want[f]) THEN early ELSE early \cup {f}

-----------------------------------------------------------------------------
(* Callback bodies *)

\* A callback returns to its host.
BodyReturns(f) ==
    /\ pc[f] \in {"body", "return"}
    /\ pc' = [pc EXCEPT ![f] = "idle"]
    /\ host' = [host EXCEPT ![f] = NoAgent]
    /\ UNCHANGED <<enq, done, lockVars, listVars, batch, scheduled, eventVars,
                   callVars, runs, early>>

\* A thread of the pool takes a callback from the queue and calls it.
PoolRuns(f) ==
    /\ f \in scheduled
    /\ Cardinality({g \in Callbacks : host[g] = ThreadPool}) < NumThreads
    /\ scheduled' = scheduled \ {f}
    /\ Call(f, ThreadPool)
    /\ pc' = [pc EXCEPT ![f] = "body"]
    /\ UNCHANGED <<enq, done, lockVars, listVars, batch, eventVars, callVars>>

-----------------------------------------------------------------------------
(* ThenExecute: QueueInUse and PollEvents in one section of mu_ *)

\* Clients stop calling before their owner destroys the manager.
MayCall(a) ==
    \/ a \in Clients /\ pc[a] = "idle" /\ pc[Owner] = "live"
    \/ a \in Chained /\ pc[a] = "body"

\* Agent a enters ThenExecute(s, f) and takes mu_.
Register(a, s, f) ==
    /\ MayCall(a) /\ mu = NoAgent
    /\ f \notin registered
    /\ registered' = registered \cup {f}
    /\ want' = [want EXCEPT ![f] = StreamMark(s)]
    /\ mu' = a

\* The event QueueInUse takes: a recycled one if there is one, else a new one.
NextEvents == IF freeEvents # {} THEN freeEvents ELSE Events \ live

\* Mutant: the poller is left waiting.
NotWoken == pc[Poller]

\* notify_all: a waiting poller looks at its condition again.
Woken == IF pc[Poller] = "wait" THEN "lock" ELSE pc[Poller]

PopFree(e) == freeEvents \ {e}

\* The event is recorded and the callback joins used_events_.
QueueInUse(a, s, f, e) ==
    /\ Register(a, s, f)
    /\ e \in NextEvents
    /\ live' = live \cup {e}
    /\ freeEvents' = PopFree(e)
    /\ captured' = [captured EXCEPT ![e] = StreamMark(s)]
    /\ used' = used \cup {[event |-> e, func |-> f]}
    /\ unseen' = used'
    /\ pc' = [pc EXCEPT ![a] = "poll", ![Poller] = Woken]
    /\ UNCHANGED <<enq, done, stop, shutdown, batch, scheduled, runVars, excused>>

\* Mutant: the event that could not be recorded is dropped.
NoEventForgets ==
    /\ "musaEventRecord" \in Failing
    /\ \E e \in NextEvents :
          /\ live' = live \cup {e}
          /\ freeEvents' = freeEvents \ {e}

\* No event can be created, or recording it fails and it goes back to
\* free_events_.
NoEvent ==
    \/ /\ "musaEventCreate" \in Failing
       /\ freeEvents = {}
       /\ UNCHANGED <<live, freeEvents>>
    \/ /\ "musaEventRecord" \in Failing
       /\ \E e \in NextEvents :
             /\ live' = live \cup {e}
             /\ freeEvents' = freeEvents \cup {e}

\* The callback is called at once, under mu_.
QueueFails(a, s, f) ==
    /\ Register(a, s, f)
    /\ NoEvent
    /\ host' = [host EXCEPT ![f] = a]
    /\ runs' = [runs EXCEPT ![f] = @ + 1]
    /\ early' = IF Passed(want'[f]) THEN early ELSE early \cup {f}
    /\ excused' = excused \cup {f}
    /\ unseen' = used
    /\ pc' = [pc EXCEPT ![a] = "poll", ![f] = "body"]
    /\ UNCHANGED <<enq, done, stop, shutdown, used, batch, scheduled, captured>>

\* Mutant: musaErrorNotReady is not told from success.
ReadyAlways(u) == TRUE

Ready(u) == Passed(captured[u.event])

\* PollEvents, one musaEventQuery: a ready event leaves used_events_ with its
\* callback, wherever it stands in the list.
QueryReady(u) ==
    /\ u \in unseen /\ Free(mu)
    /\ Ready(u)
    /\ used' = used \ {u}
    /\ unseen' = unseen \ {u}
    /\ batch' = [batch EXCEPT ![mu] = @ \cup {u}]
    /\ UNCHANGED <<enq, done, lockVars, freeEvents, pc, scheduled, runVars,
                   eventVars, callVars>>

\* Mutant: the scan ends at the first event that is not ready.
QueryNotReadyStops(u) ==
    /\ u \in unseen /\ Free(mu)
    /\ ~Passed(captured[u.event])
    /\ unseen' = {}
    /\ UNCHANGED <<enq, done, lockVars, used, freeEvents, pc, batch, scheduled,
                   runVars, eventVars, callVars>>

QueryNotReady(u) ==
    /\ u \in unseen /\ Free(mu)
    /\ ~Passed(captured[u.event])
    /\ unseen' = unseen \ {u}
    /\ UNCHANGED <<enq, done, lockVars, used, freeEvents, pc, batch, scheduled,
                   runVars, eventVars, callVars>>

\* The query fails for another reason: logged, then treated as ready.
QueryFails(u) ==
    /\ u \in unseen /\ Free(mu)
    /\ "musaEventQuery" \in Failing /\ ~Passed(captured[u.event])
    /\ used' = used \ {u}
    /\ unseen' = unseen \ {u}
    /\ batch' = [batch EXCEPT ![mu] = @ \cup {u}]
    /\ excused' = excused \cup {u.func}
    /\ UNCHANGED <<enq, done, lockVars, freeEvents, pc, scheduled, runVars,
                   eventVars, registered, want>>

Unlock(a) ==
    /\ pc[a] = "poll" /\ mu = a
    /\ unseen = {} /\ Free(a)
    /\ mu' = NoAgent
    /\ pc' = [pc EXCEPT ![a] = "recycle"]
    /\ UNCHANGED <<enq, done, stop, shutdown, listVars, batch, scheduled,
                   runVars, eventVars, callVars>>

-----------------------------------------------------------------------------
(* FreeMemory *)

\* Mutant: the events are dropped.
RecycleNothing(a) ==
    /\ pc[a] = "recycle" /\ mu = NoAgent
    /\ pc' = [pc EXCEPT ![a] = "dispatch"]
    /\ UNCHANGED <<enq, done, lockVars, listVars, batch, scheduled, runVars,
                   eventVars, callVars>>

\* The events are recycled, under mu_, before their callbacks are called.
Recycle(a) ==
    /\ pc[a] = "recycle" /\ mu = NoAgent
    /\ freeEvents' = freeEvents \cup {u.event : u \in batch[a]}
    /\ pc' = [pc EXCEPT ![a] = "dispatch"]
    /\ UNCHANGED <<enq, done, lockVars, used, unseen, batch, scheduled, runVars,
                   eventVars, callVars>>

\* shutting_down_ is set: the callback is called on this thread.
CallNow(a, u) ==
    /\ pc[a] = "dispatch" /\ Free(a)
    /\ u \in batch[a]
    /\ shutdown
    /\ batch' = [batch EXCEPT ![a] = @ \ {u}]
    /\ Call(u.func, a)
    /\ pc' = [pc EXCEPT ![u.func] = "body"]
    /\ UNCHANGED <<enq, done, lockVars, listVars, scheduled, eventVars, callVars>>

\* It is not: the callback will be given to the pool, even if the flag is set
\* in between.
ReadFlag(a) ==
    /\ pc[a] = "dispatch" /\ Free(a)
    /\ batch[a] # {}
    /\ ~shutdown
    /\ pc' = [pc EXCEPT ![a] = "schedule"]
    /\ UNCHANGED <<enq, done, lockVars, listVars, batch, scheduled, runVars,
                   eventVars, callVars>>

Schedule(a, u) ==
    /\ pc[a] = "schedule"
    /\ u \in batch[a]
    /\ batch' = [batch EXCEPT ![a] = @ \ {u}]
    /\ scheduled' = scheduled \cup {u.func}
    /\ pc' = [pc EXCEPT ![a] = "dispatch"]
    /\ UNCHANGED <<enq, done, lockVars, listVars, runVars, eventVars, callVars>>

\* The vector is through: ThenExecute returns, or PollLoop goes round.
Dispatched(a) ==
    /\ pc[a] = "dispatch" /\ Free(a)
    /\ batch[a] = {}
    /\ pc' = [pc EXCEPT ![a] = IF a = Poller THEN "lock"
                              ELSE IF a \in Callbacks THEN "return" ELSE "idle"]
    /\ UNCHANGED <<enq, done, lockVars, listVars, batch, scheduled, runVars,
                   eventVars, callVars>>

-----------------------------------------------------------------------------
(* PollLoop *)

\* while (!stop_polling_ && used_events_.empty()) events_pending_.wait(l)
PollerWait ==
    /\ pc[Poller] = "lock" /\ mu = NoAgent
    /\ ~stop /\ used = {}
    /\ pc' = [pc EXCEPT ![Poller] = "wait"]
    /\ UNCHANGED <<enq, done, lockVars, listVars, batch, scheduled, runVars,
                   eventVars, callVars>>

PollerBegin ==
    /\ pc[Poller] = "lock" /\ mu = NoAgent
    /\ ~stop /\ used # {}
    /\ mu' = Poller
    /\ unseen' = used
    /\ pc' = [pc EXCEPT ![Poller] = "poll"]
    /\ UNCHANGED <<enq, done, stop, shutdown, used, freeEvents, batch, scheduled,
                   runVars, eventVars, callVars>>

\* Mutant: used_events_ is not cleared.
TakeAllKeeps(a) ==
    /\ batch' = [batch EXCEPT ![a] = used]
    /\ excused' = excused \cup {u.func : u \in used}
    /\ pc' = [pc EXCEPT ![a] = "final"]
    /\ UNCHANGED <<enq, done, lockVars, listVars, scheduled, runVars, eventVars,
                   registered, want>>

\* Mutant: mu_ is kept while the callbacks are called.
TakeAllLocked(a) ==
    /\ batch' = [batch EXCEPT ![a] = used]
    /\ used' = {}
    /\ mu' = a
    /\ excused' = excused \cup {u.func : u \in used}
    /\ pc' = [pc EXCEPT ![a] = "final"]
    /\ UNCHANGED <<enq, done, stop, shutdown, freeEvents, unseen, scheduled,
                   runVars, eventVars, registered, want>>

\* All used events are taken, none is queried.  (stop_polling_ is set by the
\* destructor only, after shutting_down_: the branch of PollLoop that would
\* query them is never taken.)
TakeAll(a) ==
    /\ batch' = [batch EXCEPT ![a] = used]
    /\ used' = {}
    /\ excused' = excused \cup {u.func : u \in used}
    /\ pc' = [pc EXCEPT ![a] = "final"]
    /\ UNCHANGED <<enq, done, lockVars, freeEvents, unseen, scheduled, runVars,
                   eventVars, registered, want>>

PollerStops ==
    /\ pc[Poller] = "lock" /\ mu = NoAgent
    /\ stop
    /\ TakeAll(Poller)

\* The event is destroyed and its callback called on this thread.
FinalCall(a, u) ==
    /\ pc[a] = "final" /\ Free(a)
    /\ u \in batch[a]
    /\ batch' = [batch EXCEPT ![a] = @ \ {u}]
    /\ live' = live \ {u.event}
    /\ Call(u.func, a)
    /\ pc' = [pc EXCEPT ![u.func] = "body"]
    /\ UNCHANGED <<enq, done, lockVars, listVars, scheduled, captured, callVars>>

\* polling_stopped_->Notify()
PollerExits ==
    /\ pc[Poller] = "final" /\ Free(Poller)
    /\ batch[Poller] = {}
    /\ pc' = [pc EXCEPT ![Poller] = "exited"]
    /\ UNCHANGED <<enq, done, lockVars, listVars, batch, scheduled, runVars,
                   eventVars, callVars>>

-----------------------------------------------------------------------------
(* ~MusaEventMgr *)

SetShutdown ==
    /\ pc[Owner] = "live"
    /\ \A c \in Clients : pc[c] = "idle"
    /\ shutdown' = TRUE
    /\ pc' = [pc EXCEPT ![Owner] = "stop"]
    /\ UNCHANGED <<enq, done, mu, stop, listVars, batch, scheduled, runVars,
                   eventVars, callVars>>

StopPollingLoop ==
    /\ pc[Owner] = "stop" /\ mu = NoAgent
    /\ stop' = TRUE
    /\ pc' = [pc EXCEPT ![Owner] = "join", ![Poller] = Woken]
    /\ UNCHANGED <<enq, done, mu, shutdown, listVars, batch, scheduled, runVars,
                   eventVars, callVars>>

\* The polling thread has exited: what callbacks registered since is taken.
Sweep ==
    /\ pc[Owner] = "join" /\ pc[Poller] = "exited" /\ mu = NoAgent
    /\ TakeAll(Owner)

\* The free events are destroyed.
DestroyFree ==
    /\ pc[Owner] = "final" /\ Free(Owner)
    /\ batch[Owner] = {} /\ mu = NoAgent
    /\ live' = live \ freeEvents
    /\ freeEvents' = {}
    /\ pc' = [pc EXCEPT ![Owner] = "drain"]
    /\ UNCHANGED <<enq, done, lockVars, used, unseen, batch, scheduled, runVars,
                   captured, callVars>>

\* Mutant: the pool's queue is dropped.
DrainedAtOnce ==
    /\ pc[Owner] = "drain"
    /\ pc' = [pc EXCEPT ![Owner] = "gone"]
    /\ UNCHANGED <<enq, done, lockVars, listVars, batch, scheduled, runVars,
                   eventVars, callVars>>

\* The destructor of threadpool_ returns when its queue is empty and its
\* threads are through.
Drained ==
    /\ pc[Owner] = "drain"
    /\ scheduled = {}
    /\ \A f \in Callbacks : host[f] # ThreadPool
    /\ pc' = [pc EXCEPT ![Owner] = "gone"]
    /\ UNCHANGED <<enq, done, lockVars, listVars, batch, scheduled, runVars,
                   eventVars, callVars>>

-----------------------------------------------------------------------------

\* Somebody enqueues work on stream s.
Work(s) ==
    /\ pc[Owner] = "live"
    /\ Enqueue(s)
    /\ UNCHANGED <<lockVars, listVars, pc, batch, scheduled, runVars, eventVars,
                   callVars>>

\* The device completes an operation of stream s.
Device(s) ==
    /\ Complete(s)
    /\ UNCHANGED <<lockVars, listVars, pc, batch, scheduled, runVars, eventVars,
                   callVars>>

ThenExecute(a) ==
    \E s \in Streams, f \in Callbacks :
        (\E e \in Events : QueueInUse(a, s, f, e)) \/ QueueFails(a, s, f)

Query == \E u \in unseen : QueryReady(u) \/ QueryNotReady(u) \/ QueryFails(u)

FreeMemory(a) ==
    \/ Recycle(a)
    \/ \E u \in batch[a] : CallNow(a, u) \/ Schedule(a, u)
    \/ ReadFlag(a)
    \/ Dispatched(a)

\* What agent a does once it is in ThenExecute or PollLoop.
Progress(a) == Unlock(a) \/ FreeMemory(a)

PollLoop ==
    \/ PollerWait
    \/ PollerBegin
    \/ PollerStops
    \/ \E u \in batch[Poller] : FinalCall(Poller, u)
    \/ PollerExits

Destructor ==
    \/ StopPollingLoop
    \/ Sweep
    \/ \E u \in batch[Owner] : FinalCall(Owner, u)
    \/ DestroyFree
    \/ Drained

Finished ==
    /\ pc[Owner] = "gone" /\ enq = done
    /\ UNCHANGED vars

Next ==
    \/ \E s \in Streams : Work(s) \/ Device(s)
    \/ \E a \in Agents : ThenExecute(a) \/ Progress(a)
    \/ Query
    \/ \E f \in Callbacks : PoolRuns(f) \/ BodyReturns(f)
    \/ PollLoop
    \/ SetShutdown
    \/ Destructor
    \/ Finished

Spec == Init /\ [][Next]_vars

-----------------------------------------------------------------------------
(* Properties *)

\* The entries an agent took from used_events_ whose events it has yet to
\* recycle or destroy.
Taken(a) == IF pc[a] \in {"poll", "recycle", "final"} THEN batch[a] ELSE {}

EventsOf(S) == {u.event : u \in S}

\* Every event created and not destroyed is known to the manager, and it
\* knows no other: none leaks, none is used after musaEventDestroy.
EventsAccounted ==
    live = freeEvents \cup EventsOf(used)
               \cup UNION {EventsOf(Taken(a)) : a \in Agents}

\* ThenExecute, the poller, the pool and both sweeps of the destructor can
\* all come to call a callback: it is called once at most.
RunsOnce == \A f \in Callbacks : runs[f] <= 1

\* "Execute func when all pending stream actions have completed": no earlier,
\* unless a MUSA call failed for it or the destructor swept it unqueried.
NoEarlyCall == early \subseteq excused

\* When the manager is gone every callback has been called, and has returned.
NoCallbackLost ==
    pc[Owner] = "gone" =>
        \A f \in registered : runs[f] # 0 /\ host[f] = NoAgent

\* Callbacks run "outside the lock to avoid blocking": the agent that holds
\* mu_ runs none.  It holds while events can be created and recorded: QueueFails
\* calls the callback under mu_.
CallsOutsideLock == \A f \in Callbacks : host[f] # NoAgent => host[f] # mu

\* Threads that can go on do: the poller, the pool's threads, the destructor
\* once it has begun, every agent inside ThenExecute, every callback.  The
\* polling thread takes and releases mu_ for ever while an event is not ready;
\* the mutex lets whoever waits for it have its turn, hence SF.  Nothing is
\* assumed of the device.
Fairness ==
    /\ WF_vars(Query)
    /\ WF_vars(PollLoop)
    /\ SF_vars(Destructor)
    /\ WF_vars(Progress(Poller))
    /\ \A a \in Clients \cup Chained : SF_vars(Recycle(a)) /\ WF_vars(Progress(a))
    /\ \A f \in Callbacks : WF_vars(PoolRuns(f)) /\ WF_vars(BodyReturns(f))

FairSpec == Spec /\ Fairness

Promise == INSTANCE StreamCallbacks WITH
    givenUp <- excused,
    called <- {f \in Callbacks : runs[f] # 0}

\* Every step of the manager is one of the promise or leaves it unchanged,
\* and a callback whose work is complete is called even if the other streams
\* make no progress at all.
KeepsPromise == Promise!FairSpec

\* Once begun, the destructor returns, even if the device hangs.
DestructorReturns == shutdown ~> pc[Owner] = "gone"

=============================================================================
