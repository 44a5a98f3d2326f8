----------------------------- MODULE Telemetry -----------------------------
(***************************************************************************)
(* MusaTelemetry (mu/device/musa_telemetry.cc): a log of events that many  *)
(* threads record and one thread writes.                                   *)
(*                                                                         *)
(* Actors: recorders, the threads that allocate, copy and launch; the      *)
(* logging thread of the current session; and the administrator, whoever   *)
(* calls Initialize or Shutdown (Python under its global lock, the loading *)
(* and the unloading of the plugin: one call at a time).                   *)
(*                                                                         *)
(* An event is the time it was stamped with, its thread, and the page of   *)
(* its address if it is one that memory_index_ keeps.  No two events have  *)
(* one time; the stamp also stands for the correlation id taken next to    *)
(* it.                                                                     *)
(* Sections of event_mutex_ and of index_mutex_ are single actions.  The   *)
(* macros that call RecordEvent ask IsEnabled before it does, which adds   *)
(* nothing.                                                                *)
(***************************************************************************)
EXTENDS Integers, FiniteSets, SequencesExt

CONSTANTS
    Recorders,  \* threads that record events
    Reporters,  \* those that may call OnDirtyDataDetected
    Logger,     \* logging_thread_
    Pages,      \* the pages events are about
    NoPage,     \* among them, the page of events memory_index_ does not keep
    Sizes,      \* the values of buffer_size
    NoConfig,   \* what Shutdown is given for a configuration
    PageLimit,  \* operations kept per page: 100 in the code
    MaxTime,    \* bound on the events stamped
    MaxCalls    \* bound on the calls of Initialize and Shutdown

ASSUME TelemetryAssumption ==
    /\ Reporters \subseteq Recorders
    /\ Logger \notin Recorders
    /\ Sizes \subseteq Nat \ {0}
    /\ NoConfig \notin [enabled : BOOLEAN, size : Sizes]
    /\ PageLimit \in Nat \ {0}
    /\ MaxTime \in Nat
    /\ MaxCalls \in Nat

VARIABLES
    enabled,    \* enabled_
    shutdown,   \* shutdown_
    config,     \* config_: whether it is enabled, and its buffer_size
    file,       \* output_file_: none (stderr), open, or closed, yet not reset
    buffer,     \* event_buffer_
    index,      \* memory_index_
    pc,         \* where recorders and the logging thread are
    event,      \* the event each recorder records
    batch,      \* to_flush of each thread that flushes
    leaving,    \* the logging thread is through with its loop
    adminPc,    \* where the administrator is
    target,     \* the configuration it was given
    calls,      \* calls of Initialize and Shutdown so far
    time,       \* the last time an event was stamped with
    pushed,     \* events that were put in the buffer, in this order
    written,    \* events written: events_logged_ counts them
    dropped,    \* events dropped: events_dropped_ counts them
    due         \* how many events were pushed when shutdown_ was set last

Flushers == Recorders \cup {Logger}

Events == [time : 1..MaxTime, page : Pages, by : Recorders]
NoEvent == [time |-> 0]

Configs == [enabled : BOOLEAN, size : Sizes]

sessionVars == <<enabled, shutdown, config, file>>
adminVars == <<adminPc, target, calls, due>>
logVars == <<pushed, written, dropped>>
vars == <<enabled, shutdown, config, file, buffer, index, pc, event, batch,
          leaving, adminPc, target, calls, time, pushed, written, dropped, due>>

Init ==
    /\ enabled = FALSE
    /\ shutdown = FALSE
    /\ config \in {c \in Configs : ~c.enabled}
    /\ file = "none"
    /\ buffer = <<>>
    /\ index = [p \in Pages \ {NoPage} |-> <<>>]
    /\ pc = [a \in Flushers |-> IF a = Logger THEN "none" ELSE "idle"]
    /\ event = [r \in Recorders |-> NoEvent]
    /\ batch = [a \in Flushers |-> <<>>]
    /\ leaving = FALSE
    /\ adminPc = "idle"
    /\ target = NoConfig
    /\ calls = 0
    /\ time = 0
    /\ pushed = <<>>
    /\ written = <<>>
    /\ dropped = {}
    /\ due = 0

IsEnabled == config.enabled /\ enabled

-----------------------------------------------------------------------------
(* RecordEvent *)

\* Telemetry is enabled: the event is stamped.
Stamp(r, p) ==
    /\ pc[r] = "idle"
    /\ IsEnabled
    /\ time < MaxTime
    /\ time' = time + 1
    /\ event' = [event EXCEPT ![r] = [time |-> time', page |-> p, by |-> r]]
    /\ pc' = [pc EXCEPT ![r] = "push"]
    /\ UNCHANGED <<sessionVars, buffer, index, batch, leaving, adminVars, logVars>>

\* The buffer is full.  Its size is read again, from whatever configuration
\* there is by now.
Full == Len(buffer) >= config.size

\* notify_one, which does nothing unless the logging thread waits.
Notified == IF pc[Logger] = "wait" THEN "awake" ELSE pc[Logger]

\* Mutant: a dropped event is not counted.
PushUncounted(r) ==
    /\ pc[r] = "push"
    /\ buffer' = Append(IF Full THEN Tail(buffer) ELSE buffer, event[r])
    /\ pushed' = Append(pushed, event[r])
    /\ pc' = [pc EXCEPT ![r] = "index", ![Logger] = Notified]
    /\ UNCHANGED <<sessionVars, index, event, batch, leaving, adminVars, time,
                   written, dropped>>

\* The event joins the buffer, whose oldest event makes room for it.
Push(r) ==
    /\ pc[r] = "push"
    /\ buffer' = Append(IF Full THEN Tail(buffer) ELSE buffer, event[r])
    /\ dropped' = IF Full THEN dropped \cup {Head(buffer)} ELSE dropped
    /\ pushed' = Append(pushed, event[r])
    /\ pc' = [pc EXCEPT ![r] = "index", ![Logger] = Notified]
    /\ UNCHANGED <<sessionVars, index, event, batch, leaving, adminVars, time,
                   written>>

\* The last n elements of a sequence.
Latest(s, n) == IF Len(s) > n THEN SubSeq(s, Len(s) - n + 1, Len(s)) ELSE s

\* Mutant: the operation is put at the other end.
IndexFront(r) ==
    /\ pc[r] = "index"
    /\ index' = [p \in DOMAIN index |->
                    IF p = event[r].page
                    THEN Latest(<<event[r]>> \o index[p], PageLimit)
                    ELSE index[p]]
    /\ event' = [event EXCEPT ![r] = NoEvent]
    /\ \/ pc' = [pc EXCEPT ![r] = "idle"]
       \/ /\ r \in Reporters /\ event[r].page = NoPage
          /\ pc' = [pc EXCEPT ![r] = "flush"]
    /\ UNCHANGED <<sessionVars, buffer, batch, leaving, adminVars, time, logVars>>

\* UpdateMemoryIndex.  Only OnDirtyDataDetected has more to do.
Index(r) ==
    /\ pc[r] = "index"
    /\ index' = [p \in DOMAIN index |->
                    IF p = event[r].page
                    THEN Latest(Append(index[p], event[r]), PageLimit)
                    ELSE index[p]]
    /\ event' = [event EXCEPT ![r] = NoEvent]
    /\ \/ pc' = [pc EXCEPT ![r] = "idle"]
       \/ /\ r \in Reporters /\ event[r].page = NoPage
          /\ pc' = [pc EXCEPT ![r] = "flush"]
    /\ UNCHANGED <<sessionVars, buffer, batch, leaving, adminVars, time, logVars>>

\* OnDirtyDataDetected flushes even if its RecordEvent found telemetry disabled.
FlushOnly(r) ==
    /\ r \in Reporters
    /\ pc[r] = "idle" /\ ~IsEnabled
    /\ pc' = [pc EXCEPT ![r] = "flush"]
    /\ UNCHANGED <<sessionVars, buffer, index, event, batch, leaving, adminVars,
                   time, logVars>>

-----------------------------------------------------------------------------
(* FlushEvents, by the logging thread or in OnDirtyDataDetected *)

\* Mutant: the events are taken from the wrong end.
FlushReversed(a) ==
    /\ pc[a] = "flush"
    /\ batch' = [batch EXCEPT ![a] = Reverse(buffer)]
    /\ buffer' = <<>>
    /\ pc' = [pc EXCEPT ![a] = "write"]
    /\ UNCHANGED <<sessionVars, index, event, leaving, adminVars, time, logVars>>

\* The buffer is emptied into to_flush.
Flush(a) ==
    /\ pc[a] = "flush"
    /\ batch' = [batch EXCEPT ![a] = buffer]
    /\ buffer' = <<>>
    /\ pc' = [pc EXCEPT ![a] = "write"]
    /\ UNCHANGED <<sessionVars, index, event, leaving, adminVars, time, logVars>>

\* WriteEvent, outside the lock.
Write(a) ==
    /\ pc[a] = "write" /\ batch[a] # <<>>
    /\ written' = Append(written, Head(batch[a]))
    /\ batch' = [batch EXCEPT ![a] = Tail(@)]
    /\ UNCHANGED <<sessionVars, buffer, index, pc, event, leaving, adminVars,
                   time, pushed, dropped>>

Flushed(a) ==
    /\ pc[a] = "write" /\ batch[a] = <<>>
    /\ pc' = [pc EXCEPT ![a] = IF a # Logger THEN "idle"
                              ELSE IF leaving THEN "exited" ELSE "ready"]
    /\ UNCHANGED <<sessionVars, buffer, index, event, batch, leaving, adminVars,
                   time, logVars>>

-----------------------------------------------------------------------------
(* LoggingThread *)

\* Mutant: the thread returns once it sees shutdown_.
LoopReturns ==
    /\ pc[Logger] = "loop"
    /\ leaving' = shutdown
    /\ pc' = [pc EXCEPT ![Logger] = IF shutdown THEN "exited" ELSE "flush"]
    /\ UNCHANGED <<sessionVars, buffer, index, event, batch, adminVars, time,
                   logVars>>

\* while (!shutdown_): one more flush in any case, the last one if it is set.
Loop ==
    /\ pc[Logger] = "loop"
    /\ leaving' = shutdown
    /\ pc' = [pc EXCEPT ![Logger] = "flush"]
    /\ UNCHANGED <<sessionVars, buffer, index, event, batch, adminVars, time,
                   logVars>>

\* event_cv_.wait_for
Wait ==
    /\ pc[Logger] = "ready"
    /\ pc' = [pc EXCEPT ![Logger] = "wait"]
    /\ UNCHANGED <<sessionVars, buffer, index, event, batch, leaving, adminVars,
                   time, logVars>>

\* Mutant: wait instead of wait_for, which wakes up for nothing now and then.
TimeoutNever ==
    /\ pc[Logger] = "wait"
    /\ UNCHANGED vars

\* flush_interval_ms have passed.
Timeout ==
    /\ pc[Logger] = "wait"
    /\ pc' = [pc EXCEPT ![Logger] = "awake"]
    /\ UNCHANGED <<sessionVars, buffer, index, event, batch, leaving, adminVars,
                   time, logVars>>

\* Mutant: return instead of break.
AwakeReturns ==
    /\ pc[Logger] = "awake"
    /\ leaving' = shutdown
    /\ pc' = [pc EXCEPT ![Logger] = IF shutdown THEN "exited" ELSE "loop"]
    /\ UNCHANGED <<sessionVars, buffer, index, event, batch, adminVars, time,
                   logVars>>

\* If shutdown_ is set it breaks out of the loop, to the final flush.
Awake ==
    /\ pc[Logger] = "awake"
    /\ leaving' = shutdown
    /\ pc' = [pc EXCEPT ![Logger] = IF shutdown THEN "flush" ELSE "loop"]
    /\ UNCHANGED <<sessionVars, buffer, index, event, batch, adminVars, time,
                   logVars>>

-----------------------------------------------------------------------------
(* Shutdown, alone or as the beginning of Initialize *)

\* Initialize(c), or Shutdown if c is NoConfig.  Shutdown has nothing to stop
\* unless enabled_ is set.
Begin(c) ==
    /\ adminPc = "idle"
    /\ calls < MaxCalls
    /\ calls' = calls + 1
    /\ target' = c
    /\ adminPc' = IF enabled THEN "shutdown" ELSE "configure"
    /\ enabled' = FALSE
    /\ UNCHANGED <<shutdown, config, file, buffer, index, pc, event, batch,
                   leaving, time, logVars, due>>

SetShutdown ==
    /\ adminPc = "shutdown"
    /\ shutdown' = TRUE
    /\ due' = Len(pushed)
    /\ adminPc' = "notify"
    /\ UNCHANGED <<enabled, config, file, buffer, index, pc, event, batch,
                   leaving, target, calls, time, logVars>>

NotifyAll ==
    /\ adminPc = "notify"
    /\ pc' = [pc EXCEPT ![Logger] = Notified]
    /\ adminPc' = "join"
    /\ UNCHANGED <<sessionVars, buffer, index, event, batch, leaving, target,
                   calls, due, time, logVars>>

\* logging_thread_.join()
Join ==
    /\ adminPc = "join"
    /\ pc[Logger] = "exited"
    /\ pc' = [pc EXCEPT ![Logger] = "none"]
    /\ adminPc' = "close"
    /\ UNCHANGED <<sessionVars, buffer, index, event, batch, leaving, target,
                   calls, due, time, logVars>>

\* fclose, if there is a file
Close ==
    /\ adminPc = "close"
    /\ file' = IF file = "open" THEN "closed" ELSE file
    /\ adminPc' = "reset"
    /\ UNCHANGED <<enabled, shutdown, config, buffer, index, pc, event, batch,
                   leaving, target, calls, due, time, logVars>>

\* output_file_ = nullptr
Reset ==
    /\ adminPc = "reset"
    /\ file' = "none"
    /\ adminPc' = "configure"
    /\ UNCHANGED <<enabled, shutdown, config, buffer, index, pc, event, batch,
                   leaving, target, calls, due, time, logVars>>

-----------------------------------------------------------------------------
(* The rest of Initialize *)

\* Shutdown was called alone, and returns.
Return ==
    /\ adminPc = "configure"
    /\ target = NoConfig
    /\ adminPc' = "idle"
    /\ UNCHANGED <<sessionVars, buffer, index, pc, event, batch, leaving, target,
                   calls, due, time, logVars>>

\* config_ is written, with no lock.
Disable ==
    /\ adminPc = "configure"
    /\ target # NoConfig /\ ~target.enabled
    /\ config' = target
    /\ adminPc' = "idle"
    /\ UNCHANGED <<enabled, shutdown, file, buffer, index, pc, event, batch,
                   leaving, target, calls, due, time, logVars>>

\* There may be no log_path, or fopen fails: events go to stderr.
Open ==
    /\ adminPc = "configure"
    /\ target # NoConfig /\ target.enabled
    /\ config' = target
    /\ file' \in {"none", "open"}
    /\ adminPc' = "start"
    /\ UNCHANGED <<enabled, shutdown, buffer, index, pc, event, batch, leaving,
                   target, calls, due, time, logVars>>

\* The flags are set and the logging thread is created.
Start ==
    /\ adminPc = "start"
    /\ shutdown' = FALSE
    /\ enabled' = TRUE
    /\ pc' = [pc EXCEPT ![Logger] = "loop"]
    /\ leaving' = FALSE
    /\ adminPc' = "idle"
    /\ UNCHANGED <<config, file, buffer, index, event, batch, target, calls,
                   due, time, logVars>>

-----------------------------------------------------------------------------

Recorder(r) ==
    \/ \E p \in Pages : Stamp(r, p)
    \/ FlushOnly(r)
    \/ Push(r)
    \/ Index(r)

FlushEvents(a) == Flush(a) \/ Write(a) \/ Flushed(a)

LoggingThread == Loop \/ Wait \/ Timeout \/ Awake

\* What the administrator does once it has begun.
Administrator ==
    \/ SetShutdown \/ NotifyAll \/ Join \/ Close \/ Reset
    \/ Return \/ Disable \/ Open \/ Start

\* Nobody calls any more, and telemetry is stopped.
Finished ==
    /\ adminPc = "idle" /\ calls = MaxCalls
    /\ pc[Logger] = "none"
    /\ \A r \in Recorders : pc[r] = "idle"
    /\ UNCHANGED vars

Next ==
    \/ \E r \in Recorders : Recorder(r)
    \/ \E a \in Flushers : FlushEvents(a)
    \/ LoggingThread
    \/ \E c \in Configs \cup {NoConfig} : Begin(c)
    \/ Administrator
    \/ Finished

Spec == Init /\ [][Next]_vars

-----------------------------------------------------------------------------
(* Properties *)

\* Every event that joined the buffer is in one place: the buffer, the batch
\* of one thread, the log, or the events counted as dropped.  None is lost or
\* written twice, whoever flushes and however often sessions change.
EventsAccounted ==
    LET batches == UNION {ToSet(batch[a]) : a \in Flushers}
    IN  /\ ToSet(pushed) = ToSet(buffer) \cup ToSet(written) \cup dropped \cup batches
        /\ ToSet(buffer) \cap (ToSet(written) \cup dropped \cup batches) = {}
        /\ ToSet(written) \cap (dropped \cup batches) = {}
        /\ dropped \cap batches = {}
        /\ \A a, b \in Flushers :
              a # b => ToSet(batch[a]) \cap ToSet(batch[b]) = {}
        /\ IsInjective(buffer) /\ IsInjective(written)
        /\ \A a \in Flushers : IsInjective(batch[a])

\* Shutdown "flushes remaining events": when it has joined the logging thread,
\* the events that were in the buffer when it set shutdown_ have been
\* written, or dropped for want of room, but for those that a call of
\* OnDirtyDataDetected is writing.
RemainingEventsFlushed ==
    adminPc \in {"close", "reset"} =>
        \A i \in 1..due :
            \/ pushed[i] \in ToSet(written) \cup dropped
            \/ \E r \in Reporters : pushed[i] \in ToSet(batch[r])

\* While telemetry is stopped nothing is left in the buffer: "passing
\* enabled=False disables telemetry and flushes pending events".
NothingLeftBehind == adminPc = "idle" /\ ~enabled => buffer = <<>>

\* BacktraceByAddress: the last n operations kept for page p, from the end.
Backtrace(p, n) == Reverse(Latest(index[p], n))

\* It "returns operations in reverse chronological order" as far as one thread
\* goes.  Two threads may index their events in another order than they
\* stamped them, and the result is not sorted.
OwnOperationsInOrder ==
    \A p \in DOMAIN index, n \in 1..PageLimit :
        LET b == Backtrace(p, n)
        IN  \A i, j \in 1..Len(b) :
                i < j /\ b[i].by = b[j].by => b[i].time > b[j].time

\* The logging thread, a flush and a call of Initialize or Shutdown go on once
\* they have begun.  Nobody need record an event, or finish recording it.
Fairness ==
    /\ WF_vars(LoggingThread)
    /\ \A a \in Flushers : WF_vars(FlushEvents(a))
    /\ WF_vars(Administrator)

FairSpec == Spec /\ Fairness

\* Shutdown and Initialize return: the logging thread always ends, although
\* the notification may come when it does not wait.
CallsReturn == adminPc # "idle" ~> adminPc = "idle"

\* An event that is in the buffer while telemetry is enabled is written in
\* the end, or dropped, even if it is being stopped meanwhile.
EventsLogged ==
    \A e \in Events :
        e \in ToSet(buffer) /\ enabled ~> e \in ToSet(written) \cup dropped

Promise == INSTANCE EventLog WITH
    queue <- batch[Logger] \o buffer, log <- written, lost <- dropped

\* With one flusher, the logging thread, every step is one of EventLog or
\* leaves it unchanged: events are written in the order they joined the buffer,
\* across sessions too.
KeepsPromise == Promise!Spec

=============================================================================
