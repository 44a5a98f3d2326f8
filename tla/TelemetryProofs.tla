-------------------------- MODULE TelemetryProofs --------------------------
(***************************************************************************)
(* Theorems about Telemetry, for any number of threads, pages, buffer      *)
(* sizes, events and calls.                                                *)
(***************************************************************************)
EXTENDS Telemetry, SequenceTheorems, TLAPS

USE TelemetryAssumption DEF sessionVars, adminVars, logVars

-----------------------------------------------------------------------------
(* The elements of a sequence *)

LEMMA SetOfEmpty == ToSet(<<>>) = {}
BY DEF ToSet

LEMMA SetOfAppend ==
    ASSUME NEW S, NEW s \in Seq(S), NEW e \in S
    PROVE  ToSet(Append(s, e)) = ToSet(s) \cup {e}
<1>1. /\ Len(Append(s, e)) = Len(s) + 1 /\ Len(s) \in Nat
      /\ \A i \in 1..Len(s) : Append(s, e)[i] = s[i]
      /\ Append(s, e)[Len(s) + 1] = e
      /\ DOMAIN Append(s, e) = 1..(Len(s) + 1) /\ DOMAIN s = 1..Len(s)
  OBVIOUS
<1>2. \A i : i \in 1..(Len(s) + 1) <=> i \in 1..Len(s) \/ i = Len(s) + 1
  BY <1>1
<1> QED
  BY <1>1, <1>2 DEF ToSet

LEMMA SetOfTail ==
    ASSUME NEW S, NEW s \in Seq(S), s # <<>>
    PROVE  ToSet(s) = ToSet(Tail(s)) \cup {Head(s)}
<1>1. /\ Len(Tail(s)) = Len(s) - 1 /\ Len(s) \in Nat \ {0} /\ Head(s) = s[1]
      /\ \A i \in 1..Len(s) - 1 : Tail(s)[i] = s[i + 1]
      /\ DOMAIN Tail(s) = 1..Len(s) - 1 /\ DOMAIN s = 1..Len(s)
  OBVIOUS
<1>2. \A i \in 1..Len(s) : i = 1 \/ (i - 1 \in 1..Len(s) - 1 /\ Tail(s)[i - 1] = s[i])
  BY <1>1
<1>3. \A i \in 1..Len(s) - 1 : i + 1 \in 1..Len(s) /\ s[i + 1] = Tail(s)[i]
  BY <1>1
<1>4. 1 \in 1..Len(s)
  BY <1>1
<1>5. \A x : x \in ToSet(s) <=> \E i \in 1..Len(s) : x = s[i]
  BY <1>1 DEF ToSet
<1>6. \A x : x \in ToSet(Tail(s)) <=> \E i \in 1..Len(s) - 1 : x = Tail(s)[i]
  BY <1>1 DEF ToSet
<1>7. ASSUME NEW x \in ToSet(s) PROVE x \in ToSet(Tail(s)) \cup {Head(s)}
  <2>1. PICK i \in 1..Len(s) : x = s[i]
    BY <1>5
  <2>2. CASE i = 1
    BY <1>1, <2>1, <2>2
  <2>3. CASE i - 1 \in 1..Len(s) - 1 /\ Tail(s)[i - 1] = s[i]
    BY <1>6, <2>1, <2>3
  <2> QED
    BY <1>2, <2>2, <2>3
<1>8. ASSUME NEW x \in ToSet(Tail(s)) \cup {Head(s)} PROVE x \in ToSet(s)
  BY <1>1, <1>3, <1>4, <1>5, <1>6
<1> QED
  BY <1>7, <1>8

-----------------------------------------------------------------------------
(* Types *)

Places == {"idle", "push", "index", "flush", "write",
           "none", "loop", "exited", "ready", "wait", "awake"}

AdminPlaces == {"idle", "shutdown", "notify", "join", "close", "reset",
                "configure", "start"}

Types ==
    /\ enabled \in BOOLEAN /\ shutdown \in BOOLEAN /\ leaving \in BOOLEAN
    /\ config \in Configs
    /\ buffer \in Seq(Events)
    /\ index \in [Pages \ {NoPage} -> Seq(Events)]
    /\ pc \in [Flushers -> Places]
    /\ event \in [Recorders -> Events \cup {NoEvent}]
    /\ batch \in [Flushers -> Seq(Events)]
    /\ adminPc \in AdminPlaces
    /\ target \in Configs \cup {NoConfig}
    /\ time \in 0..MaxTime
    /\ pushed \in Seq(Events) /\ written \in Seq(Events)
    /\ dropped \subseteq Events
    /\ due \in Nat

\* A recorder has a stamped event exactly while it records it; a thread has a
\* batch only while it writes.
ControlInv ==
    /\ pc[Logger] \in {"none", "loop", "flush", "write", "exited", "ready", "wait", "awake"}
    /\ \A r \in Recorders :
          /\ pc[r] \in {"idle", "push", "index", "flush", "write"}
          /\ pc[r] \in {"push", "index"} => event[r] \in Events /\ event[r].by = r
          /\ pc[r] \in {"flush", "write"} => r \in Reporters
    /\ \A a \in Flushers : pc[a] # "write" => batch[a] = <<>>

\* Where the administrator is, there is a logging thread or there is none; it
\* leaves its loop only once shutdown_ has been set in its session.
SessionInv ==
    /\ enabled => adminPc = "idle"
    /\ adminPc = "idle" /\ ~enabled => pc[Logger] = "none"
    /\ adminPc \in {"close", "reset", "configure", "start"} => pc[Logger] = "none"
    /\ enabled \/ adminPc = "shutdown" => ~shutdown /\ ~leaving
    /\ adminPc \in {"close", "reset"} => leaving
    /\ pc[Logger] = "exited" => leaving

LEMMA SessionInit == Init => SessionInv
BY DEF Init, SessionInv, Flushers

LEMMA TypesInit == Init => Types /\ ControlInv
<1> SUFFICES ASSUME Init PROVE Types /\ ControlInv
    OBVIOUS
<1>1. /\ pc \in [Flushers -> Places]
      /\ pc[Logger] = "none" /\ \A r \in Recorders : pc[r] = "idle"
  BY DEF Init, Places, Flushers
<1>2. config \in Configs /\ due \in Nat /\ time \in 0..MaxTime /\ adminPc \in AdminPlaces
  BY DEF Init, AdminPlaces
<1>3. /\ buffer \in Seq(Events) /\ pushed \in Seq(Events) /\ written \in Seq(Events)
      /\ batch \in [Flushers -> Seq(Events)] /\ \A a \in Flushers : batch[a] = <<>>
      /\ index \in [Pages \ {NoPage} -> Seq(Events)]
  BY DEF Init
<1>4. event \in [Recorders -> Events \cup {NoEvent}]
  BY DEF Init
<1> QED
  BY <1>1, <1>2, <1>3, <1>4 DEF Init, Types, ControlInv

LEMMA LatestKept ==
    ASSUME NEW S, NEW s \in Seq(S), NEW n \in Nat
    PROVE  Latest(s, n) \in Seq(S)
BY DEF Latest

LEMMA TypesStep ==
    ASSUME Types, ControlInv, SessionInv, [Next]_vars
    PROVE  Types' /\ ControlInv'
<1> USE DEF Types, ControlInv
<1>0. Logger \in Flushers /\ Recorders \subseteq Flushers
  BY DEF Flushers
<1>1. ASSUME NEW r \in Recorders, NEW p \in Pages, Stamp(r, p)
      PROVE  Types' /\ ControlInv'
  <2>1. time' \in 1..MaxTime /\ time' \in 0..MaxTime
    BY <1>1 DEF Stamp
  <2>2. [time |-> time', page |-> p, by |-> r] \in Events
    BY <2>1 DEF Events
  <2>3. [time |-> time', page |-> p, by |-> r].by = r
    OBVIOUS
  <2> QED
    BY <1>0, <1>1, <2>1, <2>2, <2>3 DEF Stamp, Places
<1>2. ASSUME NEW r \in Recorders, Push(r)
      PROVE  Types' /\ ControlInv'
  <2>1. Full => buffer # <<>>
    <3>1. config.size \in Nat \ {0}
      BY DEF Configs
    <3> QED
      BY <3>1 DEF Full
  <2>2. /\ event[r] \in Events /\ r \in Flushers
        /\ Notified \in Places /\ (Notified = pc[Logger] \/ Notified = "awake")
    BY <1>0, <1>2 DEF Push, Notified, Places
  <2>3. /\ buffer' \in Seq(Events) /\ dropped' \subseteq Events
        /\ pushed' \in Seq(Events)
    BY <1>2, <2>1, <2>2 DEF Push
  <2>4. pc' = [pc EXCEPT ![r] = "index", ![Logger] = Notified] /\ pc' \in [Flushers -> Places]
    BY <1>0, <1>2, <2>2 DEF Push, Places
  <2>5. pc[Logger] = "write" => Notified = "write"
    BY DEF Notified
  <2>6. UNCHANGED <<sessionVars, index, event, batch, leaving, adminVars, time, written>>
    BY <1>2 DEF Push
  <2>7. Types'
    BY <2>3, <2>4, <2>6
  <2>8. \A q \in Recorders : pc'[q] = IF q = r THEN "index" ELSE pc[q]
    BY <1>0, <2>4
  <2>9. pc'[Logger] = Notified /\ pc[r] = "push"
    BY <1>0, <1>2, <2>4 DEF Push
  <2>10. \A a \in Flushers : pc'[a] # "write" => pc[a] # "write"
    BY <1>0, <2>2, <2>4, <2>5, <2>9
  <2>11. ControlInv'
    BY <2>2, <2>6, <2>8, <2>9, <2>10
  <2> QED
    BY <2>7, <2>11
<1>3. ASSUME NEW r \in Recorders, Index(r)
      PROVE  Types' /\ ControlInv'
  <2>1. event[r] \in Events
    BY <1>3 DEF Index
  <2>2. ASSUME NEW p \in Pages \ {NoPage}
        PROVE  Latest(Append(index[p], event[r]), PageLimit) \in Seq(Events)
    <3>1. Append(index[p], event[r]) \in Seq(Events)
      BY <2>1
    <3> QED
      BY <3>1, LatestKept
  <2>3. index' \in [Pages \ {NoPage} -> Seq(Events)]
    BY <1>3, <2>2 DEF Index
  <2>4. PICK q \in {"idle", "flush"} :
            pc' = [pc EXCEPT ![r] = q] /\ (q = "flush" => r \in Reporters)
    BY <1>3 DEF Index
  <2> QED
    BY <1>0, <1>3, <2>3, <2>4 DEF Index, Places
<1>4. ASSUME NEW r \in Recorders, FlushOnly(r)
      PROVE  Types' /\ ControlInv'
  BY <1>0, <1>4 DEF FlushOnly, Places
<1>5. ASSUME NEW a \in Flushers, Flush(a)
      PROVE  Types' /\ ControlInv'
  BY <1>0, <1>5 DEF Flush, Places
<1>6. ASSUME NEW a \in Flushers, Write(a)
      PROVE  Types' /\ ControlInv'
  BY <1>0, <1>6 DEF Write
<1>7. ASSUME NEW a \in Flushers, Flushed(a)
      PROVE  Types' /\ ControlInv'
  BY <1>0, <1>7 DEF Flushed, Places, Flushers
<1>8. ASSUME LoggingThread
      PROVE  Types' /\ ControlInv'
  <2>1. PICK q \in {"flush", "wait", "awake", "loop"} :
            /\ pc' = [pc EXCEPT ![Logger] = q] /\ pc[Logger] # "write"
            /\ leaving' \in BOOLEAN
    BY <1>8 DEF LoggingThread, Loop, Wait, Timeout, Awake
  <2>2. UNCHANGED <<sessionVars, buffer, index, event, batch, adminVars, time, logVars>>
    BY <1>8 DEF LoggingThread, Loop, Wait, Timeout, Awake
  <2>3. pc' \in [Flushers -> Places]
    BY <2>1 DEF Places
  <2> QED
    BY <1>0, <2>1, <2>2, <2>3
<1>9. ASSUME NEW c \in Configs \cup {NoConfig}, Begin(c)
      PROVE  Types' /\ ControlInv'
  BY <1>9 DEF Begin, AdminPlaces
<1>10. ASSUME SetShutdown
       PROVE  Types' /\ ControlInv'
  <2>1. Len(pushed) \in Nat
    OBVIOUS
  <2> QED
    BY <1>10, <2>1 DEF SetShutdown, AdminPlaces
<1>11. ASSUME Close \/ Reset \/ Return \/ Disable \/ Open
       PROVE  Types' /\ ControlInv'
  BY <1>11 DEF Close, Reset, Return, Disable, Open, AdminPlaces
<1>12. ASSUME NotifyAll \/ Join \/ Start
       PROVE  Types' /\ ControlInv'
  <2>1. PICK q \in {"none", "loop", "awake", pc[Logger]} :
            /\ pc' = [pc EXCEPT ![Logger] = q]
            /\ pc[Logger] = "write" => q = "write"
    BY <1>12 DEF NotifyAll, Join, Start, Notified, SessionInv
  <2>2. q \in Places /\ adminPc' \in AdminPlaces /\ leaving' \in BOOLEAN
    BY <1>0, <1>12 DEF NotifyAll, Join, Start, Places, AdminPlaces
  <2>3. UNCHANGED <<config, buffer, index, event, batch, target, time, logVars, due>>
    BY <1>12 DEF NotifyAll, Join, Start
  <2>4. enabled' \in BOOLEAN /\ shutdown' \in BOOLEAN
    BY <1>12 DEF NotifyAll, Join, Start
  <2> QED
    BY <1>0, <2>1, <2>2, <2>3, <2>4
<1>13. ASSUME UNCHANGED vars
       PROVE  Types' /\ ControlInv'
  BY <1>13 DEF vars
<1> QED
  BY <1>1, <1>2, <1>3, <1>4, <1>5, <1>6, <1>7, <1>8, <1>9, <1>10, <1>11, <1>12, <1>13
     DEF Next, Recorder, FlushEvents, Administrator, Finished

LEMMA SessionStep ==
    ASSUME Types, ControlInv, SessionInv, [Next]_vars
    PROVE  SessionInv'
<1> USE DEF SessionInv
<1>0. Logger \in Flushers /\ Recorders \subseteq Flushers
  BY DEF Flushers
<1>1. ASSUME NEW r \in Recorders, Recorder(r)
      PROVE  SessionInv'
  <2>1. pc' \in [Flushers -> Places] /\ UNCHANGED <<enabled, shutdown, leaving, adminPc>>
    BY <1>1, TypesStep DEF Recorder, Stamp, FlushOnly, Push, Index, Types
  <2>2. pc'[Logger] = pc[Logger] \/ (pc'[Logger] = "awake" /\ pc[Logger] = "wait")
    BY <1>0, <1>1 DEF Recorder, Stamp, FlushOnly, Push, Index, Notified, Types
  <2> QED
    BY <2>1, <2>2
<1>2. ASSUME NEW a \in Flushers, FlushEvents(a)
      PROVE  SessionInv'
  BY <1>0, <1>2 DEF FlushEvents, Flush, Write, Flushed, Types
<1>3. ASSUME LoggingThread
      PROVE  SessionInv'
  BY <1>0, <1>3 DEF LoggingThread, Loop, Wait, Timeout, Awake, Types
<1>4. ASSUME NEW c \in Configs \cup {NoConfig}, Begin(c)
      PROVE  SessionInv'
  BY <1>4 DEF Begin
<1>5. ASSUME Administrator
      PROVE  SessionInv'
  BY <1>0, <1>5 DEF Administrator, SetShutdown, NotifyAll, Join, Close, Reset, Return,
                    Disable, Open, Start, Notified, Types
<1>6. ASSUME UNCHANGED vars
      PROVE  SessionInv'
  BY <1>6 DEF vars
<1> QED
  BY <1>1, <1>2, <1>3, <1>4, <1>5, <1>6 DEF Next, Finished

-----------------------------------------------------------------------------
(* Shutdown "flushes remaining events" *)

\* An event that has left the buffer.
Gone(e) ==
    \/ e \in ToSet(written)
    \/ e \in dropped
    \/ \E a \in Flushers : e \in ToSet(batch[a])

\* No event that joined the buffer is lost, and those that joined it before
\* shutdown_ was set have left it once the logging thread has taken its last
\* batch.
FlushInv ==
    /\ \A i \in 1..Len(pushed) : pushed[i] \in ToSet(buffer) \/ Gone(pushed[i])
    /\ due <= Len(pushed)
    /\ /\ adminPc \in {"notify", "join", "close", "reset"}
       /\ leaving /\ pc[Logger] \in {"write", "exited", "none"}
       => \A i \in 1..due : Gone(pushed[i])

LEMMA FlushInit == Init => FlushInv
BY DEF Init, FlushInv

LEMMA GoneKept ==
    ASSUME Types, ControlInv, SessionInv, [Next]_vars, NEW e \in Events, Gone(e)
    PROVE  Gone(e)'
<1> USE DEF Types, Gone
<1>1. ASSUME UNCHANGED <<written, batch>>, dropped \subseteq dropped' PROVE Gone(e)'
  BY <1>1
<1>2. ASSUME NEW a \in Flushers, Flush(a) PROVE Gone(e)'
  <2>1. ToSet(batch[a]) = {}
    BY <1>2, SetOfEmpty DEF Flush, ControlInv
  <2> QED
    BY <1>2, <2>1 DEF Flush
<1>3. ASSUME NEW a \in Flushers, Write(a) PROVE Gone(e)'
  <2>1. /\ batch[a] \in Seq(Events) /\ batch[a] # <<>> /\ Head(batch[a]) \in Events
        /\ written' = Append(written, Head(batch[a]))
        /\ batch' = [batch EXCEPT ![a] = Tail(@)]
        /\ dropped' = dropped
    BY <1>3 DEF Write
  <2>2. ToSet(batch[a]) = ToSet(Tail(batch[a])) \cup {Head(batch[a])}
    BY <2>1, SetOfTail
  <2>3. ToSet(written') = ToSet(written) \cup {Head(batch[a])}
    BY <2>1, SetOfAppend
  <2> QED
    BY <2>1, <2>2, <2>3
<1> QED
  BY <1>1, <1>2, <1>3
     DEF Next, Recorder, Stamp, FlushOnly, Push, Index, FlushEvents, Flushed, LoggingThread,
         Loop, Wait, Timeout, Awake, Begin, Administrator, SetShutdown, NotifyAll, Join,
         Close, Reset, Return, Disable, Open, Start, Finished, vars

LEMMA FlushStep ==
    ASSUME Types, ControlInv, SessionInv, FlushInv, Types', SessionInv', [Next]_vars
    PROVE  FlushInv'
<1> USE DEF FlushInv, Types
<1>0. Logger \in Flushers /\ Recorders \subseteq Flushers
  BY DEF Flushers
<1>g. \A e \in Events : Gone(e) => Gone(e)'
  BY GoneKept
\* Steps that take nothing out of the buffer and set nothing due.
<1>1. ASSUME UNCHANGED <<pushed, buffer, due>>,
             /\ adminPc' \in {"notify", "join", "close", "reset"}
             /\ leaving' /\ pc'[Logger] \in {"write", "exited", "none"}
             => /\ adminPc \in {"notify", "join", "close", "reset"}
                /\ leaving /\ pc[Logger] \in {"write", "exited", "none"}
      PROVE  FlushInv'
  <2>1. \A i \in 1..Len(pushed) : pushed'[i] = pushed[i] /\ pushed[i] \in Events
    BY <1>1
  <2>2. \A i \in 1..due : i \in 1..Len(pushed)
    OBVIOUS
  <2>3. \A i \in 1..Len(pushed) : Gone(pushed[i]) => Gone(pushed[i])'
    BY <1>g, <2>1 DEF Gone
  <2> QED
    BY <1>1, <2>1, <2>2, <2>3
<1>2. ASSUME NEW r \in Recorders, Push(r)
      PROVE  FlushInv'
  <2>1. /\ buffer' = Append(IF Full THEN Tail(buffer) ELSE buffer, event[r])
        /\ dropped' = IF Full THEN dropped \cup {Head(buffer)} ELSE dropped
        /\ pushed' = Append(pushed, event[r])
        /\ pc' = [pc EXCEPT ![r] = "index", ![Logger] = Notified]
        /\ event[r] \in Events
        /\ UNCHANGED <<leaving, adminPc, due>>
    BY <1>2 DEF Push, ControlInv
  <2>2. /\ Len(pushed') = Len(pushed) + 1 /\ pushed'[Len(pushed) + 1] = event[r]
        /\ \A i \in 1..Len(pushed) : pushed'[i] = pushed[i] /\ pushed[i] \in Events
    BY <2>1
  <2>3. Full => buffer # <<>>
    <3>1. config.size \in Nat \ {0}
      BY DEF Configs
    <3> QED
      BY <3>1 DEF Full
  <2>4. event[r] \in ToSet(buffer') /\ \A e \in ToSet(buffer) : e \in ToSet(buffer') \/ e \in dropped'
    <3>1. CASE Full
      <4>1. Tail(buffer) \in Seq(Events) /\ ToSet(buffer) = ToSet(Tail(buffer)) \cup {Head(buffer)}
        BY <2>3, <3>1, SetOfTail
      <4>2. buffer' = Append(Tail(buffer), event[r])
        BY <2>1, <3>1
      <4>3. ToSet(Append(Tail(buffer), event[r])) = ToSet(Tail(buffer)) \cup {event[r]}
        <5> DEFINE t == Tail(buffer)
        <5>1. t \in Seq(Events) /\ event[r] \in Events
          BY <2>1, <4>1
        <5> HIDE DEF t
        <5>2. ToSet(Append(t, event[r])) = ToSet(t) \cup {event[r]}
          BY <5>1, SetOfAppend
        <5> QED
          BY <5>2 DEF t
      <4> QED
        BY <2>1, <3>1, <4>1, <4>2, <4>3
    <3>2. CASE ~Full
      BY <2>1, <3>2, SetOfAppend
    <3> QED
      BY <3>1, <3>2
  <2>5. \A i \in 1..Len(pushed) : Gone(pushed[i]) => Gone(pushed[i])'
    BY <1>g, <2>2 DEF Gone
  <2>6. \A i \in 1..Len(pushed') : i \in 1..Len(pushed) \/ i = Len(pushed) + 1
    BY <2>2
  <2>7. \A i \in 1..Len(pushed') : pushed'[i] \in ToSet(buffer') \/ Gone(pushed[i])'
    BY <2>2, <2>4, <2>5, <2>6 DEF Gone
  <2>8. pc[Logger] \in {"write", "exited", "none"} <=> pc'[Logger] \in {"write", "exited", "none"}
    BY <1>0, <2>1 DEF Notified
  <2>9. due \in Nat /\ \A i \in 1..due : i \in 1..Len(pushed)
    OBVIOUS
  <2>10. due' <= Len(pushed')
    BY <2>1, <2>2
  <2>11. \A i \in 1..due : Gone(pushed[i]) => Gone(pushed[i])'
    BY <2>5, <2>9
  <2>12. due' = due /\ UNCHANGED <<leaving, adminPc>>
    BY <2>1
  <2> QED
    BY <2>7, <2>8, <2>10, <2>11, <2>12
<1>3. ASSUME NEW a \in Flushers, Flush(a)
      PROVE  FlushInv'
  <2>1. /\ batch'[a] = buffer /\ buffer' = <<>>
        /\ pc' = [pc EXCEPT ![a] = "write"]
        /\ UNCHANGED <<pushed, due, adminPc, leaving>>
    BY <1>3 DEF Flush
  <2>2. \A i \in 1..Len(pushed) : Gone(pushed[i]) => Gone(pushed[i])'
    BY <1>g, <2>1 DEF Gone
  <2>3. \A i \in 1..Len(pushed) : Gone(pushed[i])'
    BY <2>1, <2>2 DEF Gone
  <2>4. due' \in Nat /\ \A i \in 1..due' : i \in 1..Len(pushed)
    BY <2>1
  <2> QED
    BY <2>1, <2>3, <2>4
<1>4. ASSUME SetShutdown
      PROVE  FlushInv'
  <2>1. /\ due' = Len(pushed) /\ ~leaving' /\ Len(pushed) \in Nat
        /\ UNCHANGED <<pushed, buffer>>
    BY <1>4 DEF SetShutdown, SessionInv
  <2>2. \A i \in 1..Len(pushed) : Gone(pushed[i]) => Gone(pushed[i])'
    BY <1>g, <2>1 DEF Gone
  <2> QED
    BY <2>1, <2>2
<1>5. ASSUME NEW a \in Flushers, Write(a) \/ Flushed(a)
      PROVE  FlushInv'
  BY <1>0, <1>1, <1>5 DEF Write, Flushed
<1>6. ASSUME NEW r \in Recorders,
             FlushOnly(r) \/ Index(r) \/ \E p \in Pages : Stamp(r, p)
      PROVE  FlushInv'
  <2>1. UNCHANGED <<pushed, buffer, due, adminPc, leaving>>
    BY <1>6 DEF FlushOnly, Index, Stamp
  <2>2. pc'[Logger] = pc[Logger]
    BY <1>0, <1>6 DEF FlushOnly, Index, Stamp
  <2> QED
    BY <1>1, <2>1, <2>2
<1>7. CASE LoggingThread
  <2>1. UNCHANGED <<pushed, buffer, due>>
    BY <1>7 DEF LoggingThread, Loop, Wait, Timeout, Awake
  <2>2. pc'[Logger] \notin {"write", "exited", "none"}
    BY <1>0, <1>7 DEF LoggingThread, Loop, Wait, Timeout, Awake
  <2> QED
    BY <1>1, <2>1, <2>2
<1>8. CASE Administrator
  <2>1. CASE SetShutdown
    BY <1>4, <2>1
  <2>2. CASE NotifyAll \/ Join
    BY <1>0, <1>1, <2>2 DEF NotifyAll, Join, Notified, SessionInv
  <2>3. CASE Close \/ Reset
    BY <1>1, <2>3 DEF Close, Reset
  <2>4. CASE Return \/ Disable \/ Open \/ Start
    BY <1>1, <2>4 DEF Return, Disable, Open, Start
  <2> QED
    BY <1>8, <2>1, <2>2, <2>3, <2>4 DEF Administrator
<1>9. ASSUME NEW c \in Configs \cup {NoConfig}, Begin(c) PROVE FlushInv'
  BY <1>1, <1>9 DEF Begin
<1>10. CASE UNCHANGED vars
  BY <1>1, <1>10 DEF vars
<1> QED
  BY <1>2, <1>3, <1>5, <1>6, <1>7, <1>8, <1>9, <1>10
     DEF Next, Recorder, FlushEvents, Finished

Inv == Types /\ ControlInv /\ SessionInv /\ FlushInv

LEMMA Inductive == Spec => []Inv
<1>1. Init => Inv
  BY TypesInit, SessionInit, FlushInit DEF Inv
<1>2. Inv /\ [Next]_vars => Inv'
  BY TypesStep, SessionStep, FlushStep DEF Inv
<1> QED
  BY <1>1, <1>2, PTL DEF Spec

\* Shutdown "flushes remaining events": when it has joined the logging thread,
\* the events that were in the buffer when it set shutdown_ have been written,
\* or dropped for want of room, or a call of OnDirtyDataDetected is writing them.
THEOREM ShutdownFlushes == Spec => []RemainingEventsFlushed
<1>1. Inv => RemainingEventsFlushed
  <2> SUFFICES ASSUME Inv, adminPc \in {"close", "reset"}, NEW i \in 1..due
               PROVE  \/ pushed[i] \in ToSet(written) \cup dropped
                      \/ \E r \in Reporters : pushed[i] \in ToSet(batch[r])
    BY DEF RemainingEventsFlushed
  <2>1. Gone(pushed[i])
    BY DEF Inv, SessionInv, FlushInv
  <2>2. \A a \in Flushers : a \in Reporters \/ ToSet(batch[a]) = {}
    BY SetOfEmpty DEF Inv, ControlInv, SessionInv, Flushers
  <2> QED
    BY <2>1, <2>2 DEF Gone
<1> QED
  BY <1>1, Inductive, PTL

-----------------------------------------------------------------------------
(* Backtraces *)

\* The event that a recorder is about to index is later than those of its that
\* are in memory_index_.
OrderInv ==
    /\ \A r \in Recorders : pc[r] \in {"push", "index"} => event[r].time <= time
    /\ \A p \in DOMAIN index : \A i \in 1..Len(index[p]) :
          /\ index[p][i].time <= time
          /\ \A r \in Recorders :
                pc[r] \in {"push", "index"} /\ index[p][i].by = r
                => index[p][i].time < event[r].time
    /\ \A p \in DOMAIN index : \A i, j \in 1..Len(index[p]) :
          i < j /\ index[p][i].by = index[p][j].by
          => index[p][i].time < index[p][j].time

LEMMA LatestElements ==
    ASSUME NEW S, NEW s \in Seq(S), NEW n \in Nat
    PROVE  /\ Latest(s, n) \in Seq(S)
           /\ \E k \in 0..Len(s) :
                 /\ Len(Latest(s, n)) = Len(s) - k
                 /\ \A i \in 1..Len(Latest(s, n)) :
                       i + k \in 1..Len(s) /\ Latest(s, n)[i] = s[i + k]
<1>1. CASE Len(s) > n
  <2> DEFINE k == Len(s) - n
  <2>1. k \in 0..Len(s) /\ Latest(s, n) = SubSeq(s, k + 1, Len(s)) /\ Len(s) \in Nat
    BY <1>1 DEF Latest
  <2>2. /\ Len(SubSeq(s, k + 1, Len(s))) = Len(s) - k
        /\ \A i \in 1..Len(s) - k :
              i + k \in 1..Len(s) /\ SubSeq(s, k + 1, Len(s))[i] = s[i + k]
    BY <2>1
  <2> QED
    BY <2>1, <2>2, LatestKept
<1>2. CASE ~(Len(s) > n)
  <2>1. Latest(s, n) = s /\ 0 \in 0..Len(s)
    BY <1>2 DEF Latest
  <2>2. \A i \in 1..Len(s) : i + 0 \in 1..Len(s) /\ s[i] = s[i + 0]
    OBVIOUS
  <2> QED
    BY <2>1, <2>2
<1> QED
  BY <1>1, <1>2

LEMMA OrderInit == Init => OrderInv
BY DEF Init, OrderInv, Flushers

LEMMA OrderStep ==
    ASSUME Types, ControlInv, OrderInv, [Next]_vars
    PROVE  OrderInv'
<1> USE DEF Types, OrderInv
<1>0. Logger \in Flushers /\ Recorders \subseteq Flushers /\ Logger \notin Recorders
  BY DEF Flushers
\* Steps that stamp nothing and index nothing.
<1>1. ASSUME UNCHANGED <<index, event, time>>,
             \A r \in Recorders : pc'[r] \in {"push", "index"} => pc[r] \in {"push", "index"}
      PROVE  OrderInv'
  <2>1. \A r \in Recorders : pc'[r] \in {"push", "index"} =>
            pc[r] \in {"push", "index"} /\ event'[r] = event[r]
    BY <1>1
  <2>2. time' = time /\ index' = index
    BY <1>1
  <2> HIDE DEF Types
  <2> QED
    BY <2>1, <2>2
<1>2. ASSUME NEW r \in Recorders, NEW p \in Pages, Stamp(r, p)
      PROVE  OrderInv'
  <2> DEFINE e == [time |-> time + 1, page |-> p, by |-> r]
  <2>1. e.time = time + 1 /\ time \in Int
    OBVIOUS
  <2>2. /\ pc' = [pc EXCEPT ![r] = "push"] /\ event' = [event EXCEPT ![r] = e]
        /\ time' = time + 1 /\ index' = index
    BY <1>2 DEF Stamp
  <2> HIDE DEF e
  <2>3. ASSUME NEW q \in DOMAIN index, NEW i \in 1..Len(index[q])
        PROVE  index[q][i].time \in Int
    <3>1. index[q][i] \in Events
      OBVIOUS
    <3> QED
      BY <3>1 DEF Events
  <2>4. \A s \in Recorders : pc[s] \in {"push", "index"} => event[s].time \in Int
    BY DEF Events, ControlInv
  <2>5. ASSUME NEW s \in Recorders, pc'[s] \in {"push", "index"}
        PROVE  /\ event'[s].time <= time'
               /\ s = r => event'[s].time = time + 1
               /\ s # r => event'[s] = event[s] /\ pc[s] \in {"push", "index"}
    <3>1. CASE s = r
      BY <2>1, <2>2, <3>1
    <3>2. CASE s # r
      BY <1>0, <2>1, <2>2, <2>4, <2>5, <3>2
    <3> QED
      BY <3>1, <3>2
  <2>6. ASSUME NEW q \in DOMAIN index, NEW i \in 1..Len(index[q])
        PROVE  /\ index[q][i].time <= time'
               /\ \A s \in Recorders :
                     pc'[s] \in {"push", "index"} /\ index[q][i].by = s
                     => index[q][i].time < event'[s].time
    BY <2>1, <2>2, <2>3, <2>5
  <2> QED
    BY <2>2, <2>5, <2>6
<1>3. ASSUME NEW r \in Recorders, Index(r)
      PROVE  OrderInv'
  <2>1. /\ event[r] \in Events /\ event[r].by = r /\ event[r].time <= time
        /\ pc[r] = "index"
    BY <1>3 DEF Index, ControlInv
  <2>2. /\ \A q \in Recorders : pc'[q] \in {"push", "index"} =>
              q # r /\ pc[q] \in {"push", "index"} /\ event'[q] = event[q]
        /\ time' = time
    BY <1>0, <1>3 DEF Index
  <2>3. /\ DOMAIN index' = DOMAIN index /\ DOMAIN index = Pages \ {NoPage}
        /\ \A p \in DOMAIN index : index'[p] = index[p]
              \/ index'[p] = Latest(Append(index[p], event[r]), PageLimit)
    BY <1>3 DEF Index
  <2>4. ASSUME NEW p \in DOMAIN index
        PROVE  /\ \A i \in 1..Len(index'[p]) :
                    /\ index'[p][i].time <= time
                    /\ \A q \in Recorders :
                          pc'[q] \in {"push", "index"} /\ index'[p][i].by = q
                          => index'[p][i].time < event[q].time
               /\ \A i, j \in 1..Len(index'[p]) :
                    i < j /\ index'[p][i].by = index'[p][j].by
                    => index'[p][i].time < index'[p][j].time
    <3>1. CASE index'[p] = index[p]
      BY <2>2, <3>1
    <3>2. CASE index'[p] = Latest(Append(index[p], event[r]), PageLimit)
      <4> DEFINE s == Append(index[p], event[r])
      <4>1. /\ index[p] \in Seq(Events) /\ s \in Seq(Events)
            /\ Len(s) = Len(index[p]) + 1 /\ s[Len(index[p]) + 1] = event[r]
            /\ \A i \in 1..Len(index[p]) : s[i] = index[p][i]
        BY <2>1, <2>3
      <4> HIDE DEF s
      <4>2. /\ \A i \in 1..Len(s) : i \in 1..Len(index[p]) \/ i = Len(index[p]) + 1
            /\ Len(index[p]) \in Nat
        BY <4>1
      <4>3. ASSUME NEW i \in 1..Len(s)
            PROVE  /\ s[i].time <= time
                   /\ \A q \in Recorders :
                         pc'[q] \in {"push", "index"} /\ s[i].by = q
                         => s[i].time < event[q].time
        <5>1. CASE i = Len(index[p]) + 1
          BY <2>1, <2>2, <4>1, <5>1
        <5>2. CASE i \in 1..Len(index[p])
          <6>1. s[i] = index[p][i]
            BY <4>1, <5>2
          <6>2. \A q \in Recorders : pc'[q] \in {"push", "index"} =>
                    pc[q] \in {"push", "index"}
            BY <2>2
          <6> QED
            BY <5>2, <6>1, <6>2
        <5> QED
          BY <4>2, <5>1, <5>2
      <4>4. ASSUME NEW i \in 1..Len(s), NEW j \in 1..Len(s), i < j, s[i].by = s[j].by
            PROVE  s[i].time < s[j].time
        <5>1. i \in 1..Len(index[p]) /\ s[i] = index[p][i]
          BY <4>1, <4>2, <4>4
        <5>2. CASE j = Len(index[p]) + 1
          <6>1. s[j] = event[r] /\ index[p][i].by = r
            BY <2>1, <4>1, <4>4, <5>1, <5>2
          <6> QED
            BY <2>1, <5>1, <6>1
        <5>3. CASE j \in 1..Len(index[p])
          BY <4>1, <4>4, <5>1, <5>3
        <5> QED
          BY <4>2, <5>2, <5>3
      <4>5. index'[p] = Latest(s, PageLimit)
        BY <3>2 DEF s
      <4>6. PICK k \in 0..Len(s) :
                /\ Len(index'[p]) = Len(s) - k
                /\ \A i \in 1..Len(index'[p]) : i + k \in 1..Len(s) /\ index'[p][i] = s[i + k]
        BY <4>1, <4>5, LatestElements
      <4>7. k \in Nat /\ Len(s) \in Nat
        BY <4>1
      <4>8. ASSUME NEW i \in 1..Len(index'[p]), NEW j \in 1..Len(index'[p]), i < j
            PROVE  i + k \in 1..Len(s) /\ j + k \in 1..Len(s) /\ i + k < j + k
        BY <4>6, <4>7, <4>8
      <4>9. ASSUME NEW i \in 1..Len(index'[p])
            PROVE  i + k \in 1..Len(s) /\ index'[p][i] = s[i + k]
        BY <4>6
      <4> HIDE DEF Types, OrderInv
      <4> QED
        BY <4>3, <4>4, <4>8, <4>9
    <3> QED
      BY <2>3, <3>1, <3>2
  <2> QED
    BY <2>1, <2>2, <2>3, <2>4
<1>4. ASSUME NEW r \in Recorders, Push(r)
      PROVE  OrderInv'
  BY <1>0, <1>1, <1>4 DEF Push
<1>5. ASSUME NEW a \in Flushers, Flush(a) \/ Write(a) \/ Flushed(a)
      PROVE  OrderInv'
  BY <1>0, <1>1, <1>5 DEF Flush, Write, Flushed
<1>6. ASSUME NEW r \in Recorders, FlushOnly(r)
      PROVE  OrderInv'
  <2>1. UNCHANGED <<index, event, time>> /\ pc' = [pc EXCEPT ![r] = "flush"]
    BY <1>6 DEF FlushOnly
  <2>2. \A q \in Recorders : pc'[q] = IF q = r THEN "flush" ELSE pc[q]
    BY <1>0, <2>1
  <2>3. \A q \in Recorders : pc'[q] \in {"push", "index"} => pc[q] \in {"push", "index"}
    BY <2>2
  <2> HIDE DEF Types, OrderInv
  <2> QED
    BY <1>1, <2>1, <2>3
<1>7. ASSUME LoggingThread \/ Administrator \/ UNCHANGED vars
      PROVE  OrderInv'
  BY <1>0, <1>1, <1>7
     DEF LoggingThread, Loop, Wait, Timeout, Awake, Administrator, SetShutdown, NotifyAll,
         Join, Close, Reset, Return, Disable, Open, Start, vars
<1>8. ASSUME NEW c \in Configs \cup {NoConfig}, Begin(c)
      PROVE  OrderInv'
  BY <1>1, <1>8 DEF Begin
<1> QED
  BY <1>2, <1>3, <1>4, <1>5, <1>6, <1>7, <1>8
     DEF Next, Recorder, FlushEvents, Finished

\* BacktraceByAddress "returns operations in reverse chronological order" as
\* far as one thread goes, whoever else records events for the same page.
THEOREM Chronological == Spec => []OwnOperationsInOrder
<1>1. Inv /\ OrderInv /\ [Next]_vars => OrderInv'
  BY OrderStep DEF Inv
<1>2. Inv /\ OrderInv => OwnOperationsInOrder
  <2> SUFFICES ASSUME Types, OrderInv, NEW p \in DOMAIN index, NEW n \in 1..PageLimit,
                      NEW i \in 1..Len(Backtrace(p, n)), NEW j \in 1..Len(Backtrace(p, n)),
                      i < j, Backtrace(p, n)[i].by = Backtrace(p, n)[j].by
               PROVE  Backtrace(p, n)[i].time > Backtrace(p, n)[j].time
    BY DEF OwnOperationsInOrder, Inv
  <2> DEFINE s == index[p]
             t == Latest(s, n)
             m == Len(t)
  <2>1. s \in Seq(Events) /\ n \in Nat
    BY DEF Types
  <2>2. PICK k \in 0..Len(s) :
            m = Len(s) - k /\ \A l \in 1..m : l + k \in 1..Len(s) /\ t[l] = s[l + k]
    BY <2>1, LatestElements
  <2>3. m \in Nat /\ t \in Seq(Events)
    BY <2>1, LatestElements
  <2>4. Backtrace(p, n) = [l \in 1..m |-> t[(m - l) + 1]]
    BY DEF Backtrace, Reverse
  <2>5. Len(Backtrace(p, n)) = m
    BY <2>3, <2>4
  <2>6. /\ Backtrace(p, n)[i] = s[m - i + 1 + k] /\ m - i + 1 + k \in 1..Len(s)
        /\ Backtrace(p, n)[j] = s[m - j + 1 + k] /\ m - j + 1 + k \in 1..Len(s)
    <3>1. (m - i) + 1 \in 1..m /\ (m - j) + 1 \in 1..m
      BY <2>3, <2>5
    <3> QED
      BY <2>2, <2>4, <2>5, <3>1
  <2>7. m - j + 1 + k < m - i + 1 + k
    BY <2>3, <2>5
  <2>8. \A l \in 1..Len(s) : s[l].time \in Int
    <3>1. \A l \in 1..Len(s) : s[l] \in Events
      BY <2>1
    <3>2. \A e \in Events : e.time \in Int
      BY DEF Events
    <3> QED
      BY <3>1, <3>2
  <2> QED
    BY <2>6, <2>7, <2>8 DEF OrderInv
<1> QED
  BY <1>1, <1>2, OrderInit, Inductive, PTL DEF Spec

=============================================================================
