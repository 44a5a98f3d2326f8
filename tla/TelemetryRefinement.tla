------------------------ MODULE TelemetryRefinement ------------------------
(***************************************************************************)
(* Telemetry implements EventLog, for any number of threads, pages, buffer *)
(* sizes, events and calls, as long as only the logging thread flushes: a  *)
(* call of OnDirtyDataDetected may write what it took before or after what *)
(* the logging thread took.                                                *)
(***************************************************************************)
EXTENDS TelemetryProofs

USE TelemetryAssumption DEF sessionVars, adminVars, logVars

-----------------------------------------------------------------------------
(* Concatenations *)

LEMMA SameElements ==
    ASSUME NEW S, NEW s \in Seq(S), NEW t \in Seq(S), Len(s) = Len(t),
           \A i \in 1..Len(s) : s[i] = t[i]
    PROVE  s = t
BY SeqEqual

LEMMA ConcatAppend ==
    ASSUME NEW S, NEW s \in Seq(S), NEW t \in Seq(S), NEW e \in S
    PROVE  s \o Append(t, e) = Append(s \o t, e)
<1> DEFINE x == s \o Append(t, e)
           y == Append(s \o t, e)
<1>1. x \in Seq(S) /\ y \in Seq(S) /\ Len(x) = Len(s) + Len(t) + 1 /\ Len(y) = Len(x)
  OBVIOUS
<1>2. \A i \in 1..Len(x) : x[i] = y[i]
  OBVIOUS
<1> QED
  BY <1>1, <1>2, SeqEqual

LEMMA ConcatHeadTail ==
    ASSUME NEW S, NEW s \in Seq(S), NEW t \in Seq(S), s # <<>>
    PROVE  s \o t # <<>> /\ Head(s \o t) = Head(s) /\ Tail(s \o t) = Tail(s) \o t
<1> DEFINE x == Tail(s \o t)
           y == Tail(s) \o t
<1>1. /\ s \o t \in Seq(S) /\ Len(s \o t) = Len(s) + Len(t) /\ Len(s) \in Nat \ {0}
      /\ Len(t) \in Nat /\ s \o t # <<>> /\ Head(s \o t) = Head(s)
  OBVIOUS
<1>2. x \in Seq(S) /\ y \in Seq(S) /\ Len(x) = Len(s) + Len(t) - 1 /\ Len(y) = Len(x)
  BY <1>1
<1>3. \A i \in 1..Len(x) : x[i] = y[i]
  BY <1>1, <1>2
<1>4. x = y
  BY <1>2, <1>3, SeqEqual
<1> QED
  BY <1>1, <1>4

LEMMA RemoveAtParts ==
    ASSUME NEW q, NEW i
    PROVE  RemoveAt(q, i) = SubSeq(q, 1, i - 1) \o SubSeq(q, i + 1, Len(q))
BY DEF RemoveAt

LEMMA ConcatRemove ==
    ASSUME NEW S, NEW s \in Seq(S), NEW t \in Seq(S), t # <<>>
    PROVE  /\ Len(s) + 1 \in 1..Len(s \o t)
           /\ (s \o t)[Len(s) + 1] = Head(t)
           /\ RemoveAt(s \o t, Len(s) + 1) = s \o Tail(t)
<1> DEFINE n == Len(s)
           q == s \o t
<1>1. /\ n \in Nat /\ Len(t) \in Nat \ {0} /\ q \in Seq(S) /\ Len(q) = n + Len(t)
      /\ q[n + 1] = Head(t)
  OBVIOUS
<1>2. /\ SubSeq(q, 1, n) \in Seq(S) /\ Len(SubSeq(q, 1, n)) = n
      /\ \A i \in 1..n : SubSeq(q, 1, n)[i] = s[i]
  BY <1>1
<1>3. /\ SubSeq(q, n + 1 + 1, Len(q)) \in Seq(S)
      /\ Len(SubSeq(q, n + 1 + 1, Len(q))) = Len(t) - 1
      /\ \A i \in 1..Len(t) - 1 : SubSeq(q, n + 1 + 1, Len(q))[i] = Tail(t)[i]
  <2>1. \A i \in 1..Len(t) - 1 : q[n + 1 + i] = t[i + 1] /\ Tail(t)[i] = t[i + 1]
    BY <1>1
  <2>2. /\ n + 2 \in 1..(Len(q) + 1) /\ Len(q) \in Nat
    BY <1>1
  <2> HIDE DEF q
  <2>3. /\ SubSeq(q, n + 1 + 1, Len(q)) \in Seq(S)
        /\ Len(SubSeq(q, n + 1 + 1, Len(q))) = Len(t) - 1
        /\ \A i \in 1..Len(t) - 1 : SubSeq(q, n + 1 + 1, Len(q))[i] = q[n + 1 + i]
    <3>1. \A i \in n + 1 + 1..Len(q) : q[i] \in S
      BY <1>1, <2>2
    <3>2. /\ n + 1 + 1 \in Int /\ Len(q) \in Int /\ Len(q) - (n + 1 + 1) + 1 = Len(t) - 1
          /\ n + 1 + 1 <= Len(q) <=> Len(t) - 1 > 0
          /\ \A i \in 1..Len(t) - 1 : n + 1 + 1 + i - 1 = n + 1 + i
      BY <1>1, <2>2
    <3> DEFINE l == n + 1 + 1
               m == Len(q)
    <3> HIDE DEF l, m
    <3>3. l \in Int /\ m \in Int /\ \A i \in l..m : q[i] \in S
      BY <3>1, <3>2 DEF l, m
    <3>4. /\ SubSeq(q, l, m) \in Seq(S)
          /\ Len(SubSeq(q, l, m)) = IF l <= m THEN m - l + 1 ELSE 0
          /\ \A i \in 1..m - l + 1 : SubSeq(q, l, m)[i] = q[l + i - 1]
      BY <3>3, SubSeqProperties
    <3> QED
      BY <1>1, <3>2, <3>4 DEF l, m
  <2> QED
    BY <2>1, <2>3
<1>4. /\ Tail(t) \in Seq(S) /\ Len(Tail(t)) = Len(t) - 1
  BY <1>1
<1>5. SubSeq(q, 1, n) = s
  BY <1>1, <1>2, SameElements
<1>6. SubSeq(q, n + 1 + 1, Len(q)) = Tail(t)
  BY <1>3, <1>4, SameElements
<1>7. RemoveAt(q, n + 1) = s \o Tail(t)
  <2>1. RemoveAt(q, n + 1) = SubSeq(q, 1, (n + 1) - 1) \o SubSeq(q, n + 1 + 1, Len(q))
    BY RemoveAtParts
  <2>2. (n + 1) - 1 = n
    BY <1>1
  <2> HIDE DEF n, q
  <2> QED
    BY <1>5, <1>6, <2>1, <2>2
<1>9. n + 1 \in 1..Len(q)
  BY <1>1
<1> QED
  BY <1>1, <1>7, <1>9 DEF q, n

LEMMA SetOfConcat ==
    ASSUME NEW S, NEW s \in Seq(S), NEW t \in Seq(S)
    PROVE  ToSet(s \o t) = ToSet(s) \cup ToSet(t)
<1>1. /\ Len(s \o t) = Len(s) + Len(t) /\ Len(s) \in Nat /\ Len(t) \in Nat
      /\ \A i \in 1..Len(s) : (s \o t)[i] = s[i]
      /\ \A i \in 1..Len(t) : (s \o t)[i + Len(s)] = t[i]
      /\ DOMAIN s = 1..Len(s) /\ DOMAIN t = 1..Len(t) /\ DOMAIN (s \o t) = 1..(Len(s) + Len(t))
  OBVIOUS
<1>2. ASSUME NEW x \in ToSet(s \o t) PROVE x \in ToSet(s) \cup ToSet(t)
  <2>1. PICK i \in 1..(Len(s) + Len(t)) : x = (s \o t)[i]
    BY <1>1 DEF ToSet
  <2>2. CASE i \in 1..Len(s)
    BY <1>1, <2>1, <2>2 DEF ToSet
  <2>3. CASE i - Len(s) \in 1..Len(t)
    <3>1. (s \o t)[(i - Len(s)) + Len(s)] = t[i - Len(s)] /\ (i - Len(s)) + Len(s) = i
      BY <1>1, <2>3
    <3> QED
      BY <1>1, <2>1, <2>3, <3>1 DEF ToSet
  <2> QED
    BY <1>1, <2>2, <2>3
<1>3. ASSUME NEW x \in ToSet(s) PROVE x \in ToSet(s \o t)
  <2>1. PICK i \in 1..Len(s) : x = s[i]
    BY <1>1 DEF ToSet
  <2>2. i \in 1..(Len(s) + Len(t)) /\ x = (s \o t)[i]
    BY <1>1, <2>1
  <2> QED
    BY <1>1, <2>2 DEF ToSet
<1>4. ASSUME NEW x \in ToSet(t) PROVE x \in ToSet(s \o t)
  <2>1. PICK i \in 1..Len(t) : x = t[i]
    BY <1>1 DEF ToSet
  <2>2. i + Len(s) \in 1..(Len(s) + Len(t)) /\ x = (s \o t)[i + Len(s)]
    BY <1>1, <2>1
  <2> QED
    BY <1>1, <2>2 DEF ToSet
<1> QED
  BY <1>2, <1>3, <1>4

-----------------------------------------------------------------------------
(* An event is put in the buffer once *)

In(e) == e \in ToSet(buffer) \/ Gone(e)

\* The event that a recorder is about to put in the buffer is later than those
\* of its that have ever been in it.
FreshInv ==
    \A e \in Events :
        In(e) =>
            /\ e.time <= time
            /\ \A r \in Recorders : pc[r] = "push" /\ e.by = r => e.time < event[r].time

LEMMA FreshInit == Init => FreshInv
BY SetOfEmpty DEF Init, FreshInv, In, Gone

LEMMA FreshStep ==
    ASSUME Inv, OrderInv, FreshInv, [Next]_vars
    PROVE  FreshInv'
<1> USE DEF Inv, Types
<1>0. Logger \in Flushers /\ Recorders \subseteq Flushers /\ Logger \notin Recorders
  BY DEF Flushers
<1>e. \A e \in Events : e.time \in Int
  BY DEF Events
<1>1. ASSUME \A e \in Events : In(e)' => In(e),
             UNCHANGED <<event, time>>,
             \A r \in Recorders : pc'[r] = "push" => pc[r] = "push"
      PROVE  FreshInv'
  BY <1>1 DEF FreshInv
<1>2. ASSUME UNCHANGED <<buffer, written, batch, dropped>>
      PROVE  \A e \in Events : In(e)' => In(e)
  BY <1>2 DEF In, Gone
<1>3. ASSUME NEW r \in Recorders, NEW p \in Pages, Stamp(r, p)
      PROVE  FreshInv'
  <2>1. \A e \in Events : In(e)' => In(e)
    BY <1>2, <1>3 DEF Stamp
  <2>2. /\ pc' = [pc EXCEPT ![r] = "push"] /\ time' = time + 1 /\ time \in Int
        /\ event' = [event EXCEPT ![r] = [time |-> time + 1, page |-> p, by |-> r]]
    BY <1>3 DEF Stamp
  <2>3. event'[r].time = time + 1
    BY <2>2
  <2>4. \A q \in Recorders \ {r} : pc'[q] = pc[q] /\ event'[q] = event[q]
    BY <1>0, <2>2
  <2> QED
    BY <1>e, <2>1, <2>2, <2>3, <2>4 DEF FreshInv
<1>4. ASSUME NEW r \in Recorders, Push(r)
      PROVE  FreshInv'
  <2> DEFINE new == event[r]
  <2>1. /\ buffer' = Append(IF Full THEN Tail(buffer) ELSE buffer, new)
        /\ dropped' = IF Full THEN dropped \cup {Head(buffer)} ELSE dropped
        /\ new \in Events /\ new.by = r /\ new.time <= time
        /\ pc[r] = "push" /\ \A q \in Recorders : pc'[q] = "push" => q # r /\ pc[q] = "push"
        /\ UNCHANGED <<written, batch, event, time>>
    BY <1>0, <1>4 DEF Push, ControlInv, OrderInv
  <2> HIDE DEF new
  <2>2. ASSUME NEW e \in Events, In(e)' PROVE In(e) \/ e = new
    <3>1. CASE Full
      <4>1. buffer # <<>>
        <5>1. config.size \in Nat \ {0}
          BY DEF Configs
        <5> QED
          BY <3>1, <5>1 DEF Full
      <4> DEFINE t == Tail(buffer)
      <4>2. t \in Seq(Events) /\ ToSet(buffer) = ToSet(t) \cup {Head(buffer)}
        BY <4>1, SetOfTail
      <4>3. buffer' = Append(t, new) /\ dropped' = dropped \cup {Head(buffer)}
        BY <2>1, <3>1
      <4> HIDE DEF t
      <4>4. ToSet(Append(t, new)) = ToSet(t) \cup {new}
        BY <2>1, <4>2, SetOfAppend
      <4> QED
        BY <2>1, <2>2, <4>2, <4>3, <4>4 DEF In, Gone
    <3>2. CASE ~Full
      <4>1. buffer' = Append(buffer, new) /\ dropped' = dropped
        BY <2>1, <3>2
      <4>2. ToSet(Append(buffer, new)) = ToSet(buffer) \cup {new}
        BY <2>1, SetOfAppend
      <4> QED
        BY <2>1, <2>2, <4>1, <4>2 DEF In, Gone
    <3> QED
      BY <3>1, <3>2
  <2> QED
    BY <2>1, <2>2 DEF FreshInv
<1>5. ASSUME NEW a \in Flushers, Flush(a)
      PROVE  FreshInv'
  <2>1. ToSet(buffer') = {} /\ \A b \in Flushers : batch'[b] = batch[b] \/ batch'[b] = buffer
    BY <1>5, SetOfEmpty DEF Flush
  <2>2. UNCHANGED <<written, dropped>>
    BY <1>5 DEF Flush
  <2>3. \A e \in Events : In(e)' => In(e)
    BY <2>1, <2>2 DEF In, Gone
  <2> QED
    BY <1>0, <1>1, <1>5, <2>3 DEF Flush
<1>6. ASSUME NEW a \in Flushers, Write(a)
      PROVE  FreshInv'
  <2>1. /\ batch[a] \in Seq(Events) /\ batch[a] # <<>> /\ Head(batch[a]) \in Events
        /\ written' = Append(written, Head(batch[a]))
        /\ batch' = [batch EXCEPT ![a] = Tail(@)]
        /\ UNCHANGED <<dropped, buffer>>
    BY <1>6 DEF Write
  <2>2. ToSet(batch[a]) = ToSet(Tail(batch[a])) \cup {Head(batch[a])}
    BY <2>1, SetOfTail
  <2>3. ToSet(written') = ToSet(written) \cup {Head(batch[a])}
    BY <2>1, SetOfAppend
  <2>4. \A e \in Events : In(e)' => In(e)
    BY <2>1, <2>2, <2>3 DEF In, Gone
  <2> QED
    BY <1>0, <1>1, <1>6, <2>4 DEF Write
<1>7. ASSUME NEW r \in Recorders, Index(r) \/ FlushOnly(r)
      PROVE  FreshInv'
  <2>1. /\ UNCHANGED <<buffer, written, batch, dropped, time>>
        /\ \A q \in Recorders : pc'[q] = "push" => pc[q] = "push" /\ event'[q] = event[q]
    BY <1>0, <1>7 DEF Index, FlushOnly
  <2>2. \A e \in Events : In(e)' => In(e)
    BY <1>2, <2>1
  <2> QED
    BY <2>1, <2>2 DEF FreshInv
<1>8. ASSUME NEW a \in Flushers, Flushed(a)
      PROVE  FreshInv'
  BY <1>0, <1>1, <1>2, <1>8 DEF Flushed
<1>9. ASSUME LoggingThread \/ Administrator \/ UNCHANGED vars
      PROVE  FreshInv'
  BY <1>0, <1>1, <1>2, <1>9
     DEF LoggingThread, Loop, Wait, Timeout, Awake, Administrator, SetShutdown, NotifyAll,
         Join, Close, Reset, Return, Disable, Open, Start, vars
<1>10. ASSUME NEW c \in Configs \cup {NoConfig}, Begin(c)
       PROVE  FreshInv'
  BY <1>1, <1>2, <1>10 DEF Begin
<1> QED
  BY <1>3, <1>4, <1>5, <1>6, <1>7, <1>8, <1>9, <1>10
     DEF Next, Recorder, FlushEvents, Finished

-----------------------------------------------------------------------------
(* Every event is in one place *)

LEMMA InjectiveEmpty == IsInjective(<<>>)
BY DEF IsInjective

LEMMA InjectiveAppend ==
    ASSUME NEW S, NEW s \in Seq(S), NEW e \in S, IsInjective(s), e \notin ToSet(s)
    PROVE  IsInjective(Append(s, e))
<1>1. /\ Len(s) \in Nat /\ DOMAIN s = 1..Len(s)
      /\ DOMAIN Append(s, e) = 1..(Len(s) + 1)
      /\ \A i \in 1..Len(s) : Append(s, e)[i] = s[i]
      /\ Append(s, e)[Len(s) + 1] = e
  OBVIOUS
<1>2. \A i \in 1..Len(s) : s[i] # e
  BY <1>1 DEF ToSet
<1>3. \A i \in 1..(Len(s) + 1) : i \in 1..Len(s) \/ i = Len(s) + 1
  BY <1>1
<1> QED
  BY <1>1, <1>2, <1>3 DEF IsInjective

LEMMA InjectiveTail ==
    ASSUME NEW S, NEW s \in Seq(S), s # <<>>, IsInjective(s)
    PROVE  IsInjective(Tail(s)) /\ Head(s) \notin ToSet(Tail(s))
<1>1. /\ Len(s) \in Nat \ {0} /\ DOMAIN s = 1..Len(s) /\ Head(s) = s[1]
      /\ DOMAIN Tail(s) = 1..(Len(s) - 1)
      /\ \A i \in 1..(Len(s) - 1) : Tail(s)[i] = s[i + 1]
  OBVIOUS
<1>2. \A i, j \in 1..Len(s) : s[i] = s[j] => i = j
  BY <1>1 DEF IsInjective
<1>3. \A i \in 1..(Len(s) - 1) : i + 1 \in 1..Len(s) /\ i + 1 # 1 /\ 1 \in 1..Len(s)
  BY <1>1
<1>4. \A i \in 1..(Len(s) - 1) : Tail(s)[i] # Head(s)
  BY <1>1, <1>2, <1>3
<1>5. \A i, j \in 1..(Len(s) - 1) : Tail(s)[i] = Tail(s)[j] => i = j
  <2>1. SUFFICES ASSUME NEW i \in 1..(Len(s) - 1), NEW j \in 1..(Len(s) - 1),
                        Tail(s)[i] = Tail(s)[j]
                 PROVE  i = j
    OBVIOUS
  <2>2. i + 1 = j + 1
    BY <1>1, <1>2, <1>3, <2>1
  <2> QED
    BY <1>1, <2>2
<1> QED
  BY <1>1, <1>4, <1>5 DEF IsInjective, ToSet

LEMMA AccountedInit == Init => EventsAccounted
BY SetOfEmpty, InjectiveEmpty DEF Init, EventsAccounted

\* An event changes its place as a whole: it is new when it joins the buffer,
\* and leaves one place for the next.
LEMMA AccountedStep ==
    ASSUME Inv, OrderInv, FreshInv, EventsAccounted, [Next]_vars
    PROVE  EventsAccounted'
<1> USE DEF Inv, Types
<1>0. Logger \in Flushers /\ Recorders \subseteq Flushers
  BY DEF Flushers
<1> DEFINE All == UNION {ToSet(batch[a]) : a \in Flushers}
<1>1. ASSUME UNCHANGED <<buffer, written, batch, dropped, pushed>>
      PROVE  EventsAccounted'
  BY <1>1 DEF EventsAccounted
<1>2. ASSUME NEW r \in Recorders, Push(r)
      PROVE  EventsAccounted'
  <2> DEFINE new == event[r]
             rest == IF Full THEN Tail(buffer) ELSE buffer
  <2>1. /\ buffer' = Append(rest, new) /\ pushed' = Append(pushed, new)
        /\ dropped' = IF Full THEN dropped \cup {Head(buffer)} ELSE dropped
        /\ new \in Events /\ new.by = r /\ pc[r] = "push" /\ new.time \in Int
        /\ UNCHANGED <<written, batch>>
    BY <1>0, <1>2 DEF Push, ControlInv, Events
  <2>2. ~In(new)
    <3>1. In(new) => new.time < new.time
      BY <2>1 DEF FreshInv
    <3> QED
      BY <2>1, <3>1
  <2>3. new \notin ToSet(buffer) \cup ToSet(written) \cup dropped \cup All
    BY <2>2 DEF In, Gone
  <2>4. /\ rest \in Seq(Events) /\ IsInjective(rest) /\ dropped \subseteq dropped'
        /\ ToSet(buffer) = ToSet(rest) \cup (dropped' \ dropped)
        /\ ToSet(rest) \cap dropped' = {}
    <3>1. CASE Full
      <4>1. buffer # <<>>
        <5>1. config.size \in Nat \ {0}
          BY DEF Configs
        <5> QED
          BY <3>1, <5>1 DEF Full
      <4> DEFINE t == Tail(buffer)
                 h == Head(buffer)
      <4>2. t \in Seq(Events) /\ ToSet(buffer) = ToSet(t) \cup {h}
        BY <4>1, SetOfTail
      <4>3. IsInjective(t) /\ h \notin ToSet(t)
        BY <4>1, InjectiveTail DEF EventsAccounted
      <4>4. dropped' = dropped \cup {h} /\ rest = t
        BY <2>1, <3>1
      <4> HIDE DEF t, h, rest
      <4>5. ToSet(buffer) \cap dropped = {}
        BY DEF EventsAccounted
      <4> QED
        BY <4>2, <4>3, <4>4, <4>5
    <3>2. CASE ~Full
      <4>1. dropped' = dropped /\ rest = buffer
        BY <2>1, <3>2
      <4>2. ToSet(buffer) \cap dropped = {}
        BY DEF EventsAccounted
      <4>3. IsInjective(buffer)
        BY DEF EventsAccounted
      <4> HIDE DEF rest
      <4> QED
        BY <4>1, <4>2, <4>3
    <3> QED
      BY <3>1, <3>2
  <2> HIDE DEF rest, new
  <2>5. /\ ToSet(buffer') = ToSet(rest) \cup {new}
        /\ ToSet(pushed') = ToSet(pushed) \cup {new}
    BY <2>1, <2>4, SetOfAppend
  <2>6. IsInjective(buffer')
    BY <2>1, <2>3, <2>4, InjectiveAppend
  <2>7. All' = All
    BY <2>1
  <2> HIDE DEF All
  <2>8. /\ ToSet(pushed) = ToSet(buffer) \cup ToSet(written) \cup dropped \cup All
        /\ ToSet(buffer) \cap (ToSet(written) \cup dropped \cup All) = {}
        /\ ToSet(written) \cap (dropped \cup All) = {}
        /\ dropped \cap All = {}
    BY DEF EventsAccounted, All
  <2>9. /\ ToSet(pushed') = ToSet(buffer') \cup ToSet(written') \cup dropped' \cup All'
        /\ ToSet(buffer') \cap (ToSet(written') \cup dropped' \cup All') = {}
        /\ ToSet(written') \cap (dropped' \cup All') = {}
        /\ dropped' \cap All' = {}
    <3>1. ToSet(written') = ToSet(written)
      BY <2>1
    <3> DEFINE w == ToSet(written)
               b == ToSet(buffer)
               t == ToSet(rest)
               d == dropped'
               p == ToSet(pushed)
    <3>2. /\ b = t \cup (d \ dropped) /\ t \cap d = {} /\ dropped \subseteq d
          /\ p = b \cup w \cup dropped \cup All
          /\ b \cap (w \cup dropped \cup All) = {}
          /\ w \cap (dropped \cup All) = {} /\ dropped \cap All = {}
          /\ new \notin b /\ new \notin w /\ new \notin dropped /\ new \notin All
      BY <2>3, <2>4, <2>8
    <3>3. /\ ToSet(buffer') = t \cup {new} /\ ToSet(pushed') = p \cup {new}
          /\ ToSet(written') = w /\ All' = All /\ dropped' = d
      BY <2>5, <2>7, <3>1
    <3> HIDE DEF w, b, t, d, p
    <3>4. /\ p \cup {new} = (t \cup {new}) \cup w \cup d \cup All
          /\ (t \cup {new}) \cap (w \cup d \cup All) = {}
          /\ w \cap (d \cup All) = {} /\ d \cap All = {}
      BY <3>2
    <3> QED
      BY <3>3, <3>4
  <2>10. /\ \A a, b \in Flushers : a # b => ToSet(batch'[a]) \cap ToSet(batch'[b]) = {}
         /\ IsInjective(written') /\ \A a \in Flushers : IsInjective(batch'[a])
    BY <2>1 DEF EventsAccounted
  <2> QED
    BY <2>6, <2>9, <2>10 DEF EventsAccounted, All
<1>3. ASSUME NEW a \in Flushers, Flush(a)
      PROVE  EventsAccounted'
  <2>1. /\ batch[a] = <<>> /\ buffer' = <<>>
        /\ \A b \in Flushers : batch'[b] = IF b = a THEN buffer ELSE batch[b]
        /\ UNCHANGED <<written, dropped, pushed>>
    BY <1>3 DEF Flush, ControlInv
  <2>2. ToSet(buffer') = {} /\ ToSet(batch[a]) = {} /\ IsInjective(buffer')
    BY <2>1, SetOfEmpty, InjectiveEmpty
  <2>3. All' = All \cup ToSet(buffer)
    BY <2>1, <2>2
  <2>4. \A b, c \in Flushers : b # c => ToSet(batch'[b]) \cap ToSet(batch'[c]) = {}
    <3>1. \A b \in Flushers : ToSet(buffer) \cap ToSet(batch[b]) = {}
      BY DEF EventsAccounted
    <3> QED
      BY <2>1, <3>1 DEF EventsAccounted
  <2>5. \A b \in Flushers : IsInjective(batch'[b])
    BY <2>1 DEF EventsAccounted
  <2> HIDE DEF All
  <2>6. /\ ToSet(pushed) = ToSet(buffer) \cup ToSet(written) \cup dropped \cup All
        /\ ToSet(buffer) \cap (ToSet(written) \cup dropped \cup All) = {}
        /\ ToSet(written) \cap (dropped \cup All) = {}
        /\ dropped \cap All = {}
        /\ IsInjective(written)
    BY DEF EventsAccounted, All
  <2>7. /\ ToSet(pushed') = ToSet(buffer') \cup ToSet(written') \cup dropped' \cup All'
        /\ ToSet(buffer') \cap (ToSet(written') \cup dropped' \cup All') = {}
        /\ ToSet(written') \cap (dropped' \cup All') = {}
        /\ dropped' \cap All' = {}
        /\ IsInjective(written')
    BY <2>1, <2>2, <2>3, <2>6
  <2> QED
    BY <2>2, <2>4, <2>5, <2>7 DEF EventsAccounted, All
<1>4. ASSUME NEW a \in Flushers, Write(a)
      PROVE  EventsAccounted'
  <2> DEFINE h == Head(batch[a])
             t == Tail(batch[a])
  <2>1. /\ batch[a] \in Seq(Events) /\ batch[a] # <<>> /\ h \in Events
        /\ written' = Append(written, h)
        /\ \A b \in Flushers : batch'[b] = IF b = a THEN t ELSE batch[b]
        /\ UNCHANGED <<dropped, buffer, pushed>>
    BY <1>4 DEF Write
  <2>2. ToSet(batch[a]) = ToSet(t) \cup {h} /\ IsInjective(t) /\ h \notin ToSet(t)
    BY <2>1, SetOfTail, InjectiveTail DEF EventsAccounted
  <2> HIDE DEF h, t
  <2>3. ToSet(written') = ToSet(written) \cup {h} /\ h \notin ToSet(written)
    BY <2>1, <2>2, SetOfAppend DEF EventsAccounted
  <2>4. IsInjective(written')
    BY <2>1, <2>3, InjectiveAppend DEF EventsAccounted
  <2>5. All = All' \cup {h} /\ h \notin All'
    <3>1. \A b \in Flushers \ {a} : h \notin ToSet(batch[b])
      BY <2>2 DEF EventsAccounted
    <3>2. /\ \A x : x \in All <=> \E b \in Flushers : x \in ToSet(batch[b])
          /\ \A x : x \in All' <=> \E b \in Flushers : x \in ToSet(batch'[b])
      OBVIOUS
    <3>3. \A b \in Flushers : ToSet(batch'[b]) = IF b = a THEN ToSet(t) ELSE ToSet(batch[b])
      BY <2>1
    <3> HIDE DEF All
    <3>4. h \notin All'
      BY <2>2, <3>1, <3>2, <3>3
    <3>5. \A x : x \in All <=> x \in All' \/ x = h
      BY <2>2, <3>2, <3>3
    <3> QED
      BY <3>4, <3>5
  <2>6. \A b, c \in Flushers : b # c => ToSet(batch'[b]) \cap ToSet(batch'[c]) = {}
    BY <2>1, <2>2 DEF EventsAccounted
  <2>7. \A b \in Flushers : IsInjective(batch'[b])
    BY <2>1, <2>2 DEF EventsAccounted
  <2> HIDE DEF All
  <2>8. /\ ToSet(pushed) = ToSet(buffer) \cup ToSet(written) \cup dropped \cup All
        /\ ToSet(buffer) \cap (ToSet(written) \cup dropped \cup All) = {}
        /\ ToSet(written) \cap (dropped \cup All) = {}
        /\ dropped \cap All = {}
        /\ IsInjective(buffer)
    BY DEF EventsAccounted, All
  <2>9. /\ ToSet(pushed') = ToSet(buffer') \cup ToSet(written') \cup dropped' \cup All'
        /\ ToSet(buffer') \cap (ToSet(written') \cup dropped' \cup All') = {}
        /\ ToSet(written') \cap (dropped' \cup All') = {}
        /\ dropped' \cap All' = {}
        /\ IsInjective(buffer')
    BY <2>1, <2>3, <2>5, <2>8
  <2> QED
    BY <2>4, <2>6, <2>7, <2>9 DEF EventsAccounted, All
<1> QED
  BY <1>1, <1>2, <1>3, <1>4
     DEF Next, Recorder, Stamp, FlushOnly, Index, FlushEvents, Flushed, LoggingThread,
         Loop, Wait, Timeout, Awake, Begin, Administrator, SetShutdown, NotifyAll, Join,
         Close, Reset, Return, Disable, Open, Start, Finished, vars

\* Every event that joined the buffer is in one place: the buffer, the batch
\* of one thread, the log, or the events counted as dropped, whoever flushes,
\* OnDirtyDataDetected included, and however often sessions change.
THEOREM Accounted == Spec => []EventsAccounted
<1>1. Inv /\ OrderInv /\ FreshInv /\ [Next]_vars => OrderInv' /\ FreshInv'
  BY OrderStep, FreshStep DEF Inv
<1>2. Inv /\ OrderInv /\ FreshInv /\ EventsAccounted /\ [Next]_vars => EventsAccounted'
  BY AccountedStep
<1> QED
  BY <1>1, <1>2, OrderInit, FreshInit, AccountedInit, Inductive, PTL DEF Spec

-----------------------------------------------------------------------------
(* The refinement *)

Queue == batch[Logger] \o buffer

LEMMA QueueHead ==
    ASSUME batch[Logger] \in Seq(Events), buffer \in Seq(Events), batch[Logger] # <<>>
    PROVE  /\ Queue # <<>> /\ Head(Queue) = Head(batch[Logger])
           /\ Tail(Queue) = Tail(batch[Logger]) \o buffer
BY ConcatHeadTail DEF Queue

LEMMA PromiseStep ==
    ASSUME Reporters = {}, Inv, OrderInv, FreshInv, Inv', [Next]_vars
    PROVE  [Promise!Next]_(Promise!vars)
<1> USE DEF Inv, Types
<1>0. Logger \in Flushers /\ Recorders \subseteq Flushers /\ Logger \notin Recorders
  BY DEF Flushers
<1> DEFINE b == batch[Logger]
<1>1. b \in Seq(Events) /\ buffer \in Seq(Events) /\ Queue \in Seq(Events) /\ Queue = b \o buffer
  BY <1>0 DEF Queue
<1> HIDE DEF b
<1>2. ASSUME UNCHANGED <<batch, buffer, written, dropped>>
      PROVE  UNCHANGED Promise!vars
  BY <1>2 DEF Promise!vars
<1>3. ASSUME NEW r \in Recorders, Push(r) PROVE Promise!Next
  <2> DEFINE e == event[r]
  <2>1. /\ buffer' = Append(IF Full THEN Tail(buffer) ELSE buffer, e)
        /\ dropped' = IF Full THEN dropped \cup {Head(buffer)} ELSE dropped
        /\ e \in Events /\ e.by = r /\ pc[r] = "push"
        /\ UNCHANGED <<written, batch>>
    BY <1>3 DEF Push, ControlInv
  <2> HIDE DEF e
  <2>2. e \notin Promise!Known
    <3>1. ~In(e)
      <4>1. e = event[r] /\ e.time \in Int
        BY <2>1 DEF e, Events
      <4>2. In(e) => e.time < e.time
        BY <2>1, <4>1 DEF FreshInv
      <4> QED
        BY <4>1, <4>2
    <3>2. ToSet(Queue) = ToSet(b) \cup ToSet(buffer)
      BY <1>1, SetOfConcat
    <3>3. e \notin ToSet(Queue) /\ e \notin ToSet(written) /\ e \notin dropped
      BY <1>0, <3>1, <3>2 DEF In, Gone, b
    <3> QED
      BY <3>3 DEF Promise!Known, Promise!ToSet, ToSet, Queue
  <2>3. CASE Full
    <3>1. buffer # <<>>
      <4>1. config.size \in Nat \ {0}
        BY DEF Configs
      <4> QED
        BY <2>3, <4>1 DEF Full
    <3> DEFINE i == Len(b) + 1
               t == Tail(buffer)
    <3>2. i \in 1..Len(Queue) /\ Queue[i] = Head(buffer) /\ RemoveAt(Queue, i) = b \o t
      BY <1>1, <3>1, ConcatRemove
    <3>3. t \in Seq(Events)
      BY <3>1
    <3>4. buffer' = Append(t, e) /\ dropped' = dropped \cup {Head(buffer)}
      BY <2>1, <2>3
    <3> HIDE DEF i, t
    <3>5. b \o Append(t, e) = Append(b \o t, e)
      <4>1. b \in Seq(Events) /\ t \in Seq(Events) /\ e \in Events
        BY <1>1, <2>1, <3>3
      <4> HIDE DEF Inv, Types
      <4> QED
        BY <4>1, ConcatAppend
    <3>6. Queue' = Append(RemoveAt(Queue, i), e)
      BY <2>1, <3>2, <3>4, <3>5 DEF Queue, b
    <3>7. Promise!RecordDropping(e, i)
      BY <2>1, <2>2, <3>2, <3>4, <3>6
         DEF Promise!RecordDropping, Promise!RemoveAt, RemoveAt, Queue
    <3> QED
      BY <2>1, <3>2, <3>7 DEF Promise!Next, Queue
  <2>4. CASE ~Full
    <3>1. buffer' = Append(buffer, e) /\ dropped' = dropped
      BY <2>1, <2>4
    <3>2. b \o Append(buffer, e) = Append(Queue, e)
      <4>1. /\ b \in Seq(Events) /\ buffer \in Seq(Events) /\ e \in Events
            /\ Queue = b \o buffer
        BY <1>1, <2>1
      <4> HIDE DEF Inv, Types
      <4> QED
        BY <4>1, ConcatAppend
    <3>4. Queue' = Append(Queue, e)
      BY <2>1, <3>1, <3>2 DEF Queue, b
    <3>3. Promise!Record(e)
      BY <2>1, <2>2, <3>1, <3>4 DEF Promise!Record, Queue
    <3> QED
      BY <2>1, <3>3 DEF Promise!Next
  <2> QED
    BY <2>3, <2>4
<1>4. ASSUME NEW a \in Flushers, Flush(a) PROVE UNCHANGED Promise!vars
  <2>1. a = Logger /\ batch[Logger] = <<>>
    BY <1>4 DEF Flush, ControlInv, Flushers
  <2>2. batch'[Logger] = buffer /\ buffer' = <<>> /\ UNCHANGED <<written, dropped>>
    BY <1>0, <1>4, <2>1 DEF Flush
  <2>3. Queue' = Queue
    BY <1>1, <2>1, <2>2, ConcatEmptySeq DEF Queue, b
  <2> QED
    BY <2>2, <2>3 DEF Promise!vars, Queue
<1>5. ASSUME NEW a \in Flushers, Write(a) PROVE Promise!Next
  <2>1. a = Logger
    BY <1>5 DEF Write, ControlInv, Flushers
  <2>2. /\ batch[Logger] # <<>> /\ written' = Append(written, Head(batch[Logger]))
        /\ batch'[Logger] = Tail(batch[Logger]) /\ UNCHANGED <<buffer, dropped>>
    BY <1>0, <1>5, <2>1 DEF Write
  <2>3. /\ Queue # <<>> /\ Head(Queue) = Head(batch[Logger])
        /\ Tail(Queue) = Tail(batch[Logger]) \o buffer
    <3>1. batch[Logger] \in Seq(Events) /\ buffer \in Seq(Events)
      BY <1>1 DEF b
    <3> QED
      BY <2>2, <3>1, QueueHead
  <2>4. Promise!Log
    BY <2>2, <2>3 DEF Promise!Log, Queue
  <2> QED
    BY <2>4 DEF Promise!Next
<1> QED
  BY <1>2, <1>3, <1>4, <1>5
     DEF Next, Recorder, Stamp, FlushOnly, Index, FlushEvents, Flushed, LoggingThread,
         Loop, Wait, Timeout, Awake, Begin, Administrator, SetShutdown, NotifyAll, Join,
         Close, Reset, Return, Disable, Open, Start, Finished, vars

\* RecordEvent "adds the event to an async queue", from which events are
\* logged in the order they joined it, across sessions too; an event is lost
\* only when the queue has no room, and none is logged twice.
THEOREM Implements ==
    ASSUME Reporters = {}
    PROVE  Spec => KeepsPromise
<1>1. Init => Promise!Init
  <2> SUFFICES ASSUME Init PROVE Promise!Init
    OBVIOUS
  <2>1. batch[Logger] = <<>> /\ buffer = <<>> /\ <<>> \o <<>> = <<>>
    BY DEF Init, Flushers
  <2> QED
    BY <2>1 DEF Init, Promise!Init
<1>2. Inv /\ OrderInv /\ FreshInv /\ [Next]_vars => OrderInv' /\ FreshInv'
  BY OrderStep, FreshStep DEF Inv
<1>3. Inv /\ OrderInv /\ FreshInv /\ Inv' /\ [Next]_vars => [Promise!Next]_(Promise!vars)
  BY PromiseStep
<1> QED
  BY <1>1, <1>2, <1>3, OrderInit, FreshInit, Inductive, PTL
     DEF Spec, KeepsPromise, Promise!Spec

=============================================================================
