--------------------------- MODULE MainLoopProofs ---------------------------
(* Proofs about MainLoop, for all places of egresses and all periods.       *)
EXTENDS MainLoop, TLAPS

TimedEvents == {QuitTimeout, Purge} \cup {Flusher(i) : i \in Slots}
IdleEvents == {Idev(i) : i \in Slots}
SignalEvents == {OnHup, OnInt, Rotate}
Events == TimedEvents \cup IdleEvents \cup SignalEvents \cup {Fdev}
Times == 0..Bound

\* What the tables of a scheduler are, with the parameters of this module.
LEMMA TablesAre ==
  Tables =
    [table : SUBSET (Times \X TimedEvents),
     when : [TimedEvents -> Times \cup {Unset}],
     idleness : SUBSET IdleEvents,
     signo : [SignalEvents -> Signals \cup {NoSignal}],
     watching : SUBSET Signals,
     expecting : SUBSET {Fdev},
     queue : SUBSET Events]
BY DEF Tables, TimedEvents, IdleEvents, SignalEvents, Events, Times

\* No two events are the same.
LEMMA EventsDiffer ==
  /\ QuitTimeout # Purge
  /\ \A i \in Slots : Flusher(i) # QuitTimeout /\ Flusher(i) # Purge
  /\ OnHup # OnInt /\ OnHup # Rotate /\ OnInt # Rotate
  /\ SignalEvents \cap (TimedEvents \cup IdleEvents \cup {Fdev}) = {}
  /\ TimedEvents \cap (IdleEvents \cup {Fdev}) = {}
BY DEF QuitTimeout, Purge, Flusher, Idev, Fdev, OnHup, OnInt, Rotate,
       TimedEvents, IdleEvents, SignalEvents

\* Every period is among the times.
LEMMA PeriodsAreTimes ==
  /\ Bound \in Nat
  /\ {ReloadWait, QuitWait, PurgePeriod} \subseteq Times
  /\ 0..MaxFlush \subseteq Times
<1> DEFINE P == {ReloadWait, QuitWait, PurgePeriod, MaxFlush}
<1>1. P \subseteq Nat
  BY MainAssumption
<1>2. \E b \in P : \A c \in P : c <= b
  <2>1. PICK b1 \in {ReloadWait, QuitWait} : ReloadWait <= b1 /\ QuitWait <= b1
    BY <1>1
  <2>2. PICK b2 \in {b1, PurgePeriod} : b1 <= b2 /\ PurgePeriod <= b2
    BY <1>1, <2>1
  <2>3. PICK b3 \in {b2, MaxFlush} : b2 <= b3 /\ MaxFlush <= b3
    BY <1>1, <2>1, <2>2
  <2> QED BY <1>1, <2>1, <2>2, <2>3
<1>3. Bound \in P /\ \A c \in P : c <= Bound
  BY <1>2 DEF Bound
<1> QED BY <1>1, <1>3 DEF Times

----------------------------------------------------------------------------
\* What an event is in the tables for: a signal is watched exactly while it
\* has a handler.
Watched(s) == \A sig \in Signals : sig \in s.watching <=> Handlers(s, sig) # {}

\* A timed event that is set is in the table, and the timer of main() only
\* then.
Entered(s) ==
  /\ \A e \in TimedEvents : s.when[e] # Unset => <<s.when[e], e>> \in s.table
  /\ \A t \in Times : <<t, QuitTimeout>> \in s.table => s.when[QuitTimeout] = t

Sane(s) == s \in Tables /\ Watched(s) /\ Entered(s)

\* Nothing is changed but timed events and the queue.
SameSignals(s, u) ==
  u.signo = s.signo /\ u.watching = s.watching
SameQueue(s, u) == u.idleness = s.idleness /\ u.queue = s.queue
SameTimes(s, u) == u.table = s.table /\ u.when = s.when

InTable(s, e) == \E t \in Times : <<t, e>> \in s.table

\* The handlers of a signal are among the events for signals.
LEMMA HandlersAre ==
  \A s, sig : Handlers(s, sig) = {e \in SignalEvents : s.signo[e] = sig}
BY DEF Handlers, SignalEvents

\* Whether tables are sane does not depend on the queue, on idle events and
\* on descriptors.
LEMMA SaneKept ==
  ASSUME NEW s, NEW u \in Tables, Sane(s), SameSignals(s, u), SameTimes(s, u)
  PROVE  Sane(u)
BY DEF Sane, Watched, Entered, Handlers, SameSignals, SameTimes

\* Taking an event from the queue.
LEMMA DequeueFields ==
  ASSUME NEW s, Sane(s), NEW e
  PROVE  LET u == Dequeue(s, e) IN
         /\ Sane(u) /\ SameSignals(s, u) /\ SameTimes(s, u)
         /\ u.idleness = s.idleness /\ u.queue = s.queue \ {e}
<1> DEFINE u == Dequeue(s, e)
<1>1. /\ SameSignals(s, u) /\ SameTimes(s, u)
      /\ u.idleness = s.idleness /\ u.queue = s.queue \ {e}
  BY TablesAre DEF Sane, Dequeue, SameSignals, SameTimes
<1>2. u \in Tables
  BY TablesAre DEF Sane, Dequeue
<1> QED BY <1>1, <1>2, SaneKept

\* The constructor of a timed event other than the timer of main().
LEMMA TimedNewFields ==
  ASSUME NEW s, Sane(s), NEW e \in TimedEvents, e # QuitTimeout
  PROVE  LET u == TimedNew(s, e) IN
         /\ Sane(u) /\ SameSignals(s, u)
         /\ u.table = s.table /\ u.idleness = s.idleness /\ u.queue = s.queue
         /\ u.when[e] = Unset
         /\ \A f \in TimedEvents \ {e} : u.when[f] = s.when[f]
<1> DEFINE u == TimedNew(s, e)
<1>1. /\ SameSignals(s, u)
      /\ u.table = s.table /\ u.idleness = s.idleness /\ u.queue = s.queue
      /\ u.when[e] = Unset
      /\ \A f \in TimedEvents \ {e} : u.when[f] = s.when[f]
  BY TablesAre DEF Sane, TimedNew, SameSignals
<1>2. u \in Tables
  BY TablesAre DEF Sane, TimedNew
<1>3. QuitTimeout \in TimedEvents
  BY DEF TimedEvents
<1>4. Watched(u)
  BY <1>1 DEF Sane, Watched, Handlers, SameSignals
<1>5. Entered(u)
  BY <1>1, <1>3 DEF Sane, Entered
<1> QED BY <1>1, <1>2, <1>4, <1>5 DEF Sane

\* Setting a timed event disturbs no other.
LEMMA TimedSetFields ==
  ASSUME NEW s, Sane(s), NEW e \in TimedEvents, NEW t \in Times
  PROVE  LET u == TimedSet(s, e, t) IN
         /\ Sane(u) /\ SameSignals(s, u) /\ SameQueue(s, u)
         /\ u.when[e] = t /\ InTable(u, e)
         /\ \A f \in TimedEvents \ {e} :
              u.when[f] = s.when[f] /\ (InTable(s, f) => InTable(u, f))
<1> DEFINE u == TimedSet(s, e, t)
<1>0. t # Unset
  BY PeriodsAreTimes DEF Times, Unset
<1>1. CASE s.when[e] = t
  <2>1. u = s
    BY <1>1 DEF TimedSet
  <2>2. InTable(u, e)
    BY <1>0, <1>1, <2>1 DEF Sane, Entered, InTable
  <2> QED BY <1>1, <2>1, <2>2 DEF SameSignals, SameQueue
<1>2. CASE s.when[e] # t
  <2> DEFINE free == IF s.when[e] = Unset THEN s ELSE EraseTimed(s, e)
  <2>1. /\ free \in Tables /\ SameSignals(s, free)
        /\ free.idleness = s.idleness /\ free.queue = s.queue
        /\ free.when = s.when
        /\ free.table = IF s.when[e] = Unset THEN s.table
                        ELSE s.table \ {<<s.when[e], e>>}
    BY TablesAre DEF Sane, EraseTimed, SameSignals
  <2>2. u = [free EXCEPT !.when[e] = t, !.table = @ \cup {<<t, e>>}]
    BY <1>2 DEF TimedSet
  <2> HIDE DEF free
  <2>3. /\ SameSignals(s, u) /\ u.idleness = s.idleness /\ u.queue = s.queue
        /\ u.when = [s.when EXCEPT ![e] = t]
        /\ u.table = free.table \cup {<<t, e>>}
    BY <2>1, <2>2, TablesAre DEF SameSignals
  <2>4. u \in Tables
    <3> DEFINE w == [free.when EXCEPT ![e] = t]
                b == free.table \cup {<<t, e>>}
    <3>1. free.when \in [TimedEvents -> Times \cup {Unset}] /\ free.table \in SUBSET (Times \X TimedEvents)
      BY <2>1, TablesAre
    <3>2. w \in [TimedEvents -> Times \cup {Unset}] /\ b \in SUBSET (Times \X TimedEvents)
      BY <3>1
    <3>3. u = [free EXCEPT !.when = w, !.table = b]
      BY <2>2
    <3> HIDE DEF w, b
    <3> QED BY <2>1, <3>2, <3>3, TablesAre
  <2> HIDE DEF u
  <2>5. s.when \in [TimedEvents -> Times \cup {Unset}]
    BY TablesAre DEF Sane
  <2>6. /\ u.when[e] = t /\ <<t, e>> \in u.table
        /\ \A f \in TimedEvents \ {e} : u.when[f] = s.when[f]
    BY <2>3, <2>5
  <2>7. \A c, f : f # e => (<<c, f>> \in u.table <=> <<c, f>> \in s.table)
    BY <2>1, <2>3
  <2>8. Watched(u)
    BY <2>3 DEF Sane, Watched, Handlers, SameSignals
  <2>9. Entered(u)
    <3>1. \A f \in TimedEvents : u.when[f] # Unset => <<u.when[f], f>> \in u.table
      BY <2>6, <2>7 DEF Sane, Entered
    <3>2. ASSUME NEW c \in Times, <<c, QuitTimeout>> \in u.table
          PROVE  u.when[QuitTimeout] = c
      <4>0. QuitTimeout \in TimedEvents
        BY DEF TimedEvents
      <4>1. CASE e # QuitTimeout
        BY <2>6, <2>7, <3>2, <4>0, <4>1 DEF Sane, Entered
      <4>2. CASE e = QuitTimeout
        <5>1. <<c, e>> \notin s.table \/ c = s.when[e]
          BY <3>2, <4>2 DEF Sane, Entered
        <5>2. <<c, e>> \notin free.table
          BY <2>1, <5>1, PeriodsAreTimes DEF Times, Unset
        <5> QED BY <2>3, <2>6, <3>2, <4>2, <5>2
      <4> QED BY <4>1, <4>2
    <3> QED BY <3>1, <3>2 DEF Entered
  <2> QED BY <2>3, <2>4, <2>6, <2>7, <2>8, <2>9 DEF Sane, SameQueue, InTable, u
<1> QED BY <1>1, <1>2

\* Cancelling the timer of main().
LEMMA TimedCancelFields ==
  ASSUME NEW s, Sane(s)
  PROVE  LET u == TimedCancel(s, QuitTimeout) IN
         /\ Sane(u) /\ SameSignals(s, u)
         /\ u.idleness = s.idleness /\ u.queue = s.queue \ {QuitTimeout}
         /\ u.when[QuitTimeout] = Unset
         /\ \A f \in TimedEvents \ {QuitTimeout} :
              InTable(s, f) => InTable(u, f)
<1> DEFINE out == Dequeue(s, QuitTimeout)
            u == TimedCancel(s, QuitTimeout)
<1>1. /\ Sane(out) /\ SameSignals(s, out) /\ SameTimes(s, out)
      /\ out.idleness = s.idleness /\ out.queue = s.queue \ {QuitTimeout}
  BY DequeueFields
<1>2. CASE s.when[QuitTimeout] = Unset
  <2>1. u = out
    BY <1>2 DEF TimedCancel
  <2> QED BY <1>1, <1>2, <2>1 DEF SameTimes, InTable
<1>3. CASE s.when[QuitTimeout] # Unset
  <2> DEFINE b == out.table \ {<<s.when[QuitTimeout], QuitTimeout>>}
             w == [out.when EXCEPT ![QuitTimeout] = Unset]
  <2>1. u = [[out EXCEPT !.table = b] EXCEPT !.when[QuitTimeout] = Unset]
    BY <1>1, <1>3 DEF TimedCancel, EraseTimed, SameTimes
  <2>2. out.when \in [TimedEvents -> Times \cup {Unset}]
        /\ out.table \in SUBSET (Times \X TimedEvents)
    BY <1>1, TablesAre DEF Sane
  <2>3. w \in [TimedEvents -> Times \cup {Unset}]
        /\ b \in SUBSET (Times \X TimedEvents)
    BY <2>2
  <2>4. u = [[out EXCEPT !.table = b] EXCEPT !.when = w]
    BY <1>1, <2>1, TablesAre DEF Sane
  <2>5. QuitTimeout \in TimedEvents
    BY DEF TimedEvents
  <2>6. /\ w[QuitTimeout] = Unset
        /\ \A f \in TimedEvents \ {QuitTimeout} : w[f] = s.when[f]
    BY <1>1, <2>2, <2>5 DEF SameTimes
  <2>7. /\ \A c, f : f # QuitTimeout => (<<c, f>> \in b <=> <<c, f>> \in s.table)
        /\ \A c \in Times : <<c, QuitTimeout>> \notin b
    BY <1>1 DEF SameTimes, Sane, Entered
  <2> HIDE DEF out, b, w
  <2>8. /\ SameSignals(out, u) /\ u.table = b /\ u.when = w
        /\ u.idleness = out.idleness /\ u.queue = out.queue
    BY <1>1, <2>4, TablesAre DEF Sane, SameSignals
  <2>9. u \in Tables
    BY <1>1, <2>3, <2>4, TablesAre DEF Sane
  <2> HIDE DEF u
  <2>10. Watched(u)
    BY <1>1, <2>8 DEF Sane, Watched, Handlers, SameSignals
  <2>11. Entered(u)
    BY <2>6, <2>7, <2>8 DEF Sane, Entered
  <2> QED BY <1>1, <2>6, <2>7, <2>8, <2>9, <2>10, <2>11
          DEF Sane, SameSignals, InTable, u
<1> QED BY <1>2, <1>3

\* Setting an idle event.
LEMMA IdleSetFields ==
  ASSUME NEW s, Sane(s), NEW e \in IdleEvents
  PROVE  LET u == IdleSet(s, e) IN
         /\ Sane(u) /\ SameSignals(s, u) /\ SameTimes(s, u)
         /\ u.idleness = s.idleness \cup {e} /\ u.queue = s.queue \ {e}
<1> DEFINE a == [s EXCEPT !.idleness = @ \cup {e}]
<1>1. /\ a \in Tables /\ SameSignals(s, a) /\ SameTimes(s, a)
      /\ a.idleness = s.idleness \cup {e} /\ a.queue = s.queue
  BY TablesAre DEF Sane, SameSignals, SameTimes
<1>2. Sane(a) /\ IdleSet(s, e) = Dequeue(a, e)
  BY <1>1, SaneKept DEF IdleSet
<1> HIDE DEF a
<1> QED BY <1>1, <1>2, DequeueFields DEF SameSignals, SameTimes

\* Setting or cancelling the event of the connection's descriptor.
LEMMA DescriptorFields ==
  ASSUME NEW s, Sane(s), NEW u \in {DescriptorSet(s, Fdev), DescriptorCancel(s, Fdev)}
  PROVE  /\ Sane(u) /\ SameSignals(s, u) /\ SameTimes(s, u)
         /\ u.idleness = s.idleness /\ u.queue = s.queue \ {Fdev}
<1>1. ASSUME NEW x \in SUBSET {Fdev}, u = Dequeue([s EXCEPT !.expecting = x], Fdev)
      PROVE  /\ Sane(u) /\ SameSignals(s, u) /\ SameTimes(s, u)
             /\ u.idleness = s.idleness /\ u.queue = s.queue \ {Fdev}
  <2> DEFINE a == [s EXCEPT !.expecting = x]
  <2>1. /\ a \in Tables /\ SameSignals(s, a) /\ SameTimes(s, a)
        /\ a.idleness = s.idleness /\ a.queue = s.queue
    BY TablesAre DEF Sane, SameSignals, SameTimes
  <2>2. Sane(a) /\ u = Dequeue(a, Fdev)
    BY <1>1, <2>1, SaneKept
  <2> HIDE DEF a
  <2> QED BY <2>1, <2>2, DequeueFields DEF SameSignals, SameTimes
<1>2. s.expecting \in SUBSET {Fdev}
  BY TablesAre DEF Sane
<1>3. CASE u = DescriptorSet(s, Fdev)
  <2>1. u = Dequeue([s EXCEPT !.expecting = s.expecting \cup {Fdev}], Fdev)
    BY <1>3 DEF DescriptorSet
  <2> QED BY <1>1, <1>2, <2>1
<1>4. CASE u = DescriptorCancel(s, Fdev)
  <2>1. u = Dequeue([s EXCEPT !.expecting = s.expecting \ {Fdev}], Fdev)
    BY <1>4 DEF DescriptorCancel
  <2> QED BY <1>1, <1>2, <2>1
<1> QED BY <1>3, <1>4

\* Each event for signals is set for its own signal, or for none.
Own(s) ==
  /\ s.signo[OnHup] \in {"HUP", NoSignal}
  /\ s.signo[OnInt] \in {"INT", NoSignal}
  /\ s.signo[Rotate] \in {"USR1", NoSignal}

\* Setting the event of a signal, which until then had none or this one.
LEMMA SignalSetFields ==
  ASSUME NEW s, Sane(s), NEW e \in SignalEvents, NEW sig \in Signals,
         s.signo[e] \in {sig, NoSignal}
  PROVE  LET u == SignalSet(s, e, sig) IN
         /\ Sane(u) /\ SameTimes(s, u)
         /\ u.idleness = s.idleness /\ u.queue = s.queue
         /\ u.signo = [s.signo EXCEPT ![e] = sig]
<1> DEFINE u == SignalSet(s, e, sig)
<1>1. s.signo \in [SignalEvents -> Signals \cup {NoSignal}]
  BY TablesAre DEF Sane
<1>2. CASE s.signo[e] = sig
  BY <1>1, <1>2 DEF SignalSet, SameTimes
<1>3. CASE s.signo[e] # sig
  <2> DEFINE g == [s.signo EXCEPT ![e] = sig]
             a == [s EXCEPT !.signo = g]
             W == IF Handlers(a, sig) # {} THEN s.watching \cup {sig}
                  ELSE s.watching \ {sig}
  <2>1. g \in [SignalEvents -> Signals \cup {NoSignal}]
    BY <1>1
  <2>2. /\ a \in Tables /\ a.signo = g /\ a.watching = s.watching
        /\ SameTimes(s, a) /\ a.idleness = s.idleness /\ a.queue = s.queue
    BY <2>1, TablesAre DEF Sane, SameTimes
  <2>3. u = [a EXCEPT !.watching = W]
    BY <1>3, <2>2 DEF SignalSet, UpdateSignal
  <2>4. W \in SUBSET Signals
    BY TablesAre DEF Sane
  <2>5. \A x : x \in Handlers(a, sig) <=> x \in SignalEvents /\ g[x] = sig
    BY <2>2, HandlersAre
  <2>6. g[e] = sig /\ \A x \in SignalEvents \ {e} : g[x] = s.signo[x]
    BY <1>1
  <2>7. W = s.watching \cup {sig}
    BY <2>5, <2>6
  <2> HIDE DEF a, g, W
  <2>8. /\ u \in Tables /\ u.signo = g /\ u.watching = s.watching \cup {sig}
        /\ SameTimes(s, u) /\ u.idleness = s.idleness /\ u.queue = s.queue
    BY <2>2, <2>3, <2>4, <2>7, TablesAre DEF SameTimes
  <2> HIDE DEF u
  <2>9. Watched(u)
    <3>1. ASSUME NEW x \in Signals
          PROVE  x \in u.watching <=> Handlers(u, x) # {}
      <4>1. CASE x = sig
        BY <2>6, <2>8, <4>1, HandlersAre
      <4>2. CASE x # sig
        <5>1. Handlers(u, x) = Handlers(s, x)
          <6>1. s.signo[e] # x /\ g[e] # x
            BY <1>3, <2>6, <4>2 DEF NoSignal, Signals
          <6> QED BY <2>6, <2>8, <6>1, HandlersAre
        <5> QED BY <2>8, <4>2, <5>1 DEF Sane, Watched
      <4> QED BY <4>1, <4>2
    <3> QED BY <3>1 DEF Watched
  <2>10. Entered(u)
    BY <2>8 DEF Sane, Entered, SameTimes
  <2> QED BY <2>8, <2>9, <2>10 DEF Sane, u, g
<1> QED BY <1>2, <1>3

\* What a poll has collected is unset, and is in the queue.
LEMMA CollectFields ==
  ASSUME NEW s, Sane(s), NEW signals \in SUBSET Signals, NEW ready \in SUBSET s.expecting
  PROVE  LET u == Collect(s, signals, ready) IN
         /\ Sane(u)
         /\ u.idleness = {} /\ s.queue \cup s.idleness \subseteq u.queue
         /\ \A e \in SignalEvents :
              IF s.signo[e] \in signals THEN u.signo[e] = NoSignal /\ e \in u.queue
              ELSE u.signo[e] = s.signo[e]
         /\ \A e \in TimedEvents : InTable(s, e) => InTable(u, e) \/ e \in u.queue
         /\ u.when[QuitTimeout] # Unset => s.when[QuitTimeout] # Unset
         /\ s.when[QuitTimeout] # Unset =>
              u.when[QuitTimeout] # Unset \/ QuitTimeout \in u.queue
         /\ QuitTimeout \in u.queue =>
              QuitTimeout \in s.queue \/ s.when[QuitTimeout] # Unset
<1> DEFINE u == Collect(s, signals, ready)
           heard == {e \in SignalEvents : s.signo[e] \in signals}
           late == {e \in TimedEvents : <<0, e>> \in s.table}
           g == [e \in SignalEvents |-> IF e \in heard THEN NoSignal ELSE s.signo[e]]
           w == [e \in TimedEvents |-> IF e \in late THEN Unset ELSE s.when[e]]
           b == {r \in s.table : r[1] # 0}
           q == s.queue \cup (heard \cup ready \cup late \cup s.idleness)
           v == [s EXCEPT !.signo = g, !.watching = @ \ signals,
                          !.expecting = @ \ ready, !.when = w, !.table = b,
                          !.idleness = {}]
<1>1. u = [v EXCEPT !.queue = q]
  <2>1. s.signo \in [SignalEvents -> Signals \cup {NoSignal}]
        /\ s.when \in [TimedEvents -> Times \cup {Unset}]
    BY TablesAre DEF Sane
  <2>2. u = Enqueue(v, heard \cup ready \cup late \cup s.idleness)
    BY DEF Collect, SignalEvents, TimedEvents
  <2>3. v.queue = s.queue
    BY TablesAre DEF Sane
  <2> QED BY <2>2, <2>3 DEF Enqueue
<1>2. /\ s.signo \in [SignalEvents -> Signals \cup {NoSignal}]
      /\ s.when \in [TimedEvents -> Times \cup {Unset}]
      /\ s.table \in SUBSET (Times \X TimedEvents)
      /\ s.idleness \in SUBSET IdleEvents /\ s.queue \in SUBSET Events
      /\ s.expecting \in SUBSET {Fdev} /\ s.watching \in SUBSET Signals
  BY TablesAre DEF Sane
<1>3. /\ g \in [SignalEvents -> Signals \cup {NoSignal}]
      /\ w \in [TimedEvents -> Times \cup {Unset}]
      /\ b \in SUBSET (Times \X TimedEvents)
      /\ q \in SUBSET Events
  BY <1>2 DEF Events
<1>4. /\ \A e \in SignalEvents :
           g[e] = IF s.signo[e] \in signals THEN NoSignal ELSE s.signo[e]
      /\ \A e \in TimedEvents :
           w[e] = IF <<0, e>> \in s.table THEN Unset ELSE s.when[e]
  OBVIOUS
<1>5. \A c \in Times, e \in TimedEvents :
        <<c, e>> \in b <=> <<c, e>> \in s.table /\ c # 0
  OBVIOUS
<1>6. \A x : x \in q <=> \/ x \in s.queue \/ x \in s.idleness \/ x \in ready
                         \/ x \in SignalEvents /\ s.signo[x] \in signals
                         \/ x \in TimedEvents /\ <<0, x>> \in s.table
  OBVIOUS
<1> HIDE DEF g, w, b, q
<1>7. /\ u \in Tables /\ u.signo = g /\ u.watching = s.watching \ signals
      /\ u.when = w /\ u.table = b /\ u.idleness = {} /\ u.queue = q
  BY <1>1, <1>2, <1>3, TablesAre DEF Sane
<1> HIDE DEF u
<1>8. QuitTimeout \in TimedEvents /\ 0 \in Times /\ 0 # Unset
      /\ QuitTimeout \notin SignalEvents \cup IdleEvents \cup {Fdev}
  BY EventsDiffer, PeriodsAreTimes DEF TimedEvents, Times, Unset
<1>9. Watched(u)
  <2>1. ASSUME NEW sig \in Signals
        PROVE  sig \in u.watching <=> \E e \in SignalEvents : g[e] = sig
    <3>1. sig # NoSignal
      BY DEF Signals, NoSignal
    <3>2. sig \in s.watching <=> \E e \in SignalEvents : s.signo[e] = sig
      BY HandlersAre DEF Sane, Watched
    <3> QED BY <1>4, <1>7, <3>1, <3>2
  <2> QED BY <1>7, <2>1, HandlersAre DEF Watched
<1>10. Entered(u)
  <2>1. ASSUME NEW e \in TimedEvents, w[e] # Unset
        PROVE  <<w[e], e>> \in b
    <3>1. w[e] = s.when[e] /\ <<0, e>> \notin s.table
      BY <1>4, <2>1
    <3>2. <<w[e], e>> \in s.table /\ w[e] \in Times
      BY <1>2, <2>1, <3>1 DEF Sane, Entered
    <3> QED BY <1>5, <3>1, <3>2
  <2>2. ASSUME NEW c \in Times, <<c, QuitTimeout>> \in b
        PROVE  w[QuitTimeout] = c
    <3>1. <<c, QuitTimeout>> \in s.table /\ c # 0
      BY <1>5, <1>8, <2>2
    <3>2. s.when[QuitTimeout] = c /\ <<0, QuitTimeout>> \notin s.table
      BY <1>8, <3>1 DEF Sane, Entered
    <3> QED BY <1>4, <1>8, <3>2
  <2> QED BY <1>7, <2>1, <2>2 DEF Entered
<1>11. \A e \in TimedEvents : InTable(s, e) => InTable(u, e) \/ e \in u.queue
  BY <1>5, <1>6, <1>7 DEF InTable
<1>12. <<0, QuitTimeout>> \in s.table => s.when[QuitTimeout] # Unset
  BY <1>8 DEF Sane, Entered
<1>13. QuitTimeout \notin s.idleness \cup ready
  BY <1>2, <1>8
<1>14. s.queue \cup s.idleness \subseteq u.queue
  BY <1>6, <1>7
<1>15. \A e \in SignalEvents :
         IF s.signo[e] \in signals THEN u.signo[e] = NoSignal /\ e \in u.queue
         ELSE u.signo[e] = s.signo[e]
  BY <1>4, <1>6, <1>7
<1> QED BY <1>4, <1>6, <1>7, <1>8, <1>9, <1>10, <1>11, <1>12, <1>13, <1>14, <1>15
        DEF Sane, u

\* Time changes no more than times.
LEMMA ElapseFields ==
  ASSUME NEW s, Sane(s)
  PROVE  LET u == Elapse(s) IN
         /\ Sane(u) /\ SameSignals(s, u) /\ SameQueue(s, u)
         /\ (u.when[QuitTimeout] = Unset) = (s.when[QuitTimeout] = Unset)
         /\ \A e \in TimedEvents : InTable(s, e) => InTable(u, e)
<1> DEFINE u == Elapse(s)
           less(t) == IF t = Unset \/ t = 0 THEN t ELSE t - 1
           b == {<<less(r[1]), r[2]>> : r \in s.table}
           w == [e \in TimedEvents |-> less(s.when[e])]
<1>1. u = [s EXCEPT !.table = b, !.when = w]
  BY DEF Elapse, TimedEvents
<1>2. s.when \in [TimedEvents -> Times \cup {Unset}]
      /\ s.table \in SUBSET (Times \X TimedEvents)
  BY TablesAre DEF Sane
<1>3. /\ \A t \in Times : less(t) \in Times
      /\ less(Unset) = Unset /\ \A t \in Times : t # Unset /\ less(t) # Unset
  BY PeriodsAreTimes DEF Times, Unset
<1> HIDE DEF less
<1>4. w \in [TimedEvents -> Times \cup {Unset}] /\ b \in SUBSET (Times \X TimedEvents)
  BY <1>2, <1>3
<1>5. \A c, e : <<c, e>> \in b <=> \E d \in Times : c = less(d) /\ <<d, e>> \in s.table
  <2>1. \A r \in s.table : r = <<r[1], r[2]>> /\ r[1] \in Times
    BY <1>2
  <2>2. ASSUME NEW d, NEW e, <<d, e>> \in s.table
        PROVE  <<less(d), e>> \in b
    BY <2>2
  <2>3. ASSUME NEW c, NEW e, <<c, e>> \in b
        PROVE  \E d \in Times : c = less(d) /\ <<d, e>> \in s.table
    BY <2>1, <2>3
  <2> QED BY <2>2, <2>3
<1>6. \A e \in TimedEvents : w[e] = less(s.when[e])
  OBVIOUS
<1> HIDE DEF w, b
<1>7. /\ u \in Tables /\ u.table = b /\ u.when = w /\ SameSignals(s, u)
      /\ u.idleness = s.idleness /\ u.queue = s.queue
  BY <1>1, <1>4, TablesAre DEF Sane, SameSignals
<1> HIDE DEF u
<1>8. QuitTimeout \in TimedEvents
  BY DEF TimedEvents
<1>9. Watched(u)
  BY <1>7 DEF Sane, Watched, Handlers, SameSignals
<1>10. Entered(u)
  <2>1. ASSUME NEW e \in TimedEvents, w[e] # Unset
        PROVE  <<w[e], e>> \in b
    <3>1. s.when[e] \in Times
      BY <1>2, <1>3, <1>6, <2>1
    <3>2. <<s.when[e], e>> \in s.table
      BY <1>3, <3>1 DEF Sane, Entered
    <3> QED BY <1>5, <1>6, <3>1, <3>2
  <2>2. ASSUME NEW c \in Times, <<c, QuitTimeout>> \in b
        PROVE  w[QuitTimeout] = c
    <3>1. PICK d \in Times : c = less(d) /\ <<d, QuitTimeout>> \in s.table
      BY <1>5, <2>2
    <3>2. s.when[QuitTimeout] = d
      BY <3>1 DEF Sane, Entered
    <3> QED BY <1>6, <1>8, <3>1, <3>2
  <2> QED BY <1>7, <2>1, <2>2 DEF Entered
<1>11. \A e \in TimedEvents : InTable(s, e) => InTable(u, e)
  BY <1>3, <1>5, <1>7 DEF InTable
<1>12. u.when[QuitTimeout] = Unset <=> s.when[QuitTimeout] = Unset
  BY <1>2, <1>3, <1>6, <1>7, <1>8
<1> QED BY <1>7, <1>9, <1>10, <1>11, <1>12 DEF Sane, SameQueue, u

----------------------------------------------------------------------------
\* The variables have their types.
Kinds ==
  /\ Sane(sched) /\ Own(sched)
  /\ pending \in SUBSET Signals
  /\ phase \in {"loading", "polling", "handling", "leaving"} \cup Over
  /\ reload \in BOOLEAN /\ quit \in BOOLEAN /\ more \in BOOLEAN
  /\ awaiting \in BOOLEAN /\ listening \in BOOLEAN
  /\ slot \in Slots \cup {NoSlot}
  /\ conn \in {"none", "open", "hungup", "closed"}

\* What holds at each place of the loop.
Rounds ==
  /\ phase \in {"loading", "polling", "leaving"} => sched.queue = {}
  /\ phase \in {"polling", "handling", "leaving"} => slot \in Slots
  /\ phase = "loading" => conn = "none"
  /\ phase = "polling" => more

\* A signal that is not listened for has been heard.
Hears ==
  /\ phase \notin Over =>
       /\ sched.signo[Rotate] = "USR1" \/ Rotate \in sched.queue
       /\ sched.signo[OnInt] = "INT" \/ OnInt \in sched.queue \/ quit
  /\ phase \in {"polling", "handling"} =>
       \/ sched.signo[OnHup] = "HUP" \/ OnHup \in sched.queue
       \/ awaiting \/ (phase = "handling" /\ reload)

\* The timer is set or called just while main() waits for quiet.
Timed ==
  phase \in {"polling", "handling"} =>
    /\ sched.when[QuitTimeout] # Unset \/ QuitTimeout \in sched.queue => awaiting
    /\ awaiting => \/ sched.when[QuitTimeout] # Unset
                   \/ QuitTimeout \in sched.queue \/ ~more
    /\ ~more => awaiting

\* Purges and flushes are to come, and one soon if a connection has closed.
Housed ==
  phase \in {"polling", "handling"} =>
    /\ InTable(sched, Purge) \/ Purge \in sched.queue
    /\ InTable(sched, Flusher(slot)) \/ Flusher(slot) \in sched.queue
    /\ conn = "closed" => Idev(slot) \in sched.idleness \cup sched.queue

LoopInv == Kinds /\ Rounds /\ Hears /\ Timed /\ Housed

\* The events of main() and of the egress that there is are all different.
LEMMA EventsApart ==
  ASSUME NEW i \in Slots
  PROVE  /\ Flusher(i) \in TimedEvents /\ Idev(i) \in IdleEvents
         /\ QuitTimeout \in TimedEvents /\ Purge \in TimedEvents
         /\ {OnHup, OnInt, Rotate} \subseteq SignalEvents
         /\ \A e \in TimedEvents : e \notin IdleEvents \cup SignalEvents \cup {Fdev}
         /\ \A e \in IdleEvents : e \notin SignalEvents \cup {Fdev}
         /\ Fdev \notin SignalEvents
         /\ QuitTimeout # Purge
         /\ Flusher(i) # QuitTimeout /\ Flusher(i) # Purge
         /\ OnHup # OnInt /\ OnHup # Rotate /\ OnInt # Rotate
<1>1. IdleEvents \cap (SignalEvents \cup {Fdev}) = {}
  BY EventsDiffer DEF IdleEvents, SignalEvents, Idev, Fdev, OnHup, OnInt, Rotate
<1> QED BY <1>1, EventsDiffer DEF TimedEvents, IdleEvents, SignalEvents

\* The loop starts with SIGINT and SIGUSR1 awaited.
LEMMA LoopInit == Init => LoopInv
<1> SUFFICES ASSUME Init PROVE LoopInv
  OBVIOUS
<1> DEFINE a == NewTables
           b == SignalSet(a, OnInt, "INT")
           c == SignalSet(b, Rotate, "USR1")
<1>1. a = [table |-> {}, when |-> [e \in TimedEvents |-> Unset], idleness |-> {},
           signo |-> [e \in SignalEvents |-> NoSignal], watching |-> {},
           expecting |-> {}, queue |-> {}]
  BY DEF NewTables, TimedEvents, SignalEvents
<1>2. a \in Tables
  BY <1>1, TablesAre
<1>3. /\ \A e \in TimedEvents : a.when[e] = Unset
      /\ \A e \in SignalEvents : a.signo[e] = NoSignal
      /\ a.table = {} /\ a.watching = {} /\ a.queue = {} /\ a.idleness = {}
  BY <1>1
<1> HIDE DEF a
<1>4. Sane(a)
  <2>1. Watched(a)
    BY <1>3, HandlersAre DEF Watched, Signals, NoSignal
  <2>2. Entered(a)
    BY <1>3 DEF Entered
  <2> QED BY <1>2, <2>1, <2>2 DEF Sane
<1>5. PICK i : i \in Slots
  BY MainAssumption
<1>6. /\ {OnHup, OnInt, Rotate} \subseteq SignalEvents
      /\ OnHup # OnInt /\ OnHup # Rotate /\ OnInt # Rotate
  BY <1>5, EventsApart
<1>7. /\ a.signo \in [SignalEvents -> Signals \cup {NoSignal}]
      /\ Sane(b) /\ b.queue = {} /\ b.signo = [a.signo EXCEPT ![OnInt] = "INT"]
  BY <1>2, <1>3, <1>4, <1>6, TablesAre, SignalSetFields DEF Signals
<1> HIDE DEF b
<1>8. /\ b.signo[OnInt] = "INT" /\ b.signo[Rotate] = NoSignal
      /\ b.signo[OnHup] = NoSignal
      /\ b.signo \in [SignalEvents -> Signals \cup {NoSignal}]
  BY <1>3, <1>6, <1>7, TablesAre DEF Sane
<1>9. Sane(c) /\ c.queue = {} /\ c.signo = [b.signo EXCEPT ![Rotate] = "USR1"]
  BY <1>6, <1>7, <1>8, SignalSetFields DEF Signals
<1> HIDE DEF c
<1>10. c.signo[OnInt] = "INT" /\ c.signo[Rotate] = "USR1" /\ c.signo[OnHup] = NoSignal
  BY <1>6, <1>8, <1>9
<1>11. sched = c
  BY DEF Init, a, b, c
<1> QED BY <1>9, <1>10, <1>11
        DEF Init, LoopInv, Kinds, Rounds, Hears, Timed, Housed, Own, Over, Signals

----------------------------------------------------------------------------
\* A round begins with all its events set and the old timer gone.
LEMMA LoadStep == LoopInv /\ Load => LoopInv'
<1> SUFFICES ASSUME LoopInv, Load PROVE LoopInv'
  OBVIOUS
<1>1. slot' \in Slots
  BY DEF Load
<1> DEFINE a == SignalSet(sched, OnHup, "HUP")
           b == TimedNew(a, Purge)
           c == TimedSet(b, Purge, PurgePeriod)
           d == TimedNew(c, Flusher(slot'))
<1>2. PICK t \in 1..MaxFlush :
        sched' = TimedCancel(TimedSet(d, Flusher(slot'), t), QuitTimeout)
  BY DEF Load, AwaitHup, CancelTimeout
<1>3. t \in Times /\ PurgePeriod \in Times
  BY PeriodsAreTimes
<1>4. /\ Sane(sched) /\ Own(sched) /\ sched.queue = {} /\ phase = "loading"
      /\ conn = "none"
  BY DEF LoopInv, Kinds, Rounds, Load
<1>5. /\ Sane(a) /\ a.queue = {} /\ a.signo = [sched.signo EXCEPT ![OnHup] = "HUP"]
      /\ a.signo \in [SignalEvents -> Signals \cup {NoSignal}]
  BY <1>1, <1>4, EventsApart, SignalSetFields, TablesAre DEF Own, Signals, Sane
<1>20. /\ Purge \in TimedEvents /\ Flusher(slot') \in TimedEvents
       /\ QuitTimeout \in TimedEvents
       /\ Purge # QuitTimeout /\ Flusher(slot') # QuitTimeout /\ Flusher(slot') # Purge
  BY <1>1, EventsApart
<1> DEFINE e == TimedSet(d, Flusher(slot'), t)
<1> HIDE DEF b, c, d, e
<1>6. a.signo[OnHup] = "HUP" /\ \A x \in {OnInt, Rotate} : a.signo[x] = sched.signo[x]
  BY <1>1, <1>4, <1>5, EventsApart, TablesAre DEF Sane
<1> HIDE DEF a
<1>7. Sane(b) /\ b.queue = {} /\ SameSignals(a, b)
  BY <1>5, <1>20, TimedNewFields DEF b
<1>8. Sane(c) /\ c.queue = {} /\ SameSignals(b, c) /\ InTable(c, Purge)
  <2>1. Sane(c) /\ SameSignals(b, c) /\ SameQueue(b, c) /\ InTable(c, Purge)
    BY <1>3, <1>7, <1>20, TimedSetFields DEF c
  <2> QED BY <1>7, <2>1 DEF SameQueue
<1>9. Sane(d) /\ d.queue = {} /\ SameSignals(c, d) /\ InTable(d, Purge)
  BY <1>8, <1>20, TimedNewFields DEF d, InTable
<1>10. /\ Sane(e) /\ e.queue = {} /\ SameSignals(d, e)
       /\ InTable(e, Purge) /\ InTable(e, Flusher(slot'))
  <2>1. /\ Sane(e) /\ SameSignals(d, e) /\ SameQueue(d, e)
        /\ InTable(e, Purge) /\ InTable(e, Flusher(slot'))
    BY <1>3, <1>9, <1>20, TimedSetFields DEF e
  <2> QED BY <1>9, <2>1 DEF SameQueue
<1>11. sched' = TimedCancel(e, QuitTimeout)
  BY <1>2 DEF e
<1>12. /\ Sane(sched') /\ sched'.queue = {} /\ SameSignals(e, sched')
       /\ InTable(sched', Purge) /\ InTable(sched', Flusher(slot'))
       /\ sched'.when[QuitTimeout] = Unset
  BY <1>10, <1>11, <1>20, TimedCancelFields
<1>13. sched'.signo = a.signo
  BY <1>7, <1>8, <1>9, <1>10, <1>12 DEF SameSignals
<1>14. Kinds'
  BY <1>1, <1>4, <1>6, <1>12, <1>13 DEF LoopInv, Kinds, Own, Load
<1>15. Rounds'
  BY <1>1, <1>4, <1>12 DEF Rounds, Load
<1>16. Hears'
  BY <1>4, <1>6, <1>13 DEF LoopInv, Hears, Load, Over
<1>17. Timed'
  BY <1>12 DEF Timed, Load
<1>18. Housed'
  BY <1>4, <1>12 DEF Housed, Load
<1> QED BY <1>14, <1>15, <1>16, <1>17, <1>18 DEF LoopInv

\* A poll puts in the queue whatever it unsets.
LEMMA PollStep == LoopInv /\ Poll => LoopInv'
<1> SUFFICES ASSUME LoopInv, Poll PROVE LoopInv'
  OBVIOUS
<1> DEFINE heard == pending \cap sched.watching
           ready == IF conn = "hungup" THEN sched.expecting ELSE {}
<1>1. /\ sched' = Collect(sched, heard, ready)
      /\ heard \in SUBSET Signals /\ ready \in SUBSET sched.expecting
  BY DEF Poll, LoopInv, Kinds
<1> HIDE DEF heard, ready
<1>2. Sane(sched) /\ Own(sched) /\ phase = "polling" /\ slot \in Slots /\ more
      /\ sched.queue = {}
  BY DEF LoopInv, Kinds, Rounds, Poll
<1> DEFINE u == Collect(sched, heard, ready)
<1>0. /\ Sane(u)
      /\ u.idleness = {} /\ sched.queue \cup sched.idleness \subseteq u.queue
      /\ \A e \in SignalEvents :
           IF sched.signo[e] \in heard THEN u.signo[e] = NoSignal /\ e \in u.queue
           ELSE u.signo[e] = sched.signo[e]
      /\ \A e \in TimedEvents :
           InTable(sched, e) => InTable(u, e) \/ e \in u.queue
      /\ u.when[QuitTimeout] # Unset => sched.when[QuitTimeout] # Unset
      /\ sched.when[QuitTimeout] # Unset =>
           u.when[QuitTimeout] # Unset \/ QuitTimeout \in u.queue
      /\ QuitTimeout \in u.queue =>
           QuitTimeout \in sched.queue \/ sched.when[QuitTimeout] # Unset
  BY <1>1, <1>2, CollectFields
<1> HIDE DEF u
<1>3. /\ Sane(sched')
      /\ sched.idleness \subseteq sched'.queue
      /\ \A e \in SignalEvents :
           \/ sched'.signo[e] = NoSignal /\ e \in sched'.queue
           \/ sched'.signo[e] = sched.signo[e]
      /\ \A e \in TimedEvents :
           InTable(sched, e) => InTable(sched', e) \/ e \in sched'.queue
      /\ sched'.when[QuitTimeout] # Unset \/ QuitTimeout \in sched'.queue =>
           sched.when[QuitTimeout] # Unset
      /\ sched.when[QuitTimeout] # Unset =>
           sched'.when[QuitTimeout] # Unset \/ QuitTimeout \in sched'.queue
  <2>1. sched' = u
    BY <1>1 DEF u
  <2> QED BY <1>0, <1>2, <2>1
<1>4. /\ {OnHup, OnInt, Rotate} \subseteq SignalEvents
      /\ {Purge, Flusher(slot)} \subseteq TimedEvents
  BY <1>2, EventsApart
<1>5. /\ phase' = "handling" /\ UNCHANGED <<flags, egressVars>>
      /\ pending' \in SUBSET Signals
  BY DEF Poll, LoopInv, Kinds
<1>6. Kinds'
  BY <1>2, <1>3, <1>4, <1>5 DEF LoopInv, Kinds, Own, flags, egressVars
<1>7. Rounds'
  BY <1>2, <1>5 DEF Rounds, flags, egressVars
<1>8. Hears'
  BY <1>2, <1>3, <1>4, <1>5 DEF LoopInv, Hears, Over, flags, egressVars
<1>9. Timed'
  BY <1>2, <1>3, <1>5 DEF LoopInv, Timed, flags, egressVars
<1>10. Housed'
  BY <1>2, <1>3, <1>4, <1>5 DEF LoopInv, Housed, flags, egressVars
<1> QED BY <1>6, <1>7, <1>8, <1>9, <1>10 DEF LoopInv

\* An event is taken from the queue for its handler.
LEMMA TurnTaken ==
  ASSUME LoopInv, NEW e, Turn(e)
  PROVE  LET u == Dequeue(sched, e) IN
         /\ Sane(u) /\ SameSignals(sched, u) /\ SameTimes(sched, u)
         /\ u.idleness = sched.idleness /\ u.queue = sched.queue \ {e}
         /\ phase = "handling" /\ phase' = "handling" /\ pending' = pending
         /\ slot \in Slots
BY DequeueFields DEF LoopInv, Kinds, Rounds, Turn

\* The handlers of main() for signals that it notes.
LEMMA NoteStep == LoopInv /\ (HandleHup \/ HandleInt) => LoopInv'
<1> SUFFICES ASSUME LoopInv, NEW e \in {OnHup, OnInt}, Turn(e),
                    sched' = Dequeue(sched, e),
                    IF e = OnHup THEN reload' /\ quit' = quit
                    ELSE quit' /\ reload' = reload,
                    reload' \in BOOLEAN, quit' \in BOOLEAN,
                    UNCHANGED <<more, awaiting, egressVars>>
             PROVE  LoopInv'
  <2>1. OnHup # OnInt
    BY EventsDiffer
  <2> QED BY <2>1 DEF HandleHup, HandleInt, LoopInv, Kinds
<1>1. /\ Sane(sched') /\ SameSignals(sched, sched') /\ SameTimes(sched, sched')
      /\ sched'.idleness = sched.idleness /\ sched'.queue = sched.queue \ {e}
      /\ phase = "handling" /\ phase' = "handling" /\ pending' = pending
      /\ slot \in Slots
  BY TurnTaken
<1>2. /\ e \notin {Rotate, QuitTimeout, Purge, Flusher(slot), Idev(slot)}
      /\ OnHup # OnInt
  BY <1>1, EventsApart
<1>3. Kinds'
  BY <1>1 DEF LoopInv, Kinds, Own, SameSignals, egressVars
<1>4. Rounds'
  BY <1>1 DEF Rounds, egressVars
<1>5. Hears'
  BY <1>1, <1>2 DEF LoopInv, Hears, SameSignals, Over
<1>6. Timed'
  BY <1>1, <1>2 DEF LoopInv, Timed, SameTimes
<1>7. Housed'
  BY <1>1, <1>2 DEF LoopInv, Housed, SameTimes, InTable, egressVars
<1> QED BY <1>3, <1>4, <1>5, <1>6, <1>7 DEF LoopInv

\* SIGUSR1 is awaited again after each.
LEMMA RotateStep == LoopInv /\ HandleRotate => LoopInv'
<1> SUFFICES ASSUME LoopInv, HandleRotate PROVE LoopInv'
  OBVIOUS
<1> DEFINE d == Dequeue(sched, Rotate)
<1>1. /\ Sane(d) /\ SameSignals(sched, d) /\ SameTimes(sched, d)
      /\ d.idleness = sched.idleness /\ d.queue = sched.queue \ {Rotate}
      /\ phase = "handling" /\ phase' = "handling" /\ pending' = pending
      /\ slot \in Slots
  BY TurnTaken DEF HandleRotate
<1>2. sched' = SignalSet(d, Rotate, "USR1") /\ UNCHANGED <<flags, egressVars>>
  BY DEF HandleRotate, RotateAgain
<1> HIDE DEF d
<1>3. Rotate \in SignalEvents /\ Rotate # OnHup /\ Rotate # OnInt
      /\ Rotate \notin {QuitTimeout, Purge, Flusher(slot), Idev(slot)}
      /\ OnHup \in SignalEvents /\ OnInt \in SignalEvents
  BY <1>1, EventsApart
<1>4. d.signo[Rotate] \in {"USR1", NoSignal}
      /\ d.signo \in [SignalEvents -> Signals \cup {NoSignal}]
  BY <1>1, TablesAre DEF LoopInv, Kinds, Own, SameSignals, Sane
<1>5. /\ Sane(sched') /\ SameTimes(d, sched')
      /\ sched'.idleness = d.idleness /\ sched'.queue = d.queue
      /\ sched'.signo = [d.signo EXCEPT ![Rotate] = "USR1"]
  BY <1>1, <1>2, <1>3, <1>4, SignalSetFields DEF Signals
<1>6. /\ sched'.signo[Rotate] = "USR1"
      /\ sched'.signo[OnHup] = sched.signo[OnHup]
      /\ sched'.signo[OnInt] = sched.signo[OnInt]
  BY <1>1, <1>3, <1>4, <1>5 DEF SameSignals
<1>7. Kinds'
  BY <1>1, <1>2, <1>5, <1>6 DEF LoopInv, Kinds, Own, flags, egressVars
<1>8. Rounds'
  BY <1>1, <1>2 DEF Rounds, egressVars
<1>9. Hears'
  BY <1>1, <1>2, <1>3, <1>5, <1>6 DEF LoopInv, Hears, flags, Over
<1>10. Timed'
  BY <1>1, <1>2, <1>3, <1>5 DEF LoopInv, Timed, SameTimes, flags
<1>11. Housed'
  BY <1>1, <1>2, <1>3, <1>5 DEF LoopInv, Housed, SameTimes, InTable, egressVars
<1> QED BY <1>7, <1>8, <1>9, <1>10, <1>11 DEF LoopInv

\* The timer ends the round.
LEMMA TimeoutStep == LoopInv /\ HandleQuitTimeout => LoopInv'
<1> SUFFICES ASSUME LoopInv, HandleQuitTimeout PROVE LoopInv'
  OBVIOUS
<1>1. /\ Sane(sched') /\ SameSignals(sched, sched') /\ SameTimes(sched, sched')
      /\ sched'.idleness = sched.idleness
      /\ sched'.queue = sched.queue \ {QuitTimeout}
      /\ phase = "handling" /\ phase' = "handling" /\ pending' = pending
      /\ slot \in Slots
  BY TurnTaken DEF HandleQuitTimeout
<1>2. /\ QuitTimeout \notin {OnHup, OnInt, Rotate, Purge, Flusher(slot), Idev(slot)}
  BY <1>1, EventsApart
<1>3. QuitTimeout \in sched.queue /\ more' = FALSE
      /\ UNCHANGED <<reload, quit, awaiting, egressVars>>
  BY DEF HandleQuitTimeout, Turn
<1>4. Kinds'
  BY <1>1, <1>3 DEF LoopInv, Kinds, Own, SameSignals, egressVars
<1>5. Rounds'
  BY <1>1, <1>3 DEF Rounds, egressVars
<1>6. Hears'
  BY <1>1, <1>2, <1>3 DEF LoopInv, Hears, SameSignals, Over
<1>7. Timed'
  BY <1>1, <1>3 DEF LoopInv, Timed, SameTimes
<1>8. Housed'
  BY <1>1, <1>2, <1>3 DEF LoopInv, Housed, SameTimes, InTable, egressVars
<1> QED BY <1>4, <1>5, <1>6, <1>7, <1>8 DEF LoopInv

\* A purge arranges the next.
LEMMA PurgeStep == LoopInv /\ HandlePurge => LoopInv'
<1> SUFFICES ASSUME LoopInv, HandlePurge PROVE LoopInv'
  OBVIOUS
<1> DEFINE d == Dequeue(sched, Purge)
<1>1. /\ Sane(d) /\ SameSignals(sched, d) /\ SameTimes(sched, d)
      /\ d.idleness = sched.idleness /\ d.queue = sched.queue \ {Purge}
      /\ phase = "handling" /\ phase' = "handling" /\ pending' = pending
      /\ slot \in Slots
  BY TurnTaken DEF HandlePurge
<1>2. sched' = TimedSet(d, Purge, PurgePeriod) /\ UNCHANGED <<flags, egressVars>>
  BY DEF HandlePurge
<1> HIDE DEF d
<1>3. /\ Purge \in TimedEvents /\ QuitTimeout \in TimedEvents
      /\ Flusher(slot) \in TimedEvents
      /\ Purge \notin {OnHup, OnInt, Rotate, QuitTimeout, Flusher(slot), Idev(slot)}
  BY <1>1, EventsApart
<1>4. /\ Sane(sched') /\ SameSignals(d, sched') /\ SameQueue(d, sched')
      /\ InTable(sched', Purge)
      /\ \A f \in TimedEvents \ {Purge} :
           sched'.when[f] = d.when[f] /\ (InTable(d, f) => InTable(sched', f))
  <2>1. PurgePeriod \in Times
    BY PeriodsAreTimes
  <2> QED BY <1>1, <1>2, <1>3, <2>1, TimedSetFields
<1>5. Kinds'
  BY <1>1, <1>2, <1>4 DEF LoopInv, Kinds, Own, SameSignals, flags, egressVars
<1>6. Rounds'
  BY <1>1, <1>2 DEF Rounds, egressVars
<1>7. Hears'
  BY <1>1, <1>2, <1>3, <1>4 DEF LoopInv, Hears, SameSignals, SameQueue, flags, Over
<1>8. Timed'
  BY <1>1, <1>2, <1>3, <1>4 DEF LoopInv, Timed, SameTimes, SameQueue, flags
<1>9. Housed'
  BY <1>1, <1>2, <1>3, <1>4
     DEF LoopInv, Housed, SameTimes, SameQueue, InTable, egressVars
<1> QED BY <1>5, <1>6, <1>7, <1>8, <1>9 DEF LoopInv

\* A flush arranges the next one, and leaves no closed connection.
LEMMA FlushFields ==
  ASSUME NEW s, Sane(s), slot \in Slots, Flush(s)
  PROVE  /\ Sane(sched') /\ SameSignals(s, sched') /\ SameQueue(s, sched')
         /\ InTable(sched', Flusher(slot))
         /\ \A f \in TimedEvents \ {Flusher(slot)} :
              sched'.when[f] = s.when[f] /\ (InTable(s, f) => InTable(sched', f))
         /\ conn' = IF conn = "closed" THEN "none" ELSE conn
<1>1. PICK t \in Times : sched' = TimedSet(s, Flusher(slot), t)
  BY PeriodsAreTimes DEF Flush
<1>2. Flusher(slot) \in TimedEvents
  BY EventsApart
<1>3. conn' = IF conn = "closed" THEN "none" ELSE conn
  BY DEF Flush
<1> QED BY <1>1, <1>2, <1>3, TimedSetFields

\* The egress flushes when its timer or its idle event is called.
LEMMA FlushStep == LoopInv /\ HandleFlush => LoopInv'
<1> SUFFICES ASSUME LoopInv, NEW e \in {Flusher(slot), Idev(slot)}, Turn(e),
                    Flush(Dequeue(sched, e)), UNCHANGED <<flags, slot, listening>>
             PROVE  LoopInv'
  BY DEF HandleFlush
<1> DEFINE d == Dequeue(sched, e)
<1>1. /\ Sane(d) /\ SameSignals(sched, d) /\ SameTimes(sched, d)
      /\ d.idleness = sched.idleness /\ d.queue = sched.queue \ {e}
      /\ phase = "handling" /\ phase' = "handling" /\ pending' = pending
      /\ slot \in Slots
  BY TurnTaken
<1>2. /\ Sane(sched') /\ SameSignals(d, sched') /\ SameQueue(d, sched')
      /\ InTable(sched', Flusher(slot))
      /\ \A f \in TimedEvents \ {Flusher(slot)} :
           sched'.when[f] = d.when[f] /\ (InTable(d, f) => InTable(sched', f))
      /\ conn' = IF conn = "closed" THEN "none" ELSE conn
  BY <1>1, FlushFields
<1> HIDE DEF d
<1>3. /\ Purge \in TimedEvents \ {Flusher(slot)}
      /\ QuitTimeout \in TimedEvents \ {Flusher(slot)}
      /\ e \notin {OnHup, OnInt, Rotate, QuitTimeout, Purge}
  BY <1>1, EventsApart
<1>4. Kinds'
  BY <1>1, <1>2 DEF LoopInv, Kinds, Own, SameSignals, flags
<1>5. Rounds'
  BY <1>1 DEF Rounds
<1>6. Hears'
  BY <1>1, <1>2, <1>3 DEF LoopInv, Hears, SameSignals, SameQueue, flags, Over
<1>7. Timed'
  BY <1>1, <1>2, <1>3 DEF LoopInv, Timed, SameTimes, SameQueue, flags
<1>8. Housed'
  BY <1>1, <1>2, <1>3 DEF LoopInv, Housed, SameTimes, SameQueue, InTable
<1> QED BY <1>4, <1>5, <1>6, <1>7, <1>8 DEF LoopInv

\* The end of a stream asks for a flush.
LEMMA InputStep == LoopInv /\ HandleInput => LoopInv'
<1> SUFFICES ASSUME LoopInv, HandleInput PROVE LoopInv'
  OBVIOUS
<1> DEFINE d == Dequeue(sched, Fdev)
           c == DescriptorCancel(d, Fdev)
<1>1. /\ Sane(d) /\ SameSignals(sched, d) /\ SameTimes(sched, d)
      /\ d.idleness = sched.idleness /\ d.queue = sched.queue \ {Fdev}
      /\ phase = "handling" /\ phase' = "handling" /\ pending' = pending
      /\ slot \in Slots
  BY TurnTaken DEF HandleInput
<1>2. sched' = IdleSet(c, Idev(slot)) /\ conn' = "closed"
      /\ UNCHANGED <<flags, slot, listening>>
  BY DEF HandleInput, FlushSoon
<1> HIDE DEF d
<1>3. /\ Sane(c) /\ SameSignals(d, c) /\ SameTimes(d, c)
      /\ c.idleness = d.idleness /\ c.queue = d.queue \ {Fdev}
  BY <1>1, DescriptorFields
<1> HIDE DEF c
<1>4. /\ Sane(sched') /\ SameSignals(c, sched') /\ SameTimes(c, sched')
      /\ sched'.idleness = c.idleness \cup {Idev(slot)}
      /\ sched'.queue = c.queue \ {Idev(slot)}
  BY <1>1, <1>2, <1>3, EventsApart, IdleSetFields
<1>5. \A x \in {OnHup, OnInt, Rotate, QuitTimeout, Purge, Flusher(slot)} :
        x # Fdev /\ x # Idev(slot)
  BY <1>1, EventsApart
<1>6. Kinds'
  BY <1>1, <1>2, <1>3, <1>4 DEF LoopInv, Kinds, Own, SameSignals, flags
<1>7. Rounds'
  BY <1>1, <1>2 DEF Rounds
<1>8. Hears'
  BY <1>1, <1>2, <1>3, <1>4, <1>5 DEF LoopInv, Hears, SameSignals, flags, Over
<1>9. Timed'
  BY <1>1, <1>2, <1>3, <1>4, <1>5 DEF LoopInv, Timed, SameTimes, flags
<1>10. Housed'
  BY <1>1, <1>2, <1>3, <1>4, <1>5 DEF LoopInv, Housed, SameTimes, InTable
<1> QED BY <1>6, <1>7, <1>8, <1>9, <1>10 DEF LoopInv

\* What is left of an egress that is gone is none of the others' events, and
\* neither is what it sets.
LEMMA DanglingStep == LoopInv /\ HandleDangling => LoopInv'
<1> SUFFICES ASSUME LoopInv, HandleDangling PROVE LoopInv'
  OBVIOUS
<1>a. PICK i \in Slots \ {slot} : \E e \in {Flusher(i), Idev(i)} \cap sched.queue :
        /\ phase = "handling" /\ phase' \in {"handling", "died"}
        /\ \/ sched' = Dequeue(sched, e)
           \/ \E t \in 0..MaxFlush : sched' = TimedSet(Dequeue(sched, e), Flusher(i), t)
        /\ UNCHANGED <<pending, flags, egressVars>>
  BY DEF HandleDangling
<1>0. PICK e \in {Flusher(i), Idev(i)} \cap sched.queue :
        /\ phase = "handling" /\ phase' \in {"handling", "died"}
        /\ \/ sched' = Dequeue(sched, e)
           \/ \E t \in 0..MaxFlush : sched' = TimedSet(Dequeue(sched, e), Flusher(i), t)
        /\ UNCHANGED <<pending, flags, egressVars>>
  BY <1>a
<1> DEFINE d == Dequeue(sched, e)
<1>1. /\ Sane(d) /\ SameSignals(sched, d) /\ SameTimes(sched, d)
      /\ d.idleness = sched.idleness /\ d.queue = sched.queue \ {e}
      /\ slot \in Slots
  BY <1>0, DequeueFields DEF LoopInv, Kinds, Rounds
<1>2. /\ e \notin {OnHup, OnInt, Rotate, QuitTimeout, Purge, Flusher(slot), Idev(slot)}
      /\ Flusher(i) \notin {QuitTimeout, Purge, Flusher(slot)}
      /\ {Purge, QuitTimeout, Flusher(slot)} \subseteq TimedEvents
  <2>1. {Purge, QuitTimeout, Flusher(slot)} \subseteq TimedEvents
    BY <1>1, EventsApart
  <2>2. i # slot /\ (e = Flusher(i) \/ e = Idev(i))
    OBVIOUS
  <2>3. Flusher(i) \notin {OnHup, OnInt, Rotate, QuitTimeout, Purge, Flusher(slot), Idev(slot)}
    BY <2>2 DEF OnHup, OnInt, Rotate, QuitTimeout, Purge, Flusher, Idev
  <2>4. Idev(i) \notin {OnHup, OnInt, Rotate, QuitTimeout, Purge, Flusher(slot), Idev(slot)}
    BY <2>2 DEF OnHup, OnInt, Rotate, QuitTimeout, Purge, Flusher, Idev
  <2> QED BY <2>1, <2>2, <2>3, <2>4
<1> HIDE DEF d
<1>3. /\ Sane(sched') /\ SameSignals(d, sched') /\ SameQueue(d, sched')
      /\ \A f \in {Purge, QuitTimeout, Flusher(slot)} :
           sched'.when[f] = d.when[f] /\ (InTable(d, f) => InTable(sched', f))
  <2>1. CASE sched' = d
    BY <1>1, <2>1 DEF SameSignals, SameQueue
  <2>2. ASSUME NEW t \in 0..MaxFlush, sched' = TimedSet(d, Flusher(i), t)
        PROVE  /\ Sane(sched') /\ SameSignals(d, sched') /\ SameQueue(d, sched')
               /\ \A f \in {Purge, QuitTimeout, Flusher(slot)} :
                    sched'.when[f] = d.when[f] /\ (InTable(d, f) => InTable(sched', f))
    <3>1. t \in Times /\ Flusher(i) \in TimedEvents
      BY PeriodsAreTimes, EventsApart
    <3> QED BY <1>1, <1>2, <2>2, <3>1, TimedSetFields
  <2> QED BY <1>0, <2>1, <2>2 DEF d
<1>4. Kinds'
  BY <1>0, <1>1, <1>3 DEF LoopInv, Kinds, Own, SameSignals, flags, egressVars, Over
<1>5. Rounds'
  BY <1>0, <1>1 DEF Rounds, egressVars
<1>6. Hears'
  BY <1>0, <1>1, <1>2, <1>3 DEF LoopInv, Hears, SameSignals, SameQueue, flags, Over
<1>7. Timed'
  BY <1>0, <1>1, <1>2, <1>3 DEF LoopInv, Timed, SameTimes, SameQueue, flags
<1>8. Housed'
  BY <1>0, <1>1, <1>2, <1>3
     DEF LoopInv, Housed, SameTimes, SameQueue, InTable, egressVars
<1> QED BY <1>4, <1>5, <1>6, <1>7, <1>8 DEF LoopInv

\* The timer that Wait() sets, if it sets one.
LEMMA WaitFields ==
  ASSUME NEW s, Sane(s), NEW quitting \in BOOLEAN, NEW reloading \in BOOLEAN
  PROVE  LET u == Wait(s, quitting, reloading) IN
         /\ Sane(u) /\ SameSignals(s, u) /\ SameQueue(s, u)
         /\ quitting \/ reloading => u.when[QuitTimeout] # Unset
         /\ ~quitting /\ ~reloading => u = s
         /\ \A f \in TimedEvents \ {QuitTimeout} : InTable(s, f) => InTable(u, f)
<1>1. QuitTimeout \in TimedEvents /\ ReloadWait \in Times /\ QuitWait \in Times
      /\ \A t \in Times : t # Unset
  BY PeriodsAreTimes DEF TimedEvents, Times, Unset
<1> DEFINE u == Wait(s, quitting, reloading)
<1>2. ASSUME NEW t \in Times, u = TimedSet(s, QuitTimeout, t)
      PROVE  /\ Sane(u) /\ SameSignals(s, u) /\ SameQueue(s, u)
             /\ u.when[QuitTimeout] # Unset
             /\ \A f \in TimedEvents \ {QuitTimeout} : InTable(s, f) => InTable(u, f)
  <2> HIDE DEF u
  <2> QED BY <1>1, <1>2, TimedSetFields
<1>3. CASE quitting
  BY <1>1, <1>2, <1>3 DEF Wait
<1>4. CASE ~quitting /\ reloading
  BY <1>1, <1>2, <1>4 DEF Wait
<1>5. CASE ~quitting /\ ~reloading
  <2>1. u = s
    BY <1>5 DEF Wait
  <2> QED BY <1>5, <2>1 DEF SameSignals, SameQueue
<1> QED BY <1>3, <1>4, <1>5

\* What main() decides leaves it asleep only with a timer running, if it
\* waits for quiet.
LEMMA DecideStep == LoopInv /\ Decide => LoopInv'
<1> SUFFICES ASSUME LoopInv, Decide PROVE LoopInv'
  OBVIOUS
<1> DEFINE quitting == quit /\ sched.when[QuitTimeout] = Unset
           reloading == ~quit /\ reload
           w == Wait(sched, quitting, reloading)
<1>1. /\ Sane(sched) /\ Own(sched) /\ phase = "handling" /\ sched.queue = {}
      /\ slot \in Slots /\ quit \in BOOLEAN /\ reload \in BOOLEAN
      /\ more \in BOOLEAN /\ awaiting \in BOOLEAN /\ listening \in BOOLEAN
      /\ conn \in {"none", "open", "hungup", "closed"}
      /\ pending \in SUBSET Signals
  BY DEF LoopInv, Kinds, Rounds, Decide
<1>2. quitting \in BOOLEAN /\ reloading \in BOOLEAN
  BY <1>1
<1>3. /\ listening' \in BOOLEAN /\ reload' = (reload /\ ~reloading)
      /\ awaiting' = (awaiting \/ quitting \/ reloading)
      /\ \/ awaiting' /\ Flush(w) /\ more' = (more /\ conn' # "none")
         \/ ~awaiting' /\ sched' = w /\ UNCHANGED <<conn, more>>
      /\ phase' = IF more' THEN "polling" ELSE "leaving"
      /\ UNCHANGED <<pending, quit, slot>>
  BY <1>1 DEF Decide
<1>4. /\ Sane(w) /\ SameSignals(sched, w) /\ SameQueue(sched, w)
      /\ quitting \/ reloading => w.when[QuitTimeout] # Unset
      /\ ~quitting /\ ~reloading => w = sched
      /\ \A f \in TimedEvents \ {QuitTimeout} : InTable(sched, f) => InTable(w, f)
  BY <1>1, <1>2, WaitFields
<1> HIDE DEF w
<1>5. /\ Purge \in TimedEvents \ {QuitTimeout, Flusher(slot)}
      /\ QuitTimeout \in TimedEvents \ {Flusher(slot)}
      /\ Flusher(slot) \in TimedEvents \ {QuitTimeout}
  BY <1>1, EventsApart
<1>6. /\ Sane(sched') /\ SameSignals(w, sched') /\ SameQueue(w, sched')
      /\ sched'.when[QuitTimeout] = w.when[QuitTimeout]
      /\ InTable(w, Purge) => InTable(sched', Purge)
      /\ InTable(w, Flusher(slot)) => InTable(sched', Flusher(slot))
      /\ conn' = conn \/ conn' = "none"
      /\ conn' = "closed" => conn = "closed"
  <2>1. CASE Flush(w)
    BY <1>1, <1>4, <1>5, <2>1, FlushFields
  <2>2. CASE sched' = w /\ conn' = conn
    BY <1>4, <2>2 DEF SameSignals, SameQueue
  <2> QED BY <1>3, <2>1, <2>2
<1>7. /\ sched'.signo = sched.signo /\ sched'.queue = {}
      /\ sched'.idleness = sched.idleness
  BY <1>1, <1>4, <1>6 DEF SameSignals, SameQueue
<1>8. /\ more' \in BOOLEAN /\ (more' => more) /\ awaiting' \in BOOLEAN
      /\ ~more' => ~more \/ awaiting'
  <2>1. CASE awaiting' /\ more' = (more /\ conn' # "none")
    BY <1>1, <1>2, <1>3, <2>1
  <2>2. CASE ~awaiting' /\ more' = more
    BY <1>1, <1>2, <1>3, <2>2
  <2> QED BY <1>3, <2>1, <2>2
<1>9. /\ sched.when[QuitTimeout] # Unset => awaiting
      /\ awaiting => sched.when[QuitTimeout] # Unset \/ ~more
      /\ ~more => awaiting
      /\ InTable(sched, Purge) /\ InTable(sched, Flusher(slot))
      /\ conn = "closed" => Idev(slot) \in sched.idleness
  BY <1>1 DEF LoopInv, Timed, Housed
<1>10. Kinds'
  BY <1>1, <1>3, <1>6, <1>7, <1>8 DEF Kinds, Own, Over
<1>11. Rounds'
  BY <1>1, <1>3, <1>7, <1>8 DEF Rounds
<1>12. Hears'
  BY <1>1, <1>3, <1>7, <1>9 DEF LoopInv, Hears, Over
<1>13. Timed'
  BY <1>3, <1>4, <1>6, <1>7, <1>8, <1>9 DEF Timed
<1>14. Housed'
  BY <1>3, <1>4, <1>5, <1>6, <1>7, <1>9 DEF Housed
<1> QED BY <1>10, <1>11, <1>12, <1>13, <1>14 DEF LoopInv

\* The end of a round keeps what is heard.
LEMMA LeaveStep == LoopInv /\ Leave => LoopInv'
<1> SUFFICES ASSUME LoopInv, Leave PROVE LoopInv'
  OBVIOUS
<1>1. /\ Sane(sched) /\ sched.queue = {} /\ phase = "leaving"
  BY DEF LoopInv, Kinds, Rounds, Leave
<1>2. /\ Sane(sched') /\ SameSignals(sched, sched') /\ sched'.queue = {}
  <2>1. sched' = DescriptorCancel(sched, Fdev)
    BY DEF Leave
  <2> QED BY <1>1, <2>1, DescriptorFields
<1>3. Kinds'
  BY <1>2 DEF LoopInv, Kinds, Own, SameSignals, Leave, flags, Over
<1>4. Rounds'
  BY <1>2 DEF Rounds, Leave
<1>5. Hears'
  BY <1>1, <1>2 DEF LoopInv, Hears, SameSignals, Leave, flags, Over
<1>6. Timed' /\ Housed'
  BY DEF Timed, Housed, Leave
<1> QED BY <1>3, <1>4, <1>5, <1>6 DEF LoopInv

\* What happens outside changes neither timers nor signals.
LEMMA OutsideStep ==
  LoopInv /\ (LoadFails \/ Accept \/ HangUp \/ \E sig \in Signals : Signal(sig))
    => LoopInv'
<1>1. ASSUME LoopInv, LoadFails PROVE LoopInv'
  BY <1>1 DEF LoopInv, Kinds, Rounds, Hears, Timed, Housed, LoadFails, flags,
              egressVars, Over
<1>2. ASSUME LoopInv, Accept PROVE LoopInv'
  <2>1. Sane(sched) /\ sched.queue = {} /\ phase = "polling" /\ slot \in Slots
    BY <1>2 DEF LoopInv, Kinds, Rounds, Accept
  <2>2. /\ Sane(sched') /\ SameSignals(sched, sched') /\ SameTimes(sched, sched')
        /\ sched'.queue = {} /\ sched'.idleness = sched.idleness
    BY <1>2, <2>1, DescriptorFields DEF Accept
  <2> QED BY <1>2, <2>1, <2>2
          DEF LoopInv, Kinds, Rounds, Hears, Timed, Housed, Accept, flags, Own,
              SameSignals, SameTimes, InTable
<1>3. ASSUME LoopInv, HangUp PROVE LoopInv'
  BY <1>3 DEF LoopInv, Kinds, Rounds, Hears, Timed, Housed, HangUp, flags
<1>4. ASSUME LoopInv, NEW sig \in Signals, Signal(sig) PROVE LoopInv'
  BY <1>4 DEF LoopInv, Kinds, Rounds, Hears, Timed, Housed, Signal, flags, egressVars
<1> QED BY <1>1, <1>2, <1>3, <1>4

\* Nor does the time.
LEMMA TickStep == LoopInv /\ Tick => LoopInv'
<1> SUFFICES ASSUME LoopInv, Tick PROVE LoopInv'
  OBVIOUS
<1>1. /\ Sane(sched') /\ SameSignals(sched, sched') /\ SameQueue(sched, sched')
      /\ (sched'.when[QuitTimeout] = Unset) = (sched.when[QuitTimeout] = Unset)
      /\ \A e \in TimedEvents : InTable(sched, e) => InTable(sched', e)
  <2>1. Sane(sched) /\ sched' = Elapse(sched)
    BY DEF LoopInv, Kinds, Tick
  <2> QED BY <2>1, ElapseFields
<1>2. slot \in Slots => Purge \in TimedEvents /\ Flusher(slot) \in TimedEvents
  BY EventsApart
<1>3. phase \in {"loading", "polling"} /\ UNCHANGED <<pending, phase, flags, egressVars>>
  BY DEF Tick, Outside
<1>4. Kinds' /\ Rounds'
  BY <1>1, <1>3 DEF LoopInv, Kinds, Rounds, Own, SameSignals, SameQueue, flags, egressVars
<1>5. Hears'
  BY <1>1, <1>3 DEF LoopInv, Hears, SameSignals, SameQueue, flags
<1>6. Timed'
  BY <1>1, <1>3 DEF LoopInv, Timed, SameQueue, flags
<1>7. Housed'
  BY <1>1, <1>2, <1>3 DEF LoopInv, Rounds, Housed, SameQueue, egressVars
<1> QED BY <1>4, <1>5, <1>6, <1>7 DEF LoopInv

----------------------------------------------------------------------------
\* LoopInv is inductive.
LEMMA LoopStep == LoopInv /\ [Next]_vars => LoopInv'
<1>1. ASSUME LoopInv, Program PROVE LoopInv'
  BY <1>1, LoadStep, OutsideStep, PollStep, NoteStep, RotateStep, TimeoutStep,
     PurgeStep, FlushStep, InputStep, DanglingStep, DecideStep, LeaveStep
     DEF Program, Handle
<1>2. ASSUME LoopInv, UNCHANGED vars PROVE LoopInv'
  BY <1>2 DEF LoopInv, Kinds, Rounds, Hears, Timed, Housed, vars, flags, egressVars
<1> QED BY <1>1, <1>2, OutsideStep, TickStep DEF Next

\* LoopInv holds for ever.
LEMMA LoopInvariant == Spec => []LoopInv
<1>1. Init => LoopInv
  BY LoopInit
<1>2. LoopInv /\ [Next]_vars => LoopInv'
  BY LoopStep
<1> QED BY <1>1, <1>2, PTL DEF Spec

\* The tables stay as the scheduler's operations need them, however the
\* calls follow one another (TypeOK).
THEOREM TypeCorrect == Spec => []TypeOK
<1>1. LoopInv => TypeOK
  <2> SUFFICES ASSUME LoopInv PROVE TypeOK
    OBVIOUS
  <2>1. sched \in Tables /\ Watched(sched) /\ Entered(sched)
    BY DEF LoopInv, Kinds, Sane
  <2>2. DOMAIN sched.when = TimedEvents /\ sched.table \in SUBSET (Times \X TimedEvents)
    BY <2>1, TablesAre
  <2>3. \A r \in sched.table : r = <<r[1], r[2]>> /\ r[1] \in Times
    BY <2>2
  <2>4. \A r \in sched.table : r[2] = QuitTimeout => sched.when[QuitTimeout] = r[1]
    BY <2>1, <2>3 DEF Entered
  <2> QED BY <2>1, <2>2, <2>4 DEF TypeOK, LoopInv, Kinds, Watched, Entered
<1> QED BY <1>1, LoopInvariant, PTL

\* No signal goes unheard (SignalsHeard).
THEOREM SignalsCorrect == Spec => []SignalsHeard
<1>1. LoopInv => SignalsHeard
  <2> SUFFICES ASSUME LoopInv, phase = "polling" PROVE SignalsHeard
    BY DEF SignalsHeard
  <2>1. Sane(sched) /\ sched.queue = {}
    BY DEF LoopInv, Kinds, Rounds
  <2>2. {OnHup, OnInt, Rotate} \subseteq SignalEvents
    BY DEF SignalEvents
  <2>3. \A sig \in Signals, e \in {OnHup, OnInt, Rotate} :
          sched.signo[e] = sig => sig \in sched.watching
    BY <2>1, <2>2, HandlersAre DEF Sane, Watched
  <2> QED BY <2>1, <2>3 DEF LoopInv, Hears, SignalsHeard, Signals, Over
<1> QED BY <1>1, LoopInvariant, PTL

\* The wait for quiet has an end set (WaitBounded).
THEOREM WaitCorrect == Spec => []WaitBounded
<1>1. LoopInv => WaitBounded
  BY DEF LoopInv, Rounds, Timed, WaitBounded
<1> QED BY <1>1, LoopInvariant, PTL

\* Purges and flushes are always to come (KeepsHouse).
THEOREM HouseCorrect == Spec => []KeepsHouse
<1>1. LoopInv => KeepsHouse
  BY DEF LoopInv, Rounds, Housed, KeepsHouse, InTable, Listed
<1> QED BY <1>1, LoopInvariant, PTL

\* The loop does not sleep over a closed connection (ClosedFlushed).
THEOREM ClosedCorrect == Spec => []ClosedFlushed
<1>1. LoopInv => ClosedFlushed
  BY DEF LoopInv, Rounds, Housed, ClosedFlushed, Timeout
<1> QED BY <1>1, LoopInvariant, PTL

\* A round ends for a reason of its own (EndsForReason).
THEOREM EndCorrect == Spec => EndsForReason
<1>1. LoopInv /\ [Next]_vars =>
        [phase # "leaving" /\ phase' = "leaving" =>
           awaiting' /\ (more => conn' = "none")]_vars
  <2> SUFFICES ASSUME LoopInv, Next, phase # "leaving", phase' = "leaving"
               PROVE  awaiting' /\ (more => conn' = "none")
    OBVIOUS
  <2>1. Decide
    BY DEF Next, Program, Handle, Load, LoadFails, Poll, HandleHup, HandleInt,
           HandleRotate, HandleQuitTimeout, HandlePurge, HandleFlush, HandleInput,
           HandleDangling, Turn, Leave, Accept, HangUp, Signal, Tick, Outside
  <2>2. ~more => awaiting
    BY <2>1 DEF LoopInv, Timed, Decide
  <2>3. more' = FALSE
    BY <2>1 DEF Decide, LoopInv, Kinds
  <2>4. CASE awaiting' /\ more' = (more /\ conn' # "none")
    BY <2>3, <2>4
  <2>5. CASE ~awaiting' /\ more' = more
    <3>1. awaiting => awaiting'
      BY <2>1 DEF Decide
    <3>2. more = FALSE
      BY <2>3, <2>5
    <3> QED BY <2>2, <2>5, <3>1, <3>2
  <2> QED BY <2>1, <2>4, <2>5 DEF Decide
<1> QED BY <1>1, LoopInvariant, PTL DEF Spec, EndsForReason
=============================================================================
