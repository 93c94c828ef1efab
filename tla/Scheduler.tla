------------------------------ MODULE Scheduler ------------------------------
(* What Scheduler (scheduling.cc) and the four kinds of event (timed.cc,    *)
(* idle.cc, signaling.cc, descriptor.cc) do to the tables that they share,  *)
(* as operators on a record s of these tables.  An event is told by where   *)
(* it lies in memory, as it is in the tables.                               *)
(*                                                                          *)
(* Time is what is left until it comes, with 0 for the past too.  All       *)
(* events in use have one priority, so that there is one queue.             *)
EXTENDS Integers, FiniteSets

CONSTANTS
  TimedEvents, IdleEvents, SignalEvents, DescriptorEvents,
  Signals, Times

Unset == -1
NoSignal == "none"

\* All members are those of the Scheduler, except that when (with set_) and
\* signo are the events', and `expecting' is what epoll is asked for.
Tables ==
  [table : SUBSET (Times \X TimedEvents),
   when : [TimedEvents -> Times \cup {Unset}],
   idleness : SUBSET IdleEvents,
   signo : [SignalEvents -> Signals \cup {NoSignal}],
   watching : SUBSET Signals,
   expecting : SUBSET DescriptorEvents,
   queue : SUBSET (TimedEvents \cup IdleEvents \cup SignalEvents \cup DescriptorEvents)]

NewTables ==
  [table |-> {}, when |-> [e \in TimedEvents |-> Unset], idleness |-> {},
   signo |-> [e \in SignalEvents |-> NoSignal], watching |-> {},
   expecting |-> {}, queue |-> {}]

Enqueue(s, events) == [s EXCEPT !.queue = @ \cup events]
Dequeue(s, e) == [s EXCEPT !.queue = @ \ {e}]

----------------------------------------------------------------------------
\* The constructor of a timed event, whatever the tables say of its place.
TimedNew(s, e) == [s EXCEPT !.when[e] = Unset]

EraseTimed(s, e) == [s EXCEPT !.table = @ \ {<<s.when[e], e>>}]

\* set() cancels what was set, if it was for another time.
TimedSet(s, e, t) ==
  IF s.when[e] = t THEN s
  ELSE LET free == IF s.when[e] = Unset THEN s ELSE EraseTimed(s, e)
       IN  [free EXCEPT !.when[e] = t, !.table = @ \cup {<<t, e>>}]

\* cancel() takes it from the queue and from the table.  Mutated: it stays in
\* the table.
KeepTimed(s, e) == [Dequeue(s, e) EXCEPT !.when[e] = Unset]
TimedCancel(s, e) ==
  LET out == Dequeue(s, e)
  IN  IF s.when[e] = Unset THEN out
      ELSE [EraseTimed(out, e) EXCEPT !.when[e] = Unset]

IdleSet(s, e) == Dequeue([s EXCEPT !.idleness = @ \cup {e}], e)

Handlers(s, sig) == {e \in SignalEvents : s.signo[e] = sig}

\* A signal is watched while it has a handler.
UpdateSignal(s, sig) ==
  [s EXCEPT !.watching = IF Handlers(s, sig) # {} THEN @ \cup {sig} ELSE @ \ {sig}]

SignalReset(s, e) == UpdateSignal([s EXCEPT !.signo[e] = NoSignal], s.signo[e])

SignalSet(s, e, sig) ==
  IF s.signo[e] = sig THEN s
  ELSE LET free == IF s.signo[e] = NoSignal THEN s ELSE SignalReset(s, e)
       IN  UpdateSignal([free EXCEPT !.signo[e] = sig], sig)

DescriptorSet(s, e) == Dequeue([s EXCEPT !.expecting = @ \cup {e}], e)
DescriptorCancel(s, e) == Dequeue([s EXCEPT !.expecting = @ \ {e}], e)

----------------------------------------------------------------------------
Forever == -1

FirstTime(s) ==
  IF s.table = {} THEN Forever
  ELSE CHOOSE t \in Times : (\E r \in s.table : r[1] = t) /\ \A r \in s.table : t <= r[1]

\* timeout(): nothing to wait for while an event is queued or idle, and
\* otherwise until the first timed one.  Mutated: idle ones are not counted.
TimersOnly(s) == IF s.queue # {} THEN 0 ELSE FirstTime(s)
Timeout(s) == IF s.queue # {} \/ s.idleness # {} THEN 0 ELSE FirstTime(s)

\* poll() up to the calls: the handlers of a signal are unset, and so are
\* the timed events that are due; idle events go too, and what descriptors
\* got they no longer expect.
Collect(s, signals, ready) ==
  LET heard == {e \in SignalEvents : s.signo[e] \in signals}
      late == {e \in TimedEvents : <<0, e>> \in s.table}
      taken == [s EXCEPT
                  !.signo = [e \in SignalEvents |-> IF e \in heard THEN NoSignal ELSE @[e]],
                  !.watching = @ \ signals,
                  !.expecting = @ \ ready,
                  !.when = [e \in TimedEvents |-> IF e \in late THEN Unset ELSE @[e]],
                  !.table = {r \in @ : r[1] # 0},
                  !.idleness = {}]
  IN  Enqueue(taken, heard \cup ready \cup late \cup s.idleness)

\* Time passes.
Elapse(s) ==
  LET less(t) == IF t = Unset \/ t = 0 THEN t ELSE t - 1
  IN  [s EXCEPT !.table = {<<less(r[1]), r[2]>> : r \in @},
                !.when = [e \in TimedEvents |-> less(@[e])]]
=============================================================================
