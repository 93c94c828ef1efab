------------------------------ MODULE MainLoop ------------------------------
(* trapped_main() (main.cc): one round per configuration, ended by SIGHUP,   *)
(* SIGINT or SIGTERM once the egresses are quiet or a timer says so, with    *)
(* the events of main() itself, of the ClientTable (clientid.cc) and of a    *)
(* TCPEgress (tcp_egress.cc) in the tables of the Scheduler.                 *)
(*                                                                           *)
(* The ClientTable is a local variable of the loop, and lies at the same     *)
(* place in each round; the egress is on the heap, where it takes any of     *)
(* the Slots.  Of its connections there is one, of which only the end        *)
(* matters here.  SIGINT stands for SIGTERM too, which has a like event.     *)
EXTENDS Integers, FiniteSets

CONSTANTS
  Slots,        \* where an egress may lie
  NoSlot,
  ReloadWait, QuitWait, PurgePeriod,  \* 1 s, 10 s and 1 h
  MaxFlush      \* bound on how far off the next flush is

ASSUME MainAssumption ==
  /\ NoSlot \notin Slots /\ Slots # {}
  /\ {ReloadWait, QuitWait, PurgePeriod, MaxFlush} \subseteq Nat \ {0}

OnHup == <<"on_sighup", NoSlot>>
OnInt == <<"on_sigint", NoSlot>>
Rotate == <<"rotate", NoSlot>>
QuitTimeout == <<"quit_timeout", NoSlot>>
Purge == <<"purge_event", NoSlot>>
Flusher(i) == <<"flusher", i>>
Idev(i) == <<"idev", i>>
Fdev == <<"fdev", NoSlot>>

Signals == {"HUP", "INT", "USR1"}
Bound == CHOOSE b \in {ReloadWait, QuitWait, PurgePeriod, MaxFlush} :
           \A c \in {ReloadWait, QuitWait, PurgePeriod, MaxFlush} : c <= b

INSTANCE Scheduler WITH
  TimedEvents <- {QuitTimeout, Purge} \cup {Flusher(i) : i \in Slots},
  IdleEvents <- {Idev(i) : i \in Slots},
  SignalEvents <- {OnHup, OnInt, Rotate},
  DescriptorEvents <- {Fdev},
  Times <- 0..Bound

VARIABLES
  sched,      \* the scheduler's tables
  pending,    \* signals that the kernel holds
  phase,      \* "loading", "polling", "handling", "leaving", or, at the end,
              \* "ended", "failed" or "died"
  reload, quit, more, awaiting,  \* main's flags (awaiting_idle)
  slot,       \* where the egress is
  listening,  \* it has its listener
  conn        \* its connection: "none", "open", "hungup" or "closed"

egressVars == <<slot, listening, conn>>
flags == <<reload, quit, more, awaiting>>
vars == <<sched, pending, phase, flags, egressVars>>

Over == {"ended", "failed", "died"}

\* An event of an egress that was destroyed.  ~Event() calls its own
\* cancel(), so that nothing is taken from the tables.
Dangling(e) == e[1] \in {"flusher", "idev"} /\ e[2] # slot

----------------------------------------------------------------------------
\* A timer left from the round before is cancelled.  Mutated: it is not.
KeepTimeout(s) == s
CancelTimeout(s) == TimedCancel(s, QuitTimeout)

\* SIGHUP is awaited again in each round.  Mutated: it is not.
IgnoreHup(s) == s
AwaitHup(s) == SignalSet(s, OnHup, "HUP")

\* The top of the loop: SIGHUP is awaited, the configuration is read, and a
\* table and an egress are made.
Load ==
  /\ phase = "loading"
  /\ reload' = FALSE /\ more' = TRUE /\ awaiting' = FALSE
  /\ slot' \in Slots /\ listening' = TRUE
  /\ LET table == TimedSet(TimedNew(AwaitHup(sched), Purge), Purge, PurgePeriod)
     IN  \E t \in 1..MaxFlush :
           sched' = CancelTimeout(
             TimedSet(TimedNew(table, Flusher(slot')), Flusher(slot'), t))
  /\ phase' = "polling"
  /\ UNCHANGED <<pending, quit, conn>>

\* What is wrong with a configuration is thrown as far as main().
LoadFails ==
  /\ phase = "loading"
  /\ phase' = "failed"
  /\ UNCHANGED <<sched, pending, flags, egressVars>>

Poll ==
  /\ phase = "polling"
  /\ LET heard == pending \cap sched.watching
         ready == IF conn = "hungup" THEN sched.expecting ELSE {}
     IN  /\ heard # {} \/ ready # {} \/ Timeout(sched) = 0
         /\ sched' = Collect(sched, heard, ready)
         /\ pending' = pending \ heard
  /\ phase' = "handling"
  /\ UNCHANGED <<flags, egressVars>>

----------------------------------------------------------------------------
Turn(e) == phase = "handling" /\ e \in sched.queue /\ UNCHANGED <<phase, pending>>

HandleHup ==
  /\ Turn(OnHup) /\ sched' = Dequeue(sched, OnHup)
  /\ reload' = TRUE
  /\ UNCHANGED <<quit, more, awaiting, egressVars>>

HandleInt ==
  /\ Turn(OnInt) /\ sched' = Dequeue(sched, OnInt)
  /\ quit' = TRUE
  /\ UNCHANGED <<reload, more, awaiting, egressVars>>

\* The log is opened again, and so is the ear for SIGUSR1.  Mutated: it is
\* not.
RotateOnce(s) == s
RotateAgain(s) == SignalSet(s, Rotate, "USR1")

HandleRotate ==
  /\ Turn(Rotate) /\ sched' = RotateAgain(Dequeue(sched, Rotate))
  /\ UNCHANGED <<flags, egressVars>>

HandleQuitTimeout ==
  /\ Turn(QuitTimeout) /\ sched' = Dequeue(sched, QuitTimeout)
  /\ more' = FALSE
  /\ UNCHANGED <<reload, quit, awaiting, egressVars>>

HandlePurge ==
  /\ Turn(Purge)
  /\ sched' = TimedSet(Dequeue(sched, Purge), Purge, PurgePeriod)
  /\ UNCHANGED <<flags, egressVars>>

\* TCPEgress::flush() discards a closed connection and sets the time of the
\* next; how far the earlier flushes have moved that is not followed.
\* Mutated: there is no next.
LastFlush(s) == conn' = (IF conn = "closed" THEN "none" ELSE conn) /\ sched' = s
Flush(s) ==
  /\ conn' = IF conn = "closed" THEN "none" ELSE conn
  /\ \E t \in 0..MaxFlush : sched' = TimedSet(s, Flusher(slot), t)

HandleFlush ==
  \E e \in {Flusher(slot), Idev(slot)} :
    /\ Turn(e) /\ Flush(Dequeue(sched, e))
    /\ UNCHANGED <<flags, slot, listening>>

\* Connection::handle_fd() at the end of a stream asks for a flush.
FlushSoon(s) == IdleSet(s, Idev(slot))

HandleInput ==
  /\ Turn(Fdev)
  /\ conn' = "closed"
  /\ sched' = FlushSoon(DescriptorCancel(Dequeue(sched, Fdev), Fdev))
  /\ UNCHANGED <<flags, slot, listening>>

\* The memory of a destroyed event is used: that ends the program, or it
\* happens to do nothing, or the egress that was there is flushed once more,
\* as it still looks, and sets its timer again.
HandleDangling ==
  \E i \in Slots \ {slot} : \E e \in {Flusher(i), Idev(i)} \cap sched.queue :
    /\ phase = "handling"
    /\ \/ sched' = Dequeue(sched, e) /\ phase' \in {"handling", "died"}
       \/ /\ phase' = "handling"
          /\ \E t \in 0..MaxFlush : sched' = TimedSet(Dequeue(sched, e), Flusher(i), t)
    /\ UNCHANGED <<pending, flags, egressVars>>

Handle ==
  \/ HandleHup \/ HandleInt \/ HandleRotate \/ HandleQuitTimeout \/ HandlePurge
  \/ HandleFlush \/ HandleInput \/ HandleDangling

----------------------------------------------------------------------------
\* The timer that ends the wait.  Mutated: quit waits without one if it was
\* not asked to reload.
WaitToReload(s, quitting, reloading) ==
  IF reloading THEN TimedSet(s, QuitTimeout, ReloadWait) ELSE s
Wait(s, quitting, reloading) ==
  IF quitting THEN TimedSet(s, QuitTimeout, QuitWait)
  ELSE IF reloading THEN TimedSet(s, QuitTimeout, ReloadWait)
  ELSE s

\* What main() does after poll(): it deactivates the egress when it has to
\* quit or reload, and then waits until busy() finds no connection, or time
\* is up.
Decide ==
  LET quitting == quit /\ sched.when[QuitTimeout] = Unset
      reloading == ~quit /\ reload
      waiting == Wait(sched, quitting, reloading)
  IN  /\ phase = "handling" /\ sched.queue = {}
      /\ listening' = (listening /\ ~quitting /\ ~reloading)
      /\ reload' = (reload /\ ~reloading)
      /\ awaiting' = (awaiting \/ quitting \/ reloading)
      /\ \/ /\ awaiting' /\ Flush(waiting)
            /\ more' = (more /\ conn' # "none")
         \/ /\ ~awaiting' /\ sched' = waiting /\ UNCHANGED <<conn, more>>
      /\ phase' = IF more' THEN "polling" ELSE "leaving"
      /\ UNCHANGED <<pending, quit, slot>>

\* The end of the loop's body: what was made for the configuration goes, and
\* connections cancel their events.
Leave ==
  /\ phase = "leaving"
  /\ slot' = NoSlot /\ listening' = FALSE /\ conn' = "none"
  /\ sched' = DescriptorCancel(sched, Fdev)
  /\ phase' = IF quit THEN "ended" ELSE "loading"
  /\ UNCHANGED <<pending, flags>>

----------------------------------------------------------------------------
\* What happens outside while handlers run is noticed by the next poll, and
\* is taken to happen then.
Outside == phase \in {"loading", "polling"}

\* The listener is called by a poll of its own, after which main() has
\* nothing to decide.
Accept ==
  /\ phase = "polling" /\ listening /\ conn = "none"
  /\ conn' = "open" /\ sched' = DescriptorSet(sched, Fdev)
  /\ UNCHANGED <<pending, phase, flags, slot, listening>>

HangUp ==
  /\ phase = "polling" /\ conn = "open" /\ conn' = "hungup"
  /\ UNCHANGED <<sched, pending, phase, flags, slot, listening>>

Signal(sig) ==
  /\ Outside /\ pending' = pending \cup {sig}
  /\ UNCHANGED <<sched, phase, flags, egressVars>>

Tick ==
  /\ Outside /\ sched' = Elapse(sched)
  /\ UNCHANGED <<pending, phase, flags, egressVars>>

Init ==
  /\ sched = SignalSet(SignalSet(NewTables, OnInt, "INT"), Rotate, "USR1")
  /\ pending = {} /\ phase = "loading"
  /\ reload = FALSE /\ quit = FALSE /\ more = FALSE /\ awaiting = FALSE
  /\ slot = NoSlot /\ listening = FALSE /\ conn = "none"

Program == Load \/ LoadFails \/ Poll \/ Handle \/ Decide \/ Leave

Next == Program \/ Accept \/ HangUp \/ Tick \/ \E sig \in Signals : Signal(sig)

\* The program goes on, and time does, which here is counted only between
\* the calls of handlers.
Spec == Init /\ [][Next]_vars /\ WF_vars(Program) /\ SF_vars(Tick)

----------------------------------------------------------------------------
Listed(e) == \E r \in sched.table : r[2] = e

\* The tables have the right types, a signal is watched exactly while an
\* event is set for it, and a timed event that is set is in the table; the
\* timer of main(), whose place nothing else takes, is there only then
\* (update_signal(), TimedEvent::set(), TimedEvent::cancel()).
TypeOK ==
  /\ sched \in Tables
  /\ pending \subseteq Signals
  /\ phase \in {"loading", "polling", "handling", "leaving"} \cup Over
  /\ {reload, quit, more, awaiting, listening} \subseteq BOOLEAN
  /\ slot \in Slots \cup {NoSlot}
  /\ conn \in {"none", "open", "hungup", "closed"}
  /\ \A sig \in Signals : sig \in sched.watching <=> Handlers(sched, sig) # {}
  /\ \A e \in DOMAIN sched.when :
       sched.when[e] # Unset => <<sched.when[e], e>> \in sched.table
  /\ \A r \in sched.table : r[2] = QuitTimeout => sched.when[QuitTimeout] = r[1]

\* No signal goes unheard: whenever main() sleeps, SIGINT and SIGUSR1 are
\* watched, unless it is about to quit, and SIGHUP is, unless a reload is
\* under way (SignalEvent::set() in main.cc, Scheduler::poll()).
SignalsHeard ==
  phase = "polling" =>
    /\ "USR1" \in sched.watching
    /\ "INT" \in sched.watching \/ quit
    /\ "HUP" \in sched.watching \/ awaiting

\* While main() waits for quiet a timer is running that ends the wait,
\* whatever signals came before and in what order.
WaitBounded ==
  phase = "polling" /\ awaiting => sched.when[QuitTimeout] # Unset

\* Whenever main() sleeps the table of clients will be purged and the egress
\* flushed in time, although events of earlier rounds, which may lie at the
\* same places, are collected as well.
KeepsHouse ==
  phase = "polling" => Listed(Purge) /\ Listed(Flusher(slot))

\* main() does not sleep while a connection that has closed is still to be
\* discarded (Connection::handle_fd(), Scheduler::timeout()).
ClosedFlushed == phase = "polling" /\ conn = "closed" => Timeout(sched) = 0

\* A round ends only after a signal of its own, and if connections are open
\* then only when the timer was called: none left from an earlier round ends
\* the next.
EndsForReason ==
  [][phase # "leaving" /\ phase' = "leaving" =>
       /\ awaiting'
       /\ more => conn' = "none"]_vars

\* A signal to quit ends the program, with open connections or without, in
\* the middle of a reload too.
Quits == "INT" \in pending ~> phase \in Over

\* A signal to reload comes to a new round, if the program does not end.
Reloads == "HUP" \in pending ~> phase \in {"loading"} \cup Over

\* main.cc: what an iteration makes is discarded before the next, so that no
\* event of it is called there.
NoneDangling == \A e \in sched.queue : ~Dangling(e)
=============================================================================
