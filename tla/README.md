# A TLA+ development of udptun

udptun carries UDP datagrams over TCP.  One process may play both parts: as
*ingress* it receives datagrams, stores them in queues and sends them over TCP
connections; as *egress* it accepts such connections and sends the datagrams
on.  It is one thread around an epoll loop (`scheduling.cc`), so nothing runs
in parallel with a handler, but handlers follow one another in orders that
nobody chose, connections come and go, and the process is restarted.

## Inventory

| Part | State | Operations | Works with |
|---|---|---|---|
| Persistent queue (`queues.cc`, `payloads.cc`) | payloads in memory and their size; listed files; the file being written and its size; whether the user was disappointed | push, peek, poke, consume, load a file, construct, destroy | the disc; the quota; tells its channel by a callback |
| Channel (`channels.cc`) | its event; the payload being sent and how much is gone | submit, describe, consumed, failed, queue_ready | takes datagrams from absorbers; streams through an ingress |
| TCP ingress (`tcp_ingress.cc`) | socket, `connected`, `upout_ready`, address to try; queue of streamers; descriptor, timer and look-up events | ready, descriptor_ready, initiate_lookup, address_resolved, try_connect, try_send | channels, resolver, kernel |
| Address look-up (`addressing.cc`) | whether a request is on, its result | initiate, cancel, check | SIGUSR2; the ingress |
| TCP egress (`tcp_egress.cc`) | listeners; connections with buffers and client records; time of the next flush | accept, rebind, receive, process, deliver, flush, activate, deactivate, busy | kernel, peer table, destinations, main loop |
| Scheduler, events (`scheduling.cc`, `descriptor.cc`, `timed.cc`, `idle.cc`, `signaling.cc`) | registered events by kind; queues by priority; what is expected and got | set, cancel, poll, notify | everything |
| Quota (`quotas.cc`) | total, limit, amount and age of each user | increase, decrease, oldest, forget, check | queues |
| Client table (`clientid.cc`) | address to id, id to address and last use; next id | seek, purge, load, save | absorbers; a file |
| UDP absorber (`udp_absorbers.cc`) | a socket | receive and submit | client table, channels |
| Destinations, emitters (`destbank.cc`, `destinations.cc`, `emitters.cc`) | names and addresses; sockets | seek by hash, match, send | the egress's client records |
| Peer table (`peers.cc`) | address to name and hash | load, seek | listeners |
| Main loop (`main.cc`) | reload, quit, waiting for quiet | one round per configuration | everything |
| Marshalling, configuration, logging | none of interest | | |

What is hard here: wake-ups that pass through several one-shot events;
events collected in one batch and handled after others have changed the state;
partial sends; connections lost within a message; files that are read, written
and deleted by one queue at once; restarts; housekeeping that deletes objects
with events pending.  `PROJECT.json` lists the places under `hazards`.

What makes each part correct: the queue is a FIFO that loses only what was in
memory in a crash and wakes its channel; the ingress gives each connection a
sequence of whole messages and never stalls while it has something to send;
the egress handles every message of the connections it took, keeps on
listening and keeps house; the client table gives
distinct senders distinct ids; the scheduler calls every event that is set and none
that is cancelled or destroyed; the main loop ends when told to.

## Modules

`DurableFifo` is what a queue promises: payloads are numbered, kept or at
risk, taken in order; a crash may lose any that are not durable.

`PayloadQueue` models the queue with its channel's event.  Variables carry the
names of the members (`mem` is `queue`, `files` is `queue_fns`).  An action
stands for a call from outside: `Push` for `Channel::submit()`, `QueueReady`
for the channel's event, `Transmit` for a message sent to its last byte
(`describe()`, `consumed()`, `consume()`, `poke()`), `Stop` for the destructor,
`Crash` for a process that dies, `Start` for the constructor with the first
`poke()`.  The stream's buffer is explicit: any part of it may be on the disc,
all of it is after a close.  The definitions `Fifo` and `ImplementsFifo` map it
to `DurableFifo`.  Sizes are sums of `Totals`, a recursive function where a
fold would do for TLC alone, as more can be proved about it; the ends of
messages in `TCPEgress` are such sums too.

`TunnelIngress` models the ingress, the streaming side of its channels, the
look-up and the batches of the scheduler.  `Poll` and `PollReset` are
`Scheduler::poll()` up to the calls of the handlers; each handler is an action
that needs its `Turn`.  The loop of `try_send()` is a step per `sendmsg()`
(`SendSome`, `SendBlocked`, `SendFailed`), since the kernel may move between
two of them, and no other handler may while `sending` holds.  The kernel's and
the peer's steps are actions of their own.  The events of a batch are handled in
any order: the scheduler goes by their addresses (`scheduling.cc:241`), and the
events of channels lie elsewhere than those of the ingress.  An assertion that fails ends the program: `aborted` names it, and
no step of the program follows.  `overtaken` notes that a channel was handled
while the timer of its batch was still to come, which is the only way for two
of the assertions to fail.  Signals for look-ups of other ingresses come too.

`TCPEgress` models a listener, its connections, the reassembly of messages,
the client records with their age, the flushes, and deactivation up to the
moment when the main loop finds the egress quiet.  Again `Poll` collects, any
order follows, and `process()` is a step per message while `busyWith` holds.
Events do not leave the scheduler with a listener that is destroyed
(`events.hh:72`): if a flush comes ahead of the timer of its batch that is to
open a listener again, it deletes the listener (`tcp_egress.cc:511`), which
`orphaned` notes, and what a call of the dangling timer does is undefined
(`phase = "crashed"` if the program ends by it).

`ClientTable` models the table of ids (`clientid.cc`) and what its database
does to an address (`sockaddrs.cc`).  `Seek` is `seek()`, with the iterator of
`emplace()` as the choice of the first free id; `OnPurge` is `on_purge()` with
`purge()`, which erases the reverse entry of the wrong client; `SaveTable` and
`LoadTable` are the destructor and the constructor.  The bytes of an address
are read but never stored, so that an address comes back as `Noise`.  The
timers of purges are the set `purgeAt` of the times that the scheduler holds: a
table is made where the last one was (`main.cc:264`), and a timer that was set
by the last one is still there and calls the new one (`events.hh:72`).

`Delivery` models what an egress does with a message: which peer a host is
(`peers.cc`), which destinations a label stands for there (`destbank.cc`),
which sockets a client needs to reach them all (`emitters.cc` and the
constructor of `ClientState`; each socket may fail by itself), what is thrown when one cannot be made, and when
a client is forgotten.  Both modules give steps of their own variables, without
a specification of their own.

`Identity` composes the two with an absorber, the channels' queues, a
connection that may be lost at any time, a clock, and restarts and deaths of
the ingress, and is about what a sender may rely on from end to end: an action
is a step of the table, of the egress, or of both.  `SockReady` is
`UDPAbsorber::sock_ready()`, `Transmit` a message sent and processed.  That the
queues are FIFOs that may lose in a crash what was in memory is taken from
`PayloadQueue`.  `record` keeps, for the properties, whether each id given out
is still in the table and the database.

`Scheduler` gives the operations of the four kinds of event and of the
scheduler on a record of its tables.  Events are told by where they lie in
memory, as they are in the tables, so that an event made where another was
destroyed takes over what the tables hold of it.  A time is what is left until
it comes.

`MainLoop` is `trapped_main()` with `INSTANCE Scheduler`: reading a
configuration (`Load`), `Poll`, a handler for each event of `main()`, of the
client table and of an egress, what `main()` decides after each poll
(`Decide`), and the end of a round (`Leave`).  The client table lies on the
stack, at the same place in each round, the egress on the heap at one of the
`Slots`.  `HandleDangling` is a call of an event whose owner is gone: nothing
happens, the program ends, or the flush of the freed egress runs and sets its
event again.

`MC...` modules only give values.  `PayloadQueueProofs`, `PayloadQueueSizes`,
`TunnelIngressProofs`, `TCPEgressProofs`, `MainLoopProofs` and `IdentityProofs`
hold the proofs about the modules of these names, `LeastNumber` and
`TotalsProofs` those about naturals, sums and parts of sequences that they
share.  Definitions
whose comment says "Mutated:" have an altered form just above them, which no
specification uses: each property fails when its form is put in place.

## Runs

| Run | Shows |
|---|---|
| `queue` | order, the bound on memory, wake-ups, quota accounting, survival of what is on the disc, orderly shutdown, draining, and that `DurableFifo` is implemented |
| `queue_loss` | *violated*: `load_head_file()` deletes the file that is being written, and with it what was still in the stream's buffer (`queues.cc:137`) |
| `ingress` | in any order of a batch only two assertions can fail, that of the next row and, when a channel is handled ahead of the timer collected with it, that of `initiate_lookup()`; channels with payloads are attended and the ingress is not stalled unless by one of these or a failed look-up; messages are contiguous and whole except after a cut; payloads leave the queue when sent; all are sent in the end, with the same exceptions |
| `ingress_early` | *violated*: a peer that accepts and hangs up at once fails the assertion that the socket has an error (`tcp_ingress.cc:90`) |
| `ingress_lookup` | *violated*: after one failed look-up nothing is sent again (`addressing.cc:183`) |
| `egress` | messages are reassembled however they are cut; only ended connections are closed; the listener is kept unless a flush overtakes its timer; a flush is always to come; the egress stops only when all is handled; all is handled in the end |
| `egress_errno` | *violated*: after a passing failure of `accept()` the next connection is forgotten (`tcp_egress.cc:107`) |
| `identity` | an id stays with its sender while it is on record; until one may be given out again, two senders that share sockets at an egress have different full ids; every name of every label is reached |
| `identity_assert` | *violated*: after a purge `seek()` finds an id in `rev` that `fwd` has lost, and its assertion fails (`clientid.cc:92`) |
| `identity_wire` | *violated*: two active senders share sockets, as their ids are equal in the 16 bits that are sent (`src/README.md:197`) |
| `main` | signals are always listened for; the wait for quiet is bounded by a timer; rounds end only for a reason of their own; purges and flushes go on from round to round and no closed connection is left; SIGINT ends the program and SIGHUP the round |
| `main_dangling` | *violated*: the timer of a destroyed egress is called in the next round (`events.hh:72`) |

Bounds.  `queue`: six payloads of two lengths against a limit of 12 bytes, so
that memory fills after two or three, files fill after two records, and several
files exist at once; three starts, so that what was saved is loaded and saved
again.  `ingress`: two channels with two messages of two pieces, a buffer of
three (so that sends are whole, partial and blocked), two addresses, three
failures (enough for one connection cut, the next refused and one reset, or for
a look-up that fails).  `egress`: one known and one unknown peer, two messages
of which one is empty and one has a label without outlets, a header of two
pieces so that it may be cut too, two ticks against a timeout of one, one
failure.  `identity`: two senders, of whom three datagrams come, two kinds of
noise, so that what was read may agree or not, ids to 3 of which two are told
apart on the wire (the next id is equal to an older one there); two restarts
(one to lose what the first database keeps, and one more to give it out again),
two ticks against a purge period and a timeout of one; a group of two
destinations and one alone, some of which lack an address family, so that one
socket or two are needed, and a peer for whom the group's other member is
chosen.  `identity_wire` has three senders and neither time nor restarts, so
that nothing but the width of the wire is to blame.  `main`: two places for an
egress, so that it may lie where the last did or elsewhere; a reload waits for
one tick and a quit for two, as 1 and 10 seconds are, and the purge comes after
two. There is no bound on the number of rounds or of signals. Counters that
only count for the bounds are `pushes`, `restarts`, `faults`, `now`,
`received`.

`ingress` contains what the runs beside it show to go wrong, and its properties
name the exceptions: `AssertsHold` which assertions may fail and when, and
`NotStalled` and `Delivers` a failed look-up and an abort; `FramedUnlessCut`
says that a cut is the only way to lose the frame.  `egress` likewise contains
flushes ahead of a listener's timer, but of the results of `accept()` not the
failure that makes `egress_errno` fail (`Outcomes`).  Where `accept()` is tried
again on a blocking socket the program may hang; `Received` excepts that and a
program that ends by a deleted listener.

Fairness.  The loop calls `poll()` for ever and every handler it collected, so
`Poll` and the handlers are weakly fair; timers fire.  In `ingress` the
resolver answers, a pending connection is made or refused and the peer reads,
as TCP does while the network works; failures are bounded, as no delivery can
be promised through endless ones.  In `queue` the ingress sends what it is
given (which `ingress` shows).  Pushes, crashes, stops, ticks and peers that
end are not fair.  In `main` the program
goes on (weakly fair), and so does time, strongly fair as it is counted only
between the calls of handlers; signals and peers owe nothing.  `identity`
states no liveness: an ingress may be stopped at any time, and that payloads
leave it at all is what `ingress` shows.  Deadlock is not checked: each system
ends when its inputs are spent, the main loop when it is told to.

What TLC found on the way, and what the properties are therefore careful
about:

- The timer of the ingress and the event of a channel may be in one batch, and
  which is handled first depends on where they were allocated.  If the channel
  is, it starts a look-up, which the timer finds under way: `assert(!addrev)`
  fails (`tcp_ingress.cc:172`).  `AssertsHold` excepts this by `overtaken`, and
  is violated without it.
- Likewise a flush may be handled ahead of the timer by which a listener is to
  be opened again, and then deletes the listener (`tcp_egress.cc:511`).
  `ListenerKept` excepts this by `orphaned`, and is violated without it.
- After the peer has closed within a message the next connection begins with the
  rest of it, as nobody tells the streamer (`tcp_ingress.cc:115`).
  `FramedUnlessCut` excepts this by `cut`, and is violated without it.
- The record of a client that is seen all the time may be discarded, as
  `deliver()` does not renew it for a label without outlets
  (`tcp_egress.cc:380`, against `src/README.md:208`).
- The purge that fails the assertion of `identity_assert` may also take the
  address of an active sender out of `rev` (`clientid.cc:92`), who then has two
  ids in `fwd`.  `StoredReserved` and `SharedApart` are of one sender for each
  id, and do not say that there is one id for each sender.
- After a crash an id may be given out again while a datagram of its first owner
  is stored, and the two senders share sockets; `SharedApart` excepts that by
  `record = "reused"`.
- After a restart `next_id` is 0 again, and entries read from the database are
  noise that is purged after a period, so that ids come to be given out anew
  while payloads of theirs may be stored (`record = "reused"`).  Two entries
  read as the same noise lose an id at the next save.
- An id has 16 bits on the wire, and senders whose ids are equal there share
  sockets, whatever `src/README.md:197` says (`identity_wire`); `SharedApart`
  is about the full ids.
- The client table is made at the same place in each round, and its
  constructor sets a new time for an event the tables still hold one of: each
  reload adds a chain of purges (`KeepsHouse` holds, as more come and not
  fewer).  In `Identity` purges of the other chains come at any of their times,
  and a sender may be discarded less than a period after its last datagram.
- The idle event of an egress may still be in the scheduler when a quiet
  reload destroys it, as its timer always is (`main_dangling`).

## Proofs

Every invariant and every action property that a passing run checks is proved,
for all values of the constants that satisfy the assumptions of the modules;
what is left to TLC is liveness.

In `PayloadQueueProofs`, for every limit, set of lengths and bounds that satisfy
`SizesAssumption` and `BoundsAssumption`:

- `TypeCorrect`: `Spec => []TypeOK`;
- `OrderCorrect`: `Spec => []Ordered`;
- `StopCorrect`: `Spec => StopKeepsAll`;
- `QueueImplementsFifo`: `Spec => ImplementsFifo`.

The inductive invariant is `TypeOK /\ Ordered /\ taken <= pushes`.  Types alone
are not enough for order, and `Ordered` speaks of the last payload taken only
while something is stored, so that an empty queue needs the last conjunct
before a new payload is numbered.  There is one lemma per action.  The lemmas
beneath them are about the choice of the first non-empty file, what a
subsequence holds, and order under appending and prepending; the first uses
`LeastNatural`, that a non-empty set of naturals has a least element.  For the
refinement each action is shown to be a step of `DurableFifo` or to leave its
variables alone.

In `PayloadQueueSizes`, about the same module:

- `MemoryCorrect`: `Spec => []MemoryBounded`;
- `QuotaCorrect`: `Spec => []QuotaCoversDisc`;
- `WakeCorrect`: `Spec => []NotStranded`;
- `DiscCorrect`: `Spec => DiscSurvives`.

The limit must not be 0 (`MaxMem \in Nat \ {0}` in `SizesAssumption`), as
nothing is below it then; a channel always asks for 100 * 1024
(`channels.cc:59`).  The inductive invariant adds `SizeInv` to that of the
order.  `FilesBounded`, that no file has more payload than the limit, is needed
because a file is loaded whole into memory; `StreamSized`, that the size kept
for the file being written is no less than what is in it and in the buffer, and
below the limit, since that is all that `push()` looks at before it goes on
with the file; `QuotaSized` covers the buffer and the disc; `Alert`, that a
queue with nothing in memory has no file either and a disappointed user, since
it is this flag that makes `push()` wake the channel.  `NotStranded` then is
about sizes too: whether a payload stays in memory decides who is told of it.

The sums are those of a function defined by recursion on the naturals.
`TotalsProofs` shows that such a function exists, that the sum of a
concatenation is the sum of the sums, and what follows for appending, taking
the first, and cutting in two.  Induction is by `UpToN`: a set that has 0 and
with each n below N also n + 1 has all up to N.  It takes a set and no
operator, and follows from `LeastNatural`.

In `TunnelIngressProofs`, for every set of channels, size of messages and
buffers, number of addresses and bound that satisfy `IngressAssumption`,
whatever the order of a batch, the peers and the resolver do:

- `TypeCorrect`, `AssertsCorrect`, `AttendedCorrect`, `NotStalledCorrect`,
  `HeadCorrect`, `ContiguousCorrect`, `FramedCorrect`: `Spec => []P` for the
  seven invariants of `ingress`;
- `TakenCorrect`: `Spec => TakenWhole`.

The inductive invariant is `IngressInv`.  `Guarded` says that of socket, timer
and look-up one at most is about, which is what the assertions come to, unless a
channel was ahead of the timer;
`Awaited`, that a socket being connected is waited for and has reported
nothing that is not yet in the batch; `Told`, that a channel is in one place
only, its event, the batch or the queue of streamers, and in one of them while
it has payloads; `Begun`, that the first streamer alone is within a message;
`Wired`, that each piece on the wire is of a message consumed or comes before
the next piece of the one begun, and the last directly so, from which
`Contiguous` follows for what is sent next.  There is a lemma per action, most
of which leave channels and wire alone; `Junction` and `Growth` are what
`SendSome` needs.

In `TCPEgressProofs`, for every set of peers, list of messages and bound that
satisfy `EgressAssumption`:

- `ListenerCorrect`: `Spec => []ListenerKept`;
- `OpenCorrect`: `Spec => []OnlyOpenCalled`;
- `FlushCorrect`: `Spec => []FlushPending`;
- `TypeCorrect`: `Spec => []TypeOK`;
- `ReassembledCorrect`: `Spec => []Reassembled`;
- `CloseCorrect`: `Spec => ClosesOnlyAtEnd`;
- `StopCorrect`: `Spec => []StopsQuietly`.

The first two are inductive as they stand, and the third with the second.
`Reassembled` is so with the
types of the buffers and that no more messages were handled than have come
whole (`Streamed`): what the peer sends, what is received and what is taken out
of the buffer are each a run of pieces of the one stream, and a run is told by
where it begins and ends.  That a buffer is never full without a message in it,
which the types need, is `FullIsDecodable`.  The last two need `Ending` too:
whole messages are in a buffer only while its connection's handler runs, an
event is collected only when there is input, and a connection is closed only at
its end.  The rest of the types is in parts that do not depend on each other
(`ListenerTyped`, `LoopTyped`, `ClockTyped`).  `TypeOK` once failed for a
timeout beyond the bound of the clock, which no run has: the time of the first
flush is now capped like all the others.

In `MainLoopProofs`, for every set of places and every length of the waits that
satisfy `MainAssumption`:

- `TypeCorrect`, `SignalsCorrect`, `WaitCorrect`, `HouseCorrect`,
  `ClosedCorrect`: `Spec => []P` for the five invariants of `main`;
- `EndCorrect`: `Spec => EndsForReason`.

The inductive invariant is `LoopInv`.  `Kinds` adds to the types that the
tables are sane: the members of the scheduler agree with each other and with
the events.  `Rounds` tells where the queue is empty.  `Hears`, `Timed` and
`Housed` say of each promise where it is kept while handlers run: an event that
is not set is in the queue, or its handler has run and left a flag that
`Decide` acts on.  There is a lemma for each operation of the scheduler, saying
what it changes, and one for each action of the loop.

In `IdentityProofs`, for every configuration that satisfies the assumptions of
the three modules:

- `CoverCorrect`: `Spec => []Covered`, from the invariant that each client has
  sockets that leave no destination;
- `TypeCorrect`: `Spec => []TypeOK`, with `PurgeSet`, that in a running ingress
  one of the purges to come is a period after the last;
- `ReservedCorrect`: `Spec => []StoredReserved`;
- `SharedCorrect`: `Spec => []SharedApart`.

The assumptions say that the list of peers has a length, as the greatest place
in it is asked for.  The last two come from one invariant, `Owned`, about the
pairs of sender and id that exist anywhere: in a queue, at an egress, or in
`rev` (`Taken`).  `OwnIds` is that two of them with one id have one sender, and
is not inductive: a new sender must not get an id of another's, so `NotNext`
says that an id in `Taken` is in use or below `next_id`, from where `emplace()`
looks.  That is lost in a restart, when `next_id` is 0, unless everything in the
queues is read back from the database; so `OnRecord` follows the ids through
it, while `record` is `kept`.  In a running ingress it is that `fwd` and `rev`
are inverse (`Paired`) and the queues' ids are in `fwd` (`QueuedKnown`), and in
one that is down that the database has as many lines as it counts and a
different id in each (`PairsSaved`).  From the one to the other leads that two
sets in bijection have the same cardinality, and back that only noise is read
for an address.  That a free id exists at all (`FreeIdFacts`) is the pigeonhole
principle for `FreeId`.

Only model-checked: liveness (`Drains`, `Delivers`, `Received`, `Quits`,
`Reloads`), as the provers cannot reason about `ENABLED`, by which fairness is
defined.

## Not modelled

Input and output errors of the disc; a clock that is set back; a bind address
of the ingress; several listeners of one egress (they do not interact);
priorities of events, as all that are used have the same; how messages are laid
out in bytes (`TCPEgress` cuts them in pieces, `Identity` narrows the id);
interrupted system calls; the books of the quota for several queues.  Of the
ages that the quota goes by, the constructor of a queue reports the only one,
and it is always 0 (`queues.cc:68`), so that no file is ever discarded,
whatever `src/README.md:224` says; `push()` and `discard_file()` report none.
The models contain this as it is.  The syntax of a configuration, the log and the wrappers in
`network.cc` other than those of name look-up keep no state that others rely
on.  `exits.cc` and `testpayload.cc` are not built.

## Plan

1. `PayloadQueue`, `DurableFifo` and their proofs: done.
2. `TunnelIngress` and its proofs: done.
3. `TCPEgress` and its proofs: done.
4. `ClientTable`, `Delivery`, `Identity` and their proofs: done.
5. `Scheduler` with `MainLoop` and its proofs: done.
6. `Tunnel`: the wire between an ingress and an egress, refined from a channel
   that delivers whole messages or drops the rest of a connection.
7. `Quota`: its total over several queues, should files ever be discarded.
