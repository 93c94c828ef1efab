---------------------------- MODULE TunnelIngress ----------------------------
(* The sending end of a tunnel: TCPIngress (tcp_ingress.cc) with the        *)
(* Channels that stream through it (channels.cc), its look-up               *)
(* (addressing.cc) and its three events, as Scheduler::poll() delivers them *)
(* (scheduling.cc, descriptor.cc): a batch is collected, then each event of *)
(* the batch is handled.  poll() goes by the addresses of the events, which *)
(* lie in different objects (rstev in the ingress, that of a channel copied *)
(* into its queue's callback, channels.cc), so any order is possible.       *)
(*                                                                          *)
(* A message, with the header that Channel::describe() puts before it, is   *)
(* a number of pieces.  The socket buffer has room for a number of pieces.  *)
(* The queue is taken at its word (NotStranded of PayloadQueue): a channel  *)
(* is told of a payload that arrives in an empty queue or that is left when *)
(* another is consumed.  RDHUP, HUP, ERR and IN have one meaning to the     *)
(* ingress, "hup".  No bind address is configured.  The other ingresses are *)
(* seen only in the signal that all look-ups share (AddressManager).        *)
EXTENDS Integers, Sequences, FiniteSets

CONSTANTS
  Channels,       \* the channels of this ingress
  Pieces,         \* the pieces of a message
  Room,           \* the pieces a socket buffer holds
  Addresses,      \* the usable addresses a look-up yields
  MaxPushes,      \* bound on the payloads of a channel
  MaxFaults       \* bound on the failures of network and resolver, and on
                  \* the signals of other look-ups

ASSUME IngressAssumption ==
  /\ Pieces \in Nat \ {0} /\ Room \in Nat \ {0} /\ Addresses \in Nat \ {0}
  /\ MaxPushes \in Nat /\ MaxFaults \in Nat
  /\ Channels \cap {"fd", "reset", "signal"} = {}

VARIABLES
  link,          \* the socket, as the kernel has it ("none": sock < 0)
  room,          \* free room in the socket's buffer
  wire,          \* the pieces this connection was given
  connected, writable,   \* connected, upout_ready
  ainf,          \* the address in use or to be tried
  armed, got,    \* fdev's expected and got
  reset,         \* rstev is set
  lookup,        \* addrev, which is on unless this is "off"
  signalled,     \* SIGUSR2 is pending
  idle,          \* the channels whose queue_event is set
  batch,         \* the events collected and not yet handled
  streamers,     \* streamer_queue
  sending,       \* try_send() is in its loop
  pushed, sent,  \* the payloads pushed to and consumed from each queue
  current, done, \* Channel::current is set, Channel::done
  cut,           \* the last connection ended within a message, unnoticed
  faults,        \* failures so far
  overtaken,     \* a channel was handled ahead of the timer of its batch
  aborted        \* the assertion that has failed, or "no"

kernelVars == <<link, room, wire, signalled>>
sockVars   == <<connected, writable, ainf>>
fdVars     == <<armed, got>>
timeVars   == <<reset, lookup>>
chanVars   == <<pushed, sent, current, done>>
auxVars    == <<cut, faults, overtaken, aborted>>
vars == <<kernelVars, sockVars, fdVars, timeVars, idle, batch, streamers,
          sending, chanVars, auxVars>>

Links == {"none", "pending", "refused", "open", "ended", "broken"}

Piece == [chan : Channels, msg : 1..MaxPushes, part : 1..Pieces]

InStreamers(c) == \E i \in 1..Len(streamers) : streamers[i] = c

\* A fault costs one of a bounded supply.
Fault(n) == faults + n <= MaxFaults /\ faults' = faults + n

----------------------------------------------------------------------------
\* DescriptorEvent::set() forgets what was got and takes the event from the
\* batch b.  Mutated: it leaves the event there.
ArmOnly(b) == armed' = {"out", "hup"} /\ got' = {} /\ batch' = b
Arm(b) == armed' = {"out", "hup"} /\ got' = {} /\ batch' = b \ {"fd"}

\* clear_socket() cancels the descriptor event and closes the socket.
\* Mutated: it only closes.
CloseOnly(b) ==
  /\ link' = "none" /\ wire' = <<>> /\ armed' = {} /\ got' = {} /\ batch' = b
ClearSocket(b) ==
  /\ link' = "none" /\ wire' = <<>> /\ armed' = {} /\ got' = {}
  /\ batch' = b \ {"fd"}

\* try_connect(), from address a on: connect() fails at once for some of
\* the addresses, then is under way, or done, for the next.  When all have
\* failed, the timer is set.  Mutated: it is not.
GiveUp == reset' = reset
RetryLater == reset' = TRUE

TryConnect(a, b) ==
  \E n \in a..(Addresses + 1) :
    /\ Fault(n - a)
    /\ ainf' = n
    /\ IF n > Addresses
       THEN /\ RetryLater
            /\ ClearSocket(b)
            /\ connected' = FALSE
            /\ UNCHANGED room
       ELSE /\ \/ link' = "pending" /\ connected' = FALSE
               \/ link' = "open" /\ connected' = TRUE
            /\ room' = Room /\ wire' = <<>>
            /\ Arm(b)
            /\ UNCHANGED reset

\* The assertions of the ingress, by what they are about: those of
\* initiate_lookup(), and the others.
LookupAsserts == {"rstev", "addrev", "sock"}
OtherAsserts == {"soerr", "descriptor", "output", "resolved"}

Fails(assertion) == aborted' = assertion

\* initiate_lookup() asserts that neither the timer nor a look-up nor a
\* socket is about.
InitiateLookup ==
  /\ lookup' = IF ~reset /\ lookup = "off" /\ link = "none" THEN "running" ELSE lookup
  /\ CASE reset -> Fails("rstev")
       [] ~reset /\ lookup # "off" -> Fails("addrev")
       [] ~reset /\ lookup = "off" /\ link # "none" -> Fails("sock")
       [] OTHER -> UNCHANGED aborted

\* The program runs, and no handler is in its loop.
Running == aborted = "no" /\ ~sending

\* An event of the batch, whichever it is, is handled.
Turn(e) == Running /\ e \in batch

----------------------------------------------------------------------------
\* What the kernel would report of the socket.  A failed or reset connection
\* is reported whether asked for or not.
Raised ==
  CASE link \in {"refused", "broken"} -> {"out", "hup"}
    [] link = "ended" -> {"hup"} \cup (IF room > 0 THEN {"out"} ELSE {})
    [] link = "open" -> IF room > 0 THEN {"out"} ELSE {}
    [] OTHER -> {}

Triggered ==
  (armed \cap Raised) \cup (IF link \in {"refused", "broken"} THEN {"hup"} ELSE {})

\* Scheduler::poll() collects what has happened; what a descriptor event got
\* it no longer expects.  The timer is among it if `due'.
Collect(due) ==
  /\ Running /\ batch = {}
  /\ batch' = idle \cup (IF Triggered # {} THEN {"fd"} ELSE {})
                   \cup (IF signalled THEN {"signal"} ELSE {})
                   \cup (IF due THEN {"reset"} ELSE {})
  /\ batch' # {}
  /\ got' = got \cup Triggered
  /\ armed' = armed \ Triggered
  /\ idle' = {}
  /\ signalled' = FALSE
  /\ reset' = (reset /\ ~due)
  /\ overtaken' = FALSE
  /\ UNCHANGED <<link, room, wire, sockVars, lookup, streamers, sending,
                 chanVars, cut, faults, aborted>>

Poll == Collect(FALSE)
PollReset == reset /\ Collect(TRUE)

\* Channel::submit() pushes a payload, and the queue tells the channel if it
\* had none.
Submit(c) ==
  /\ Running
  /\ pushed[c] < MaxPushes
  /\ pushed' = [pushed EXCEPT ![c] = @ + 1]
  /\ idle' = IF pushed[c] = sent[c] THEN idle \cup {c} ELSE idle
  /\ UNCHANGED <<kernelVars, sockVars, fdVars, timeVars, batch, streamers,
                 sending, sent, current, done, auxVars>>

\* Channel::queue_ready() and TCPIngress::ready(): a new streamer joins the
\* end of the queue, and the first one starts things off.
Ready(c) ==
  /\ Turn(c)
  /\ overtaken' = (overtaken \/ "reset" \in batch)
  /\ streamers' = IF InStreamers(c) THEN streamers ELSE Append(streamers, c)
  /\ CASE streamers = <<>> /\ link = "none" /\ ~reset /\ lookup = "off" ->
            /\ InitiateLookup
            /\ batch' = batch \ {c}
            /\ UNCHANGED <<fdVars, sending>>
       [] streamers = <<>> /\ link # "none" /\ connected /\ ~writable ->
            /\ Arm(batch \ {c})
            /\ UNCHANGED <<lookup, aborted, sending>>
       [] streamers = <<>> /\ link # "none" /\ connected /\ writable ->
            /\ sending' = TRUE
            /\ batch' = batch \ {c}
            /\ UNCHANGED <<fdVars, lookup, aborted>>
       [] OTHER ->
            /\ batch' = batch \ {c}
            /\ UNCHANGED <<fdVars, lookup, aborted, sending>>
  /\ UNCHANGED <<kernelVars, sockVars, reset, idle, chanVars, cut, faults>>

----------------------------------------------------------------------------
\* One round of the loop of try_send(), for the first streamer c, of whose
\* message n pieces are gone: current and done as describe() leaves them.
Restarted(c) == IF current[c] THEN done[c] ELSE 0

\* Channel::consumed() compares what is gone with the whole of the message.
\* Mutated: with the message less its last piece.
DoneEarly(n) == n + 1 >= Pieces
AllDone(n) == n = Pieces

\* consumed() pokes the queue.  Mutated: it does not.
Unpoked(c) == UNCHANGED idle
Poked(c) == idle' = IF pushed[c] > sent'[c] THEN idle \cup {c} ELSE idle

\* The channel remembers that n pieces are gone.  Mutated: it does not
\* remember those of a partial send.
Forgotten(n) == 0
Progress(n) == n

MinOf(a, b) == IF a <= b THEN a ELSE b

SendSome ==
  LET c == Head(streamers)
      n == Restarted(c)
      k == MinOf(room, Pieces - n)
  IN  /\ aborted = "no" /\ sending
      /\ link \in {"open", "ended"} /\ room > 0
      /\ wire' = wire \o [i \in 1..k |-> [chan |-> c, msg |-> sent[c] + 1, part |-> n + i]]
      /\ room' = room - k
      /\ writable' = FALSE
      /\ IF AllDone(n + k)
         THEN /\ sent' = [sent EXCEPT ![c] = @ + 1]
              /\ Poked(c)
              /\ current' = [current EXCEPT ![c] = FALSE]
              /\ done' = [done EXCEPT ![c] = 0]
              /\ streamers' = Tail(streamers)
              /\ sending' = (Tail(streamers) # <<>>)
         ELSE /\ current' = [current EXCEPT ![c] = TRUE]
              /\ done' = [done EXCEPT ![c] = Progress(n + k)]
              /\ UNCHANGED <<sent, idle, streamers, sending>>
      /\ UNCHANGED <<link, signalled, connected, ainf, fdVars, timeVars,
                     batch, pushed, auxVars>>

\* The buffer is full: the ingress waits until it is not.  Mutated: the
\* streamer goes to the end of the queue meanwhile.
Rotated == streamers' = Append(Tail(streamers), Head(streamers))
KeepsTurn == streamers' = streamers

\* Mutated: the ingress does not ask to be told.
NoWait == UNCHANGED <<fdVars, batch>>
AwaitRoom == Arm(batch)

SendBlocked ==
  LET c == Head(streamers) IN
  /\ aborted = "no" /\ sending
  /\ link \in {"open", "ended"} /\ room = 0
  /\ current' = [current EXCEPT ![c] = TRUE]
  /\ done' = [done EXCEPT ![c] = Restarted(c)]
  /\ writable' = FALSE
  /\ sending' = FALSE
  /\ AwaitRoom
  /\ KeepsTurn
  /\ UNCHANGED <<kernelVars, connected, ainf, timeVars, idle, pushed, sent,
                 auxVars>>

\* sendmsg() fails: the message is to be sent from scratch (failed()), on
\* another connection.  Mutated: failed() does nothing.
NotFailed(c) == UNCHANGED <<current, done>>
Failed(c) ==
  /\ current' = [current EXCEPT ![c] = FALSE]
  /\ done' = [done EXCEPT ![c] = 0]

SendFailed ==
  /\ aborted = "no" /\ sending
  /\ link \in {"ended", "broken"}
  /\ Failed(Head(streamers))
  /\ cut' = FALSE
  /\ ClearSocket(batch)
  /\ reset' = TRUE
  /\ writable' = FALSE
  /\ sending' = FALSE
  /\ UNCHANGED <<room, signalled, connected, ainf, lookup, idle, streamers,
                 pushed, sent, faults, overtaken, aborted>>

----------------------------------------------------------------------------
\* descriptor_ready(), by what is got and what the socket turns out to be.
WriteReady == Turn("fd") /\ "hup" \notin got /\ connected
HungUp == Turn("fd") /\ "hup" \in got /\ connected
Connecting == Turn("fd") /\ ~connected

\* The connection failed: the next address is tried.
ConnectFailed ==
  /\ Connecting
  /\ link \in {"refused", "broken"}
  /\ TryConnect(ainf + 1, batch)
  /\ UNCHANGED <<signalled, writable, lookup, idle, streamers, sending,
                 chanVars, cut, overtaken, aborted>>

\* The socket has no error: the connection is complete, unless the peer has
\* hung up, in which case an assertion fails.
ConnectDone ==
  /\ Connecting
  /\ link \in {"none", "open", "ended"}
  /\ IF link # "none" /\ got = {"out"}
     THEN connected' = TRUE /\ Arm(batch) /\ UNCHANGED aborted
     ELSE /\ Fails(IF link = "none" THEN "descriptor" ELSE "soerr")
          /\ UNCHANGED <<connected, fdVars, batch>>
  /\ UNCHANGED <<kernelVars, writable, ainf, timeVars, idle, streamers,
                 sending, chanVars, cut, faults, overtaken>>

Writable ==
  /\ WriteReady
  /\ batch' = batch \ {"fd"}
  /\ IF "out" \in got /\ link # "none"
     THEN writable' = TRUE /\ sending' = (streamers # <<>>) /\ UNCHANGED aborted
     ELSE /\ Fails(IF link = "none" THEN "descriptor" ELSE "output")
          /\ UNCHANGED <<writable, sending>>
  /\ UNCHANGED <<kernelVars, connected, ainf, fdVars, timeVars, idle,
                 streamers, chanVars, cut, faults, overtaken>>

\* The peer hung up: the timer is set.  Nobody tells the streamer that its
\* message is to be sent from scratch.
PeerClosed ==
  /\ HungUp
  /\ IF link = "none"
     THEN /\ Fails("descriptor")
          /\ UNCHANGED <<link, wire, fdVars, batch, reset, cut>>
     ELSE /\ ClearSocket(batch)
          /\ reset' = TRUE
          /\ cut' = \E c \in Channels : current[c] /\ done[c] > 0
          /\ UNCHANGED aborted
  /\ UNCHANGED <<room, signalled, sockVars, lookup, idle, streamers, sending,
                 chanVars, faults, overtaken>>

\* rstev: initiate_lookup().
Reset ==
  /\ Turn("reset")
  /\ InitiateLookup
  /\ batch' = batch \ {"reset"}
  /\ UNCHANGED <<kernelVars, sockVars, fdVars, reset, idle, streamers, sending,
                 chanVars, cut, faults, overtaken>>

\* AddressManager::check() and AddressEvent::check(): only a look-up that
\* has succeeded turns the event off and calls address_resolved(), which
\* asserts that there is no socket.
Resolved ==
  /\ Turn("signal")
  /\ IF lookup = "answered" /\ link = "none"
     THEN /\ lookup' = "off"
          /\ TryConnect(1, batch \ {"signal"})
          /\ UNCHANGED aborted
     ELSE /\ IF lookup = "answered" THEN Fails("resolved") ELSE UNCHANGED aborted
          /\ batch' = batch \ {"signal"}
          /\ UNCHANGED <<lookup, link, room, wire, connected, ainf, fdVars,
                         reset, faults>>
  /\ UNCHANGED <<signalled, writable, idle, streamers, sending, chanVars,
                 cut, overtaken>>

----------------------------------------------------------------------------
\* The resolver ends a look-up, and signals.
LookupEnds ==
  /\ lookup = "running"
  /\ \/ lookup' = "answered" /\ UNCHANGED faults
     \/ lookup' = "failed" /\ Fault(1)
  /\ signalled' = TRUE
  /\ UNCHANGED <<link, room, wire, sockVars, fdVars, reset, idle, batch,
                 streamers, sending, chanVars, cut, overtaken, aborted>>

\* So does a look-up of another ingress.
OtherAnswers ==
  /\ ~signalled /\ signalled' = TRUE /\ Fault(1)
  /\ UNCHANGED <<link, room, wire, sockVars, fdVars, timeVars, idle, batch,
                 streamers, sending, chanVars, cut, overtaken, aborted>>

\* The kernel and the peer: a connection is made or refused, the peer reads,
\* or hangs up, or the connection is reset.
Environment(l, r) ==
  /\ link' = l /\ room' = r
  /\ UNCHANGED <<wire, signalled, sockVars, fdVars, timeVars, idle, batch,
                 streamers, sending, chanVars, cut, overtaken, aborted>>

Established == link = "pending" /\ Environment("open", room) /\ UNCHANGED faults
Refused == link = "pending" /\ Environment("refused", room) /\ Fault(1)
PeerReads ==
  link = "open" /\ room < Room /\ Environment(link, room + 1) /\ UNCHANGED faults
PeerEnds == link = "open" /\ Environment("ended", room) /\ Fault(1)
Broken == link \in {"open", "ended"} /\ Environment("broken", room) /\ Fault(1)

Init ==
  /\ link = "none" /\ room = 0 /\ wire = <<>> /\ signalled = FALSE
  /\ connected = FALSE /\ writable = FALSE /\ ainf = Addresses + 1
  /\ armed = {} /\ got = {}
  /\ reset = FALSE /\ lookup = "off"
  /\ idle = {} /\ batch = {} /\ streamers = <<>> /\ sending = FALSE
  /\ pushed = [c \in Channels |-> 0] /\ sent = [c \in Channels |-> 0]
  /\ current = [c \in Channels |-> FALSE] /\ done = [c \in Channels |-> 0]
  /\ cut = FALSE /\ faults = 0 /\ overtaken = FALSE /\ aborted = "no"

Handle ==
  \/ ConnectFailed \/ ConnectDone \/ Writable \/ PeerClosed \/ Reset \/ Resolved
  \/ \E c \in Channels : Ready(c)

Send == SendSome \/ SendBlocked \/ SendFailed

Next ==
  \/ Poll \/ PollReset \/ Handle \/ Send
  \/ \E c \in Channels : Submit(c)
  \/ LookupEnds \/ OtherAnswers \/ Established \/ Refused \/ PeerReads \/ PeerEnds \/ Broken

Spec == Init /\ [][Next]_vars

\* The event loop runs, time passes, the resolver answers, connecting ends
\* one way or the other and the peer reads.
Fairness ==
  /\ WF_vars(Poll) /\ WF_vars(PollReset) /\ WF_vars(Handle) /\ WF_vars(Send)
  /\ WF_vars(LookupEnds) /\ WF_vars(Established \/ Refused) /\ WF_vars(PeerReads)

FairSpec == Spec /\ Fairness

----------------------------------------------------------------------------
\* The state has the right types, and without a socket nothing is expected
\* of one (clear_socket()).
TypeOK ==
  /\ link \in Links /\ room \in 0..Room /\ wire \in Seq(Piece)
  /\ connected \in BOOLEAN /\ writable \in BOOLEAN
  /\ ainf \in 1..(Addresses + 1)
  /\ armed \subseteq {"out", "hup"} /\ got \subseteq {"out", "hup"}
  /\ reset \in BOOLEAN /\ signalled \in BOOLEAN
  /\ lookup \in {"off", "running", "answered", "failed"}
  /\ idle \subseteq Channels
  /\ batch \subseteq Channels \cup {"fd", "reset", "signal"}
  /\ streamers \in Seq(Channels) /\ sending \in BOOLEAN
  /\ pushed \in [Channels -> 0..MaxPushes] /\ sent \in [Channels -> 0..MaxPushes]
  /\ current \in [Channels -> BOOLEAN] /\ done \in [Channels -> 0..Pieces]
  /\ cut \in BOOLEAN /\ faults \in 0..MaxFaults /\ overtaken \in BOOLEAN
  /\ aborted \in {"no"} \cup LookupAsserts \cup OtherAsserts
  /\ link = "none" => armed = {} /\ "fd" \notin batch

\* Two things only make an assertion of tcp_ingress.cc fail: a peer that hangs
\* up before its connection is seen (soerr), and a channel that is handled
\* ahead of the timer of its batch, when initiate_lookup() may find a look-up,
\* a socket or the timer there already.  No event reaches a socket that is
\* gone, and no answer one that is there, in whatever order events come.
AssertsHold ==
  aborted \in {"no", "soerr"} \/ (aborted \in LookupAsserts /\ overtaken)

\* A channel with a payload has been told, or is in the ingress's queue, and
\* none waits there twice or with nothing to send (ready(), try_send()).
Attended ==
  /\ \A c \in Channels :
       pushed[c] > sent[c] => c \in idle \cup batch \/ InStreamers(c)
  /\ \A i, j \in 1..Len(streamers) :
       /\ pushed[streamers[i]] > sent[streamers[i]]
       /\ streamers[i] = streamers[j] => i = j

\* While streamers wait, something is under way that will serve them: the
\* timer, a look-up that runs or whose answer is about to be heard, a
\* connection being made, or a wait to write.  Only after a look-up that failed
\* (addressing.cc), or an assertion, need there be nothing.
NotStalled ==
  aborted = "no" /\ lookup # "failed" /\ streamers # <<>> /\ ~sending =>
    IF link = "none"
    THEN \/ reset \/ "reset" \in batch \/ lookup = "running"
         \/ lookup = "answered" /\ (signalled \/ "signal" \in batch)
    ELSE "out" \in armed \/ "fd" \in batch

\* Only the first streamer is part way through a message, so no streamer
\* overtakes a message that has been begun.
OnlyHeadStarted ==
  \A c \in Channels : done[c] > 0 => streamers # <<>> /\ Head(streamers) = c

\* Within a connection each piece follows the one before it in its message,
\* or a whole message: messages of channels are never interleaved, and none
\* is sent twice.
Contiguous ==
  \A i, j \in 1..Len(wire) :
    /\ i < j => wire[i] # wire[j]
    /\ j = i + 1 =>
         IF wire[j].part = 1 THEN wire[i].part = Pieces
         ELSE wire[i] = [wire[j] EXCEPT !.part = @ - 1]

\* A connection begins with the beginning of a message, as README says that
\* message boundaries are preserved.  The one exception is that the previous
\* connection was closed by the peer within a message (descriptor_ready()).
FramedUnlessCut == wire # <<>> /\ wire[1].part > 1 => cut

\* A payload leaves the queue only when its last piece has been accepted, and
\* directly after all others, unless these were accepted before a cut.
TakenWhole ==
  [][\A c \in Channels : sent'[c] # sent[c] =>
       /\ sent'[c] = sent[c] + 1
       /\ wire'[Len(wire')] = [chan |-> c, msg |-> sent'[c], part |-> Pieces]
       /\ Len(wire') >= Pieces \/ cut]_vars

\* Every payload is eventually sent, when failures do not go on for ever,
\* unless a look-up fails or an assertion does: nothing else can stop an
\* ingress, whatever the order of events, the peers and the network.
Delivers ==
  \A c \in Channels, n \in 1..MaxPushes :
    pushed[c] = n ~> sent[c] >= n \/ lookup = "failed" \/ aborted # "no"

\* AddressManager promises users the results of their look-ups, and README that
\* each datagram is sent: a failed look-up is no reason not to.
DeliversAnyhow ==
  \A c \in Channels, n \in 1..MaxPushes :
    pushed[c] = n ~> sent[c] >= n \/ aborted # "no"

\* tcp_ingress.cc asserts that a connection that failed has an error.
FailureHasError == aborted # "soerr"
=============================================================================
