------------------------------ MODULE TCPEgress ------------------------------
(* The receiving end of a tunnel: TCPEgress with a Listener, its            *)
(* Connections and their ClientStates (tcp_egress.cc, tcp_egress.hh), as    *)
(* the loops of Scheduler::poll() and trapped_main() drive them until the   *)
(* egress is deactivated and quiet.                                         *)
(*                                                                          *)
(* Each peer has the same messages to send, piece by piece; the first       *)
(* Header pieces of a message tell its length.  A message with a label that *)
(* no outlet knows is dropped by its ClientState.  Time is counted in ticks *)
(* and stops being told apart after MaxTime.                                *)
EXTENDS Integers, Sequences, FiniteSets, Totals

CONSTANTS
  Conns,        \* the connections peers may make
  Known,        \* those from peers in the PeerTable
  Messages,     \* what each peer has to send
  Header,       \* pieces in a header
  MaxLen,       \* the length of the longest payload, in pieces
  Timeout,      \* clid_timeout
  MaxTime,      \* bound on time
  MaxFaults,    \* bound on failures of accept() and rebind()
  Outcomes      \* what accept() may come to

Message == [clid : Nat, known : BOOLEAN, len : 0..MaxLen]

ASSUME EgressAssumption ==
  /\ Known \subseteq Conns
  /\ Header \in Nat \ {0} /\ MaxLen \in Nat
  /\ Messages \in Seq(Message)
  /\ Timeout \in Nat \ {0} /\ MaxTime \in Nat /\ MaxFaults \in Nat
  /\ Outcomes \subseteq {"accepted", "network", "transient", "fatal"}
  /\ Conns \cap {"no", "listen", "rebind", "idle", "flush"} = {}

VARIABLES
  listener,    \* the Listener: "none", "closed" (sock < 0) or "open", or
               \* "ghost": destroyed, but a socket was opened in what is left
  awaiting,    \* its fdev expects a connection
  rbev,        \* its rbev is set; it outlives the Listener
  orphaned,    \* a flush has destroyed it while its rbev was to be handled
  errno,       \* what errno holds: "again" if accept() left it so
  conn,        \* each connection, to the peer and to the egress
  expect,      \* its fdev expects input
  given, end,  \* pieces the peer has sent, and how it has ended
  stream,      \* the pieces the kernel holds
  buf,         \* Connection::buf, up to len
  handled,     \* the messages given to a ClientState
  used,        \* clstats: last_used of each client id, or -1
  idev, flusher, flushAt,  \* idev and flusher are set; flush_time
  now,         \* the clock
  batch,       \* the events collected and not yet handled
  busyWith,    \* the handler that is in its loop
  phase,       \* "running", "stopping" (deactivated), "stopped" or "crashed"
  check,       \* the main loop is about to ask busy()
  faults

listenVars == <<listener, awaiting, rbev, orphaned, errno>>
peerVars   == <<given, end>>
dataVars   == <<stream, buf, handled, used>>
houseVars  == <<idev, flusher, flushAt>>
loopVars   == <<phase, check>>
vars == <<listenVars, conn, expect, peerVars, dataVars, houseVars, now, batch,
          busyWith, loopVars, faults>>

Clids == {Messages[m].clid : m \in 1..Len(Messages)}

Size(m) == Header + Messages[m].len

\* Where the first m messages end among the pieces a peer sends.
Ends == RunningTotal([m \in 1..Len(Messages) |-> Size(m)])

\* The i-th piece a peer sends.
PieceAt(i) ==
  LET m == CHOOSE m \in 1..Len(Messages) : Ends[m - 1] < i /\ i <= Ends[m]
  IN  [msg |-> m, part |-> i - Ends[m - 1]]

Pieces(i, j) == [k \in 1..(j - i) |-> PieceAt(i + k)]

\* Connection::buf has room for one byte more than the longest message.
\* Mutated: it is too short.
ShortSize == Header + MaxLen - 1
BufSize == Header + MaxLen + 1

\* decode_message() finds a whole message at the start of the buffer.
Decodable(b) == Len(b) >= Header /\ Len(b) >= Size(b[1].msg)

FromMin(a, b) == IF a <= b THEN a ELSE b

Fault == faults < MaxFaults /\ faults' = faults + 1

----------------------------------------------------------------------------
Alive == phase \in {"running", "stopping"}

\* The events of a batch are handled in the order of their addresses, which
\* the code does not choose: any may be the next.
Turn(e) == Alive /\ busyWith = "no" /\ e \in batch

Input(c) == stream[c] # <<>> \/ end[c] # "no"

\* Scheduler::poll() collects what has happened; the timer of rebind() is
\* among it if `due'.  When its handlers are through, a main loop that has
\* deactivated the egress asks whether it is busy.
Collect(due) ==
  LET ready == {c \in Conns : expect[c] /\ Input(c)}
      knock == awaiting /\ \E c \in Conns : conn[c] = "queued"
      late  == flusher /\ now >= flushAt
  IN  /\ Alive /\ busyWith = "no" /\ batch = {} /\ ~check
      /\ batch' = ready \cup (IF knock THEN {"listen"} ELSE {})
                        \cup (IF idev THEN {"idle"} ELSE {})
                        \cup (IF late THEN {"flush"} ELSE {})
                        \cup (IF due THEN {"rebind"} ELSE {})
      /\ batch' # {}
      /\ expect' = [c \in Conns |-> expect[c] /\ c \notin ready]
      /\ awaiting' = (awaiting /\ ~knock)
      /\ idev' = FALSE
      /\ flusher' = (flusher /\ ~late)
      /\ rbev' = (rbev /\ ~due)
      /\ check' = (phase = "stopping")
      /\ UNCHANGED <<listener, orphaned, errno, conn, peerVars, dataVars, flushAt,
                     now, busyWith, phase, faults>>

Poll == Collect(FALSE)
PollRebind == rbev /\ Collect(TRUE)

----------------------------------------------------------------------------
\* Listener::handle_fd() after accept() gave connection c: what the errno of
\* an earlier call holds decides whether it is looked at.
Welcome(c) ==
  /\ conn' = [conn EXCEPT ![c] = IF errno = "again" THEN "leaked"
                                 ELSE IF c \in Known THEN "open" ELSE "shut"]
  /\ expect' = [expect EXCEPT ![c] = (conn'[c] = "open")]
  /\ awaiting' = TRUE /\ busyWith' = "no"
  /\ UNCHANGED <<listener, rbev, orphaned, errno, faults>>

\* A fault of the network: the connection is lost, and the next is accepted,
\* however long that takes.
AcceptAgain(c) ==
  /\ Fault
  /\ conn' = [conn EXCEPT ![c] = "shut"]
  /\ errno' = "other" /\ busyWith' = "listen"
  /\ UNCHANGED <<listener, awaiting, rbev, orphaned, expect>>

\* A fault that may pass: the event is awaited again.
AcceptLater ==
  /\ Fault
  /\ errno' = "again" /\ awaiting' = TRUE /\ busyWith' = "no"
  /\ UNCHANGED <<listener, rbev, orphaned, conn, expect>>

\* Any other: the socket is closed for 30 seconds, and with it the
\* connections in its backlog.  Mutated: nothing is to open it again.
Forsake == rbev' = rbev
Reopen == rbev' = TRUE

AcceptFatal ==
  /\ Fault
  /\ listener' = IF listener = "ghost" THEN "none" ELSE "closed"
  /\ awaiting' = FALSE /\ errno' = "other"
  /\ Reopen
  /\ conn' = [c \in Conns |-> IF conn[c] = "queued" THEN "shut" ELSE conn[c]]
  /\ busyWith' = "no"
  /\ UNCHANGED <<orphaned, expect>>

Accept ==
  /\ \/ Turn("listen")
     \/ Alive /\ busyWith = "listen"
  /\ batch' = batch \ {"listen"}
  /\ \E c \in {d \in Conns : conn[d] = "queued"}, o \in Outcomes :
       CASE o = "accepted"  -> Welcome(c)
         [] o = "network"   -> AcceptAgain(c)
         [] o = "transient" -> AcceptLater
         [] o = "fatal"     -> AcceptFatal
  /\ UNCHANGED <<peerVars, dataVars, houseVars, now, loopVars>>

\* Listener::rebind() opens the socket, or tries again later.
OpenSocket ==
  /\ listener' = IF listener = "none" THEN "ghost" ELSE "open"
  /\ awaiting' = TRUE /\ rbev' = FALSE
  /\ UNCHANGED <<errno, phase, faults>>

RetryLater ==
  /\ Fault
  /\ rbev' = TRUE /\ errno' \in {"other", "again"}
  /\ UNCHANGED <<listener, awaiting, phase>>

\* The Listener is gone, and the memory is not what it was.
Astray ==
  /\ listener # "closed" /\ phase' \in {phase, "crashed"}
  /\ UNCHANGED <<listener, awaiting, rbev, errno, faults>>

Rebind ==
  /\ Turn("rebind")
  /\ batch' = batch \ {"rebind"}
  /\ OpenSocket \/ RetryLater \/ Astray
  /\ UNCHANGED <<orphaned, conn, expect, peerVars, dataVars, houseVars, now,
                 busyWith, check>>

----------------------------------------------------------------------------
\* Connection::handle_fd() is ready for more input after it had some.
\* Mutated: it is not.
Deaf(c) == UNCHANGED expect
Listen(c) == expect' = [expect EXCEPT ![c] = TRUE]

\* recv() returns what there is, or what there is room for.
Receive(c) ==
  LET n == FromMin(Len(stream[c]), BufSize - Len(buf[c])) IN
  /\ Turn(c)
  /\ end[c] # "reset" /\ n > 0
  /\ buf' = [buf EXCEPT ![c] = @ \o SubSeq(stream[c], 1, n)]
  /\ stream' = [stream EXCEPT ![c] = SubSeq(@, n + 1, Len(@))]
  /\ Listen(c)
  /\ batch' = batch \ {c}
  /\ busyWith' = c
  /\ UNCHANGED <<listenVars, conn, peerVars, handled, used, houseVars, now,
                 loopVars, faults>>

\* recv() returns zero at the end of the stream, and also if there is no
\* room; or it fails.  The event that will flush the connection is set,
\* which takes it from the batch if it is there.  Mutated: it is not.
NoFlush(c) == idev' = idev /\ batch' = batch \ {c}
FlushSoon(c) == idev' = TRUE /\ batch' = batch \ {c, "idle"}

\* fdev is cancelled.  Mutated: set again.
KeepsInput(c) == expect' = [expect EXCEPT ![c] = TRUE]
CancelInput(c) == expect' = [expect EXCEPT ![c] = FALSE]

Finished(c) == end[c] = "reset" \/ stream[c] = <<>> \/ Len(buf[c]) = BufSize

Close(c) ==
  /\ Turn(c)
  /\ Finished(c)
  /\ conn' = [conn EXCEPT ![c] = "closed"]
  /\ CancelInput(c)
  /\ FlushSoon(c)
  /\ errno' = IF end[c] = "reset" THEN "other" ELSE errno
  /\ UNCHANGED <<listener, awaiting, rbev, orphaned, peerVars, dataVars, flusher,
                 flushAt, now, busyWith, loopVars, faults>>

\* process() consumes a message from the buffer.  Mutated: with all that
\* follows it.
Emptied(b) == <<>>
Consumed(b) == SubSeq(b, Size(b[1].msg) + 1, Len(b))

\* The client id has a ClientState, new or not; deliver() renews it if it
\* knows the label.
Process ==
  \E c \in Conns :
    /\ busyWith = c /\ Alive
    /\ IF Decodable(buf[c])
       THEN LET m == Messages[buf[c][1].msg] IN
            /\ handled' = [handled EXCEPT ![c] = @ + 1]
            /\ used' = [used EXCEPT ![c][m.clid] =
                          IF m.known \/ @ = -1 THEN now ELSE @]
            /\ buf' = [buf EXCEPT ![c] = Consumed(@)]
            /\ UNCHANGED busyWith
       ELSE busyWith' = "no" /\ UNCHANGED <<handled, used, buf>>
    /\ UNCHANGED <<listenVars, conn, expect, peerVars, stream, houseVars, now,
                   batch, loopVars, faults>>

----------------------------------------------------------------------------
\* expired(now - client_timeout).
Expired(t) == t < now - Timeout

\* set_flush() advances flush_time whatever flush() was called for.
\* Mutated: the timer is not set again.
NoTimer == flushAt' = flushAt /\ UNCHANGED flusher
SetFlush == flushAt' = FromMin(flushAt + Timeout, MaxTime + 1) /\ flusher' = TRUE

\* TCPEgress::flush(): closed connections, client states unused for long and
\* listeners without a prospect go.  A rebind that was collected but not yet
\* handled is no prospect, and is still to be handled when its Listener is gone.
Flush(b) ==
  LET lost == listener = "closed" /\ ~rbev IN
  /\ conn' = [c \in Conns |-> IF conn[c] = "closed" THEN "gone" ELSE conn[c]]
  /\ used' = [c \in Conns |-> [k \in Clids |->
                IF conn'[c] = "gone" \/ Expired(used[c][k]) THEN -1
                ELSE used[c][k]]]
  /\ listener' = IF lost THEN "none" ELSE listener
  /\ orphaned' = (orphaned \/ (lost /\ "rebind" \in b))
  /\ batch' = b
  /\ SetFlush
  /\ UNCHANGED <<awaiting, rbev, errno, expect, peerVars, stream, buf, handled,
                 now, busyWith, faults>>

Idle == Turn("idle") /\ Flush(batch \ {"idle"}) /\ UNCHANGED <<idev, loopVars>>

FlushTimer == Turn("flush") /\ Flush(batch \ {"flush"}) /\ UNCHANGED <<idev, loopVars>>

\* deactivate(), on a signal: the listener goes, but not its rbev if that is
\* set, and each connection's peer is asked to close.
Deactivate ==
  /\ phase = "running" /\ batch = {} /\ busyWith = "no"
  /\ phase' = "stopping" /\ check' = TRUE
  /\ IF listener = "ghost" THEN UNCHANGED <<listener, awaiting, conn>>
     ELSE /\ listener' = "none" /\ awaiting' = FALSE
          /\ conn' = [c \in Conns |-> IF conn[c] = "queued" THEN "shut" ELSE conn[c]]
  /\ UNCHANGED <<rbev, orphaned, errno, expect, peerVars, dataVars, houseVars, now, batch,
                 busyWith, faults>>

\* busy() flushes, and the main loop ends if no connection is left.
\* Mutated: if no event is due.
Unwatched == \A c \in Conns : ~expect[c] \/ ~Input(c)
Quiet == \A c \in Conns : conn'[c] # "open"

AskBusy ==
  /\ check /\ phase = "stopping" /\ batch = {} /\ busyWith = "no"
  /\ Flush(batch)
  /\ check' = FALSE
  /\ phase' = IF Quiet THEN "stopped" ELSE "stopping"
  /\ UNCHANGED idev

----------------------------------------------------------------------------
\* The peers, the network and the clock.
Environment(f) ==
  /\ f
  /\ UNCHANGED <<listenVars, expect, buf, handled, used, houseVars, batch,
                 busyWith, loopVars, faults>>

Connect(c) == Environment(
  /\ listener \in {"open", "ghost"} /\ conn[c] = "away"
  /\ conn' = [conn EXCEPT ![c] = "queued"]
  /\ UNCHANGED <<peerVars, stream, now>>)

\* What an unknown peer sends is never read.
PeerSends(c) == Environment(
  /\ c \in Known
  /\ conn[c] \in {"queued", "open"} /\ end[c] = "no"
  /\ given[c] < Ends[Len(Messages)]
  /\ given' = [given EXCEPT ![c] = @ + 1]
  /\ stream' = [stream EXCEPT ![c] = Append(@, PieceAt(given[c] + 1))]
  /\ UNCHANGED <<conn, end, now>>)

\* The peer closes or dies, of its own accord or when asked to close.
PeerEnds(c, how) == Environment(
  /\ conn[c] \in {"queued", "open"} /\ end[c] = "no"
  /\ end' = [end EXCEPT ![c] = how]
  /\ UNCHANGED <<conn, given, stream, now>>)

Tick == Environment(
  /\ now < MaxTime /\ now' = now + 1
  /\ UNCHANGED <<conn, peerVars, stream>>)

Init ==
  /\ listener = "open" /\ awaiting = TRUE /\ rbev = FALSE
  /\ orphaned = FALSE /\ errno = "other"
  /\ conn = [c \in Conns |-> "away"] /\ expect = [c \in Conns |-> FALSE]
  /\ given = [c \in Conns |-> 0] /\ end = [c \in Conns |-> "no"]
  /\ stream = [c \in Conns |-> <<>>] /\ buf = [c \in Conns |-> <<>>]
  /\ handled = [c \in Conns |-> 0]
  /\ used = [c \in Conns |-> [k \in Clids |-> -1]]
  /\ idev = FALSE /\ flusher = TRUE /\ flushAt = FromMin(Timeout, MaxTime + 1)
  /\ now = 0 /\ batch = {} /\ busyWith = "no"
  /\ phase = "running" /\ check = FALSE /\ faults = 0

Handle ==
  \/ Accept \/ Rebind \/ Process \/ Idle \/ FlushTimer \/ AskBusy
  \/ \E c \in Conns : Receive(c) \/ Close(c)

Next ==
  \/ Poll \/ PollRebind \/ Handle \/ Deactivate \/ Tick
  \/ \E c \in Conns : Connect(c) \/ PeerSends(c)
  \/ \E c \in Conns, how \in {"closed", "reset"} : PeerEnds(c, how)

Spec == Init /\ [][Next]_vars

\* The loops of the program go on.
FairSpec == Spec /\ WF_vars(Poll) /\ WF_vars(PollRebind) /\ WF_vars(Handle)

----------------------------------------------------------------------------
ConnStates == {"away", "queued", "open", "closed", "gone", "shut", "leaked"}

\* The state has the right types, and only an open connection expects input
\* or has its event collected (~Connection()).
TypeOK ==
  /\ listener \in {"none", "closed", "open", "ghost"} /\ errno \in {"other", "again"}
  /\ {awaiting, rbev, orphaned, idev, flusher, check} \subseteq BOOLEAN
  /\ conn \in [Conns -> ConnStates] /\ expect \in [Conns -> BOOLEAN]
  /\ given \in [Conns -> 0..Ends[Len(Messages)]]
  /\ end \in [Conns -> {"no", "closed", "reset"}]
  /\ handled \in [Conns -> 0..Len(Messages)]
  /\ used \in [Conns -> [Clids -> -1..MaxTime]]
  /\ flushAt \in 0..(MaxTime + 1) /\ now \in 0..MaxTime
  /\ batch \subseteq Conns \cup {"listen", "rebind", "idle", "flush"}
  /\ busyWith \in Conns \cup {"no", "listen"}
  /\ phase \in {"running", "stopping", "stopped", "crashed"} /\ faults \in 0..MaxFaults
  /\ \A c \in Conns : expect[c] \/ c \in batch => conn[c] = "open"
  /\ awaiting => listener \in {"open", "ghost"}

\* However the stream is cut into reads, what is buffered and unread is what
\* the peer sent after the messages handled (process(), handle_fd()).
Reassembled ==
  \A c \in Conns :
    buf[c] \o stream[c] = Pieces(Ends[handled[c]], given[c])

\* A connection is closed only when its peer has ended it, and then with no
\* whole message left unhandled, unless by a reset.
ClosesOnlyAtEnd ==
  [][\A c \in Conns : conn[c] = "open" /\ conn'[c] = "closed" =>
       \/ end[c] = "reset"
       \/ end[c] = "closed" /\ stream[c] = <<>> /\ ~Decodable(buf[c])]_vars

\* While the egress runs it is listening, or sure to listen again, unless a
\* flush has come between the timer of rebind() and its handler.
ListenerKept ==
  phase = "running" =>
    \/ listener = "open" /\ (awaiting \/ "listen" \in batch \/ busyWith = "listen")
    \/ listener = "closed" /\ (rbev \/ "rebind" \in batch)
    \/ orphaned

\* Housekeeping goes on: a flush is always to come, and soon if there is a
\* closed connection.
FlushPending ==
  Alive =>
    /\ flusher \/ "flush" \in batch
    /\ (\E c \in Conns : conn[c] = "closed") => idev \/ "idle" \in batch

\* When the main loop ends because the egress is quiet, every whole message
\* on a connection it took has been handled, unless it was reset.
StopsQuietly ==
  phase = "stopped" =>
    \A c \in Conns : conn[c] \in {"open", "closed", "gone"} /\ end[c] # "reset" =>
      handled[c] = Len(Messages) \/ given[c] < Ends[handled[c] + 1]

\* A message sent on a connection that was taken is eventually handled,
\* unless the connection is reset, accept() blocks the whole program, or that
\* ends with a listener gone astray.
Received ==
  \A c \in Conns, m \in 1..Len(Messages) :
    conn[c] = "open" /\ given[c] >= Ends[m] ~>
      handled[c] >= m \/ end[c] = "reset" \/ busyWith = "listen" \/ phase = "crashed"

\* tcp_egress.hh: if the peer of the connection is recognized, a Connection
\* is created to handle it.
AcceptedServed == \A c \in Known : conn[c] # "leaked"
=============================================================================
