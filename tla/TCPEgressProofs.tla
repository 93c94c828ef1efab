--------------------------- MODULE TCPEgressProofs ---------------------------
(* Proofs about TCPEgress, for all peers, messages and bounds.              *)
EXTENDS TCPEgress, TotalsProofs

Timers == {"no", "listen", "rebind", "idle", "flush"}

\* Connections are told from the other events of a batch.
LEMMA ConnsAreNotTimers == \A c \in Conns : c \notin Timers
BY EgressAssumption DEF Timers

----------------------------------------------------------------------------
(* The listener.                                                            *)

\* Handlers in which the listener has no part leave it as it is.
LEMMA ListenerLeftAlone ==
  ASSUME ListenerKept,
         UNCHANGED <<listener, awaiting, rbev, orphaned>>,
         phase' = phase,
         "listen" \in batch => "listen" \in batch',
         "rebind" \in batch => "rebind" \in batch',
         busyWith = "listen" => busyWith' = "listen"
  PROVE  ListenerKept'
BY DEF ListenerKept

\* Collecting events passes the wish to be called from what was set to the
\* batch.
LEMMA CollectKeepsListener ==
  ASSUME ListenerKept, NEW due \in BOOLEAN, Collect(due)
  PROVE  ListenerKept'
BY DEF ListenerKept, Collect

\* However accept() ends, the listener waits for the next connection or is to
\* be opened again.
LEMMA AcceptKeepsListener ==
  ASSUME ListenerKept, Accept
  PROVE  ListenerKept'
<1>1. PICK c \in Conns, o \in Outcomes :
        CASE o = "accepted"  -> Welcome(c)
          [] o = "network"   -> AcceptAgain(c)
          [] o = "transient" -> AcceptLater
          [] o = "fatal"     -> AcceptFatal
  BY DEF Accept
<1>2. /\ batch' = batch \ {"listen"} /\ phase' = phase
      /\ busyWith \in {"no", "listen"}
  BY DEF Accept, Turn, loopVars
<1>3. "rebind" \in batch => "rebind" \in batch'
  BY <1>2
<1>4. CASE Welcome(c)
  BY <1>2, <1>3, <1>4 DEF ListenerKept, Welcome
<1>5. CASE AcceptAgain(c)
  BY <1>2, <1>3, <1>5 DEF ListenerKept, AcceptAgain
<1>6. CASE AcceptLater
  BY <1>2, <1>3, <1>6 DEF ListenerKept, AcceptLater
<1>7. CASE AcceptFatal
  BY <1>2, <1>7 DEF ListenerKept, AcceptFatal, Reopen
<1>8. o \in {"accepted", "network", "transient", "fatal"}
  BY EgressAssumption
<1> QED BY <1>1, <1>4, <1>5, <1>6, <1>7, <1>8

\* A flush that destroys a listener which was to be opened has overtaken the
\* timer of its rebind().
LEMMA FlushKeepsListener ==
  ASSUME ListenerKept, NEW b,
         "rebind" \in batch => "rebind" \in b,
         "listen" \in batch => "listen" \in b,
         Flush(b), phase' = phase
  PROVE  ListenerKept'
BY DEF ListenerKept, Flush

\* rebind() opens the listener or is called again.
LEMMA RebindKeepsListener ==
  ASSUME ListenerKept, Rebind
  PROVE  ListenerKept'
<1>1. /\ batch' = batch \ {"rebind"} /\ UNCHANGED <<orphaned, busyWith>>
      /\ OpenSocket \/ RetryLater \/ Astray
  BY DEF Rebind
<1>2. CASE OpenSocket
  BY <1>1, <1>2 DEF ListenerKept, OpenSocket
<1>3. CASE RetryLater
  BY <1>1, <1>3 DEF ListenerKept, RetryLater
<1>4. CASE Astray
  BY <1>1, <1>4 DEF ListenerKept, Astray
<1> QED BY <1>1, <1>2, <1>3, <1>4

\* A running egress listens or is sure to listen again, unless a flush has
\* overtaken the timer of rebind() (Listener::flushable(),
\* Listener::rebind()).  ListenerKept is inductive.
THEOREM ListenerCorrect == Spec => []ListenerKept
<1>1. Init => ListenerKept
  BY DEF Init, ListenerKept
<1>2. ListenerKept /\ [Next]_vars => ListenerKept'
  <2> SUFFICES ASSUME ListenerKept, [Next]_vars PROVE ListenerKept'
    OBVIOUS
  <2>1. CASE Poll
    BY <2>1, CollectKeepsListener DEF Poll
  <2>2. CASE PollRebind
    BY <2>2, CollectKeepsListener DEF PollRebind
  <2>3. CASE Accept
    BY <2>3, AcceptKeepsListener
  <2>4. CASE Rebind
    BY <2>4, RebindKeepsListener
  <2>5. CASE Process
    BY <2>5, ListenerLeftAlone, ConnsAreNotTimers
       DEF Process, listenVars, loopVars, Timers
  <2>6. CASE Idle
    BY <2>6, FlushKeepsListener DEF Idle, loopVars
  <2>7. CASE FlushTimer
    BY <2>7, FlushKeepsListener DEF FlushTimer, loopVars
  <2>8. CASE AskBusy
    BY <2>8 DEF AskBusy, ListenerKept
  <2>9. ASSUME NEW c \in Conns, Receive(c) PROVE ListenerKept'
    BY <2>9, ListenerLeftAlone, ConnsAreNotTimers
       DEF Receive, Turn, listenVars, loopVars, Timers
  <2>10. ASSUME NEW c \in Conns, Close(c) PROVE ListenerKept'
    BY <2>10, ListenerLeftAlone, ConnsAreNotTimers
       DEF Close, FlushSoon, Turn, loopVars, Timers
  <2>11. CASE Deactivate
    BY <2>11 DEF Deactivate, ListenerKept
  <2>12. CASE Tick
    BY <2>12, ListenerLeftAlone DEF Tick, Environment, listenVars, loopVars
  <2>13. ASSUME NEW c \in Conns, Connect(c) \/ PeerSends(c) PROVE ListenerKept'
    BY <2>13, ListenerLeftAlone
       DEF Connect, PeerSends, Environment, listenVars, loopVars
  <2>14. ASSUME NEW c \in Conns, NEW how, PeerEnds(c, how) PROVE ListenerKept'
    BY <2>14, ListenerLeftAlone DEF PeerEnds, Environment, listenVars, loopVars
  <2>15. CASE UNCHANGED vars
    BY <2>15, ListenerLeftAlone DEF vars, listenVars, loopVars
  <2> QED
    BY <2>1, <2>2, <2>3, <2>4, <2>5, <2>6, <2>7, <2>8, <2>9, <2>10, <2>11,
       <2>12, <2>13, <2>14, <2>15 DEF Next, Handle
<1> QED BY <1>1, <1>2, PTL DEF Spec

----------------------------------------------------------------------------
(* Connections.                                                             *)

\* Only an open connection has an event that is set or collected.
OnlyOpenCalled ==
  /\ conn \in [Conns -> ConnStates] /\ expect \in [Conns -> BOOLEAN]
  /\ \A c \in Conns : expect[c] \/ c \in batch => conn[c] = "open"

\* accept() sets the event of a connection only if it becomes open.
LEMMA AcceptKeepsOpen ==
  ASSUME OnlyOpenCalled, Accept
  PROVE  OnlyOpenCalled'
<1>1. batch' = batch \ {"listen"}
  BY DEF Accept
<1>2. PICK c \in {d \in Conns : conn[d] = "queued"} :
        Welcome(c) \/ AcceptAgain(c) \/ AcceptLater \/ AcceptFatal
  BY EgressAssumption DEF Accept
<1>3. CASE Welcome(c)
  <2>1. PICK w \in {"leaked", "open", "shut"} :
          /\ conn' = [conn EXCEPT ![c] = w]
          /\ expect' = [expect EXCEPT ![c] = (conn'[c] = "open")]
    BY <1>3 DEF Welcome, OnlyOpenCalled
  <2> QED BY <1>1, <2>1 DEF OnlyOpenCalled, ConnStates
<1>4. CASE AcceptAgain(c)
  BY <1>1, <1>4 DEF AcceptAgain, OnlyOpenCalled, ConnStates
<1>5. CASE AcceptLater
  BY <1>1, <1>5 DEF AcceptLater, OnlyOpenCalled
<1>6. CASE AcceptFatal
  BY <1>1, <1>6 DEF AcceptFatal, OnlyOpenCalled, ConnStates
<1> QED BY <1>2, <1>3, <1>4, <1>5, <1>6

\* A flush takes closed connections only.
LEMMA FlushKeepsOpen ==
  ASSUME OnlyOpenCalled, NEW b \in SUBSET batch, Flush(b)
  PROVE  OnlyOpenCalled'
<1>1. batch' \subseteq batch /\ expect' = expect
  BY DEF Flush
<1>2. conn' = [c \in Conns |-> IF conn[c] = "closed" THEN "gone" ELSE conn[c]]
  BY DEF Flush
<1> QED BY <1>1, <1>2 DEF OnlyOpenCalled, ConnStates

\* No connection that is closed or was never taken has its event set or
\* collected, so that handle_fd() finds a socket.
THEOREM OpenCorrect == Spec => []OnlyOpenCalled
<1>1. Init => OnlyOpenCalled
  BY DEF Init, OnlyOpenCalled, ConnStates
<1>2. OnlyOpenCalled /\ [Next]_vars => OnlyOpenCalled'
  <2> SUFFICES ASSUME OnlyOpenCalled, [Next]_vars PROVE OnlyOpenCalled'
    OBVIOUS
  <2>1. ASSUME NEW due, Collect(due) PROVE OnlyOpenCalled'
    BY <2>1, ConnsAreNotTimers DEF Collect, OnlyOpenCalled, Timers
  <2>2. CASE Accept
    BY <2>2, AcceptKeepsOpen
  <2>3. CASE Rebind
    BY <2>3 DEF Rebind, OnlyOpenCalled
  <2>4. CASE Process
    BY <2>4 DEF Process, OnlyOpenCalled
  <2>5. CASE Idle \/ FlushTimer \/ AskBusy
    BY <2>5, FlushKeepsOpen DEF Idle, FlushTimer, AskBusy
  <2>6. ASSUME NEW c \in Conns, Receive(c) PROVE OnlyOpenCalled'
    BY <2>6 DEF Receive, Turn, Listen, OnlyOpenCalled
  <2>7. ASSUME NEW c \in Conns, Close(c) PROVE OnlyOpenCalled'
    BY <2>7 DEF Close, FlushSoon, CancelInput, OnlyOpenCalled, ConnStates
  <2>8. CASE Deactivate
    BY <2>8 DEF Deactivate, OnlyOpenCalled, ConnStates
  <2>9. CASE Tick
    BY <2>9 DEF Tick, Environment, OnlyOpenCalled
  <2>10. ASSUME NEW c \in Conns, Connect(c) PROVE OnlyOpenCalled'
    BY <2>10 DEF Connect, Environment, OnlyOpenCalled, ConnStates
  <2>11. ASSUME NEW c \in Conns, NEW how, PeerSends(c) \/ PeerEnds(c, how)
         PROVE  OnlyOpenCalled'
    BY <2>11 DEF PeerSends, PeerEnds, Environment, OnlyOpenCalled
  <2>12. CASE UNCHANGED vars
    BY <2>12 DEF vars, OnlyOpenCalled
  <2> QED
    BY <2>1, <2>2, <2>3, <2>4, <2>5, <2>6, <2>7, <2>8, <2>9, <2>10, <2>11, <2>12
       DEF Next, Handle, Poll, PollRebind
<1> QED BY <1>1, <1>2, PTL DEF Spec

----------------------------------------------------------------------------
(* Housekeeping.                                                            *)

\* A handler that closes no connection, and leaves what flushes are to come,
\* keeps them coming.
LEMMA FlushesLeftAlone ==
  ASSUME FlushPending,
         UNCHANGED <<flusher, idev>>,
         Alive' => Alive,
         "flush" \in batch => "flush" \in batch',
         "idle" \in batch => "idle" \in batch',
         \A c \in Conns : conn'[c] = "closed" => conn[c] = "closed"
  PROVE  FlushPending'
BY DEF FlushPending

\* poll() passes what was set to the batch.
LEMMA CollectKeepsFlushes ==
  ASSUME FlushPending, NEW due, Collect(due)
  PROVE  FlushPending'
BY DEF FlushPending, Collect, Alive

\* accept() closes no connection that was taken.
LEMMA AcceptKeepsFlushes ==
  ASSUME FlushPending, OnlyOpenCalled, Accept
  PROVE  FlushPending'
<1>1. /\ batch' = batch \ {"listen"}
      /\ UNCHANGED <<flusher, idev, phase>>
  BY DEF Accept, houseVars, loopVars
<1>2. PICK c \in Conns, o \in Outcomes :
        Welcome(c) \/ AcceptAgain(c) \/ AcceptLater \/ AcceptFatal
  BY EgressAssumption DEF Accept
<1>3. \A d \in Conns : conn'[d] = "closed" => conn[d] = "closed"
  <2>1. CASE Welcome(c)
    BY <2>1 DEF Welcome, OnlyOpenCalled
  <2>2. CASE AcceptAgain(c)
    BY <2>2 DEF AcceptAgain, OnlyOpenCalled
  <2>3. CASE AcceptLater
    BY <2>3 DEF AcceptLater
  <2>4. CASE AcceptFatal
    BY <2>4 DEF AcceptFatal, OnlyOpenCalled
  <2> QED BY <1>2, <2>1, <2>2, <2>3, <2>4
<1> QED BY <1>1, <1>3, FlushesLeftAlone DEF Alive

\* A flush leaves no closed connection, and sets the timer of the next.
LEMMA FlushKeepsFlushes == ASSUME NEW b, Flush(b) PROVE FlushPending'
BY DEF FlushPending, Flush, SetFlush

\* A flush is always to come, and soon when a connection has closed
\* (handle_fd(), set_flush()).
THEOREM FlushCorrect == Spec => []FlushPending
<1>1. Init => FlushPending
  BY DEF Init, FlushPending
<1>2. FlushPending /\ OnlyOpenCalled /\ [Next]_vars => FlushPending'
  <2> SUFFICES ASSUME FlushPending, OnlyOpenCalled, [Next]_vars
               PROVE  FlushPending'
    OBVIOUS
  <2>1. CASE Poll \/ PollRebind
    BY <2>1, CollectKeepsFlushes DEF Poll, PollRebind
  <2>2. CASE Accept
    BY <2>2, AcceptKeepsFlushes
  <2>3. CASE Rebind
    BY <2>3, FlushesLeftAlone DEF Rebind, Turn, houseVars
  <2>4. CASE Process
    BY <2>4, FlushesLeftAlone DEF Process, houseVars, loopVars, Alive
  <2>5. CASE Idle \/ FlushTimer \/ AskBusy
    BY <2>5, FlushKeepsFlushes DEF Idle, FlushTimer, AskBusy
  <2>6. ASSUME NEW c \in Conns, Receive(c) PROVE FlushPending'
    BY <2>6, FlushesLeftAlone, ConnsAreNotTimers
       DEF Receive, Turn, houseVars, loopVars, Timers
  <2>7. ASSUME NEW c \in Conns, Close(c) PROVE FlushPending'
    BY <2>7, ConnsAreNotTimers
       DEF Close, FlushSoon, FlushPending, Turn, loopVars, Timers
  <2>8. CASE Deactivate
    BY <2>8 DEF Deactivate, FlushPending, houseVars, Alive
  <2>9. CASE Tick
    BY <2>9, FlushesLeftAlone DEF Tick, Environment, houseVars, loopVars, Alive
  <2>10. ASSUME NEW c \in Conns, Connect(c) \/ PeerSends(c) PROVE FlushPending'
    <3>1. /\ UNCHANGED <<batch, flusher, idev, phase>>
          /\ conn' = conn \/ conn' = [conn EXCEPT ![c] = "queued"]
      BY <2>10 DEF Connect, PeerSends, Environment, houseVars, loopVars
    <3>2. \A d \in Conns : conn'[d] = "closed" => conn[d] = "closed"
      BY <3>1 DEF OnlyOpenCalled
    <3> QED BY <3>1, <3>2, FlushesLeftAlone DEF Alive
  <2>11. ASSUME NEW c \in Conns, NEW how, PeerEnds(c, how) PROVE FlushPending'
    BY <2>11, FlushesLeftAlone DEF PeerEnds, Environment, houseVars, loopVars, Alive
  <2>12. CASE UNCHANGED vars
    BY <2>12, FlushesLeftAlone DEF vars, houseVars, loopVars, Alive
  <2> QED
    BY <2>1, <2>2, <2>3, <2>4, <2>5, <2>6, <2>7, <2>8, <2>9, <2>10, <2>11, <2>12
       DEF Next, Handle
<1> QED BY <1>1, <1>2, OpenCorrect, PTL DEF Spec

----------------------------------------------------------------------------
(* What the peers send.                                                     *)

\* The messages, and the lengths they have.
LEMMA SizeFacts ==
  /\ Len(Messages) \in Nat /\ Header \in Nat \ {0} /\ MaxLen \in Nat
  /\ \A m \in 1..Len(Messages) :
       /\ Messages[m] \in Message /\ Messages[m].clid \in Clids
       /\ Size(m) \in Nat \ {0} /\ Size(m) >= Header /\ Size(m) <= Header + MaxLen
<1>1. Messages \in Seq(Message) /\ Header \in Nat \ {0} /\ MaxLen \in Nat
  BY EgressAssumption
<1>2. Len(Messages) \in Nat /\ \A m \in 1..Len(Messages) : Messages[m] \in Message
  BY <1>1
<1>3. \A m \in 1..Len(Messages) : Messages[m].len \in 0..MaxLen
  BY <1>2 DEF Message
<1>4. \A m \in 1..Len(Messages) : Messages[m].clid \in Clids
  BY DEF Clids
<1> QED BY <1>1, <1>2, <1>3, <1>4 DEF Size

\* The recursion that Ends satisfies.
LEMMA EndsFacts ==
  /\ Ends \in [0..Len(Messages) -> Nat] /\ Ends[0] = 0
  /\ \A m \in 1..Len(Messages) : Ends[m] = Ends[m - 1] + Size(m)
<1> DEFINE sizes == [m \in 1..Len(Messages) |-> Size(m)]
<1>1. /\ sizes \in Seq(Nat) /\ Len(sizes) = Len(Messages)
      /\ \A m \in 1..Len(Messages) : sizes[m] = Size(m)
  BY SizeFacts
<1>2. Ends = RunningTotal(sizes)
  BY DEF Ends
<1> HIDE DEF sizes
<1>3. /\ RunningTotal(sizes) \in [0..Len(sizes) -> Nat]
      /\ TotalsUpTo(sizes, RunningTotal(sizes), Len(sizes))
  BY <1>1, RunningTotalDef
<1> QED BY <1>1, <1>2, <1>3 DEF TotalsUpTo

\* A later message does not end earlier.
LEMMA EndsRise ==
  \A j \in 0..Len(Messages) : \A i \in 0..j : Ends[i] <= Ends[j]
<1> DEFINE T == {j \in 0..Len(Messages) : \A i \in 0..j : Ends[i] <= Ends[j]}
<1>1. 0 \in T
  BY EndsFacts, SizeFacts
<1>2. ASSUME NEW j \in 0..(Len(Messages) - 1), j \in T PROVE j + 1 \in T
  <2>1. \A i \in 0..j : Ends[i] <= Ends[j]
    BY <1>2
  <2>2. /\ j + 1 \in 1..Len(Messages) /\ (j + 1) - 1 = j /\ j \in 0..Len(Messages)
        /\ j + 1 \in 0..Len(Messages)
        /\ \A i \in 0..(j + 1) : i \in 0..Len(Messages) /\ (i \in 0..j \/ i = j + 1)
    BY SizeFacts
  <2>3. Ends[j + 1] = Ends[j] + Size(j + 1) /\ Size(j + 1) \in Nat
    BY <2>2, EndsFacts, SizeFacts
  <2>4. \A i \in 0..Len(Messages) : Ends[i] \in Nat
    BY EndsFacts
  <2>5. Ends[j] <= Ends[j + 1] /\ Ends[j + 1] <= Ends[j + 1]
    BY <2>2, <2>3, <2>4
  <2>6. \A i \in 0..(j + 1) : Ends[i] <= Ends[j + 1]
    BY <2>1, <2>2, <2>4, <2>5
  <2> QED BY <2>2, <2>6
<1> HIDE DEF T
<1>3. Len(Messages) \in Nat
  BY SizeFacts
<1>4. \A j \in 0..Len(Messages) : j \in T
  BY <1>1, <1>2, <1>3, UpToN, Zenon
<1> QED BY <1>4 DEF T

\* A piece tells the one message it is part of.
LEMMA PieceOfMessage ==
  ASSUME NEW m \in 1..Len(Messages), NEW i \in Nat, Ends[m - 1] < i, i <= Ends[m]
  PROVE  PieceAt(i).msg = m
<1> DEFINE Holds(k) == k \in 1..Len(Messages) /\ Ends[k - 1] < i /\ i <= Ends[k]
<1>1. ASSUME NEW k, Holds(k) PROVE k = m
  <2>1. /\ \A j \in 0..Len(Messages) : Ends[j] \in Nat
        /\ k \in 1..Len(Messages) /\ Ends[k - 1] < i /\ i <= Ends[k]
    BY <1>1, EndsFacts
  <2>2. /\ k - 1 \in 0..Len(Messages) /\ m - 1 \in 0..Len(Messages)
        /\ k \in 0..Len(Messages) /\ m \in 0..Len(Messages) /\ k \in Nat /\ m \in Nat
    BY <2>1, SizeFacts
  <2>3. CASE m < k
    <3>1. m \in 0..(k - 1)
      BY <2>2, <2>3
    <3>2. Ends[m] <= Ends[k - 1]
      BY <2>2, <3>1, EndsRise
    <3> QED BY <2>1, <2>2, <3>2
  <2>4. CASE k < m
    <3>1. k \in 0..(m - 1)
      BY <2>2, <2>4
    <3>2. Ends[k] <= Ends[m - 1]
      BY <2>2, <3>1, EndsRise
    <3> QED BY <2>1, <2>2, <3>2
  <2> QED BY <2>2, <2>3, <2>4
<1>2. Holds(m)
  OBVIOUS
<1>3. PieceAt(i).msg
      = CHOOSE k \in 1..Len(Messages) : Ends[k - 1] < i /\ i <= Ends[k]
  BY DEF PieceAt
<1> QED BY <1>1, <1>2, <1>3

\* The pieces there are.
Piece == {PieceAt(i) : i \in Nat}

\* The pieces from i to j are those of the stream, in order.
LEMMA PiecesFacts ==
  ASSUME NEW i \in Nat, NEW j \in Nat, i <= j
  PROVE  /\ Pieces(i, j) \in Seq(Piece) /\ Len(Pieces(i, j)) = j - i
         /\ \A k \in 1..(j - i) : Pieces(i, j)[k] = PieceAt(i + k)
<1>1. \A k \in 1..(j - i) : PieceAt(i + k) \in Piece
  BY DEF Piece
<1>2. j - i \in Nat
  OBVIOUS
<1> QED BY <1>1, <1>2 DEF Pieces

\* The pieces after some of them.
LEMMA PiecesAfter ==
  ASSUME NEW i \in Nat, NEW n \in Nat, NEW j \in Nat, i + n <= j
  PROVE  SubSeq(Pieces(i, j), n + 1, Len(Pieces(i, j))) = Pieces(i + n, j)
<1> DEFINE s == Pieces(i, j)
           t == Pieces(i + n, j)
           u == SubSeq(s, n + 1, Len(s))
<1>1. /\ s \in Seq(Piece) /\ Len(s) = j - i
      /\ \A k \in 1..(j - i) : s[k] = PieceAt(i + k)
  BY PiecesFacts
<1>2. /\ t \in Seq(Piece) /\ Len(t) = j - (i + n)
      /\ \A k \in 1..(j - (i + n)) : t[k] = PieceAt((i + n) + k)
  <2>1. i + n \in Nat
    OBVIOUS
  <2> QED BY <2>1, PiecesFacts, Zenon
<1> HIDE DEF s, t
<1>3. /\ u \in Seq(Piece) /\ Len(u) = j - (i + n)
      /\ \A k \in 1..(j - (i + n)) : u[k] = s[n + k]
  <2>1. n \in 0..Len(s) /\ Len(s) - n = j - (i + n)
    BY <1>1
  <2>2. /\ u \in Seq(Piece) /\ Len(u) = Len(s) - n
        /\ \A k \in 1..(Len(s) - n) : u[k] = s[n + k]
    BY <1>1, <2>1, SuffixFacts, Zenon
  <2> QED BY <2>1, <2>2, Zenon
<1> HIDE DEF u
<1>4. \A k \in 1..(j - (i + n)) :
        n + k \in 1..(j - i) /\ i + (n + k) = (i + n) + k
  OBVIOUS
<1>5. \A k \in 1..Len(u) : u[k] = t[k]
  BY <1>1, <1>2, <1>3, <1>4
<1>6. Len(u) = Len(t)
  BY <1>2, <1>3
<1>7. u = t
  BY <1>2, <1>3, <1>5, <1>6, SequencesEqual
<1> QED BY <1>7 DEF u, t, s

\* One piece more.
LEMMA PiecesAppend ==
  ASSUME NEW i \in Nat, NEW j \in Nat, i <= j
  PROVE  Append(Pieces(i, j), PieceAt(j + 1)) = Pieces(i, j + 1)
<1> DEFINE s == Pieces(i, j)
           t == Pieces(i, j + 1)
           x == PieceAt(j + 1)
           u == Append(s, x)
<1>1. /\ s \in Seq(Piece) /\ Len(s) = j - i
      /\ \A k \in 1..(j - i) : s[k] = PieceAt(i + k)
  BY PiecesFacts
<1>2. /\ t \in Seq(Piece) /\ Len(t) = (j + 1) - i
      /\ \A k \in 1..((j + 1) - i) : t[k] = PieceAt(i + k)
  BY PiecesFacts
<1>3. x \in Piece
  BY DEF Piece
<1> HIDE DEF s, t, x
<1>4. /\ u \in Seq(Piece) /\ Len(u) = (j - i) + 1 /\ u[(j - i) + 1] = x
      /\ \A k \in 1..(j - i) : u[k] = s[k]
  BY <1>1, <1>3
<1> HIDE DEF u
<1>5. t[(j - i) + 1] = x
  <2>1. (j - i) + 1 \in 1..((j + 1) - i) /\ i + ((j - i) + 1) = j + 1
    OBVIOUS
  <2>2. t[(j - i) + 1] = PieceAt(i + ((j - i) + 1))
    BY <1>2, <2>1, Zenon
  <2> QED BY <2>1, <2>2 DEF x
<1>6. \A k \in 1..Len(u) : k \in 1..(j - i) \/ k = (j - i) + 1
  BY <1>4
<1>7. \A k \in 1..(j - i) : k \in 1..((j + 1) - i)
  OBVIOUS
<1>8. \A k \in 1..Len(u) : u[k] = t[k]
  BY <1>1, <1>2, <1>4, <1>5, <1>6, <1>7
<1>9. Len(u) = Len(t)
  BY <1>2, <1>4
<1>10. u = t
  BY <1>2, <1>4, <1>8, <1>9, SequencesEqual
<1> QED BY <1>10 DEF u, t, s, x

\* What is kept of every stream, and that no more was handled than was sent.
Streamed ==
  /\ buf \in [Conns -> Seq(Piece)] /\ stream \in [Conns -> Seq(Piece)]
  /\ handled \in [Conns -> 0..Len(Messages)]
  /\ given \in [Conns -> 0..Ends[Len(Messages)]]
  /\ \A c \in Conns : Ends[handled[c]] <= given[c]
  /\ Reassembled

\* The numbers of one connection.
LEMMA StreamFacts ==
  ASSUME Streamed, NEW c \in Conns
  PROVE  /\ buf[c] \in Seq(Piece) /\ stream[c] \in Seq(Piece)
         /\ handled[c] \in 0..Len(Messages) /\ given[c] \in Nat
         /\ given[c] <= Ends[Len(Messages)] /\ Ends[handled[c]] \in Nat
         /\ Ends[handled[c]] <= given[c]
         /\ buf[c] \o stream[c] = Pieces(Ends[handled[c]], given[c])
         /\ Len(buf[c]) \in Nat /\ Len(stream[c]) \in Nat
         /\ Len(buf[c]) + Len(stream[c]) = given[c] - Ends[handled[c]]
<1>1. /\ buf[c] \in Seq(Piece) /\ stream[c] \in Seq(Piece)
      /\ handled[c] \in 0..Len(Messages) /\ given[c] \in 0..Ends[Len(Messages)]
      /\ Ends[handled[c]] <= given[c]
      /\ buf[c] \o stream[c] = Pieces(Ends[handled[c]], given[c])
  BY DEF Streamed, Reassembled
<1>2. Ends[Len(Messages)] \in Nat /\ Ends[handled[c]] \in Nat
  BY <1>1, EndsFacts, SizeFacts
<1>3. given[c] \in Nat /\ given[c] <= Ends[Len(Messages)]
  BY <1>1, <1>2
<1>4. Len(Pieces(Ends[handled[c]], given[c])) = given[c] - Ends[handled[c]]
  BY <1>1, <1>2, <1>3, PiecesFacts
<1>5. /\ Len(buf[c]) \in Nat /\ Len(stream[c]) \in Nat
      /\ Len(buf[c] \o stream[c]) = Len(buf[c]) + Len(stream[c])
  <2>1. ASSUME NEW S, NEW q \in Seq(S) PROVE Len(q) \in Nat
    OBVIOUS
  <2> QED BY <1>1, <2>1, ConcatFacts, Zenon
<1> QED BY <1>1, <1>2, <1>3, <1>4, <1>5

\* The buffer begins with the message that follows those handled.
LEMMA FirstPiece ==
  ASSUME Streamed, NEW c \in Conns, Len(buf[c]) > 0
  PROVE  /\ handled[c] + 1 \in 1..Len(Messages)
         /\ buf[c][1].msg = handled[c] + 1
<1> DEFINE h == handled[c]
           g == given[c]
           b == buf[c]
           s == stream[c]
<1>1. /\ b \in Seq(Piece) /\ s \in Seq(Piece) /\ h \in 0..Len(Messages) /\ g \in Nat
      /\ g <= Ends[Len(Messages)] /\ Ends[h] \in Nat /\ Ends[h] <= g
      /\ b \o s = Pieces(Ends[h], g) /\ Len(b) \in Nat /\ Len(s) \in Nat
      /\ Len(b) + Len(s) = g - Ends[h] /\ Len(b) > 0
  BY StreamFacts
<1> HIDE DEF h, g, b, s
<1>2. Ends[h] < g
  BY <1>1
<1>3. Len(Messages) \in Nat /\ Ends[Len(Messages)] \in Nat
  BY SizeFacts, EndsFacts
<1>4. h + 1 \in 1..Len(Messages) /\ (h + 1) - 1 = h
  <2>1. h # Len(Messages)
    BY <1>1, <1>2, <1>3
  <2> QED BY <1>1, <1>3, <2>1
<1>5. Ends[h + 1] = Ends[h] + Size(h + 1) /\ Size(h + 1) \in Nat \ {0}
  BY <1>4, EndsFacts, SizeFacts
<1>6. PieceAt(Ends[h] + 1).msg = h + 1
  <2> DEFINE i == Ends[h] + 1
  <2>1. i \in Nat /\ Ends[(h + 1) - 1] < i /\ i <= Ends[h + 1]
    BY <1>1, <1>4, <1>5
  <2> HIDE DEF i
  <2>2. PieceAt(i).msg = h + 1
    BY <1>4, <2>1, PieceOfMessage
  <2> QED BY <2>2 DEF i
<1>7. b[1] = PieceAt(Ends[h] + 1)
  <2>1. (b \o s)[1] = b[1]
    BY <1>1
  <2>2. 1 \in 1..(g - Ends[h])
    BY <1>1, <1>2
  <2>3. Pieces(Ends[h], g)[1] = PieceAt(Ends[h] + 1)
    BY <1>1, <2>2, PiecesFacts
  <2> QED BY <1>1, <2>1, <2>3, Zenon
<1> QED BY <1>4, <1>6, <1>7 DEF h, b

\* A message leaves the buffer as it is handled.
LEMMA ProcessKeepsStreams == ASSUME Streamed, Process PROVE Streamed'
<1>1. PICK c \in Conns :
        IF Decodable(buf[c])
        THEN /\ handled' = [handled EXCEPT ![c] = @ + 1]
             /\ buf' = [buf EXCEPT ![c] = Consumed(@)]
        ELSE UNCHANGED <<handled, buf>>
  BY DEF Process
<1>2. UNCHANGED <<given, stream>>
  BY DEF Process, peerVars
<1>3. CASE ~Decodable(buf[c])
  BY <1>1, <1>2, <1>3 DEF Streamed, Reassembled
<1>4. CASE Decodable(buf[c])
  <2> DEFINE h == handled[c]
             g == given[c]
             b == buf[c]
             s == stream[c]
             r == Consumed(b)
             n == Size(h + 1)
  <2>1. /\ b \in Seq(Piece) /\ s \in Seq(Piece) /\ h \in 0..Len(Messages) /\ g \in Nat
        /\ Ends[h] \in Nat /\ Ends[h] <= g
        /\ b \o s = Pieces(Ends[h], g) /\ Len(b) \in Nat /\ Len(s) \in Nat
        /\ Len(b) + Len(s) = g - Ends[h]
    BY StreamFacts
  <2>2. Len(b) > 0
    BY <1>4, <2>1, SizeFacts DEF Decodable
  <2>3. h + 1 \in 1..Len(Messages) /\ b[1].msg = h + 1
    BY <2>2, FirstPiece
  <2>4. r = SubSeq(b, n + 1, Len(b)) /\ Len(b) >= n
    BY <1>4, <2>3 DEF Decodable, Consumed
  <2>5. /\ handled' = [handled EXCEPT ![c] = h + 1]
        /\ buf' = [buf EXCEPT ![c] = r]
    BY <1>1, <1>4
  <2> HIDE DEF h, g, b, s, r, n
  <2>6. n \in Nat /\ Ends[h + 1] = Ends[h] + n /\ h + 1 \in 0..Len(Messages)
    <3>1. h \in Nat /\ (h + 1) - 1 = h
      BY <2>1
    <3> QED BY <2>3, <3>1, SizeFacts, EndsFacts DEF n
  <2>7. Ends[h] + n <= g /\ n \in 0..Len(b)
    BY <2>1, <2>4, <2>6
  <2>8. r \in Seq(Piece)
    BY <2>1, <2>4, <2>7, SuffixFacts
  <2>9. r \o s = Pieces(Ends[h + 1], g)
    <3>1. r \o s = SubSeq(b \o s, n + 1, Len(b \o s))
      BY <2>1, <2>4, <2>7, SuffixOfConcat
    <3>2. SubSeq(Pieces(Ends[h], g), n + 1, Len(Pieces(Ends[h], g)))
          = Pieces(Ends[h] + n, g)
      BY <2>1, <2>6, <2>7, PiecesAfter
    <3> QED BY <2>1, <2>6, <3>1, <3>2, Zenon
  <2>10. /\ buf' \in [Conns -> Seq(Piece)]
         /\ handled' \in [Conns -> 0..Len(Messages)]
    BY <2>5, <2>6, <2>8 DEF Streamed
  <2>11. ASSUME NEW d \in Conns
         PROVE  /\ Ends[handled'[d]] <= given[d]
                /\ buf'[d] \o stream[d] = Pieces(Ends[handled'[d]], given[d])
    <3>1. CASE d = c
      <4>1. handled'[d] = h + 1 /\ buf'[d] = r /\ stream[d] = s /\ given[d] = g
        BY <2>5, <3>1 DEF Streamed, s, g
      <4>2. Ends[h + 1] <= g
        BY <2>6, <2>7
      <4> QED BY <2>9, <4>1, <4>2
    <3>2. CASE d # c
      <4>1. handled'[d] = handled[d] /\ buf'[d] = buf[d]
        BY <2>5, <3>2 DEF Streamed
      <4> QED BY <4>1, StreamFacts
    <3> QED BY <3>1, <3>2
  <2> QED BY <1>2, <2>10, <2>11 DEF Streamed, Reassembled
<1> QED BY <1>3, <1>4

\* What is read goes from the kernel to the end of the buffer.
LEMMA ReceiveKeepsStreams ==
  ASSUME Streamed, NEW c \in Conns, Receive(c) PROVE Streamed'
<1> DEFINE b == buf[c]
           s == stream[c]
           n == FromMin(Len(s), BufSize - Len(b))
           b1 == b \o SubSeq(s, 1, n)
           s1 == SubSeq(s, n + 1, Len(s))
<1>1. /\ b \in Seq(Piece) /\ s \in Seq(Piece)
      /\ Len(b) \in Nat /\ Len(s) \in Nat
  BY StreamFacts
<1>2. /\ n > 0 /\ UNCHANGED <<given, handled>>
      /\ buf' = [buf EXCEPT ![c] = b1]
      /\ stream' = [stream EXCEPT ![c] = s1]
  BY DEF Receive, peerVars
<1> HIDE DEF b, s
<1>3. n \in 0..Len(s)
  BY <1>1, <1>2, SizeFacts DEF FromMin, BufSize
<1> HIDE DEF n
<1>4. /\ SubSeq(s, 1, n) \in Seq(Piece) /\ s1 \in Seq(Piece)
      /\ s = SubSeq(s, 1, n) \o s1
  BY <1>1, <1>3, SequenceSplit
<1>5. b1 \in Seq(Piece) /\ b1 \o s1 = b \o s
  <2> DEFINE a == SubSeq(s, 1, n)
  <2> HIDE DEF a, s1
  <2>1. a \in Seq(Piece) /\ s1 \in Seq(Piece) /\ s = a \o s1
    BY <1>4 DEF a
  <2>2. b \o a \in Seq(Piece) /\ (b \o a) \o s1 = b \o (a \o s1)
    BY <1>1, <2>1, ConcatAssociative, ConcatFacts
  <2>3. (b \o a) \o s1 = b \o s
    BY <2>1, <2>2, Zenon
  <2> QED BY <2>2, <2>3 DEF a
<1> HIDE DEF b1, s1
<1>6. buf' \in [Conns -> Seq(Piece)] /\ stream' \in [Conns -> Seq(Piece)]
  BY <1>2, <1>4, <1>5 DEF Streamed
<1>7. ASSUME NEW d \in Conns PROVE buf'[d] \o stream'[d] = buf[d] \o stream[d]
  <2>1. CASE d = c
    <3>1. buf'[d] = b1 /\ stream'[d] = s1 /\ buf[d] = b /\ stream[d] = s
      BY <1>2, <2>1 DEF Streamed, b, s
    <3> QED BY <1>5, <3>1
  <2>2. CASE d # c
    BY <1>2, <2>2 DEF Streamed
  <2> QED BY <2>1, <2>2
<1>8. Reassembled'
  BY <1>2, <1>7 DEF Streamed, Reassembled
<1> QED BY <1>2, <1>6, <1>8 DEF Streamed

\* What a peer sends is the next piece.
LEMMA SendKeepsStreams ==
  ASSUME Streamed, NEW c \in Conns, PeerSends(c) PROVE Streamed'
<1> DEFINE h == handled[c]
           g == given[c]
           b == buf[c]
           s == stream[c]
           x == PieceAt(g + 1)
           s1 == Append(s, x)
<1>1. /\ b \in Seq(Piece) /\ s \in Seq(Piece) /\ g \in Nat
      /\ Ends[h] \in Nat /\ Ends[h] <= g /\ b \o s = Pieces(Ends[h], g)
  BY StreamFacts
<1>2. /\ given' = [given EXCEPT ![c] = g + 1]
      /\ stream' = [stream EXCEPT ![c] = s1]
      /\ g < Ends[Len(Messages)] /\ UNCHANGED <<buf, handled>>
  BY DEF PeerSends, Environment
<1> HIDE DEF h, g, b, s
<1>3. g + 1 \in 0..Ends[Len(Messages)]
  <2> DEFINE all == Ends[Len(Messages)]
  <2>1. all \in Nat
    BY EndsFacts, SizeFacts
  <2>2. g \in Nat /\ g < all
    BY <1>1, <1>2
  <2> HIDE DEF all
  <2>3. g + 1 \in 0..all
    BY <2>1, <2>2
  <2> QED BY <2>3 DEF all
<1>4. x \in Piece
  <2>1. g + 1 \in Nat
    BY <1>1
  <2> QED BY <2>1 DEF Piece
<1>5. b \o s1 = Pieces(Ends[h], g + 1)
  <2>1. Append(Pieces(Ends[h], g), x) = Pieces(Ends[h], g + 1)
    BY <1>1, PiecesAppend
  <2> HIDE DEF x
  <2>2. b \o s1 = Append(b \o s, x)
    BY <1>1, <1>4, AppendToConcat
  <2> QED BY <1>1, <2>1, <2>2, Zenon
<1>6. s1 \in Seq(Piece)
  <2> HIDE DEF x
  <2> QED BY <1>1, <1>4
<1> HIDE DEF s1
<1>7. /\ stream' \in [Conns -> Seq(Piece)]
      /\ given' \in [Conns -> 0..Ends[Len(Messages)]]
  BY <1>2, <1>3, <1>6 DEF Streamed
<1>8. ASSUME NEW d \in Conns
      PROVE  /\ Ends[handled[d]] <= given'[d]
             /\ buf[d] \o stream'[d] = Pieces(Ends[handled[d]], given'[d])
  <2>1. CASE d = c
    <3>1. /\ given'[d] = g + 1 /\ stream'[d] = s1 /\ buf[d] = b /\ handled[d] = h
      BY <1>2, <2>1 DEF Streamed, b, h
    <3>2. Ends[h] <= g + 1
      BY <1>1
    <3> QED BY <1>5, <3>1, <3>2
  <2>2. CASE d # c
    <3>1. given'[d] = given[d] /\ stream'[d] = stream[d]
      BY <1>2, <2>2 DEF Streamed
    <3> QED BY <3>1, StreamFacts
  <2> QED BY <2>1, <2>2
<1> QED BY <1>2, <1>7, <1>8 DEF Streamed, Reassembled

\* However the stream is cut into reads, what is buffered and unread is what
\* the peer sent after the messages handled (process(), handle_fd()).
LEMMA StreamedCorrect == Spec => []Streamed
<1>1. Init => Streamed
  <2> SUFFICES ASSUME Init PROVE Streamed
    OBVIOUS
  <2>1. /\ buf = [c \in Conns |-> <<>>] /\ stream = [c \in Conns |-> <<>>]
        /\ handled = [c \in Conns |-> 0] /\ given = [c \in Conns |-> 0]
    BY DEF Init
  <2>2. <<>> \in Seq(Piece) /\ <<>> \o <<>> = <<>>
    OBVIOUS
  <2>3. 0 \in 0..Len(Messages) /\ 0 \in 0..Ends[Len(Messages)] /\ Ends[0] = 0
    BY SizeFacts, EndsFacts
  <2>4. Pieces(0, 0) = <<>>
    <3>1. Pieces(0, 0) \in Seq(Piece) /\ Len(Pieces(0, 0)) = 0
      BY PiecesFacts
    <3> HIDE DEF Pieces
    <3> QED BY <3>1
  <2>5. \A c \in Conns : Ends[handled[c]] <= given[c]
                         /\ buf[c] \o stream[c] = Pieces(Ends[handled[c]], given[c])
    BY <2>1, <2>2, <2>3, <2>4
  <2> QED BY <2>1, <2>2, <2>3, <2>5 DEF Streamed, Reassembled
<1>2. Streamed /\ [Next]_vars => Streamed'
  <2> SUFFICES ASSUME Streamed, [Next]_vars PROVE Streamed'
    OBVIOUS
  <2>1. ASSUME UNCHANGED <<buf, stream, handled, given>> PROVE Streamed'
    BY <2>1 DEF Streamed, Reassembled
  <2>2. CASE Process
    BY <2>2, ProcessKeepsStreams
  <2>3. ASSUME NEW c \in Conns, Receive(c) PROVE Streamed'
    BY <2>3, ReceiveKeepsStreams
  <2>4. ASSUME NEW c \in Conns, PeerSends(c) PROVE Streamed'
    BY <2>4, SendKeepsStreams
  <2>5. CASE Poll \/ PollRebind \/ Accept \/ Rebind \/ Deactivate
    BY <2>1, <2>5
       DEF Poll, PollRebind, Collect, Accept, Rebind, Deactivate, dataVars, peerVars
  <2>6. CASE Idle \/ FlushTimer \/ AskBusy
    BY <2>1, <2>6 DEF Idle, FlushTimer, AskBusy, Flush, peerVars
  <2>7. CASE Tick \/ UNCHANGED vars
    BY <2>1, <2>7 DEF Tick, Environment, vars, dataVars, peerVars
  <2>8. ASSUME NEW c \in Conns, NEW how, Close(c) \/ Connect(c) \/ PeerEnds(c, how)
        PROVE  Streamed'
    BY <2>1, <2>8 DEF Close, Connect, PeerEnds, Environment, dataVars, peerVars
  <2> QED
    BY <2>2, <2>3, <2>4, <2>5, <2>6, <2>7, <2>8 DEF Next, Handle
<1> QED BY <1>1, <1>2, PTL DEF Spec
\* However the stream is cut into reads, what is buffered and unread is what
\* the peer sent after the messages handled (process(), handle_fd()).
THEOREM ReassembledCorrect == Spec => []Reassembled
<1>1. Streamed => Reassembled
  BY DEF Streamed
<1> QED BY <1>1, StreamedCorrect, PTL

----------------------------------------------------------------------------
(* The types of the state.                                                  *)

\* The listener is open when accept() is called or to be called.
ListenerTyped ==
  /\ listener \in {"none", "closed", "open", "ghost"} /\ errno \in {"other", "again"}
  /\ awaiting \in BOOLEAN /\ rbev \in BOOLEAN /\ orphaned \in BOOLEAN
  /\ faults \in 0..MaxFaults
  /\ awaiting \/ "listen" \in batch \/ busyWith = "listen" =>
       listener \in {"open", "ghost"}

\* Handlers in which the listener has no part keep that.
LEMMA ListenerTypeLeftAlone ==
  ASSUME ListenerTyped,
         UNCHANGED <<listener, awaiting, rbev, orphaned, faults>>,
         errno' \in {"other", "again"},
         "listen" \in batch' => "listen" \in batch,
         busyWith' = "listen" => busyWith = "listen"
  PROVE  ListenerTyped'
BY DEF ListenerTyped

\* A fault is counted.
LEMMA FaultIsCounted ==
  ASSUME faults \in 0..MaxFaults, Fault PROVE faults' \in 0..MaxFaults
<1>1. MaxFaults \in Nat
  BY EgressAssumption
<1> QED BY <1>1 DEF Fault

\* However accept() ends, it was called on an open listener.
LEMMA AcceptKeepsListenerType ==
  ASSUME ListenerTyped, Accept
  PROVE  ListenerTyped'
<1>1. PICK c \in Conns :
        Welcome(c) \/ AcceptAgain(c) \/ AcceptLater \/ AcceptFatal
  BY EgressAssumption DEF Accept
<1>2. batch' = batch \ {"listen"} /\ listener \in {"open", "ghost"}
  BY DEF Accept, Turn, ListenerTyped
<1>3. faults' \in 0..MaxFaults
  BY <1>1, FaultIsCounted
     DEF Welcome, AcceptAgain, AcceptLater, AcceptFatal, ListenerTyped
<1>4. CASE Welcome(c)
  BY <1>2, <1>3, <1>4 DEF Welcome, ListenerTyped
<1>5. CASE AcceptAgain(c)
  BY <1>2, <1>3, <1>5 DEF AcceptAgain, ListenerTyped
<1>6. CASE AcceptLater
  BY <1>2, <1>3, <1>6 DEF AcceptLater, ListenerTyped
<1>7. CASE AcceptFatal
  BY <1>2, <1>3, <1>7 DEF AcceptFatal, Reopen, ListenerTyped
<1> QED BY <1>1, <1>4, <1>5, <1>6, <1>7

\* The listeners keep their types.
LEMMA ListenerTypeCorrect == Spec => []ListenerTyped
<1>1. Init => ListenerTyped
  <2>1. 0 \in 0..MaxFaults
    BY EgressAssumption
  <2> QED BY <2>1 DEF Init, ListenerTyped
<1>2. ListenerTyped /\ [Next]_vars => ListenerTyped'
  <2> SUFFICES ASSUME ListenerTyped, [Next]_vars PROVE ListenerTyped'
    OBVIOUS
  <2>1. ASSUME NEW due \in BOOLEAN, Collect(due) PROVE ListenerTyped'
    <3>1. /\ UNCHANGED <<listener, orphaned, errno, faults, busyWith>>
          /\ busyWith = "no"
          /\ rbev' \in BOOLEAN /\ awaiting' \in BOOLEAN
          /\ awaiting' => awaiting
      BY <2>1 DEF Collect, ListenerTyped
    <3>2. "listen" \in batch' => awaiting
      BY <2>1, ConnsAreNotTimers DEF Collect, Timers
    <3> QED BY <3>1, <3>2 DEF ListenerTyped
  <2>2. CASE Accept
    BY <2>2, AcceptKeepsListenerType
  <2>3. CASE Rebind
    <3>1. /\ OpenSocket \/ RetryLater \/ Astray
          /\ UNCHANGED <<orphaned, busyWith>> /\ batch' = batch \ {"rebind"}
      BY <2>3 DEF Rebind
    <3>2. "listen" \in batch' => "listen" \in batch
      BY <3>1
    <3>3. CASE OpenSocket
      BY <3>1, <3>2, <3>3 DEF OpenSocket, ListenerTyped
    <3>4. CASE RetryLater
      BY <3>1, <3>2, <3>4, FaultIsCounted DEF RetryLater, ListenerTyped
    <3>5. CASE Astray
      BY <3>1, <3>2, <3>5 DEF Astray, ListenerTyped
    <3> QED BY <3>1, <3>3, <3>4, <3>5
  <2>4. CASE Process
    BY <2>4, ListenerTypeLeftAlone DEF Process, listenVars, ListenerTyped
  <2>5. ASSUME NEW b \in SUBSET batch, Flush(b) PROVE ListenerTyped'
    BY <2>5 DEF Flush, ListenerTyped
  <2>6. CASE Idle \/ FlushTimer \/ AskBusy
    BY <2>5, <2>6 DEF Idle, FlushTimer, AskBusy
  <2>7. ASSUME NEW c \in Conns, Receive(c) \/ Close(c) PROVE ListenerTyped'
    BY <2>7, ListenerTypeLeftAlone, ConnsAreNotTimers
       DEF Receive, Close, FlushSoon, Timers, listenVars, ListenerTyped
  <2>8. CASE Deactivate
    BY <2>8 DEF Deactivate, ListenerTyped
  <2>9. CASE Tick \/ UNCHANGED vars
    BY <2>9, ListenerTypeLeftAlone
       DEF Tick, Environment, vars, listenVars, ListenerTyped
  <2>10. ASSUME NEW c \in Conns, NEW how,
                Connect(c) \/ PeerSends(c) \/ PeerEnds(c, how)
         PROVE  ListenerTyped'
    BY <2>10, ListenerTypeLeftAlone
       DEF Connect, PeerSends, PeerEnds, Environment, listenVars, ListenerTyped
  <2> QED
    BY <2>1, <2>2, <2>3, <2>4, <2>6, <2>7, <2>8, <2>9, <2>10
       DEF Next, Handle, Poll, PollRebind
<1> QED BY <1>1, <1>2, PTL DEF Spec

\* The events of the scheduler, and the loop of the program.
LoopTyped ==
  /\ idev \in BOOLEAN /\ flusher \in BOOLEAN /\ check \in BOOLEAN
  /\ batch \subseteq Conns \cup {"listen", "rebind", "idle", "flush"}
  /\ busyWith \in Conns \cup {"no", "listen"}
  /\ phase \in {"running", "stopping", "stopped", "crashed"}
  /\ end \in [Conns -> {"no", "closed", "reset"}]

\* The events and the loop keep their types.
LEMMA LoopTypeCorrect == Spec => []LoopTyped
<1>1. Init => LoopTyped
  BY DEF Init, LoopTyped
<1>2. LoopTyped /\ [Next]_vars => LoopTyped'
  <2> SUFFICES ASSUME LoopTyped, [Next]_vars PROVE LoopTyped'
    OBVIOUS
  <2>1. ASSUME NEW due \in BOOLEAN, Collect(due) PROVE LoopTyped'
    <3>1. batch' \subseteq Conns \cup {"listen", "rebind", "idle", "flush"}
      BY <2>1 DEF Collect
    <3>2. UNCHANGED <<busyWith, phase, end>>
      BY <2>1 DEF Collect, peerVars
    <3>3. idev' \in BOOLEAN /\ flusher' \in BOOLEAN /\ check' \in BOOLEAN
      BY <2>1 DEF Collect
    <3> QED BY <3>1, <3>2, <3>3 DEF LoopTyped
  <2>2. CASE Accept
    <3>1. UNCHANGED <<idev, flusher, check, phase, end>> /\ batch' \subseteq batch
      BY <2>2 DEF Accept, houseVars, loopVars, peerVars
    <3>2. busyWith' \in {"no", "listen"}
      BY <2>2, EgressAssumption
         DEF Accept, Welcome, AcceptAgain, AcceptLater, AcceptFatal
    <3> QED BY <3>1, <3>2 DEF LoopTyped
  <2>3. CASE Rebind
    <3>1. phase' \in {phase, "crashed"}
      BY <2>3 DEF Rebind, OpenSocket, RetryLater, Astray
    <3> QED BY <2>3, <3>1 DEF Rebind, LoopTyped, houseVars, peerVars
  <2>4. CASE Process
    BY <2>4 DEF Process, LoopTyped, houseVars, loopVars, peerVars
  <2>5. ASSUME NEW b \in SUBSET batch, Flush(b)
        PROVE  /\ batch' \subseteq batch /\ flusher' = TRUE
               /\ UNCHANGED <<busyWith, end>>
    BY <2>5 DEF Flush, SetFlush, peerVars
  <2>6. CASE Idle \/ FlushTimer \/ AskBusy
    <3>1. /\ batch' \subseteq batch /\ flusher' = TRUE
          /\ UNCHANGED <<busyWith, end>>
      BY <2>5, <2>6 DEF Idle, FlushTimer, AskBusy
    <3>2. idev' = idev /\ check' \in BOOLEAN
          /\ phase' \in {"running", "stopping", "stopped", "crashed"}
      BY <2>6 DEF Idle, FlushTimer, AskBusy, loopVars, LoopTyped
    <3> QED BY <3>1, <3>2 DEF LoopTyped
  <2>7. ASSUME NEW c \in Conns, Receive(c) PROVE LoopTyped'
    BY <2>7 DEF Receive, LoopTyped, houseVars, loopVars, peerVars
  <2>8. ASSUME NEW c \in Conns, Close(c) PROVE LoopTyped'
    BY <2>8 DEF Close, FlushSoon, LoopTyped, loopVars, peerVars
  <2>9. CASE Deactivate
    BY <2>9 DEF Deactivate, LoopTyped, houseVars, peerVars
  <2>10. CASE Tick \/ UNCHANGED vars
    BY <2>10 DEF Tick, Environment, vars, LoopTyped, houseVars, loopVars, peerVars
  <2>11. ASSUME NEW c \in Conns, Connect(c) \/ PeerSends(c) PROVE LoopTyped'
    BY <2>11 DEF Connect, PeerSends, Environment, LoopTyped, houseVars, loopVars,
                 peerVars
  <2>12. ASSUME NEW c \in Conns, NEW how \in {"closed", "reset"}, PeerEnds(c, how)
         PROVE  LoopTyped'
    BY <2>12 DEF PeerEnds, Environment, LoopTyped, houseVars, loopVars
  <2> QED
    BY <2>1, <2>2, <2>3, <2>4, <2>6, <2>7, <2>8, <2>9, <2>10, <2>11, <2>12
       DEF Next, Handle, Poll, PollRebind
<1> QED BY <1>1, <1>2, PTL DEF Spec

\* The clock and what is dated by it.
ClockTyped ==
  /\ used \in [Conns -> [Clids -> -1..MaxTime]]
  /\ flushAt \in 0..(MaxTime + 1) /\ now \in 0..MaxTime

\* The clock, the time of the next flush and the dates of clients keep theirs.
LEMMA ClockTypeCorrect == Spec => []ClockTyped
<1>0. MaxTime \in Nat /\ Timeout \in Nat \ {0}
  BY EgressAssumption
<1>1. Init => ClockTyped
  <2> SUFFICES ASSUME Init PROVE ClockTyped
    OBVIOUS
  <2>1. -1 \in -1..MaxTime /\ 0 \in 0..MaxTime
    BY <1>0
  <2>2. FromMin(Timeout, MaxTime + 1) \in 0..(MaxTime + 1)
    BY <1>0 DEF FromMin
  <2> QED BY <2>1, <2>2 DEF Init, ClockTyped
<1>2. ClockTyped /\ [Next]_vars => ClockTyped'
  <2> SUFFICES ASSUME ClockTyped, [Next]_vars PROVE ClockTyped'
    OBVIOUS
  <2>1. ASSUME UNCHANGED <<used, flushAt, now>> PROVE ClockTyped'
    BY <2>1 DEF ClockTyped
  <2>2. CASE Poll \/ PollRebind \/ Accept \/ Rebind \/ Deactivate
    BY <2>1, <2>2
       DEF Poll, PollRebind, Collect, Accept, Rebind, Deactivate, dataVars, houseVars
  <2>3. CASE Process
    <3>1. UNCHANGED <<flushAt, now>>
      BY <2>3 DEF Process, houseVars
    <3>2. CASE UNCHANGED used
      BY <2>1, <3>1, <3>2
    <3>3. CASE used' # used
      <4>1. PICK c \in Conns :
              LET m == Messages[buf[c][1].msg] IN
              used' = [used EXCEPT ![c][m.clid] =
                         IF m.known \/ @ = -1 THEN now ELSE @]
        BY <2>3, <3>3 DEF Process
      <4> DEFINE k == Messages[buf[c][1].msg].clid
                 t == IF Messages[buf[c][1].msg].known \/ used[c][k] = -1
                      THEN now ELSE used[c][k]
      <4>2. used' = [used EXCEPT ![c] = [used[c] EXCEPT ![k] = t]]
        BY <4>1
      <4>3. t = now \/ t = used[c][k]
        OBVIOUS
      <4> HIDE DEF k, t
      <4>4. used[c] \in [Clids -> -1..MaxTime] /\ now \in -1..MaxTime
        BY <1>0 DEF ClockTyped
      <4>5. [used[c] EXCEPT ![k] = t] \in [Clids -> -1..MaxTime]
        <5>1. CASE k \in Clids
          BY <4>3, <4>4, <5>1
        <5>2. CASE k \notin Clids
          BY <4>4, <5>2
        <5> QED BY <5>1, <5>2
      <4>6. used' \in [Conns -> [Clids -> -1..MaxTime]]
        BY <4>2, <4>5 DEF ClockTyped
      <4> QED BY <3>1, <4>6 DEF ClockTyped
    <3> QED BY <3>2, <3>3
  <2>4. ASSUME NEW b, Flush(b) PROVE ClockTyped'
    <3>1. -1 \in -1..MaxTime
      BY <1>0
    <3>2. used' \in [Conns -> [Clids -> -1..MaxTime]]
      BY <2>4, <3>1 DEF Flush, ClockTyped
    <3>3. flushAt' \in 0..(MaxTime + 1)
      BY <1>0, <2>4 DEF Flush, SetFlush, FromMin, ClockTyped
    <3> QED BY <2>4, <3>2, <3>3 DEF Flush, ClockTyped
  <2>5. CASE Idle \/ FlushTimer \/ AskBusy
    BY <2>4, <2>5 DEF Idle, FlushTimer, AskBusy
  <2>6. ASSUME NEW c \in Conns, Receive(c) \/ Close(c) PROVE ClockTyped'
    BY <2>1, <2>6 DEF Receive, Close, dataVars, houseVars
  <2>7. CASE Tick
    BY <1>0, <2>7 DEF Tick, Environment, houseVars, ClockTyped
  <2>8. ASSUME NEW c \in Conns, NEW how,
               Connect(c) \/ PeerSends(c) \/ PeerEnds(c, how)
        PROVE  ClockTyped'
    BY <2>1, <2>8 DEF Connect, PeerSends, PeerEnds, Environment, houseVars
  <2>9. CASE UNCHANGED vars
    BY <2>1, <2>9 DEF vars, dataVars, houseVars
  <2> QED
    BY <2>2, <2>3, <2>5, <2>6, <2>7, <2>8, <2>9 DEF Next, Handle
<1> QED BY <1>1, <1>2, PTL DEF Spec

\* The state has the right types, and only an open connection expects input
\* or has its event collected (~Connection(), ~Listener()).
THEOREM TypeCorrect == Spec => []TypeOK
<1>1. ListenerTyped /\ LoopTyped /\ ClockTyped /\ OnlyOpenCalled /\ Streamed => TypeOK
  <2> SUFFICES ASSUME ListenerTyped, LoopTyped, ClockTyped, OnlyOpenCalled, Streamed
               PROVE  TypeOK
    OBVIOUS
  <2>1. {awaiting, rbev, orphaned, idev, flusher, check} \subseteq BOOLEAN
    BY DEF ListenerTyped, LoopTyped
  <2>2. /\ listener \in {"none", "closed", "open", "ghost"}
        /\ errno \in {"other", "again"} /\ faults \in 0..MaxFaults
        /\ awaiting => listener \in {"open", "ghost"}
    BY DEF ListenerTyped
  <2>3. /\ end \in [Conns -> {"no", "closed", "reset"}]
        /\ batch \subseteq Conns \cup {"listen", "rebind", "idle", "flush"}
        /\ busyWith \in Conns \cup {"no", "listen"}
        /\ phase \in {"running", "stopping", "stopped", "crashed"}
    BY DEF LoopTyped
  <2>4. /\ handled \in [Conns -> 0..Len(Messages)]
        /\ given \in [Conns -> 0..Ends[Len(Messages)]]
    BY DEF Streamed
  <2> QED BY <2>1, <2>2, <2>3, <2>4 DEF TypeOK, ClockTyped, OnlyOpenCalled
<1> QED BY <1>1, ListenerTypeCorrect, LoopTypeCorrect, ClockTypeCorrect, OpenCorrect,
           StreamedCorrect, PTL

----------------------------------------------------------------------------
(* The end of a connection.                                                 *)

\* An event is collected for what has happened, the whole messages of a
\* buffer are handled before anything else is, a connection is closed when
\* its peer has sent all, and none is open when the main loop ends.
Ending ==
  /\ \A c \in Conns : c \in batch => Input(c)
  /\ \A c \in Conns : busyWith # c => ~Decodable(buf[c])
  /\ \A c \in Conns : conn[c] \in {"closed", "gone"} =>
       \/ end[c] = "reset"
       \/ end[c] = "closed" /\ stream[c] = <<>> /\ ~Decodable(buf[c])
  /\ phase = "stopped" => \A c \in Conns : conn[c] # "open"

\* A buffer that is full holds a whole message, so that recv() is never
\* called without room while there is none to handle.
LEMMA FullIsDecodable ==
  ASSUME Streamed, NEW c \in Conns, Len(buf[c]) = BufSize
  PROVE  Decodable(buf[c])
<1>1. Len(buf[c]) = Header + MaxLen + 1 /\ Header \in Nat \ {0} /\ MaxLen \in Nat
  BY SizeFacts DEF BufSize
<1>2. buf[c][1].msg \in 1..Len(Messages)
  <2>1. Len(buf[c]) > 0
    BY <1>1
  <2> QED BY <2>1, FirstPiece
<1>3. Size(buf[c][1].msg) \in Nat /\ Size(buf[c][1].msg) <= Header + MaxLen
  BY <1>2, SizeFacts
<1> QED BY <1>1, <1>3 DEF Decodable

\* Why handle_fd() closes a connection.
LEMMA CloseAtEnd ==
  ASSUME Streamed, LoopTyped, Ending, NEW c \in Conns, Close(c)
  PROVE  \/ end[c] = "reset"
         \/ end[c] = "closed" /\ stream[c] = <<>> /\ ~Decodable(buf[c])
<1>1. c \in batch /\ busyWith = "no" /\ Finished(c)
  BY DEF Close, Turn
<1>2. Input(c) /\ ~Decodable(buf[c])
  BY <1>1, ConnsAreNotTimers DEF Ending, Timers
<1>3. Len(buf[c]) # BufSize
  BY <1>2, FullIsDecodable
<1>4. end[c] \in {"no", "closed", "reset"}
  BY DEF LoopTyped
<1> QED BY <1>1, <1>2, <1>3, <1>4 DEF Finished, Input

\* Handlers of other matters.
LEMMA EndingLeftAlone ==
  ASSUME Ending,
         UNCHANGED <<stream, end, buf>>,
         batch' \cap Conns \subseteq batch,
         busyWith' = busyWith \/ busyWith \notin Conns,
         \A c \in Conns :
           conn'[c] \in {"closed", "gone"} => conn[c] \in {"closed", "gone"},
         phase' = "stopped" => \A c \in Conns : conn'[c] # "open"
  PROVE  Ending'
<1>1. \A c \in Conns : c \in batch' => Input(c)'
  BY DEF Ending, Input
<1>2. \A c \in Conns : busyWith' # c => ~Decodable(buf'[c])
  BY DEF Ending
<1>3. \A c \in Conns : conn'[c] \in {"closed", "gone"} =>
        \/ end'[c] = "reset"
        \/ end'[c] = "closed" /\ stream'[c] = <<>> /\ ~Decodable(buf'[c])
  BY DEF Ending
<1> QED BY <1>1, <1>2, <1>3 DEF Ending

\* Reading leaves the other connections alone.
LEMMA ReceiveKeepsEnding ==
  ASSUME Ending, Streamed, OnlyOpenCalled, NEW c \in Conns, Receive(c)
  PROVE  Ending'
<1>1. /\ busyWith = "no" /\ busyWith' = c /\ c \in batch /\ batch' = batch \ {c}
      /\ UNCHANGED <<conn, end, phase>> /\ phase # "stopped"
      /\ \A d \in Conns : d # c => buf'[d] = buf[d] /\ stream'[d] = stream[d]
  BY DEF Receive, Turn, Alive, peerVars, loopVars, Streamed
<1>2. conn[c] = "open"
  BY <1>1 DEF OnlyOpenCalled
<1>3. \A d \in Conns : d \in batch' => Input(d)'
  <2>1. \A d \in Conns : d \in batch' => d # c /\ Input(d)
    BY <1>1 DEF Ending
  <2> QED BY <1>1, <2>1 DEF Input
<1>4. \A d \in Conns : busyWith' # d => ~Decodable(buf'[d])
  <2>1. \A d \in Conns : busyWith # d
    BY <1>1, ConnsAreNotTimers DEF Timers
  <2>2. \A d \in Conns : d # c => ~Decodable(buf'[d])
    BY <1>1, <2>1 DEF Ending
  <2> QED BY <1>1, <2>2
<1>5. \A d \in Conns : conn'[d] \in {"closed", "gone"} =>
        \/ end'[d] = "reset"
        \/ end'[d] = "closed" /\ stream'[d] = <<>> /\ ~Decodable(buf'[d])
  <2>1. \A d \in Conns : conn'[d] \in {"closed", "gone"} => d # c
    BY <1>1, <1>2
  <2> QED BY <1>1, <2>1 DEF Ending
<1> QED BY <1>1, <1>3, <1>4, <1>5 DEF Ending

\* process() goes on until no whole message is left.
LEMMA ProcessKeepsEnding ==
  ASSUME Ending, Streamed, Process
  PROVE  Ending'
<1>1. PICK c \in Conns :
        /\ busyWith = c
        /\ IF Decodable(buf[c])
           THEN buf' = [buf EXCEPT ![c] = Consumed(@)] /\ UNCHANGED busyWith
           ELSE busyWith' = "no" /\ UNCHANGED buf
  BY DEF Process
<1>2. UNCHANGED <<conn, end, stream, batch, phase>>
  BY DEF Process, peerVars, loopVars
<1>3. \A d \in Conns : d \in batch' => Input(d)'
  BY <1>2 DEF Ending, Input
<1>4. phase' = "stopped" => \A d \in Conns : conn'[d] # "open"
  BY <1>2 DEF Ending
<1>5. CASE ~Decodable(buf[c])
  <2>1. \A d \in Conns : ~Decodable(buf'[d])
    BY <1>1, <1>5 DEF Ending
  <2>2. \A d \in Conns : conn'[d] \in {"closed", "gone"} =>
          \/ end'[d] = "reset"
          \/ end'[d] = "closed" /\ stream'[d] = <<>> /\ ~Decodable(buf'[d])
    BY <1>2, <2>1 DEF Ending
  <2> QED BY <1>3, <1>4, <2>1, <2>2 DEF Ending
<1>6. CASE Decodable(buf[c])
  <2>1. busyWith' = c /\ \A d \in Conns : d # c => buf'[d] = buf[d]
    BY <1>1, <1>6 DEF Streamed
  <2>2. \A d \in Conns : busyWith' # d => ~Decodable(buf'[d])
    BY <1>1, <2>1 DEF Ending
  <2>3. \A d \in Conns : conn'[d] \in {"closed", "gone"} =>
          \/ end'[d] = "reset"
          \/ end'[d] = "closed" /\ stream'[d] = <<>> /\ ~Decodable(buf'[d])
    <3>1. conn[c] \in {"closed", "gone"} => end[c] = "reset"
      BY <1>6 DEF Ending
    <3> QED BY <1>2, <2>1, <3>1 DEF Ending
  <2> QED BY <1>3, <1>4, <2>2, <2>3 DEF Ending
<1> QED BY <1>5, <1>6

\* handle_fd() closes a connection at its end.
LEMMA CloseKeepsEnding ==
  ASSUME Ending, Streamed, LoopTyped, OnlyOpenCalled, NEW c \in Conns, Close(c)
  PROVE  Ending'
<1>1. /\ UNCHANGED <<buf, stream, end, busyWith, phase>> /\ phase # "stopped"
      /\ batch' \subseteq batch \ {c}
      /\ \A d \in Conns : d # c => conn'[d] = conn[d]
  BY DEF Close, FlushSoon, Turn, Alive, dataVars, peerVars, loopVars, OnlyOpenCalled
<1>2. \/ end[c] = "reset"
      \/ end[c] = "closed" /\ stream[c] = <<>> /\ ~Decodable(buf[c])
  BY CloseAtEnd
<1>3. \A d \in Conns : d \in batch' => Input(d)'
  BY <1>1 DEF Ending, Input
<1>4. \A d \in Conns : busyWith' # d => ~Decodable(buf'[d])
  BY <1>1 DEF Ending
<1>5. \A d \in Conns : conn'[d] \in {"closed", "gone"} =>
        \/ end'[d] = "reset"
        \/ end'[d] = "closed" /\ stream'[d] = <<>> /\ ~Decodable(buf'[d])
  BY <1>1, <1>2 DEF Ending
<1> QED BY <1>1, <1>3, <1>4, <1>5 DEF Ending

\* A flush takes what was closed, and the main loop ends if nothing is open.
LEMMA FlushKeepsEnding ==
  ASSUME Ending, NEW b \in SUBSET batch, Flush(b),
         phase' = "stopped" => \A c \in Conns : conn'[c] # "open"
  PROVE  Ending'
<1>1. UNCHANGED <<stream, end, buf, busyWith>> /\ batch' \subseteq batch
  BY DEF Flush, peerVars
<1>2. \A c \in Conns :
        conn'[c] \in {"closed", "gone"} => conn[c] \in {"closed", "gone"}
  BY DEF Flush
<1> QED BY <1>1, <1>2, EndingLeftAlone

\* A peer sends and ends only while its connection lasts.
LEMMA PeerKeepsEnding ==
  ASSUME Ending, Streamed, LoopTyped, NEW c \in Conns,
         PeerSends(c) \/ \E how \in {"closed", "reset"} : PeerEnds(c, how)
  PROVE  Ending'
<1>1. /\ UNCHANGED <<conn, buf, batch, busyWith, phase>>
      /\ conn[c] \in {"queued", "open"}
      /\ \A d \in Conns : d # c => end'[d] = end[d] /\ stream'[d] = stream[d]
  BY DEF PeerSends, PeerEnds, Environment, loopVars, Streamed, LoopTyped
<1>2. Input(c)'
  <2>1. CASE PeerSends(c)
    <3>1. stream' = [stream EXCEPT ![c] = Append(@, PieceAt(given[c] + 1))]
      BY <2>1 DEF PeerSends, Environment
    <3>2. stream'[c] = Append(stream[c], PieceAt(given[c] + 1))
      BY <3>1 DEF Streamed
    <3>3. ASSUME NEW S, NEW q \in Seq(S), NEW x PROVE Append(q, x) # <<>>
      <4>1. Len(Append(q, x)) = Len(q) + 1 /\ Len(q) \in Nat
        OBVIOUS
      <4>2. Len(Append(q, x)) # Len(<<>>)
        BY <4>1
      <4> QED BY <4>2
    <3>4. stream'[c] # <<>>
      BY <3>2, <3>3, StreamFacts
    <3> QED BY <3>4 DEF Input
  <2>2. ASSUME NEW how \in {"closed", "reset"}, PeerEnds(c, how) PROVE Input(c)'
    BY <2>2 DEF PeerEnds, Environment, LoopTyped, Input
  <2> QED BY <2>1, <2>2
<1>3. \A d \in Conns : d \in batch' => Input(d)'
  BY <1>1, <1>2 DEF Ending, Input
<1>4. \A d \in Conns : busyWith' # d => ~Decodable(buf'[d])
  BY <1>1 DEF Ending
<1>5. \A d \in Conns : conn'[d] \in {"closed", "gone"} =>
        \/ end'[d] = "reset"
        \/ end'[d] = "closed" /\ stream'[d] = <<>> /\ ~Decodable(buf'[d])
  <2>1. \A d \in Conns : conn'[d] \in {"closed", "gone"} => d # c
    BY <1>1
  <2> QED BY <1>1, <2>1 DEF Ending
<1> QED BY <1>1, <1>3, <1>4, <1>5 DEF Ending

\* Ending holds in every state.
LEMMA EndingCorrect == Spec => []Ending
<1>1. Init => Ending
  <2> SUFFICES ASSUME Init PROVE Ending
    OBVIOUS
  <2>1. \A c \in Conns : ~Decodable(buf[c])
    <3>1. Len(<<>>) = 0 /\ ~(0 >= Header)
      BY SizeFacts
    <3> QED BY <3>1 DEF Init, Decodable
  <2> QED BY <2>1 DEF Init, Ending
<1>2. Ending /\ Streamed /\ LoopTyped /\ OnlyOpenCalled /\ [Next]_vars => Ending'
  <2> SUFFICES ASSUME Ending, Streamed, LoopTyped, OnlyOpenCalled, [Next]_vars
               PROVE  Ending'
    OBVIOUS
  <2>1. ASSUME NEW due, Collect(due) PROVE Ending'
    <3>1. /\ UNCHANGED <<conn, stream, end, buf, busyWith, phase>>
      BY <2>1 DEF Collect, peerVars, dataVars
    <3>2. \A c \in Conns : c \in batch' => Input(c)'
      <4>1. \A c \in Conns : c \in batch' => Input(c)
        BY <2>1, ConnsAreNotTimers DEF Collect, Timers
      <4> QED BY <3>1, <4>1 DEF Input
    <3> QED BY <3>1, <3>2 DEF Ending
  <2>2. CASE Accept
    <3>1. PICK c \in {d \in Conns : conn[d] = "queued"} :
            Welcome(c) \/ AcceptAgain(c) \/ AcceptLater \/ AcceptFatal
      BY <2>2, EgressAssumption DEF Accept
    <3>2. /\ UNCHANGED <<stream, end, buf, phase>> /\ phase # "stopped"
          /\ batch' \subseteq batch /\ busyWith \in {"no", "listen"}
      BY <2>2 DEF Accept, Turn, Alive, peerVars, dataVars, loopVars
    <3>3. \A d \in Conns :
            conn'[d] \in {"closed", "gone"} => conn[d] \in {"closed", "gone"}
      <4>1. CASE Welcome(c)
        BY <4>1 DEF Welcome, OnlyOpenCalled
      <4>2. CASE AcceptAgain(c)
        BY <4>2 DEF AcceptAgain, OnlyOpenCalled
      <4>3. CASE AcceptLater
        BY <4>3 DEF AcceptLater
      <4>4. CASE AcceptFatal
        BY <4>4 DEF AcceptFatal
      <4> QED BY <3>1, <4>1, <4>2, <4>3, <4>4
    <3>4. busyWith \notin Conns
      BY <3>2, ConnsAreNotTimers DEF Timers
    <3> QED BY <3>2, <3>3, <3>4, EndingLeftAlone
  <2>3. CASE Rebind
    <3>1. /\ UNCHANGED <<conn, stream, end, buf, busyWith>>
          /\ batch' \subseteq batch /\ phase' \in {phase, "crashed"}
      BY <2>3 DEF Rebind, OpenSocket, RetryLater, Astray, peerVars, dataVars
    <3> QED BY <3>1, EndingLeftAlone DEF Ending
  <2>4. CASE Process
    BY <2>4, ProcessKeepsEnding
  <2>5. CASE Idle \/ FlushTimer
    <3>1. phase' # "stopped"
      BY <2>5 DEF Idle, FlushTimer, Turn, Alive, loopVars
    <3> QED BY <2>5, <3>1, FlushKeepsEnding DEF Idle, FlushTimer
  <2>6. CASE AskBusy
    <3>1. phase' = "stopped" => \A c \in Conns : conn'[c] # "open"
      BY <2>6 DEF AskBusy, Quiet
    <3> QED BY <2>6, <3>1, FlushKeepsEnding DEF AskBusy
  <2>7. ASSUME NEW c \in Conns, Receive(c) PROVE Ending'
    BY <2>7, ReceiveKeepsEnding
  <2>8. ASSUME NEW c \in Conns, Close(c) PROVE Ending'
    BY <2>8, CloseKeepsEnding
  <2>9. CASE Deactivate
    <3>1. /\ UNCHANGED <<stream, end, buf, busyWith, batch>> /\ phase' = "stopping"
      BY <2>9 DEF Deactivate, peerVars, dataVars
    <3>2. \A d \in Conns :
            conn'[d] \in {"closed", "gone"} => conn[d] \in {"closed", "gone"}
      BY <2>9 DEF Deactivate
    <3> QED BY <3>1, <3>2, EndingLeftAlone
  <2>10. CASE Tick \/ UNCHANGED vars
    <3>1. UNCHANGED <<conn, stream, end, buf, busyWith, batch, phase>>
      BY <2>10 DEF Tick, Environment, vars, peerVars, dataVars, loopVars
    <3> QED BY <3>1, EndingLeftAlone DEF Ending
  <2>11. ASSUME NEW c \in Conns, Connect(c) PROVE Ending'
    <3>1. /\ UNCHANGED <<stream, end, buf, busyWith, batch, phase>>
          /\ conn' = [conn EXCEPT ![c] = "queued"]
      BY <2>11 DEF Connect, Environment, peerVars, loopVars
    <3>2. \A d \in Conns :
            /\ conn'[d] \in {"closed", "gone"} => conn[d] \in {"closed", "gone"}
            /\ conn'[d] = "open" => conn[d] = "open"
      BY <3>1 DEF OnlyOpenCalled
    <3> QED BY <3>1, <3>2, EndingLeftAlone DEF Ending
  <2>12. ASSUME NEW c \in Conns,
                PeerSends(c) \/ \E how \in {"closed", "reset"} : PeerEnds(c, how)
         PROVE  Ending'
    BY <2>12, PeerKeepsEnding
  <2> QED
    BY <2>1, <2>2, <2>3, <2>4, <2>5, <2>6, <2>7, <2>8, <2>9, <2>10, <2>11, <2>12
       DEF Next, Handle, Poll, PollRebind
<1> QED BY <1>1, <1>2, StreamedCorrect, LoopTypeCorrect, OpenCorrect, PTL DEF Spec

\* A connection is closed only when its peer has ended it, and then with no
\* whole message left unhandled, unless by a reset (handle_fd()).
THEOREM CloseCorrect == Spec => ClosesOnlyAtEnd
<1> DEFINE AtEnd ==
      \A c \in Conns : conn[c] = "open" /\ conn'[c] = "closed" =>
        \/ end[c] = "reset"
        \/ end[c] = "closed" /\ stream[c] = <<>> /\ ~Decodable(buf[c])
<1>1. Ending /\ Streamed /\ LoopTyped /\ OnlyOpenCalled /\ [Next]_vars => AtEnd
  <2> SUFFICES ASSUME Ending, Streamed, LoopTyped, OnlyOpenCalled, [Next]_vars,
                      NEW c \in Conns, conn[c] = "open", conn'[c] = "closed"
               PROVE  \/ end[c] = "reset"
                      \/ end[c] = "closed" /\ stream[c] = <<>> /\ ~Decodable(buf[c])
    OBVIOUS
  <2>1. CASE Close(c)
    BY <2>1, CloseAtEnd
  <2>2. \A d \in Conns : d # c => ~Close(d)
    BY DEF Close, OnlyOpenCalled
  <2>3. ~Accept
    <3> SUFFICES ASSUME Accept PROVE FALSE
      OBVIOUS
    <3>1. PICK d \in {d \in Conns : conn[d] = "queued"} :
            Welcome(d) \/ AcceptAgain(d) \/ AcceptLater \/ AcceptFatal
      BY EgressAssumption DEF Accept
    <3> QED BY <3>1 DEF Welcome, AcceptAgain, AcceptLater, AcceptFatal, OnlyOpenCalled
  <2>4. ~(Idle \/ FlushTimer \/ AskBusy \/ Deactivate)
    BY DEF Idle, FlushTimer, AskBusy, Flush, Deactivate
  <2>5. ~(Poll \/ PollRebind \/ Rebind \/ Process \/ Tick \/ UNCHANGED vars)
    BY DEF Poll, PollRebind, Collect, Rebind, Process, Tick, Environment, vars
  <2>6. \A d \in Conns : ~(Receive(d) \/ Connect(d) \/ PeerSends(d))
    BY DEF Receive, Connect, PeerSends, Environment, OnlyOpenCalled
  <2>7. \A d \in Conns, how \in {"closed", "reset"} : ~PeerEnds(d, how)
    BY DEF PeerEnds, Environment
  <2> QED BY <2>1, <2>2, <2>3, <2>4, <2>5, <2>6, <2>7 DEF Next, Handle
<1> QED BY <1>1, EndingCorrect, StreamedCorrect, LoopTypeCorrect, OpenCorrect, PTL
        DEF Spec, ClosesOnlyAtEnd

\* When the main loop ends because the egress is quiet, every whole message
\* on a connection it took has been handled, unless it was reset (busy()).
THEOREM StopCorrect == Spec => []StopsQuietly
<1>1. Ending /\ Streamed => StopsQuietly
  <2> SUFFICES ASSUME Ending, Streamed, phase = "stopped", NEW c \in Conns,
                      conn[c] \in {"open", "closed", "gone"}, end[c] # "reset",
                      handled[c] # Len(Messages)
               PROVE  given[c] < Ends[handled[c] + 1]
    BY DEF StopsQuietly
  <2>1. stream[c] = <<>> /\ ~Decodable(buf[c])
    BY DEF Ending
  <2> DEFINE h == handled[c]
             n == Len(buf[c])
  <2>2. /\ h \in 0..Len(Messages) /\ given[c] \in Nat /\ Ends[h] \in Nat
        /\ n \in Nat /\ n = given[c] - Ends[h]
    <3>1. Len(stream[c]) = 0
      BY <2>1
    <3>2. /\ handled[c] \in 0..Len(Messages) /\ given[c] \in Nat
          /\ Ends[handled[c]] \in Nat /\ Len(buf[c]) \in Nat
          /\ Len(buf[c]) + Len(stream[c]) = given[c] - Ends[handled[c]]
      BY StreamFacts
    <3> QED BY <3>1, <3>2
  <2>3. h + 1 \in 1..Len(Messages) /\ (h + 1) - 1 = h
    BY <2>2, SizeFacts
  <2>4. /\ Ends[h + 1] = Ends[h] + Size(h + 1)
        /\ Size(h + 1) \in Nat \ {0} /\ Size(h + 1) >= Header /\ Header \in Nat \ {0}
    BY <2>3, EndsFacts, SizeFacts
  <2>5. n < Size(h + 1)
    <3>1. CASE n > 0
      <4>1. buf[c][1].msg = h + 1
        BY <3>1, FirstPiece
      <4>2. ~(n >= Header /\ n >= Size(h + 1))
        BY <2>1, <4>1 DEF Decodable
      <4> QED BY <2>2, <2>4, <4>2
    <3>2. CASE ~(n > 0)
      BY <2>2, <2>4, <3>2
    <3> QED BY <3>1, <3>2
  <2> HIDE DEF h, n
  <2>6. given[c] < Ends[h + 1]
    BY <2>2, <2>4, <2>5
  <2> QED BY <2>6 DEF h
<1> QED BY <1>1, EndingCorrect, StreamedCorrect, PTL
=============================================================================
