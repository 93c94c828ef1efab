------------------------------ MODULE Identity ------------------------------
(* Whether senders stay apart from end to end: an absorber                   *)
(* (udp_absorbers.cc) gives each datagram the id that the ClientTable has    *)
(* for its sender, the channels store it with the datagram (channels.cc) and *)
(* it goes, in fewer bits, to an egress that makes sockets for each id it    *)
(* meets on a connection (Delivery).                                         *)
(*                                                                           *)
(* The queues keep their contents across an orderly restart of the ingress,  *)
(* and may lose what they had in memory when it dies; PayloadQueue shows     *)
(* that.  The connection may be lost at any time.                            *)
EXTENDS ClientTable, Delivery

CONSTANTS
  Hosts,         \* the addresses that the ingress may connect from
  Feeds,         \* the labels of the absorber's channels
  WireIds,       \* ids that can be told apart on the wire
  MaxDatagrams, MaxRestarts, MaxTime   \* bounds

ASSUME IdentityAssumption ==
  /\ WireIds \in Nat \ {0}
  /\ MaxDatagrams \in Nat /\ MaxRestarts \in Nat /\ MaxTime \in Nat

VARIABLES
  alive,      \* the ingress runs
  stored,     \* what each channel's queue holds
  now,        \* the clock
  received,   \* number of datagrams received
  restarts,   \* number of starts after the first
  record      \* "kept" while the table and the database tell of every id given
              \* out, "unsaved" when one is missing, and "reused" when it may
              \* be given out again

ingressVars == <<alive, stored, received, restarts, record>>
vars == <<tableVars, deliveryVars, ingressVars, now>>

\* clid_to_bytes() sends the low 16 bits of an id.
WireId(id) == id % WireIds

Forgotten == IF record = "kept" THEN "unsaved" ELSE record

----------------------------------------------------------------------------
\* UDPAbsorber::sock_ready(): a datagram is given an id and goes to every
\* channel.
Payload(s) == [from |-> s, id |-> IdOf(s)]

SockReady(s) ==
  /\ alive /\ received < MaxDatagrams
  /\ IdOf(s) <= MaxId
  /\ Seek(s, now)
  /\ stored' = [l \in Feeds |-> Append(stored[l], Payload(s))]
  /\ received' = received + 1
  /\ UNCHANGED <<deliveryVars, alive, restarts, record, now>>

\* The timer of the table.  After a restart next_id may be below the ids that
\* are discarded, so that seek() comes to them again.
PurgeTimer ==
  /\ alive
  /\ OnPurge(now)
  /\ record' = IF Stale(lastPurge) = {} THEN record
               ELSE IF \E i \in Stale(lastPurge) : i >= nextId THEN "reused"
               ELSE Forgotten
  /\ UNCHANGED <<deliveryVars, alive, stored, received, restarts, now>>

\* A datagram leaves its queue when all of it was sent.
Transmit(l) ==
  /\ alive /\ stored[l] # <<>>
  /\ \E usable \in SUBSET Offered :
       LET p == Head(stored[l]) IN
       \/ Deliver(WireId(p.id), l, p, usable, now)
       \/ \E found \in Lookup : Throws(WireId(p.id), usable, found) /\ Disconnect
  /\ stored' = [stored EXCEPT ![l] = Tail(@)]
  /\ UNCHANGED <<tableVars, alive, received, restarts, record, now>>

\* The egress looks for clients to forget, on a timer or because a
\* connection was closed.
FlushEgress == FlushClients(now) /\ UNCHANGED <<tableVars, ingressVars, now>>

Connect(h) ==
  /\ alive /\ AcceptFrom(h)
  /\ UNCHANGED <<tableVars, ingressVars, now>>

LoseConnection ==
  /\ peerHash # Nobody /\ Disconnect
  /\ UNCHANGED <<tableVars, ingressVars, now>>

----------------------------------------------------------------------------
\* The ingress ends in order: the table is saved, and the queues.
Stop ==
  /\ alive /\ restarts < MaxRestarts
  /\ alive' = FALSE
  /\ SaveTable /\ Disconnect
  /\ UNCHANGED <<stored, received, restarts, record, now>>

\* It dies, of an assertion in seek() or something else: the database is as
\* it was, and what queues had not on the disc is gone, as is the scheduler.
Die ==
  /\ alive' = FALSE /\ purgeAt' = {}
  /\ \E kept \in SUBSET Feeds :
       stored' = [l \in Feeds |-> IF l \in kept THEN stored[l] ELSE <<>>]
  /\ record' = Forgotten
  /\ Disconnect
  /\ UNCHANGED <<fwd, rev, nextId, lastPurge, db, received, restarts, now>>

Crash == alive /\ restarts < MaxRestarts /\ Die

Abort == alive /\ (\E s \in Senders : ~SeekAsserts(s)) /\ Die

\* It starts and reads the database, as a new round of the process that has
\* ended in order, with what is left in its scheduler, or as another process.
\* Addresses that were read as the same
\* noise leave rev with fewer entries than fwd, and the next database with
\* fewer ids.
Start ==
  /\ ~alive /\ restarts < MaxRestarts
  /\ \E noise \in [1..db.count -> Noise], garbage \in Id :
       \E left \in {purgeAt, {}} : LoadTable(now, noise, garbage, left)
  /\ alive' = TRUE
  /\ record' = IF record # "kept" THEN "reused"
               ELSE IF Range(rev') # DOMAIN fwd' THEN "unsaved"
               ELSE "kept"
  /\ restarts' = restarts + 1
  /\ UNCHANGED <<deliveryVars, stored, received, now>>

Tick ==
  /\ now < MaxTime /\ now' = now + 1
  /\ UNCHANGED <<tableVars, deliveryVars, ingressVars>>

Init ==
  /\ TableInit /\ DeliveryInit
  /\ alive = TRUE /\ stored = [l \in Feeds |-> <<>>]
  /\ now = 0 /\ received = 0 /\ restarts = 0 /\ record = "kept"

Next ==
  \/ \E s \in Senders : SockReady(s)
  \/ \E l \in Feeds : Transmit(l)
  \/ \E h \in Hosts : Connect(h)
  \/ PurgeTimer \/ FlushEgress \/ LoseConnection
  \/ Stop \/ Crash \/ Abort \/ Start \/ Tick

Spec == Init /\ [][Next]_vars

----------------------------------------------------------------------------
\* The tables are maps between addresses and ids in range, a purge is to come
\* a period after the last, and a peer's clients exist only while it is
\* connected (ClientTable, Connection).
TypeOK ==
  /\ TableTypeOK /\ DeliveryTypeOK
  /\ alive => lastPurge + PurgePeriod \in purgeAt
  /\ alive \in BOOLEAN /\ record \in {"kept", "unsaved", "reused"}
  /\ \A l \in Feeds : stored[l] \in Seq([from : Senders, id : Id])
  /\ now \in 0..MaxTime
  /\ received \in 0..MaxDatagrams /\ restarts \in 0..MaxRestarts

\* An id that is stored with a datagram is not given to another sender, in
\* this run of the ingress or the next: while every id is on record it stays
\* with its sender, or with noise in its place (seek(), ~ClientTable(),
\* ClientTable()).
StoredReserved ==
  alive /\ record = "kept" =>
    \A l \in Feeds : \A k \in 1..Len(stored[l]) :
      LET p == stored[l][k] IN
      p.id \in DOMAIN fwd /\ fwd[p.id].addr \in {p.from} \cup Noise

\* Senders whose datagrams leave an egress by the same sockets have different
\* ids at the ingress, so that only the wire has confused them: over purges,
\* orderly restarts and crashes, until an id that was forgotten may be given
\* out again (ClientTable::seek(), ~ClientTable(), Connection::process()).
SharedApart ==
  record # "reused" =>
    \A c \in DOMAIN clients : \A p, q \in clients[c].served :
      p.from # q.from => p.id # q.id

\* README.md: distinct senders in the ingress side are represented by distinct
\* senders on the egress side.
SendersApart ==
  \A c \in DOMAIN clients : \A p, q \in clients[c].served : p.from = q.from

\* clientid.cc: an id that seek() finds in rev is in fwd.
SeekFinds == alive => \A s \in Senders : SeekAsserts(s)
=============================================================================
