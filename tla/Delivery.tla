------------------------------ MODULE Delivery ------------------------------
(* The sending end of an egress: which peer a connection is from (peers.cc), *)
(* which destinations its messages go to (destbank.cc, destinations.cc), and *)
(* the sockets they go out by, which are made for each client (emitters.cc,  *)
(* ClientState in tcp_egress.cc).  The operations are steps of this module's *)
(* own variables at a time t; Identity puts them together with an ingress.   *)
(*                                                                           *)
(* Names, addresses and labels are model values.  A socket is told by the    *)
(* client it was made for and its address family, as one client has no two   *)
(* sockets of a family; only their families tell sockets from destinations.  *)
EXTENDS Integers, FiniteSets, SequencesExt

CONSTANTS
  PeerEntries,   \* egress.peers, in order: the hosts' addresses and the hash
  Singletons,    \* egress.destinations: the names
  Groups,        \* egress.groups: by name, singletons
  Channels,      \* the tunnel's channels: by label, names
  Options,       \* by destination, the families of its addresses
  Offered,       \* the families that passive addresses are offered for
  ClientTimeout  \* clid_timeout

Names == Singletons \cup DOMAIN Groups
Labels == DOMAIN Channels

ASSUME DeliveryAssumption ==
  /\ Len(PeerEntries) \in Nat
  /\ \A k \in 1..Len(PeerEntries) : PeerEntries[k].hash \in Nat
  /\ \A g \in DOMAIN Groups : Groups[g] \subseteq Singletons /\ Groups[g] # {}
  /\ \A l \in Labels : Channels[l] \subseteq Names /\ Channels[l] # {}
  /\ DOMAIN Options = Singletons /\ \A d \in Singletons : Options[d] # {}
  /\ ClientTimeout \in Nat \ {0}

VARIABLES
  peerHash,  \* the hash of the peer whose connection is open, or Nobody
  clients    \* clstats: by client id, outlets, last_used, and whose datagrams
             \* it has sent

deliveryVars == <<peerHash, clients>>

Nobody == -1

----------------------------------------------------------------------------
\* PeerTable::load(): the entry of a host is the last one that lists it.
HostEntries(h) == {k \in 1..Len(PeerEntries) : h \in PeerEntries[k].hosts}

\* PeerTable::seek()
SeekPeer(h) ==
  IF HostEntries(h) = {} THEN Nobody ELSE PeerEntries[Max(HostEntries(h))].hash

\* DestinationBank::load(): a name stands for the singleton and the members
\* of the group that have it, in one order.
Table(n) ==
  SetToSeq({d \in Singletons : d = n}
             \cup (IF n \in DOMAIN Groups THEN Groups[n] ELSE {}))

\* DestinationBank::seek()
SeekName(n, hash) == Table(n)[(hash % Len(Table(n))) + 1]

Destinations(label, hash) == {SeekName(n, hash) : n \in Channels[label]}

Required(hash) == UNION {Destinations(l, hash) : l \in Labels}

----------------------------------------------------------------------------
\* What the families in fs leave of the required destinations.
Left(required, fs) == {d \in required : Options[d] \cap Range(fs) = {}}

Compatible(f, required) == {d \in required : f \in Options[d]}

\* EmitterMaker: of the families that fit a destination and that a socket can
\* be made for, one that fits the most.
Best(required, usable) ==
  {f \in Offered \cap usable :
     /\ Compatible(f, required) # {}
     /\ \A g \in Offered \cap usable :
          Cardinality(Compatible(f, required)) >= Cardinality(Compatible(g, required))}

\* The sequences of sockets that ClientState() may make until no destination
\* is left.  Each attempt may fail by itself, but none succeeds for a family
\* that is not usable.  There is no sequence if it is bound to throw.
Covers(required, usable) ==
  {fs \in UNION {[1..n -> Offered] : n \in 0..Cardinality(Offered)} :
     /\ \A k \in 1..Len(fs) : \E able \in SUBSET usable :
          fs[k] \in Best(Left(required, SubSeq(fs, 1, k - 1)), able)
     /\ Left(required, fs) = {}}

\* A socket takes the destinations that it fits out of those required, so
\* that the first one that fits has each.  Mutated: it takes all.
FirstEmitter(d, fs) == fs[1]
EmitterOf(d, fs) == fs[Min({k \in 1..Len(fs) : fs[k] \in Options[d]})]

Outlets(hash, fs) ==
  [l \in Labels |-> [d \in Destinations(l, hash) |-> EmitterOf(d, fs)]]

----------------------------------------------------------------------------
\* A connection is accepted from a host in the table, and closed if it is
\* not there.
AcceptFrom(h) ==
  /\ peerHash = Nobody
  /\ peerHash' = SeekPeer(h) /\ clients' = <<>>

\* The connection ends, and what it had goes with the next flush.
Disconnect == peerHash' = Nobody /\ clients' = <<>>

\* process() finds or makes the client's state, and deliver() sends a datagram
\* of label l to each destination.  If the label is unknown it does not count
\* as used.
Deliver(clid, l, origin, usable, t) ==
  \E fs \in IF clid \in DOMAIN clients THEN {<<>>}
            ELSE Covers(Required(peerHash), usable) :
    LET state == IF clid \in DOMAIN clients THEN clients[clid]
                 ELSE [outlets |-> Outlets(peerHash, fs), last |-> t, served |-> {}]
        after == IF l \in Labels
                 THEN [state EXCEPT !.last = t, !.served = @ \cup {origin}]
                 ELSE state
    IN  /\ peerHash # Nobody
        /\ clients' = [c \in DOMAIN clients \cup {clid} |->
                         IF c = clid THEN after ELSE clients[c]]
        /\ UNCHANGED peerHash

\* Whether a look-up succeeds; get_address_info() throws if it does not.
Lookup == BOOLEAN

\* ClientState() throws if a look-up fails, of which there is one for each
\* socket at least, or if some destination fits no socket that can be made.
\* Nobody catches that before main().
Throws(clid, usable, found) ==
  /\ peerHash # Nobody /\ clid \notin DOMAIN clients
  /\ \/ Covers(Required(peerHash), usable) = {}
     \/ ~found /\ Required(peerHash) # {}

\* Destination::send() has an address for the family of the socket, or else
\* it sends nothing; deliver() does not look at what it returns.
Sends(d, f) == f \in Options[d]

Reached(c, l) ==
  LET out == clients[c].outlets[l] IN {d \in DOMAIN out : Sends(d, out[d])}

\* flush() forgets clients that were not used within client_timeout.
FlushClients(t) ==
  /\ clients' = Restrict(clients,
                  {c \in DOMAIN clients : clients[c].last >= t - ClientTimeout})
  /\ UNCHANGED peerHash

DeliveryInit == peerHash = Nobody /\ clients = <<>>

DeliveryTypeOK ==
  /\ peerHash \in Nat \cup {Nobody}
  /\ peerHash = Nobody => clients = <<>>
  /\ \A c \in DOMAIN clients :
       clients[c].last \in Nat /\ DOMAIN clients[c].outlets = Labels

\* Whatever label a client's datagrams have, each name that the label leads
\* to has a destination which they really reach (ClientState(), EmitterMaker,
\* Destination::send()).
Covered ==
  \A c \in DOMAIN clients, l \in Labels :
    \A n \in Channels[l] : SeekName(n, peerHash) \in Reached(c, l)
=============================================================================
