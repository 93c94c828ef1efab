--------------------------- MODULE IdentityProofs ---------------------------
(* Proofs about Identity, for all addresses, periods and destinations.      *)
EXTENDS Identity, LeastNumber, TLAPS

----------------------------------------------------------------------------
(* Which socket reaches which destination.                                  *)

Sockets == UNION {[1..n -> Offered] : n \in 0..Cardinality(Offered)}

\* The state of a client was made with sockets that leave no destination.
Made(state, hash) ==
  \E fs \in Sockets : \E last, served :
    /\ Left(Required(hash), fs) = {}
    /\ state = [outlets |-> Outlets(hash, fs), last |-> last, served |-> served]

AllMade == \A c \in DOMAIN clients : Made(clients[c], peerHash)

\* The socket that takes a destination fits it, if any does.
LEMMA EmitterFits ==
  ASSUME NEW fs \in Sockets, NEW d, Options[d] \cap Range(fs) # {}
  PROVE  EmitterOf(d, fs) \in Options[d]
<1> DEFINE K == {k \in 1..Len(fs) : fs[k] \in Options[d]}
<1>1. PICK n \in 0..Cardinality(Offered) : fs \in [1..n -> Offered]
  BY DEF Sockets
<1>2. n \in Nat
  <2>1. \A m : \A k \in 0..m : k \in Nat
    OBVIOUS
  <2> QED BY <2>1
<1>3. DOMAIN fs = 1..Len(fs)
  BY <1>1, <1>2
<1>4. K # {}
  BY <1>3 DEF Range
<1>5. K \in SUBSET Nat
  BY <1>1, <1>2
<1>6. \E m \in K : \A k \in K : m <= k
  BY <1>4, <1>5, LeastNatural
<1>7. Min(K) \in K
  BY <1>6 DEF Min
<1> QED BY <1>7 DEF EmitterOf

\* Delivery keeps the sockets that a client has, or makes enough of them.
LEMMA DeliverMakes ==
  ASSUME AllMade, NEW clid, NEW l, NEW origin, NEW usable,
         Deliver(clid, l, origin, usable, now)
  PROVE  AllMade'
<1>1. PICK fs \in IF clid \in DOMAIN clients THEN {<<>>}
                  ELSE Covers(Required(peerHash), usable) :
        LET state == IF clid \in DOMAIN clients THEN clients[clid]
                     ELSE [outlets |-> Outlets(peerHash, fs), last |-> now, served |-> {}]
            after == IF l \in Labels
                     THEN [state EXCEPT !.last = now, !.served = @ \cup {origin}]
                     ELSE state
        IN  /\ clients' = [c \in DOMAIN clients \cup {clid} |->
                             IF c = clid THEN after ELSE clients[c]]
            /\ peerHash' = peerHash
  BY DEF Deliver
<1> DEFINE state == IF clid \in DOMAIN clients THEN clients[clid]
                    ELSE [outlets |-> Outlets(peerHash, fs), last |-> now, served |-> {}]
           after == IF l \in Labels
                    THEN [state EXCEPT !.last = now, !.served = @ \cup {origin}]
                    ELSE state
<1>2. Made(state, peerHash)
  <2>1. CASE clid \in DOMAIN clients
    BY <2>1 DEF AllMade
  <2>2. CASE clid \notin DOMAIN clients
    <3>1. fs \in Sockets /\ Left(Required(peerHash), fs) = {}
      BY <1>1, <2>2 DEF Covers, Sockets
    <3>2. state = [outlets |-> Outlets(peerHash, fs), last |-> now, served |-> {}]
      BY <2>2
    <3> HIDE DEF state
    <3> QED BY <3>1, <3>2 DEF Made
  <2> QED BY <2>1, <2>2
<1> HIDE DEF state
<1>3. Made(after, peerHash)
  <2>0. PICK gs \in Sockets : \E last, served :
          /\ Left(Required(peerHash), gs) = {}
          /\ state = [outlets |-> Outlets(peerHash, gs), last |-> last, served |-> served]
    BY <1>2 DEF Made
  <2>1. PICK last, served :
          /\ Left(Required(peerHash), gs) = {}
          /\ state = [outlets |-> Outlets(peerHash, gs), last |-> last, served |-> served]
    BY <2>0
  <2>2. CASE l \in Labels
    <3>1. after = [outlets |-> Outlets(peerHash, gs), last |-> now,
                   served |-> served \cup {origin}]
      BY <2>1, <2>2
    <3> QED BY <2>1, <3>1 DEF Made
  <2>3. CASE l \notin Labels
    BY <1>2, <2>3
  <2> QED BY <2>2, <2>3
<1>4. clients' = [c \in DOMAIN clients \cup {clid} |->
                    IF c = clid THEN after ELSE clients[c]] /\ peerHash' = peerHash
  BY <1>1 DEF state
<1> HIDE DEF after
<1> QED BY <1>3, <1>4 DEF AllMade

\* No step makes a state in another way.
LEMMA MadeStep == AllMade /\ [Next]_vars => AllMade'
<1> SUFFICES ASSUME AllMade, [Next]_vars PROVE AllMade'
  OBVIOUS
<1>1. CASE UNCHANGED deliveryVars
  BY <1>1 DEF AllMade, deliveryVars
<1>2. CASE clients' = <<>>
  BY <1>2 DEF AllMade
<1>3. ASSUME NEW l \in Feeds, Transmit(l) PROVE AllMade'
  BY <1>2, <1>3, DeliverMakes DEF Transmit, Disconnect
<1>4. CASE FlushEgress
  <2>1. peerHash' = peerHash
        /\ \A c \in DOMAIN clients' : c \in DOMAIN clients /\ clients'[c] = clients[c]
    BY <1>4 DEF FlushEgress, FlushClients, Restrict
  <2> QED BY <2>1 DEF AllMade
<1>5. ASSUME NEW h \in Hosts, Connect(h) PROVE AllMade'
  BY <1>2, <1>5 DEF Connect, AcceptFrom
<1>6. CASE LoseConnection \/ Stop \/ Crash \/ Abort
  BY <1>2, <1>6 DEF LoseConnection, Stop, Crash, Abort, Die, Disconnect
<1>7. CASE (\E s \in Senders : SockReady(s)) \/ PurgeTimer \/ Start \/ Tick
  BY <1>1, <1>7 DEF SockReady, PurgeTimer, Start, Tick
<1>8. CASE UNCHANGED vars
  BY <1>1, <1>8 DEF vars
<1> QED BY <1>3, <1>4, <1>5, <1>6, <1>7, <1>8 DEF Next

\* The sockets made for a client reach all its destinations (Covered).
THEOREM CoverCorrect == Spec => []Covered
<1>1. Init => AllMade
  BY DEF Init, DeliveryInit, AllMade
<1>2. AllMade => Covered
  <2> SUFFICES ASSUME AllMade, NEW c \in DOMAIN clients, NEW l \in Labels,
                      NEW n \in Channels[l]
               PROVE  SeekName(n, peerHash) \in Reached(c, l)
    BY DEF Covered
  <2> DEFINE d == SeekName(n, peerHash)
  <2>1. PICK fs \in Sockets :
          /\ Left(Required(peerHash), fs) = {}
          /\ clients[c].outlets = Outlets(peerHash, fs)
    BY DEF AllMade, Made
  <2>2. d \in Destinations(l, peerHash) /\ d \in Required(peerHash)
    BY DEF Destinations, Required
  <2> HIDE DEF d
  <2>3. Options[d] \cap Range(fs) # {}
    BY <2>1, <2>2 DEF Left
  <2>4. EmitterOf(d, fs) \in Options[d]
    BY <2>3, EmitterFits
  <2>5. clients[c].outlets[l] =
          [x \in Destinations(l, peerHash) |-> EmitterOf(x, fs)]
    BY <2>1 DEF Outlets
  <2> QED BY <2>2, <2>4, <2>5 DEF Reached, Sends, d
<1> QED BY <1>1, <1>2, MadeStep, PTL DEF Spec

----------------------------------------------------------------------------
(* Choices of numbers, and sets in order.                                   *)

\* The least of some naturals.
LEMMA MinFacts ==
  ASSUME NEW T \in SUBSET Nat, T # {}
  PROVE  Min(T) \in T /\ \A k \in T : Min(T) <= k
<1>1. \E m \in T : \A k \in T : m <= k
  BY LeastNatural
<1> QED BY <1>1 DEF Min

\* The greatest of some numbers up to n.
LEMMA MaxFacts ==
  ASSUME NEW n \in Nat, NEW T \in SUBSET (1..n), T # {}
  PROVE  Max(T) \in T
<1> DEFINE D == {n - k : k \in T}
<1>1. D \in SUBSET Nat /\ D # {}
  <2>1. \A k \in T : n - k \in Nat
    OBVIOUS
  <2>2. PICK k \in T : TRUE
    OBVIOUS
  <2>3. n - k \in D
    BY <2>2
  <2> QED BY <2>1, <2>3
<1>2. PICK d \in D : \A k \in D : d <= k
  <2> HIDE DEF D
  <2> QED BY <1>1, LeastNatural
<1>3. PICK m \in T : d = n - m
  OBVIOUS
<1>4. \A k \in T : n - m <= n - k
  BY <1>2, <1>3
<1>5. \A k \in T : m >= k
  BY <1>4
<1> QED BY <1>5 DEF Max

\* SetToSeq(S) lists each member of S once.
LEMMA ListFacts ==
  ASSUME NEW S, IsFiniteSet(S)
  PROVE  /\ Cardinality(S) \in Nat /\ Len(SetToSeq(S)) = Cardinality(S)
         /\ SetToSeq(S) \in [1..Cardinality(S) -> S]
         /\ \A j, k \in 1..Cardinality(S) : SetToSeq(S)[j] = SetToSeq(S)[k] => j = k
         /\ \A x \in S : \E k \in 1..Cardinality(S) : SetToSeq(S)[k] = x
<1> DEFINE n == Cardinality(S)
           q == SetToSeq(S)
<1>1. n \in Nat /\ ExistsBijection(1..n, S)
  BY FS_CardinalityType
<1>2. \E f \in [1..n -> S] : IsInjective(f)
  BY <1>1 DEF ExistsBijection, Bijection, Injection
<1>3. q \in [1..n -> S] /\ IsInjective(q)
  BY <1>2 DEF SetToSeq
<1> HIDE DEF q, n
<1>4. Len(q) = n
  <2>1. q \in Seq(S)
    BY <1>1, <1>3
  <2> QED BY <1>1, <1>3, <2>1
<1>5. \A j, k \in 1..n : q[j] = q[k] => j = k
  BY <1>3 DEF IsInjective
<1>6. \A x \in S : \E k \in 1..n : q[k] = x
  <2>1. q \in Injection(1..n, S)
    BY <1>3 DEF Injection
  <2>2. Cardinality(1..n) = Cardinality(S)
    <3>1. n \in Int /\ 1 \in Int
      BY <1>1
    <3>2. Cardinality(1..n) = IF 1 > n THEN 0 ELSE n - 1 + 1
      BY <3>1, FS_Interval
    <3>3. Cardinality(1..n) = n
      BY <1>1, <3>2
    <3> QED BY <3>3 DEF n
  <2>3. q \in Surjection(1..n, S)
    BY <2>1, <2>2, FS_Injection
  <2> QED BY <2>3 DEF Surjection
<1> QED BY <1>1, <1>3, <1>4, <1>5, <1>6 DEF q, n

----------------------------------------------------------------------------
(* The table.                                                               *)

\* The table has the right types, and rev is finite, so that it can be saved.
TableTyped ==
  TableTypeOK /\ IsFiniteSet(DOMAIN rev) /\ now \in 0..MaxTime

\* The numbers of the table.
LEMMA TableNumbers ==
  ASSUME TableTyped
  PROVE  /\ now \in Nat /\ nextId \in Nat /\ Id \subseteq Nat /\ MaxId \in Nat
         /\ IsFiniteSet(DOMAIN fwd) /\ Cardinality(DOMAIN fwd) \in Nat
         /\ DOMAIN fwd \subseteq Nat
<1>1. MaxId \in Nat /\ MaxTime \in Nat
  BY TableAssumption, IdentityAssumption
<1>2. Id \subseteq Nat /\ IsFiniteSet(Id)
  BY <1>1, FS_Interval DEF Id
<1>3. DOMAIN fwd \in SUBSET Id
  BY DEF TableTyped, TableTypeOK
<1>4. IsFiniteSet(DOMAIN fwd)
  BY <1>2, <1>3, FS_Subset
<1>5. Cardinality(DOMAIN fwd) \in Nat
  BY <1>4, FS_CardinalityType
<1>6. nextId \in 0..(MaxId + 1) /\ now \in 0..MaxTime
  BY DEF TableTyped, TableTypeOK
<1>7. nextId \in Nat /\ now \in Nat
  BY <1>1, <1>6
<1> QED BY <1>1, <1>2, <1>3, <1>4, <1>5, <1>7

\* Among as many ids as are in use, and one more, one is free.
LEMMA FreeIdFacts ==
  ASSUME TableTyped
  PROVE  FreeId \in Nat /\ FreeId >= nextId /\ FreeId \notin DOMAIN fwd
<1> DEFINE n == Cardinality(DOMAIN fwd)
           I == nextId..(nextId + n)
           T == {i \in I : i \notin DOMAIN fwd}
<1>1. n \in Nat /\ nextId \in Nat /\ IsFiniteSet(DOMAIN fwd)
  BY TableNumbers
<1> HIDE DEF n
<1>2. T \in SUBSET Nat /\ \A i \in T : i >= nextId
  BY <1>1
<1>3. T # {}
  <2> SUFFICES ASSUME I \in SUBSET DOMAIN fwd PROVE FALSE
    OBVIOUS
  <2>1. Cardinality(I) <= n
    BY <1>1, FS_Subset DEF n
  <2>2. nextId \in Int /\ nextId + n \in Int
    BY <1>1
  <2>3. Cardinality(I) = IF nextId > nextId + n THEN 0 ELSE (nextId + n) - nextId + 1
    BY <2>2, FS_Interval
  <2> HIDE DEF I
  <2> QED BY <1>1, <2>1, <2>3
<1>4. FreeId = Min(T)
  BY DEF FreeId, n
<1> HIDE DEF T
<1>5. Min(T) \in T
  BY <1>2, <1>3, MinFacts
<1> QED BY <1>2, <1>4, <1>5 DEF T

\* What seek() does, in terms of what was in the table.
LEMMA SeekFacts ==
  ASSUME TableTyped, NEW s \in Senders, Seek(s, now)
  PROVE  /\ IdOf(s) \in Nat
         /\ DOMAIN fwd' = DOMAIN fwd \cup {IdOf(s)}
         /\ \A i \in DOMAIN fwd : i # IdOf(s) => fwd'[i] = fwd[i]
         /\ DOMAIN rev' = DOMAIN rev \cup {s} /\ rev'[s] = IdOf(s)
         /\ \A a \in DOMAIN rev : a # s => rev'[a] = rev[a]
         /\ fwd'[IdOf(s)] = [addr |-> IF Known(s) THEN fwd[IdOf(s)].addr ELSE s,
                             last |-> now]
         /\ IF Known(s) THEN IdOf(s) = rev[s] /\ rev[s] \in DOMAIN fwd /\ nextId' = nextId
            ELSE /\ IdOf(s) = FreeId /\ FreeId \notin DOMAIN fwd
                 /\ FreeId >= nextId /\ nextId' = FreeId + 1
<1>1. IF Known(s) THEN IdOf(s) = rev[s] /\ rev[s] \in DOMAIN fwd /\ nextId' = nextId
      ELSE IdOf(s) = FreeId /\ nextId' = FreeId + 1
  BY DEF Seek, SeekAsserts, IdOf
<1>2. FreeId \in Nat /\ FreeId >= nextId /\ FreeId \notin DOMAIN fwd
  BY FreeIdFacts
<1>3. IdOf(s) \in Nat
  BY <1>1, <1>2, TableNumbers
<1>4. /\ fwd' = [i \in DOMAIN fwd \cup {IdOf(s)} |->
                   IF i # IdOf(s) THEN fwd[i]
                   ELSE [addr |-> IF Known(s) THEN fwd[i].addr ELSE s, last |-> now]]
      /\ rev' = [a \in DOMAIN rev \cup {s} |-> IF a = s THEN IdOf(s) ELSE rev[a]]
  BY DEF Seek
<1>5. /\ DOMAIN fwd' = DOMAIN fwd \cup {IdOf(s)}
      /\ \A i \in DOMAIN fwd : i # IdOf(s) => fwd'[i] = fwd[i]
      /\ fwd'[IdOf(s)] = [addr |-> IF Known(s) THEN fwd[IdOf(s)].addr ELSE s, last |-> now]
  BY <1>4
<1>6. /\ DOMAIN rev' = DOMAIN rev \cup {s} /\ rev'[s] = IdOf(s)
      /\ \A a \in DOMAIN rev : a # s => rev'[a] = rev[a]
  BY <1>4
<1> QED BY <1>1, <1>2, <1>3, <1>5, <1>6

\* seek() keeps the types, as long as ids are in bounds.
LEMMA SeekTypes ==
  ASSUME TableTyped, NEW s \in Senders, Seek(s, now), IdOf(s) <= MaxId, now' = now
  PROVE  TableTyped'
<1> DEFINE new == IdOf(s)
<1>0. /\ new \in Nat
      /\ DOMAIN fwd' = DOMAIN fwd \cup {new}
      /\ \A i \in DOMAIN fwd : i # new => fwd'[i] = fwd[i]
      /\ DOMAIN rev' = DOMAIN rev \cup {s} /\ rev'[s] = new
      /\ \A a \in DOMAIN rev : a # s => rev'[a] = rev[a]
      /\ fwd'[new] = [addr |-> IF Known(s) THEN fwd[new].addr ELSE s, last |-> now]
      /\ IF Known(s) THEN new = rev[s] /\ rev[s] \in DOMAIN fwd /\ nextId' = nextId
         ELSE /\ new = FreeId /\ FreeId \notin DOMAIN fwd
              /\ FreeId >= nextId /\ nextId' = FreeId + 1
  BY SeekFacts
<1>1. MaxId \in Nat /\ now \in Nat /\ new <= MaxId
  BY TableNumbers
<1>2. /\ DOMAIN fwd \subseteq Id /\ \A i \in DOMAIN fwd : fwd[i] \in Entry
      /\ DOMAIN rev \subseteq Address /\ \A a \in DOMAIN rev : rev[a] \in Id
      /\ nextId \in 0..(MaxId + 1) /\ IsFiniteSet(DOMAIN rev)
  BY DEF TableTyped, TableTypeOK
<1> HIDE DEF new
<1>3. new \in Id
  BY <1>0, <1>1 DEF Id
<1>4. s \in Address
  BY DEF Address
<1>5. DOMAIN fwd' \subseteq Id /\ DOMAIN rev' \subseteq Address
  BY <1>0, <1>2, <1>3, <1>4
<1>6. \A i \in DOMAIN fwd' : fwd'[i] \in Entry
  <2>1. (IF Known(s) THEN fwd[new].addr ELSE s) \in Address
    <3>1. CASE Known(s)
      <4>1. fwd[new] \in Entry
        BY <1>0, <1>2, <3>1
      <4> QED BY <3>1, <4>1 DEF Entry
    <3>2. CASE ~Known(s)
      BY <1>4, <3>2
    <3> QED BY <3>1, <3>2
  <2>2. fwd'[new] \in Entry
    BY <1>0, <1>1, <2>1 DEF Entry
  <2> QED BY <1>0, <1>2, <2>2
<1>7. \A a \in DOMAIN rev' : rev'[a] \in Id
  BY <1>0, <1>2, <1>3
<1>8. nextId' \in 0..(MaxId + 1)
  <2>1. CASE Known(s)
    BY <1>0, <1>2, <2>1
  <2>2. CASE ~Known(s)
    <3>1. nextId' = new + 1
      BY <1>0, <2>2
    <3> QED BY <1>0, <1>1, <3>1
  <2> QED BY <2>1, <2>2
<1>9. IsFiniteSet(DOMAIN rev')
  BY <1>0, <1>2, FS_AddElement
<1>10. UNCHANGED <<lastPurge, purgeAt, db>>
  BY DEF Seek
<1> QED BY <1>5, <1>6, <1>7, <1>8, <1>9, <1>10 DEF TableTyped, TableTypeOK

\* A purge only takes from the tables.
LEMMA PurgeFacts ==
  ASSUME OnPurge(now)
  PROVE  /\ DOMAIN fwd' = DOMAIN fwd \ Stale(lastPurge)
         /\ \A i \in DOMAIN fwd' : fwd'[i] = fwd[i]
         /\ DOMAIN rev' \subseteq DOMAIN rev
         /\ \A a \in DOMAIN rev' : rev'[a] = rev[a]
         /\ Stale(lastPurge) = {} => DOMAIN rev' = DOMAIN rev
         /\ UNCHANGED <<nextId, db>>
         /\ lastPurge' = now /\ purgeAt' = Coming(now) \cup {now + PurgePeriod}
<1>1. PICK junk \in BeyondEnd(lastPurge) :
        rev' = [a \in DOMAIN rev \ (MissedAddresses(lastPurge) \cup junk) |-> rev[a]]
  BY DEF OnPurge, Restrict
<1>2. fwd' = [i \in DOMAIN fwd \ Stale(lastPurge) |-> fwd[i]]
  BY DEF OnPurge, Restrict
<1>3. Stale(lastPurge) = {} => DOMAIN rev' = DOMAIN rev
  <2> SUFFICES ASSUME Stale(lastPurge) = {} PROVE DOMAIN rev' = DOMAIN rev
    OBVIOUS
  <2>1. MissedAddresses(lastPurge) = {}
    BY DEF MissedAddresses
  <2>2. junk = {}
    BY DEF BeyondEnd
  <2> QED BY <1>1, <2>1, <2>2
<1>4. /\ UNCHANGED <<nextId, db>> /\ lastPurge' = now
      /\ purgeAt' = Coming(now) \cup {now + PurgePeriod}
  BY DEF OnPurge, Due
<1> QED BY <1>1, <1>2, <1>3, <1>4

\* What the constructor makes of the database: a line for each round, whose
\* addresses and ids are those of the tables.
LEMMA LoadFacts ==
  ASSUME TableTyped, NEW noise \in [1..db.count -> Noise], NEW garbage \in Id,
         NEW left, LoadTable(now, noise, garbage, left)
  PROVE  \E line \in [1..db.count -> Line] :
           /\ \A i \in 1..db.count : line[i] = ReadLine(i, noise, garbage)
           /\ DOMAIN rev' = {line[i].addr : i \in 1..db.count}
           /\ \A a \in DOMAIN rev' : \E i \in 1..db.count :
                line[i].addr = a /\ rev'[a] = line[i].id
           /\ DOMAIN fwd' = {line[i].id : i \in 1..db.count}
           /\ \A id \in DOMAIN fwd' : \E i \in 1..db.count :
                line[i].id = id /\ fwd'[id] = [addr |-> line[i].addr, last |-> now]
<1> DEFINE rounds == 1..db.count
           line == [i \in rounds |-> ReadLine(i, noise, garbage)]
           last(a) == Max({i \in rounds : line[i].addr = a})
           first(id) == Min({i \in rounds : line[i].id = id})
<1>1. /\ rev' = [a \in {line[i].addr : i \in rounds} |-> line[last(a)].id]
      /\ fwd' = [id \in {line[i].id : i \in rounds} |->
                   [addr |-> line[first(id)].addr, last |-> now]]
  BY DEF LoadTable
<1>2. db.count \in Nat /\ db.lines \in Seq(Line)
  BY DEF TableTyped, TableTypeOK
<1>3. \A i \in rounds : ReadLine(i, noise, garbage) \in Line
  <2> SUFFICES ASSUME NEW i \in rounds PROVE ReadLine(i, noise, garbage) \in Line
    OBVIOUS
  <2>1. CASE i <= Len(db.lines)
    <3>1. i \in 1..Len(db.lines)
      BY <1>2, <2>1
    <3>2. db.lines[i] \in Line
      BY <1>2, <3>1
    <3>3. noise[i] \in Address /\ Empty \in Address
      BY DEF Address
    <3> QED BY <2>1, <3>2, <3>3 DEF ReadLine, Line
  <2>2. CASE ~(i <= Len(db.lines))
    BY <2>2 DEF ReadLine, Line, Address
  <2> QED BY <2>1, <2>2
<1>4. line \in [rounds -> Line] /\ \A i \in rounds : line[i] = ReadLine(i, noise, garbage)
  BY <1>3
<1> HIDE DEF line
<1>5. \A a \in DOMAIN rev' : last(a) \in rounds /\ line[last(a)].addr = a
  <2> SUFFICES ASSUME NEW a \in DOMAIN rev'
               PROVE  last(a) \in rounds /\ line[last(a)].addr = a
    OBVIOUS
  <2> DEFINE T == {i \in rounds : line[i].addr = a}
  <2>1. T \in SUBSET (1..db.count) /\ T # {}
    BY <1>1
  <2>2. Max(T) \in T
    <3> HIDE DEF T
    <3> QED BY <1>2, <2>1, MaxFacts
  <2> QED BY <2>2
<1>6. \A id \in DOMAIN fwd' : first(id) \in rounds /\ line[first(id)].id = id
  <2> SUFFICES ASSUME NEW id \in DOMAIN fwd'
               PROVE  first(id) \in rounds /\ line[first(id)].id = id
    OBVIOUS
  <2> DEFINE T == {i \in rounds : line[i].id = id}
  <2>1. T \in SUBSET Nat /\ T # {}
    BY <1>1, <1>2
  <2>2. Min(T) \in T
    <3> HIDE DEF T
    <3> QED BY <2>1, MinFacts
  <2> QED BY <2>2
<1> HIDE DEF last, first
<1> QED BY <1>1, <1>4, <1>5, <1>6

\* The tables are of the right types after a start.
LEMMA LoadTypes ==
  ASSUME TableTyped, NEW noise \in [1..db.count -> Noise], NEW garbage \in Id,
         NEW left \in SUBSET Nat, LoadTable(now, noise, garbage, left), now' = now
  PROVE  TableTyped'
<1>1. PICK line \in [1..db.count -> Line] :
        /\ DOMAIN rev' = {line[i].addr : i \in 1..db.count}
        /\ \A a \in DOMAIN rev' : \E i \in 1..db.count :
             line[i].addr = a /\ rev'[a] = line[i].id
        /\ DOMAIN fwd' = {line[i].id : i \in 1..db.count}
        /\ \A id \in DOMAIN fwd' : \E i \in 1..db.count :
             line[i].id = id /\ fwd'[id] = [addr |-> line[i].addr, last |-> now]
  BY LoadFacts
<1>2. \A i \in 1..db.count : line[i].addr \in Address /\ line[i].id \in Id
  BY DEF Line
<1>3. now \in Nat /\ PurgePeriod \in Nat /\ MaxId \in Nat /\ db.count \in Nat
  BY TableNumbers, TableAssumption DEF TableTyped, TableTypeOK
<1>4. /\ DOMAIN rev' \subseteq Address /\ \A a \in DOMAIN rev' : rev'[a] \in Id
  BY <1>1, <1>2
<1>5. DOMAIN fwd' \subseteq Id
  BY <1>1, <1>2
<1>51. \A i \in DOMAIN fwd' : fwd'[i] \in Entry
  <2>1. \A x \in Address : [addr |-> x, last |-> now] \in Entry
    BY <1>3 DEF Entry
  <2> QED BY <1>1, <1>2, <2>1
<1>6. IsFiniteSet(DOMAIN rev')
  <2> DEFINE f == [i \in 1..db.count |-> line[i].addr]
  <2>1. f \in Surjection(1..db.count, DOMAIN rev')
    BY <1>1 DEF Surjection
  <2>2. IsFiniteSet(1..db.count)
    BY <1>3, FS_Interval
  <2> HIDE DEF f
  <2> QED BY <2>1, <2>2, FS_Surjection
<1>7. /\ nextId' = 0 /\ lastPurge' = now /\ db' = db
      /\ purgeAt' = left \cup {now + PurgePeriod}
  BY DEF LoadTable, Due
<1>71. purgeAt' \subseteq Nat
  BY <1>3, <1>7
<1>8. nextId' \in 0..(MaxId + 1)
  BY <1>3, <1>7
<1> QED BY <1>3, <1>4, <1>5, <1>51, <1>6, <1>7, <1>71, <1>8 DEF TableTyped, TableTypeOK

\* What is written to the database: the addresses in rev with their ids, each
\* once.
LEMMA SaveFacts ==
  ASSUME TableTyped, SaveTable
  PROVE  /\ db'.count = Cardinality(DOMAIN fwd)
         /\ db'.lines \in Seq(Line) /\ Len(db'.lines) = Cardinality(DOMAIN rev)
         /\ \A k \in 1..Len(db'.lines) :
              /\ db'.lines[k].addr \in DOMAIN rev
              /\ db'.lines[k].id = rev[db'.lines[k].addr]
         /\ \A j, k \in 1..Len(db'.lines) : db'.lines[j].addr = db'.lines[k].addr => j = k
         /\ \A a \in DOMAIN rev : \E k \in 1..Len(db'.lines) : db'.lines[k].addr = a
<1> DEFINE order == SetToSeq(DOMAIN rev)
           n == Cardinality(DOMAIN rev)
           lines == [k \in 1..Len(order) |-> [id |-> rev[order[k]], addr |-> order[k]]]
<1>1. db' = [count |-> Cardinality(DOMAIN fwd), lines |-> lines]
  BY DEF SaveTable, Saved
<1>2. /\ n \in Nat /\ Len(order) = n /\ order \in [1..n -> DOMAIN rev]
      /\ \A j, k \in 1..n : order[j] = order[k] => j = k
      /\ \A a \in DOMAIN rev : \E k \in 1..n : order[k] = a
  BY ListFacts DEF TableTyped
<1> HIDE DEF order, n
<1>3. \A k \in 1..n : [id |-> rev[order[k]], addr |-> order[k]] \in Line
  <2>1. \A a \in DOMAIN rev : a \in Address /\ rev[a] \in Id
    BY DEF TableTyped, TableTypeOK
  <2> QED BY <1>2, <2>1 DEF Line
<1>4. /\ lines \in Seq(Line) /\ Len(lines) = n
      /\ \A k \in 1..n : lines[k] = [id |-> rev[order[k]], addr |-> order[k]]
  BY <1>2, <1>3
<1> HIDE DEF lines
<1>5. \A k \in 1..n : /\ lines[k].addr = order[k] /\ order[k] \in DOMAIN rev
                      /\ lines[k].id = rev[order[k]]
  BY <1>2, <1>4
<1>6. db'.count = Cardinality(DOMAIN fwd) /\ db'.lines = lines
  BY <1>1
<1> QED BY <1>2, <1>4, <1>5, <1>6 DEF n

\* The table keeps its types in every state.
LEMMA TableTypeCorrect == Spec => []TableTyped
<1>1. Init => TableTyped
  <2> SUFFICES ASSUME Init PROVE TableTyped
    OBVIOUS
  <2>1. /\ DOMAIN fwd = {} /\ DOMAIN rev = {} /\ nextId = 0 /\ lastPurge = 0
        /\ purgeAt = {PurgePeriod} /\ db = [count |-> 0, lines |-> <<>>] /\ now = 0
    BY DEF Init, TableInit
  <2>2. MaxId \in Nat /\ MaxTime \in Nat /\ PurgePeriod \in Nat
    BY TableAssumption, IdentityAssumption
  <2>3. db.count \in Nat /\ db.lines \in Seq(Line)
    BY <2>1
  <2>4. nextId \in 0..(MaxId + 1) /\ now \in 0..MaxTime
        /\ lastPurge \in Nat /\ purgeAt \subseteq Nat
    BY <2>1, <2>2
  <2> QED BY <2>1, <2>3, <2>4, FS_EmptySet DEF TableTyped, TableTypeOK
<1>2. TableTyped /\ [Next]_vars => TableTyped'
  <2> SUFFICES ASSUME TableTyped, [Next]_vars PROVE TableTyped'
    OBVIOUS
  <2>1. ASSUME UNCHANGED <<fwd, rev, nextId, lastPurge, purgeAt, db, now>>
        PROVE  TableTyped'
    BY <2>1 DEF TableTyped, TableTypeOK
  <2>2. ASSUME NEW s \in Senders, SockReady(s) PROVE TableTyped'
    BY <2>2, SeekTypes DEF SockReady
  <2>3. CASE PurgeTimer
    <3>1. OnPurge(now) /\ now' = now
      BY <2>3 DEF PurgeTimer
    <3>2. IsFiniteSet(DOMAIN rev')
      <4>1. DOMAIN rev' \in SUBSET DOMAIN rev
        BY <3>1, PurgeFacts
      <4> QED BY <4>1, FS_Subset DEF TableTyped
    <3>3. /\ DOMAIN fwd' \subseteq Id /\ \A i \in DOMAIN fwd' : fwd'[i] \in Entry
          /\ DOMAIN rev' \subseteq Address /\ \A a \in DOMAIN rev' : rev'[a] \in Id
      BY <3>1, PurgeFacts DEF TableTyped, TableTypeOK
    <3>4. lastPurge' = now /\ UNCHANGED <<nextId, db>>
      BY <3>1, PurgeFacts
    <3>5. now \in Nat /\ PurgePeriod \in Nat
      BY TableNumbers, TableAssumption
    <3>6. Coming(now) \subseteq Nat
      BY DEF Coming, TableTyped, TableTypeOK
    <3>7. lastPurge' \in Nat /\ purgeAt' \subseteq Nat
      BY <3>1, <3>4, <3>5, <3>6, PurgeFacts
    <3> QED BY <3>1, <3>2, <3>3, <3>4, <3>7 DEF TableTyped, TableTypeOK
  <2>4. CASE Start
    <3>1. PICK noise \in [1..db.count -> Noise], garbage \in Id, left \in {purgeAt, {}} :
            LoadTable(now, noise, garbage, left)
      BY <2>4 DEF Start
    <3>2. now' = now
      BY <2>4 DEF Start
    <3>3. left \in SUBSET Nat
      BY DEF TableTyped, TableTypeOK
    <3> QED BY <3>1, <3>2, <3>3, LoadTypes
  <2>5. CASE Stop
    <3>1. SaveTable /\ now' = now /\ UNCHANGED <<fwd, rev, nextId, lastPurge, purgeAt>>
      BY <2>5 DEF Stop, SaveTable
    <3>2. db'.count \in Nat /\ db'.lines \in Seq(Line)
      BY <3>1, SaveFacts, TableNumbers
    <3> QED BY <3>1, <3>2 DEF TableTyped, TableTypeOK
  <2>6. CASE Tick
    <3>1. now' \in 0..MaxTime
      BY <2>6, TableNumbers, IdentityAssumption DEF Tick
    <3> QED BY <2>6, <3>1 DEF Tick, tableVars, TableTyped, TableTypeOK
  <2>7. ASSUME NEW l \in Feeds, Transmit(l) PROVE TableTyped'
    BY <2>1, <2>7 DEF Transmit, tableVars
  <2>8. ASSUME NEW h \in Hosts, Connect(h) PROVE TableTyped'
    BY <2>1, <2>8 DEF Connect, tableVars
  <2>9. CASE FlushEgress \/ LoseConnection
    BY <2>1, <2>9 DEF FlushEgress, LoseConnection, tableVars
  <2>10. CASE Crash \/ Abort
    BY <2>10 DEF Crash, Abort, Die, TableTyped, TableTypeOK
  <2>11. CASE UNCHANGED vars
    BY <2>1, <2>11 DEF vars, tableVars
  <2> QED
    BY <2>2, <2>3, <2>4, <2>5, <2>6, <2>7, <2>8, <2>9, <2>10, <2>11 DEF Next
<1> QED BY <1>1, <1>2, PTL DEF Spec

----------------------------------------------------------------------------
(* The types of the rest.                                                   *)

Datagram == [from : Senders, id : Id]

IngressTyped ==
  /\ alive \in BOOLEAN /\ record \in {"kept", "unsaved", "reused"}
  /\ stored \in [Feeds -> Seq(Datagram)]
  /\ received \in 0..MaxDatagrams /\ restarts \in 0..MaxRestarts

\* Taking the first from a queue, and putting one behind the last.
LEMMA QueueFacts ==
  ASSUME NEW S, NEW q \in Seq(S), q # <<>>
  PROVE  /\ Head(q) \in S /\ Tail(q) \in Seq(S)
         /\ Head(q) = q[1] /\ 1 \in 1..Len(q)
         /\ \A k \in 1..Len(Tail(q)) : k + 1 \in 1..Len(q) /\ Tail(q)[k] = q[k + 1]
  OBVIOUS

\* Putting one behind the last in a queue.
LEMMA AppendFacts ==
  ASSUME NEW S, NEW q \in Seq(S), NEW x \in S
  PROVE  /\ Append(q, x) \in Seq(S)
         /\ \A k \in 1..Len(Append(q, x)) :
              \/ k \in 1..Len(q) /\ Append(q, x)[k] = q[k]
              \/ Append(q, x)[k] = x
  OBVIOUS

\* What is queued is of the right type (the last part of TypeOK but for the
\* clients).
LEMMA IngressTypesStep ==
  ASSUME TableTyped, IngressTyped, [Next]_vars
  PROVE  IngressTyped'
<1>0. MaxDatagrams \in Nat /\ MaxRestarts \in Nat
  BY IdentityAssumption
<1>1. CASE UNCHANGED ingressVars
  BY <1>1 DEF IngressTyped, ingressVars
<1>2. ASSUME NEW s \in Senders, SockReady(s) PROVE IngressTyped'
  <2>1. IdOf(s) \in Id
    <3>1. IdOf(s) \in Nat
      BY <1>2, SeekFacts DEF SockReady
    <3>2. IdOf(s) <= MaxId
      BY <1>2 DEF SockReady
    <3> QED BY <3>1, <3>2, TableAssumption DEF Id
  <2>2. Payload(s) \in Datagram
    BY <2>1 DEF Payload, Datagram
  <2>3. \A l \in Feeds : Append(stored[l], Payload(s)) \in Seq(Datagram)
    BY <2>2, AppendFacts DEF IngressTyped
  <2>4. stored' \in [Feeds -> Seq(Datagram)]
    BY <1>2, <2>3 DEF SockReady
  <2>5. received' \in 0..MaxDatagrams
    BY <1>0, <1>2 DEF SockReady, IngressTyped
  <2> QED BY <1>2, <2>4, <2>5 DEF SockReady, IngressTyped
<1>3. CASE PurgeTimer
  BY <1>3 DEF PurgeTimer, IngressTyped, Forgotten
<1>4. ASSUME NEW l \in Feeds, Transmit(l) PROVE IngressTyped'
  <2>1. stored[l] \in Seq(Datagram) /\ stored[l] # <<>>
    BY <1>4 DEF Transmit, IngressTyped
  <2>2. Tail(stored[l]) \in Seq(Datagram)
    BY <2>1, QueueFacts
  <2>3. stored' \in [Feeds -> Seq(Datagram)]
    BY <1>4, <2>2 DEF Transmit, IngressTyped
  <2> QED BY <1>4, <2>3 DEF Transmit, IngressTyped
<1>5. ASSUME NEW h \in Hosts, Connect(h) PROVE IngressTyped'
  BY <1>1, <1>5 DEF Connect
<1>6. CASE FlushEgress \/ LoseConnection \/ Tick
  BY <1>1, <1>6 DEF FlushEgress, LoseConnection, Tick
<1>7. CASE Stop
  BY <1>7 DEF Stop, IngressTyped
<1>8. CASE Crash \/ Abort
  <2>1. Die
    BY <1>8 DEF Crash, Abort
  <2>2. <<>> \in Seq(Datagram)
    OBVIOUS
  <2>3. stored' \in [Feeds -> Seq(Datagram)]
    BY <2>1, <2>2 DEF Die, IngressTyped
  <2> QED BY <2>1, <2>3 DEF Die, IngressTyped, Forgotten
<1>9. CASE Start
  <2>1. restarts' \in 0..MaxRestarts
    BY <1>0, <1>9 DEF Start, IngressTyped
  <2> QED BY <1>9, <2>1 DEF Start, IngressTyped
<1>10. CASE UNCHANGED vars
  BY <1>1, <1>10 DEF vars
<1> QED BY <1>2, <1>3, <1>4, <1>5, <1>6, <1>7, <1>8, <1>9, <1>10 DEF Next

----------------------------------------------------------------------------
(* The clients of an egress.                                                *)

\* A client exists only on a connection of a running ingress, and has sent
\* datagrams.
DeliveryTyped ==
  /\ DeliveryTypeOK
  /\ ~alive => peerHash = Nobody
  /\ \A c \in DOMAIN clients : clients[c].served \subseteq Datagram

\* The hash of a peer is one from the configuration.
LEMMA PeerFacts == ASSUME NEW h PROVE SeekPeer(h) \in Nat \cup {Nobody}
<1>1. CASE HostEntries(h) = {}
  BY <1>1 DEF SeekPeer
<1>2. CASE HostEntries(h) # {}
  <2>1. Len(PeerEntries) \in Nat
    BY DeliveryAssumption
  <2>2. HostEntries(h) \in SUBSET (1..Len(PeerEntries))
    BY DEF HostEntries
  <2>3. Max(HostEntries(h)) \in 1..Len(PeerEntries)
    BY <1>2, <2>1, <2>2, MaxFacts
  <2> QED BY <1>2, <2>3, DeliveryAssumption DEF SeekPeer
<1> QED BY <1>1, <1>2

\* What delivery does to the clients: one may be new, and has sent the
\* datagram too, if anything.
LEMMA DeliverFacts ==
  ASSUME AllMade, NEW clid, NEW l, NEW origin, NEW usable,
         Deliver(clid, l, origin, usable, now)
  PROVE  /\ peerHash # Nobody /\ peerHash' = peerHash
         /\ DOMAIN clients' = DOMAIN clients \cup {clid}
         /\ \A c \in DOMAIN clients : c # clid => clients'[c] = clients[c]
         /\ \/ clients'[clid].last = now
            \/ clid \in DOMAIN clients /\ clients'[clid].last = clients[clid].last
         /\ \A p \in clients'[clid].served :
              p = origin \/ (clid \in DOMAIN clients /\ p \in clients[clid].served)
<1>1. PICK fs \in IF clid \in DOMAIN clients THEN {<<>>}
                  ELSE Covers(Required(peerHash), usable) :
        LET state == IF clid \in DOMAIN clients THEN clients[clid]
                     ELSE [outlets |-> Outlets(peerHash, fs), last |-> now, served |-> {}]
            after == IF l \in Labels
                     THEN [state EXCEPT !.last = now, !.served = @ \cup {origin}]
                     ELSE state
        IN  /\ peerHash # Nobody
            /\ clients' = [c \in DOMAIN clients \cup {clid} |->
                             IF c = clid THEN after ELSE clients[c]]
            /\ peerHash' = peerHash
  BY DEF Deliver
<1> DEFINE state == IF clid \in DOMAIN clients THEN clients[clid]
                    ELSE [outlets |-> Outlets(peerHash, fs), last |-> now, served |-> {}]
           after == IF l \in Labels
                    THEN [state EXCEPT !.last = now, !.served = @ \cup {origin}]
                    ELSE state
<1>2. /\ peerHash # Nobody /\ peerHash' = peerHash
      /\ clients' = [c \in DOMAIN clients \cup {clid} |->
                       IF c = clid THEN after ELSE clients[c]]
  BY <1>1
<1>3. \E outlets, last, served :
        /\ state = [outlets |-> outlets, last |-> last, served |-> served]
        /\ \/ clid \in DOMAIN clients /\ last = clients[clid].last
                                      /\ served = clients[clid].served
           \/ last = now /\ served = {}
  <2>1. CASE clid \in DOMAIN clients
    BY <2>1 DEF AllMade, Made
  <2>2. CASE clid \notin DOMAIN clients
    BY <2>2
  <2> QED BY <2>1, <2>2
<1> HIDE DEF state
<1>4. PICK outlets, last, served :
        /\ state = [outlets |-> outlets, last |-> last, served |-> served]
        /\ \/ clid \in DOMAIN clients /\ last = clients[clid].last
                                      /\ served = clients[clid].served
           \/ last = now /\ served = {}
  BY <1>3
<1>5. /\ after.last \in {now, last}
      /\ after.served \subseteq served \cup {origin}
  <2>1. CASE l \in Labels
    <3>1. after = [outlets |-> outlets, last |-> now, served |-> served \cup {origin}]
      BY <1>4, <2>1
    <3> HIDE DEF after
    <3> QED BY <3>1
  <2>2. CASE l \notin Labels
    BY <1>4, <2>2
  <2> QED BY <2>1, <2>2
<1> HIDE DEF after
<1>6. /\ DOMAIN clients' = DOMAIN clients \cup {clid} /\ clients'[clid] = after
      /\ \A c \in DOMAIN clients : c # clid => clients'[c] = clients[c]
  BY <1>2
<1> QED BY <1>2, <1>4, <1>5, <1>6

\* A flush only takes from the clients.
LEMMA FlushFacts ==
  ASSUME FlushClients(now)
  PROVE  /\ peerHash' = peerHash /\ DOMAIN clients' \subseteq DOMAIN clients
         /\ \A c \in DOMAIN clients' : clients'[c] = clients[c]
         /\ clients = <<>> => clients' = <<>>
<1>1. clients' = [c \in {c \in DOMAIN clients : clients[c].last >= now - ClientTimeout} |->
                    clients[c]]
  BY DEF FlushClients, Restrict
<1>2. clients = <<>> => clients' = <<>>
  <2> SUFFICES ASSUME clients = <<>> PROVE clients' = <<>>
    OBVIOUS
  <2>1. {c \in DOMAIN clients : clients[c].last >= now - ClientTimeout} = {}
    OBVIOUS
  <2>2. clients' = [c \in {} |-> clients[c]]
    BY <1>1, <2>1
  <2> QED BY <2>2
<1> QED BY <1>1, <1>2 DEF FlushClients

\* A state that was made has a socket for each destination of every label.
LEMMA MadeLabels == AllMade => \A c \in DOMAIN clients : DOMAIN clients[c].outlets = Labels
<1> SUFFICES ASSUME AllMade, NEW c \in DOMAIN clients
             PROVE  DOMAIN clients[c].outlets = Labels
  OBVIOUS
<1>1. PICK fs : clients[c].outlets = Outlets(peerHash, fs)
  BY DEF AllMade, Made
<1> QED BY <1>1 DEF Outlets

\* DeliveryTyped is kept by every step.
LEMMA DeliveryTypesStep ==
  ASSUME TableTyped, IngressTyped, DeliveryTyped, AllMade, AllMade', [Next]_vars
  PROVE  DeliveryTyped'
<1>1. (\A c \in DOMAIN clients : DOMAIN clients[c].outlets = Labels)'
  BY MadeLabels, PTL
<1>2. CASE UNCHANGED <<alive, deliveryVars>>
  BY <1>2 DEF deliveryVars, DeliveryTyped, DeliveryTypeOK
<1>3. CASE Disconnect
  <2>1. DOMAIN clients' = {}
    BY <1>3 DEF Disconnect
  <2> QED BY <1>3, <2>1 DEF Disconnect, DeliveryTyped, DeliveryTypeOK
<1>4. ASSUME NEW l \in Feeds, Transmit(l) PROVE DeliveryTyped'
  <2> DEFINE p == Head(stored[l])
             clid == WireId(p.id)
  <2>1. p \in Datagram
    <3>1. stored[l] \in Seq(Datagram) /\ stored[l] # <<>>
      BY <1>4 DEF Transmit, IngressTyped
    <3> QED BY <3>1, QueueFacts
  <2>2. (\E usable : Deliver(clid, l, p, usable, now)) \/ Disconnect
    BY <1>4 DEF Transmit
  <2> HIDE DEF p, clid
  <2>3. ASSUME NEW usable, Deliver(clid, l, p, usable, now) PROVE DeliveryTyped'
    <3>1. /\ peerHash # Nobody /\ peerHash' = peerHash
          /\ DOMAIN clients' = DOMAIN clients \cup {clid}
          /\ \A c \in DOMAIN clients : c # clid => clients'[c] = clients[c]
          /\ \/ clients'[clid].last = now
             \/ clid \in DOMAIN clients /\ clients'[clid].last = clients[clid].last
          /\ \A r \in clients'[clid].served :
               r = p \/ (clid \in DOMAIN clients /\ r \in clients[clid].served)
      BY <2>3, DeliverFacts
    <3>2. alive /\ alive' = alive
      BY <1>4 DEF Transmit
    <3>3. now \in Nat
      BY TableNumbers
    <3>4. \A c \in DOMAIN clients' : clients'[c].last \in Nat
      BY <3>1, <3>3 DEF DeliveryTyped, DeliveryTypeOK
    <3>5. \A c \in DOMAIN clients' : clients'[c].served \subseteq Datagram
      BY <2>1, <3>1 DEF DeliveryTyped
    <3> QED BY <1>1, <3>1, <3>2, <3>4, <3>5 DEF DeliveryTyped, DeliveryTypeOK
  <2> QED BY <1>3, <2>2, <2>3
<1>5. ASSUME NEW h \in Hosts, Connect(h) PROVE DeliveryTyped'
  <2>1. peerHash' \in Nat \cup {Nobody} /\ clients' = <<>> /\ alive /\ alive' = alive
    BY <1>5, PeerFacts DEF Connect, AcceptFrom, ingressVars
  <2>2. DOMAIN clients' = {}
    BY <2>1
  <2> QED BY <2>1, <2>2 DEF DeliveryTyped, DeliveryTypeOK
<1>6. CASE FlushEgress
  <2>1. FlushClients(now) /\ alive' = alive
    BY <1>6 DEF FlushEgress, ingressVars
  <2> QED BY <2>1, FlushFacts DEF DeliveryTyped, DeliveryTypeOK
<1>7. CASE LoseConnection \/ Stop \/ Crash \/ Abort
  BY <1>3, <1>7 DEF LoseConnection, Stop, Crash, Abort, Die
<1>8. CASE Start
  BY <1>8 DEF Start, deliveryVars, DeliveryTyped, DeliveryTypeOK
<1>9. CASE (\E s \in Senders : SockReady(s)) \/ PurgeTimer \/ Tick
  BY <1>2, <1>9 DEF SockReady, PurgeTimer, Tick, ingressVars, deliveryVars
<1>10. CASE UNCHANGED vars
  BY <1>2, <1>10 DEF vars, ingressVars
<1> QED BY <1>4, <1>5, <1>6, <1>7, <1>8, <1>9, <1>10 DEF Next

\* All of these together.
Typed == TableTyped /\ IngressTyped /\ AllMade /\ DeliveryTyped

\* What is initially true, and kept.
LEMMA TypedInvariant == Spec => []Typed
<1>1. Init => IngressTyped /\ AllMade /\ DeliveryTyped
  <2> SUFFICES ASSUME Init PROVE IngressTyped /\ AllMade /\ DeliveryTyped
    OBVIOUS
  <2>1. /\ alive = TRUE /\ stored = [l \in Feeds |-> <<>>]
        /\ received = 0 /\ restarts = 0 /\ record = "kept"
        /\ peerHash = Nobody /\ clients = <<>>
    BY DEF Init, DeliveryInit
  <2>2. <<>> \in Seq(Datagram) /\ DOMAIN clients = {}
    BY <2>1
  <2>3. received \in 0..MaxDatagrams /\ restarts \in 0..MaxRestarts
    BY <2>1, IdentityAssumption
  <2> QED BY <2>1, <2>2, <2>3 DEF IngressTyped, AllMade, DeliveryTyped, DeliveryTypeOK
<1>2. Init => AllMade
  BY <1>1
<1>3. TableTyped /\ TableTyped' /\ IngressTyped /\ AllMade /\ DeliveryTyped /\ [Next]_vars
        => IngressTyped' /\ AllMade' /\ DeliveryTyped'
  BY IngressTypesStep, MadeStep, DeliveryTypesStep
<1> QED BY <1>1, <1>3, TableTypeCorrect, PTL DEF Spec, Typed

\* After each purge and each start the next purge is a period away.
PurgeSet == alive => lastPurge + PurgePeriod \in purgeAt

\* No purge of an earlier table takes the next one's time away.
LEMMA PurgeSetCorrect == Spec => []PurgeSet
<1>1. Init => PurgeSet
  BY TableAssumption DEF Init, TableInit, PurgeSet
<1>2. PurgeSet /\ [Next]_vars => PurgeSet'
  <2> SUFFICES ASSUME PurgeSet, [Next]_vars PROVE PurgeSet'
    OBVIOUS
  <2>1. CASE PurgeTimer
    BY <2>1 DEF PurgeTimer, OnPurge, Due, PurgeSet
  <2>2. CASE Start
    BY <2>2 DEF Start, LoadTable, Due, PurgeSet
  <2>3. CASE Stop \/ Crash \/ Abort
    BY <2>3 DEF Stop, Crash, Abort, Die, PurgeSet
  <2>4. CASE UNCHANGED <<alive, lastPurge, purgeAt>>
    BY <2>4 DEF PurgeSet
  <2>5. ASSUME NEW s \in Senders, SockReady(s) PROVE PurgeSet'
    BY <2>4, <2>5 DEF SockReady, Seek
  <2>6. ASSUME NEW l \in Feeds, Transmit(l) PROVE PurgeSet'
    BY <2>4, <2>6 DEF Transmit, tableVars
  <2>7. ASSUME NEW h \in Hosts, Connect(h) PROVE PurgeSet'
    BY <2>4, <2>7 DEF Connect, tableVars, ingressVars
  <2>8. CASE FlushEgress \/ LoseConnection \/ Tick
    BY <2>4, <2>8 DEF FlushEgress, LoseConnection, Tick, tableVars, ingressVars
  <2>9. CASE UNCHANGED vars
    BY <2>4, <2>9 DEF vars, tableVars, ingressVars
  <2> QED BY <2>1, <2>2, <2>3, <2>5, <2>6, <2>7, <2>8, <2>9 DEF Next
<1> QED BY <1>1, <1>2, PTL DEF Spec

\* The tables are maps between addresses and ids in range, a peer's clients
\* exist only while it is connected, and the queues hold datagrams (TypeOK).
THEOREM TypeCorrect == Spec => []TypeOK
<1>1. Typed /\ PurgeSet => TypeOK
  BY DEF Typed, TableTyped, IngressTyped, DeliveryTyped, TypeOK, Datagram, PurgeSet
<1> QED BY <1>1, TypedInvariant, PurgeSetCorrect, PTL

----------------------------------------------------------------------------
(* Whose an id is.                                                          *)

Queued == UNION {Range(stored[l]) : l \in Feeds}
Sent == UNION {clients[c].served : c \in DOMAIN clients}
Recorded == {[from |-> s, id |-> rev[s]] : s \in Senders \cap DOMAIN rev}

\* The senders and ids that belong together: those in the queues, at the
\* egress and in the table.
Taken == Queued \cup Sent \cup Recorded

\* While every id that was forgotten stays unused, no two senders have the
\* same one.
OwnIds ==
  record # "reused" => \A p, q \in Taken : p.id = q.id => p.from = q.from

\* An id that belongs to a sender is in use, or next_id is past it.
NotNext ==
  alive /\ record # "reused" =>
    \A p \in Taken : p.id \in DOMAIN fwd \/ p.id < nextId

\* The table of a running ingress pairs addresses with ids, and knows those in
\* the queues.
Paired ==
  /\ DOMAIN rev \subseteq Senders \cup Noise
  /\ \A a \in DOMAIN rev : rev[a] \in DOMAIN fwd
  /\ \A i \in DOMAIN fwd : \E a \in DOMAIN rev : rev[a] = i
  /\ \A a, b \in DOMAIN rev : rev[a] = rev[b] => a = b
  /\ \A s \in Senders \cap DOMAIN rev : fwd[rev[s]].addr = s

QueuedKnown == \A p \in Queued : p.id \in DOMAIN fwd /\ fwd[p.id].addr \in {p.from} \cup Noise

\* The database has a line for each id.
PairsSaved ==
  /\ db.count = Len(db.lines)
  /\ \A j, k \in 1..Len(db.lines) : db.lines[j].id = db.lines[k].id => j = k
  /\ \A k \in 1..Len(db.lines) : db.lines[k].addr # Empty
  /\ \A p \in Queued : \E k \in 1..Len(db.lines) : db.lines[k].id = p.id

OnRecord ==
  record = "kept" => IF alive THEN Paired /\ QueuedKnown ELSE PairsSaved

Owned == OwnIds /\ NotNext /\ OnRecord

\* What is in a queue, by place.
LEMMA QueueMembers ==
  ASSUME NEW S, NEW q \in Seq(S)
  PROVE  \A x : x \in Range(q) <=> \E i \in 1..Len(q) : x = q[i]
<1>1. DOMAIN q = 1..Len(q)
  OBVIOUS
<1> QED BY <1>1 DEF Range

\* What is in a queue when something was added.
LEMMA MembersOfAppend ==
  ASSUME NEW S, NEW q \in Seq(S), NEW x \in S
  PROVE  Range(Append(q, x)) \subseteq Range(q) \cup {x}
<1> DEFINE r == Append(q, x)
<1>1. /\ r \in Seq(S)
      /\ \A k \in 1..Len(r) : (k \in 1..Len(q) /\ r[k] = q[k]) \/ r[k] = x
  BY AppendFacts
<1> HIDE DEF r
<1>2. /\ \A y : y \in Range(r) <=> \E i \in 1..Len(r) : y = r[i]
      /\ \A y : y \in Range(q) <=> \E i \in 1..Len(q) : y = q[i]
  BY <1>1, QueueMembers
<1>3. Range(r) \subseteq Range(q) \cup {x}
  BY <1>1, <1>2
<1> QED BY <1>3 DEF r

\* What is in a queue when the first was taken.
LEMMA MembersOfTail ==
  ASSUME NEW S, NEW q \in Seq(S), q # <<>>
  PROVE  Head(q) \in Range(q) /\ Range(Tail(q)) \subseteq Range(q)
<1> DEFINE h == Head(q)
           r == Tail(q)
<1>1. /\ h \in S /\ r \in Seq(S) /\ h = q[1] /\ 1 \in 1..Len(q)
      /\ \A k \in 1..Len(r) : k + 1 \in 1..Len(q) /\ r[k] = q[k + 1]
  BY QueueFacts
<1> HIDE DEF h, r
<1>2. /\ \A y : y \in Range(r) <=> \E i \in 1..Len(r) : y = r[i]
      /\ \A y : y \in Range(q) <=> \E i \in 1..Len(q) : y = q[i]
  BY <1>1, QueueMembers
<1>3. h \in Range(q) /\ Range(r) \subseteq Range(q)
  BY <1>1, <1>2
<1> QED BY <1>3 DEF h, r

\* Everything that belongs to a sender looks like a datagram.
LEMMA TakenTyped == Typed => Taken \subseteq Datagram
<1> SUFFICES ASSUME Typed PROVE Taken \subseteq Datagram
  OBVIOUS
<1>1. Queued \subseteq Datagram
  <2> SUFFICES ASSUME NEW l \in Feeds PROVE Range(stored[l]) \subseteq Datagram
    BY DEF Queued
  <2>1. stored[l] \in Seq(Datagram)
    BY DEF Typed, IngressTyped
  <2> QED BY <2>1, QueueMembers
<1>2. Sent \subseteq Datagram
  BY DEF Sent, Typed, DeliveryTyped
<1>3. Recorded \subseteq Datagram
  BY DEF Recorded, Datagram, Typed, TableTyped, TableTypeOK
<1> QED BY <1>1, <1>2, <1>3 DEF Taken

\* Nothing new belongs to anyone if nothing is added to the table or to what
\* was sent.
LEMMA FewerTaken ==
  ASSUME Queued' \cup Sent' \subseteq Taken,
         DOMAIN rev' \subseteq DOMAIN rev, \A a \in DOMAIN rev' : rev'[a] = rev[a]
  PROVE  Taken' \subseteq Taken
<1>1. Recorded' \subseteq Recorded
  BY DEF Recorded
<1> QED BY <1>1 DEF Taken

\* Then, if the table stays as it is, nothing is lost.
LEMMA FewerOwned ==
  ASSUME Owned, Queued' \subseteq Queued, Sent' \subseteq Queued \cup Sent,
         UNCHANGED <<fwd, rev, nextId, db, alive, record>>
  PROVE  Owned'
<1>1. Taken' \subseteq Taken
  BY FewerTaken DEF Taken
<1>2. OwnIds' /\ NotNext'
  BY <1>1 DEF Owned, OwnIds, NotNext
<1>3. Paired /\ QueuedKnown => Paired' /\ QueuedKnown'
  BY DEF Paired, QueuedKnown
<1>4. PairsSaved => PairsSaved'
  BY DEF PairsSaved
<1> QED BY <1>2, <1>3, <1>4 DEF Owned, OnRecord

\* A datagram that is sent was in the queue.
LEMMA TransmitOwned ==
  ASSUME Typed, Owned, NEW l \in Feeds, Transmit(l)
  PROVE  Owned'
<1> DEFINE p == Head(stored[l])
           clid == WireId(p.id)
<1>1. /\ stored[l] \in Seq(Datagram) /\ stored[l] # <<>>
      /\ stored' = [stored EXCEPT ![l] = Tail(stored[l])]
      /\ stored \in [Feeds -> Seq(Datagram)]
  BY DEF Transmit, Typed, IngressTyped
<1>2. p \in Range(stored[l]) /\ Range(Tail(stored[l])) \subseteq Range(stored[l])
  BY <1>1, MembersOfTail
<1>3. p \in Queued
  BY <1>2 DEF Queued
<1>4. Queued' \subseteq Queued
  <2>1. \A m \in Feeds : stored'[m] = IF m = l THEN Tail(stored[l]) ELSE stored[m]
    BY <1>1
  <2>2. \A m \in Feeds : Range(stored'[m]) \subseteq Range(stored[m])
    BY <1>2, <2>1
  <2> QED BY <2>2 DEF Queued
<1>5. (\E usable : Deliver(clid, l, p, usable, now)) \/ Disconnect
  BY DEF Transmit
<1>6. UNCHANGED <<fwd, rev, nextId, db, alive, record>>
  BY DEF Transmit, tableVars
<1> HIDE DEF p, clid
<1>7. Sent' \subseteq Queued \cup Sent
  <2>1. ASSUME NEW usable, Deliver(clid, l, p, usable, now)
        PROVE  Sent' \subseteq Queued \cup Sent
    <3>1. /\ DOMAIN clients' = DOMAIN clients \cup {clid}
          /\ \A c \in DOMAIN clients : c # clid => clients'[c] = clients[c]
          /\ \A r \in clients'[clid].served :
               r = p \/ (clid \in DOMAIN clients /\ r \in clients[clid].served)
      BY <2>1, DeliverFacts DEF Typed
    <3> QED BY <1>3, <3>1 DEF Sent
  <2>2. CASE Disconnect
    BY <2>2 DEF Disconnect, Sent
  <2> QED BY <1>5, <2>1, <2>2
<1> QED BY <1>4, <1>6, <1>7, FewerOwned

\* A purge may forget ids, but next_id is past those that are not reused.
LEMMA PurgeOwned ==
  ASSUME Typed, Owned, PurgeTimer
  PROVE  Owned'
<1>1. /\ OnPurge(now) /\ UNCHANGED <<alive, stored, clients>> /\ alive
      /\ record' = IF Stale(lastPurge) = {} THEN record
                   ELSE IF \E i \in Stale(lastPurge) : i >= nextId THEN "reused"
                   ELSE Forgotten
  BY DEF PurgeTimer, deliveryVars
<1>2. /\ DOMAIN fwd' = DOMAIN fwd \ Stale(lastPurge)
      /\ \A i \in DOMAIN fwd' : fwd'[i] = fwd[i]
      /\ DOMAIN rev' \subseteq DOMAIN rev
      /\ \A a \in DOMAIN rev' : rev'[a] = rev[a]
      /\ Stale(lastPurge) = {} => DOMAIN rev' = DOMAIN rev
      /\ UNCHANGED <<nextId, db>>
  BY <1>1, PurgeFacts
<1>3. Queued' = Queued /\ Sent' = Sent
  BY <1>1 DEF Queued, Sent
<1>4. Taken' \subseteq Taken
  BY <1>2, <1>3, FewerTaken DEF Taken
<1>5. record' # "reused" => record # "reused"
  BY <1>1 DEF Forgotten
<1>6. OwnIds'
  BY <1>4, <1>5 DEF Owned, OwnIds
<1>7. NotNext'
  <2> SUFFICES ASSUME record' # "reused", NEW p \in Taken'
               PROVE  p.id \in DOMAIN fwd' \/ p.id < nextId'
    BY DEF NotNext
  <2>1. p.id \in DOMAIN fwd \/ p.id < nextId
    BY <1>1, <1>4, <1>5 DEF Owned, NotNext
  <2>2. CASE p.id \in Stale(lastPurge)
    <3>1. ~(p.id >= nextId)
      BY <1>1, <2>2
    <3>2. p.id \in Nat /\ nextId \in Nat
      <4>1. p.id \in DOMAIN fwd
        BY <2>2 DEF Stale
      <4> QED BY <4>1, TableNumbers DEF Typed
    <3> QED BY <1>2, <3>1, <3>2
  <2> QED BY <1>2, <2>1, <2>2
<1>8. OnRecord'
  <2>1. CASE Stale(lastPurge) = {}
    <3>1. DOMAIN fwd' = DOMAIN fwd /\ DOMAIN rev' = DOMAIN rev
      BY <1>2, <2>1
    <3>2. Paired => Paired'
      BY <1>2, <3>1 DEF Paired
    <3>3. QueuedKnown => QueuedKnown'
      BY <1>2, <1>3, <3>1 DEF QueuedKnown
    <3> QED BY <1>1, <2>1, <3>2, <3>3 DEF Owned, OnRecord
  <2>2. CASE Stale(lastPurge) # {}
    BY <1>1, <2>2 DEF OnRecord, Forgotten
  <2> QED BY <2>1, <2>2
<1> QED BY <1>6, <1>7, <1>8 DEF Owned

\* A sender keeps its id, and one that is new gets an id of nobody's.
LEMMA SockReadyOwned ==
  ASSUME Typed, Owned, NEW s \in Senders, SockReady(s)
  PROVE  Owned'
<1> DEFINE new == IdOf(s)
           p == [from |-> s, id |-> new]
<1>1. /\ alive /\ UNCHANGED <<alive, record, clients>> /\ Seek(s, now)
      /\ stored' = [l \in Feeds |-> Append(stored[l], p)]
  BY DEF SockReady, Payload, deliveryVars
<1>2. /\ new \in Nat
      /\ DOMAIN fwd' = DOMAIN fwd \cup {new}
      /\ \A i \in DOMAIN fwd : i # new => fwd'[i] = fwd[i]
      /\ DOMAIN rev' = DOMAIN rev \cup {s} /\ rev'[s] = new
      /\ \A a \in DOMAIN rev : a # s => rev'[a] = rev[a]
      /\ fwd'[new] = [addr |-> IF Known(s) THEN fwd[new].addr ELSE s, last |-> now]
      /\ IF Known(s) THEN new = rev[s] /\ rev[s] \in DOMAIN fwd /\ nextId' = nextId
         ELSE /\ new = FreeId /\ FreeId \notin DOMAIN fwd
              /\ FreeId >= nextId /\ nextId' = FreeId + 1
  BY <1>1, SeekFacts DEF Typed
<1>3. p \in Datagram
  <2>1. new \in Id
    BY <1>2, TableAssumption DEF SockReady, Id
  <2> QED BY <2>1 DEF Datagram
<1>4. p.from = s /\ p.id = new
  OBVIOUS
<1> HIDE DEF new, p
<1>5. Queued' \subseteq Queued \cup {p}
  <2>1. \A l \in Feeds : Range(Append(stored[l], p)) \subseteq Range(stored[l]) \cup {p}
    BY <1>3, MembersOfAppend DEF Typed, IngressTyped
  <2>2. \A l \in Feeds : stored'[l] = Append(stored[l], p)
    BY <1>1
  <2> QED BY <2>1, <2>2 DEF Queued
<1>6. Sent' = Sent
  BY <1>1 DEF Sent
<1>7. Known(s) <=> s \in DOMAIN rev
  BY DEF Known
<1>8. Recorded' \subseteq Recorded \cup {p}
  <2> SUFFICES ASSUME NEW r \in Recorded' PROVE r \in Recorded \cup {p}
    OBVIOUS
  <2>1. PICK t \in Senders \cap DOMAIN rev' : r = [from |-> t, id |-> rev'[t]]
    BY DEF Recorded
  <2>2. CASE t = s
    BY <1>2, <2>1, <2>2 DEF p
  <2>3. CASE t # s
    BY <1>2, <2>1, <2>3 DEF Recorded
  <2> QED BY <2>2, <2>3
<1>9. Taken' \subseteq Taken \cup {p}
  BY <1>5, <1>6, <1>8 DEF Taken
<1>10. Known(s) => p \in Taken
  BY <1>2, <1>7 DEF Taken, Recorded, p
<1>11. Taken \subseteq Datagram /\ \A r \in Datagram : r.id \in Nat
  BY TakenTyped, TableNumbers DEF Typed, Datagram
<1>12. ~Known(s) /\ record # "reused" => \A r \in Taken : r.id # new
  <2> SUFFICES ASSUME ~Known(s), record # "reused", NEW r \in Taken
               PROVE  r.id # new
    OBVIOUS
  <2>1. r.id \in DOMAIN fwd \/ r.id < nextId
    BY <1>1 DEF Owned, NotNext
  <2>2. r.id \in Nat /\ nextId \in Nat
    BY <1>11, TableNumbers DEF Typed
  <2>3. new \notin DOMAIN fwd /\ new >= nextId /\ new \in Nat
    BY <1>2
  <2> QED BY <2>1, <2>2, <2>3
<1>13. OwnIds'
  <2> SUFFICES ASSUME record # "reused", NEW q \in Taken', NEW r \in Taken', q.id = r.id
               PROVE  q.from = r.from
    BY <1>1 DEF OwnIds
  <2>1. CASE Known(s)
    BY <1>9, <1>10, <2>1 DEF Owned, OwnIds
  <2>2. CASE ~Known(s)
    <3>1. q \in Taken /\ r \in Taken => q.from = r.from
      BY DEF Owned, OwnIds
    <3> QED BY <1>4, <1>9, <1>12, <2>2, <3>1
  <2> QED BY <2>1, <2>2
<1>14. NotNext'
  <2> SUFFICES ASSUME record # "reused", NEW q \in Taken'
               PROVE  q.id \in DOMAIN fwd' \/ q.id < nextId'
    BY <1>1 DEF NotNext
  <2>1. CASE q = p
    BY <1>2, <1>4, <2>1
  <2>2. CASE q \in Taken
    <3>1. q.id \in DOMAIN fwd \/ q.id < nextId
      BY <1>1, <2>2 DEF Owned, NotNext
    <3>2. q.id \in Nat /\ nextId \in Nat
      BY <1>11, <2>2, TableNumbers DEF Typed
    <3>3. nextId' \in Nat /\ nextId <= nextId'
      <4>1. CASE Known(s)
        BY <1>2, <3>2, <4>1
      <4>2. CASE ~Known(s)
        <5>1. FreeId \in Nat /\ FreeId >= nextId /\ nextId' = FreeId + 1
          BY <1>2, <4>2
        <5> QED BY <3>2, <5>1
      <4> QED BY <4>1, <4>2
    <3>4. CASE q.id \in DOMAIN fwd
      BY <1>2, <3>4
    <3>5. CASE q.id < nextId
      BY <3>2, <3>3, <3>5
    <3> QED BY <3>1, <3>4, <3>5
  <2> QED BY <1>9, <2>1, <2>2
<1>15. ASSUME Paired PROVE Paired'
  <2>1. DOMAIN rev' \subseteq Senders \cup Noise
    BY <1>2, <1>15 DEF Paired
  <2>2. \A a \in DOMAIN rev' : rev'[a] \in DOMAIN fwd'
    BY <1>2, <1>15 DEF Paired
  <2>3. ASSUME NEW i \in DOMAIN fwd' PROVE \E a \in DOMAIN rev' : rev'[a] = i
    <3>1. CASE i = new
      BY <1>2, <3>1
    <3>2. CASE i # new
      <4>1. PICK a \in DOMAIN rev : rev[a] = i
        BY <1>2, <1>15, <3>2 DEF Paired
      <4>2. a # s
        BY <1>2, <1>7, <3>2, <4>1
      <4> QED BY <1>2, <4>1, <4>2
    <3> QED BY <3>1, <3>2
  <2>4. \A a \in DOMAIN rev : a # s => rev[a] # new
    BY <1>2, <1>7, <1>15 DEF Paired
  <2>5. \A a, b \in DOMAIN rev' : rev'[a] = rev'[b] => a = b
    BY <1>2, <1>15, <2>4 DEF Paired
  <2>6. ASSUME NEW t \in Senders \cap DOMAIN rev' PROVE fwd'[rev'[t]].addr = t
    <3>1. CASE t = s
      <4>1. fwd'[new].addr = IF Known(s) THEN fwd[new].addr ELSE s
        BY <1>2
      <4>2. Known(s) => fwd[new].addr = s
        BY <1>2, <1>7, <1>15 DEF Paired
      <4> QED BY <1>2, <3>1, <4>1, <4>2
    <3>2. CASE t # s
      BY <1>2, <1>15, <2>4, <3>2 DEF Paired
    <3> QED BY <3>1, <3>2
  <2> QED BY <2>1, <2>2, <2>3, <2>5, <2>6 DEF Paired
<1>16. ASSUME Paired, QueuedKnown PROVE QueuedKnown'
  <2> SUFFICES ASSUME NEW q \in Queued'
               PROVE  q.id \in DOMAIN fwd' /\ fwd'[q.id].addr \in {q.from} \cup Noise
    BY DEF QueuedKnown
  <2>1. fwd'[new].addr = IF Known(s) THEN fwd[new].addr ELSE s
    BY <1>2
  <2>2. CASE q = p
    <3>1. Known(s) => fwd[new].addr = s
      BY <1>2, <1>7, <1>16 DEF Paired
    <3> QED BY <1>2, <1>4, <2>1, <2>2, <3>1
  <2>3. CASE q \in Queued
    <3>1. q.id \in DOMAIN fwd /\ fwd[q.id].addr \in {q.from} \cup Noise
      BY <1>16, <2>3 DEF QueuedKnown
    <3>2. CASE q.id = new
      <4>1. Known(s)
        BY <1>2, <3>1, <3>2
      <4> QED BY <1>2, <2>1, <3>1, <3>2, <4>1
    <3>3. CASE q.id # new
      BY <1>2, <3>1, <3>3
    <3> QED BY <3>2, <3>3
  <2> QED BY <1>5, <2>2, <2>3
<1> QED BY <1>1, <1>13, <1>14, <1>15, <1>16 DEF Owned, OnRecord

\* The table is saved with as many ids as addresses, since each has one.
LEMMA StopOwned ==
  ASSUME Typed, Owned, Stop
  PROVE  Owned'
<1>1. /\ alive /\ alive' = FALSE /\ SaveTable /\ clients' = <<>>
      /\ UNCHANGED <<stored, record, fwd, rev, nextId>>
  BY DEF Stop, SaveTable, Disconnect
<1>2. Queued' = Queued /\ Sent' \subseteq Taken
  BY <1>1 DEF Queued, Sent
<1>3. Taken' \subseteq Taken
  BY <1>1, <1>2, FewerTaken DEF Taken
<1>4. OwnIds' /\ NotNext'
  BY <1>1, <1>3 DEF Owned, OwnIds, NotNext
<1>5. ASSUME Paired, QueuedKnown PROVE PairsSaved'
  <2>1. /\ db'.count = Cardinality(DOMAIN fwd)
        /\ Len(db'.lines) = Cardinality(DOMAIN rev)
        /\ \A k \in 1..Len(db'.lines) :
             /\ db'.lines[k].addr \in DOMAIN rev
             /\ db'.lines[k].id = rev[db'.lines[k].addr]
        /\ \A j, k \in 1..Len(db'.lines) : db'.lines[j].addr = db'.lines[k].addr => j = k
        /\ \A a \in DOMAIN rev : \E k \in 1..Len(db'.lines) : db'.lines[k].addr = a
    BY <1>1, SaveFacts DEF Typed
  <2>2. Cardinality(DOMAIN fwd) = Cardinality(DOMAIN rev)
    <3> DEFINE f == [a \in DOMAIN rev |-> rev[a]]
    <3>1. f \in Bijection(DOMAIN rev, DOMAIN fwd)
      BY <1>5 DEF Paired, Bijection, Injection, Surjection, IsInjective
    <3>2. IsFiniteSet(DOMAIN rev)
      BY DEF Typed, TableTyped
    <3> HIDE DEF f
    <3>3. ExistsBijection(DOMAIN rev, DOMAIN fwd)
      BY <3>1 DEF ExistsBijection
    <3> QED BY <3>2, <3>3, FS_Bijection
  <2>3. db'.count = Len(db'.lines)
    BY <2>1, <2>2
  <2>4. ASSUME NEW j \in 1..Len(db'.lines), NEW k \in 1..Len(db'.lines),
               db'.lines[j].id = db'.lines[k].id
        PROVE  j = k
    <3>1. \A a, b \in DOMAIN rev : rev[a] = rev[b] => a = b
      BY <1>5 DEF Paired
    <3>2. /\ db'.lines[j].addr \in DOMAIN rev /\ db'.lines[k].addr \in DOMAIN rev
          /\ rev[db'.lines[j].addr] = rev[db'.lines[k].addr]
      BY <2>1, <2>4
    <3>3. db'.lines[j].addr = db'.lines[k].addr
      BY <3>1, <3>2
    <3> QED BY <2>1, <3>3
  <2>5. \A k \in 1..Len(db'.lines) : db'.lines[k].addr # Empty
    BY <1>5, <2>1, TableAssumption DEF Paired
  <2>6. ASSUME NEW p \in Queued PROVE \E k \in 1..Len(db'.lines) : db'.lines[k].id = p.id
    <3>1. PICK a \in DOMAIN rev : rev[a] = p.id
      BY <1>5 DEF Paired, QueuedKnown
    <3> QED BY <2>1, <3>1
  <2> QED BY <1>2, <2>3, <2>4, <2>5, <2>6 DEF PairsSaved
<1> QED BY <1>1, <1>4, <1>5 DEF Owned, OnRecord

\* When it dies the database does not tell of the ids given out since the
\* start.
LEMMA DieOwned ==
  ASSUME Typed, Owned, Die
  PROVE  Owned'
<1>1. /\ alive' = FALSE /\ record' = Forgotten /\ clients' = <<>>
      /\ UNCHANGED <<fwd, rev, nextId, db>>
  BY DEF Die, Disconnect
<1>2. PICK kept \in SUBSET Feeds :
        stored' = [l \in Feeds |-> IF l \in kept THEN stored[l] ELSE <<>>]
  BY DEF Die
<1>3. Range(<<>>) = {}
  BY DEF Range
<1>4. Queued' \subseteq Queued /\ Sent' \subseteq Taken
  BY <1>1, <1>2, <1>3 DEF Queued, Sent
<1>5. Taken' \subseteq Taken
  BY <1>1, <1>4, FewerTaken DEF Taken
<1>6. record' # "kept" /\ (record' # "reused" => record # "reused")
  BY <1>1 DEF Forgotten
<1> QED BY <1>1, <1>5, <1>6 DEF Owned, OwnIds, NotNext, OnRecord

\* After an orderly end every id is read back, with noise for its address, so
\* that none that is queued is free.
LEMMA StartOwned ==
  ASSUME Typed, Owned, Start
  PROVE  Owned'
<1>1. /\ ~alive /\ alive' = TRUE /\ UNCHANGED <<stored, clients>>
      /\ record' = IF record # "kept" THEN "reused"
                   ELSE IF Range(rev') # DOMAIN fwd' THEN "unsaved"
                   ELSE "kept"
  BY DEF Start, deliveryVars
<1>2. CASE record # "kept"
  BY <1>1, <1>2 DEF Owned, OwnIds, NotNext, OnRecord
<1>3. CASE record = "kept"
  <2>1. PICK noise \in [1..db.count -> Noise], garbage \in Id, left \in {purgeAt, {}} :
          LoadTable(now, noise, garbage, left)
    BY DEF Start
  <2>2. PICK line \in [1..db.count -> Line] :
          /\ \A i \in 1..db.count : line[i] = ReadLine(i, noise, garbage)
          /\ DOMAIN rev' = {line[i].addr : i \in 1..db.count}
          /\ \A a \in DOMAIN rev' : \E i \in 1..db.count :
               line[i].addr = a /\ rev'[a] = line[i].id
          /\ DOMAIN fwd' = {line[i].id : i \in 1..db.count}
          /\ \A id \in DOMAIN fwd' : \E i \in 1..db.count :
               line[i].id = id /\ fwd'[id] = [addr |-> line[i].addr, last |-> now]
    BY <2>1, LoadFacts DEF Typed
  <2>3. /\ db.count = Len(db.lines)
        /\ \A j, k \in 1..Len(db.lines) : db.lines[j].id = db.lines[k].id => j = k
        /\ \A k \in 1..Len(db.lines) : db.lines[k].addr # Empty
        /\ \A p \in Queued : \E k \in 1..Len(db.lines) : db.lines[k].id = p.id
    BY <1>1, <1>3 DEF Owned, OnRecord, PairsSaved
  <2>4. \A i \in 1..db.count : line[i].id = db.lines[i].id /\ line[i].addr \in Noise
    <3> SUFFICES ASSUME NEW i \in 1..db.count
                 PROVE  line[i].id = db.lines[i].id /\ line[i].addr \in Noise
      OBVIOUS
    <3>1. i <= Len(db.lines) /\ db.lines[i].addr # Empty
      BY <2>3, TableNumbers DEF Typed, TableTyped, TableTypeOK
    <3>2. line[i] = [id |-> db.lines[i].id, addr |-> noise[i]]
      BY <2>2, <3>1 DEF ReadLine
    <3> QED BY <3>2
  <2>5. \A p \in Queued : p.id \in DOMAIN fwd'
    BY <2>2, <2>3, <2>4
  <2>6. ASSUME NEW id \in DOMAIN fwd' PROVE fwd'[id].addr \in Noise
    <3>1. PICK i \in 1..db.count : fwd'[id] = [addr |-> line[i].addr, last |-> now]
      BY <2>2
    <3>2. fwd'[id].addr = line[i].addr
      BY <3>1
    <3> QED BY <2>4, <3>2
  <2>7. DOMAIN rev' \subseteq Noise /\ Senders \cap DOMAIN rev' = {}
    BY <2>2, <2>4, TableAssumption
  <2>8. Queued' = Queued /\ Sent' = {}
    <3>1. clients = <<>>
      BY <1>1 DEF Typed, DeliveryTyped, DeliveryTypeOK
    <3> QED BY <1>1, <3>1 DEF Queued, Sent
  <2>9. Recorded' = {}
    BY <2>7 DEF Recorded
  <2>10. Taken' = Queued
    BY <2>8, <2>9 DEF Taken
  <2>11. OwnIds'
    BY <1>3, <2>10 DEF Owned, OwnIds, Taken
  <2>12. NotNext'
    BY <2>5, <2>10 DEF NotNext
  <2>13. QueuedKnown'
    BY <2>5, <2>6, <2>8 DEF QueuedKnown
  <2>14. ASSUME record' = "kept" PROVE Paired'
    <3>1. Range(rev') = DOMAIN fwd'
      BY <1>1, <2>14
    <3>2. \A a, b \in DOMAIN rev' : rev'[a] = rev'[b] => a = b
      <4> SUFFICES ASSUME NEW a \in DOMAIN rev', NEW b \in DOMAIN rev', rev'[a] = rev'[b]
                   PROVE  a = b
        OBVIOUS
      <4>1. PICK i \in 1..db.count : line[i].addr = a /\ rev'[a] = line[i].id
        BY <2>2
      <4>2. PICK j \in 1..db.count : line[j].addr = b /\ rev'[b] = line[j].id
        BY <2>2
      <4>3. i = j
        <5>1. db.lines[i].id = db.lines[j].id
          BY <2>4, <4>1, <4>2
        <5>2. i \in 1..Len(db.lines) /\ j \in 1..Len(db.lines)
          BY <2>3
        <5> QED BY <2>3, <5>1, <5>2
      <4> QED BY <4>1, <4>2, <4>3
    <3>3. /\ \A a \in DOMAIN rev' : rev'[a] \in DOMAIN fwd'
          /\ \A i \in DOMAIN fwd' : \E a \in DOMAIN rev' : rev'[a] = i
      BY <3>1 DEF Range
    <3> QED BY <2>7, <3>2, <3>3 DEF Paired
  <2> QED BY <1>1, <2>11, <2>12, <2>13, <2>14 DEF Owned, OnRecord
<1> QED BY <1>2, <1>3

\* Whose an id is stays so.
LEMMA OwnedCorrect == Spec => []Owned
<1>1. Init => Owned
  <2> SUFFICES ASSUME Init PROVE Owned
    OBVIOUS
  <2>1. /\ fwd = <<>> /\ rev = <<>> /\ clients = <<>> /\ alive
        /\ stored = [l \in Feeds |-> <<>>]
    BY DEF Init, TableInit, DeliveryInit
  <2>2. DOMAIN fwd = {} /\ DOMAIN rev = {} /\ DOMAIN clients = {} /\ Range(<<>>) = {}
    BY <2>1 DEF Range
  <2>3. Queued = {} /\ Sent = {} /\ Recorded = {}
    BY <2>1, <2>2 DEF Queued, Sent, Recorded
  <2> QED BY <2>1, <2>2, <2>3
          DEF Owned, OwnIds, NotNext, OnRecord, Paired, QueuedKnown, Taken
<1>2. Typed /\ Owned /\ [Next]_vars => Owned'
  <2> SUFFICES ASSUME Typed, Owned, [Next]_vars PROVE Owned'
    OBVIOUS
  <2>1. ASSUME UNCHANGED <<tableVars, ingressVars>>, Sent' \subseteq Sent
        PROVE  Owned'
    <3>1. Queued' = Queued
      BY <2>1 DEF Queued, ingressVars
    <3> QED BY <2>1, <3>1, FewerOwned DEF tableVars, ingressVars
  <2>2. ASSUME clients' = <<>> \/ clients' = clients PROVE Sent' \subseteq Sent
    BY <2>2 DEF Sent
  <2>3. ASSUME NEW h \in Hosts, Connect(h) PROVE Owned'
    BY <2>1, <2>2, <2>3 DEF Connect, AcceptFrom
  <2>4. CASE FlushEgress
    <3>1. Sent' \subseteq Sent
      BY <2>4, FlushFacts DEF FlushEgress, Sent
    <3> QED BY <2>1, <2>4, <3>1 DEF FlushEgress
  <2>5. CASE LoseConnection
    BY <2>1, <2>2, <2>5 DEF LoseConnection, Disconnect
  <2>6. CASE Tick
    BY <2>1, <2>2, <2>6 DEF Tick, deliveryVars
  <2>7. CASE UNCHANGED vars
    BY <2>1, <2>2, <2>7 DEF vars, deliveryVars
  <2>8. CASE Crash \/ Abort
    BY <2>8, DieOwned DEF Crash, Abort
  <2> QED BY <2>3, <2>4, <2>5, <2>6, <2>7, <2>8, SockReadyOwned, TransmitOwned,
             PurgeOwned, StopOwned, StartOwned
          DEF Next
<1> QED BY <1>1, <1>2, TypedInvariant, PTL DEF Spec

\* While every id is on record, one that is stored with a datagram stays with
\* its sender, or with noise in its place (StoredReserved).
THEOREM ReservedCorrect == Spec => []StoredReserved
<1>1. Typed /\ Owned => StoredReserved
  <2> SUFFICES ASSUME Typed, Owned, alive, record = "kept", NEW l \in Feeds,
                      NEW k \in 1..Len(stored[l])
               PROVE  LET p == stored[l][k] IN
                      p.id \in DOMAIN fwd /\ fwd[p.id].addr \in {p.from} \cup Noise
    BY DEF StoredReserved
  <2>1. stored[l] \in Seq(Datagram)
    BY DEF Typed, IngressTyped
  <2>2. stored[l][k] \in Range(stored[l])
    BY <2>1, QueueMembers
  <2>3. stored[l][k] \in Queued
    BY <2>2 DEF Queued
  <2> QED BY <2>3 DEF Owned, OnRecord, QueuedKnown
<1> QED BY <1>1, TypedInvariant, OwnedCorrect, PTL

\* Until a forgotten id may be given out again, senders that share a socket of
\* an egress have different ids, which only the wire confuses (SharedApart).
THEOREM SharedCorrect == Spec => []SharedApart
<1>1. Typed /\ Owned => SharedApart
  <2> SUFFICES ASSUME Typed, Owned, record # "reused", NEW c \in DOMAIN clients,
                      NEW p \in clients[c].served, NEW q \in clients[c].served,
                      p.from # q.from
               PROVE  p.id # q.id
    BY DEF SharedApart
  <2>1. p \in Taken /\ q \in Taken
    BY DEF Taken, Sent
  <2> QED BY <2>1 DEF Owned, OwnIds
<1> QED BY <1>1, TypedInvariant, OwnedCorrect, PTL
=============================================================================
