----------------------------- MODULE ClientTable -----------------------------
(* The table of client ids at an ingress: ClientTable (clientid.cc) and the *)
(* SocketAddress (sockaddrs.cc) that is its key.  The operations are given  *)
(* as steps of the table's own variables at a time t; Identity puts them    *)
(* together with an absorber, a clock and restarts.                         *)
(*                                                                          *)
(* An address is a model value.  Noise is what an address becomes when it   *)
(* is read back from the database: operator >> allocates the bytes and      *)
(* never stores into them, so that they are whatever the heap held, which   *)
(* is taken to be no sender's address.                                      *)
(*                                                                          *)
(* The table lies where the one before it lay, and so does its event        *)
(* (main.cc).  Nothing takes the event out of the scheduler when its table  *)
(* is destroyed (events.hh), so that all its times that are still to come   *)
(* are times of the next table's event too.                                 *)
EXTENDS Integers, FiniteSets, SequencesExt

CONSTANTS
  Senders,      \* the addresses that datagrams come from
  Noise,        \* what bytes never stored may look like
  Empty,        \* SocketAddress()
  PurgePeriod,  \* purge_period
  MaxId         \* bound on ids

ASSUME TableAssumption ==
  /\ Senders \cap Noise = {} /\ Empty \notin Senders \cup Noise
  /\ Noise # {}
  /\ PurgePeriod \in Nat \ {0} /\ MaxId \in Nat

Address == Senders \cup Noise \cup {Empty}
Id == 0..MaxId

VARIABLES
  fwd,        \* by id: the address and when it was last used
  rev,        \* by address: the id
  nextId,     \* next_id
  lastPurge,  \* last_purge
  purgeAt,    \* the times at which the scheduler has purge_event
  db          \* the database: the count, and the lines that follow it

tableVars == <<fwd, rev, nextId, lastPurge, purgeAt, db>>

Entry == [addr : Address, last : Nat]
Line == [id : Id, addr : Address]

----------------------------------------------------------------------------
\* emplace() fails while next_id is in use.  Mutated: it is not looked at.
AnyId == nextId
FreeId ==
  Min({i \in nextId..(nextId + Cardinality(DOMAIN fwd)) : i \notin DOMAIN fwd})

Known(s) == s \in DOMAIN rev

\* What seek() returns.
IdOf(s) == IF Known(s) THEN rev[s] ELSE FreeId

\* The assertion in seek(): an id that rev tells of is in fwd.
SeekAsserts(s) == Known(s) => rev[s] \in DOMAIN fwd

\* seek() renews the entry of a sender it knows, and makes one otherwise.
Seek(s, t) ==
  /\ SeekAsserts(s)
  /\ fwd' = [i \in DOMAIN fwd \cup {IdOf(s)} |->
               IF i # IdOf(s) THEN fwd[i]
               ELSE [addr |-> IF Known(s) THEN fwd[i].addr ELSE s, last |-> t]]
  /\ rev' = [a \in DOMAIN rev \cup {s} |-> IF a = s THEN IdOf(s) ELSE rev[a]]
  /\ nextId' = IF Known(s) THEN nextId ELSE FreeId + 1
  /\ UNCHANGED <<lastPurge, purgeAt, db>>

----------------------------------------------------------------------------
\* Entries not used since `before'.
Stale(before) == {i \in DOMAIN fwd : fwd[i].last < before}

After(i) == {j \in DOMAIN fwd : j > i}

\* purge() erases an entry, which moves the iterator on, and then erases the
\* address found at the iterator from rev: that of the next entry.
MissedAddresses(before) ==
  {fwd[Min(After(i))].addr : i \in {j \in Stale(before) : After(j) # {}}}

\* After the last entry the address is read from beyond the table, and may
\* look like none or any.
BeyondEnd(before) ==
  IF \E i \in Stale(before) : After(i) = {}
  THEN {{}} \cup {{a} : a \in DOMAIN rev}
  ELSE {{}}

\* When on_purge() is to be called again.  Mutated: it is set before
\* last_purge is.
DueBefore(t) == lastPurge + PurgePeriod
Due(t) == t + PurgePeriod

\* poll() collects all times that have come, and calls the event once.
Coming(t) == {due \in purgeAt : due > t}

OnPurge(t) ==
  /\ purgeAt # Coming(t)
  /\ fwd' = Restrict(fwd, DOMAIN fwd \ Stale(lastPurge))
  /\ \E junk \in BeyondEnd(lastPurge) :
       rev' = Restrict(rev, DOMAIN rev \ (MissedAddresses(lastPurge) \cup junk))
  /\ lastPurge' = t /\ purgeAt' = Coming(t) \cup {Due(t)}
  /\ UNCHANGED <<nextId, db>>

----------------------------------------------------------------------------
\* The destructor writes how many entries fwd has, and those of rev, in the
\* order of the addresses.
\* Mutated: it counts one entry less.
ShortSaved ==
  LET order == SetToSeq(DOMAIN rev)
  IN  [count |-> Cardinality(DOMAIN fwd) - (IF fwd = <<>> THEN 0 ELSE 1),
       lines |-> [k \in 1..Len(order) |-> [id |-> rev[order[k]], addr |-> order[k]]]]
Saved ==
  LET order == SetToSeq(DOMAIN rev)
  IN  [count |-> Cardinality(DOMAIN fwd),
       lines |-> [k \in 1..Len(order) |-> [id |-> rev[order[k]], addr |-> order[k]]]]

SaveTable == db' = Saved /\ UNCHANGED <<fwd, rev, nextId, lastPurge, purgeAt>>

\* The i-th round of the constructor's loop.  Only an empty address is read
\* as it was written; beyond the last line nothing sets the id, which is
\* whatever its place on the stack held, the same in each round.
ReadLine(i, noise, garbage) ==
  IF i <= Len(db.lines)
  THEN [id |-> db.lines[i].id,
        addr |-> IF db.lines[i].addr = Empty THEN Empty ELSE noise[i]]
  ELSE [id |-> garbage, addr |-> Empty]

\* rev keeps the last id read for an address, fwd the first address for an
\* id.  The scheduler of a process that has just started is empty; otherwise
\* it keeps the times that are left.
LoadTable(t, noise, garbage, left) ==
  LET rounds == 1..db.count
      line[i \in rounds] == ReadLine(i, noise, garbage)
      last(a) == Max({i \in rounds : line[i].addr = a})
      first(id) == Min({i \in rounds : line[i].id = id})
  IN  /\ rev' = [a \in {line[i].addr : i \in rounds} |-> line[last(a)].id]
      /\ fwd' = [id \in {line[i].id : i \in rounds} |->
                   [addr |-> line[first(id)].addr, last |-> t]]
      /\ nextId' = 0
      /\ lastPurge' = t /\ purgeAt' = left \cup {Due(t)}
      /\ UNCHANGED db

\* A first start finds no database.
TableInit ==
  /\ fwd = <<>> /\ rev = <<>> /\ nextId = 0
  /\ lastPurge = 0 /\ purgeAt = {PurgePeriod}
  /\ db = [count |-> 0, lines |-> <<>>]

TableTypeOK ==
  /\ DOMAIN fwd \subseteq Id /\ \A i \in DOMAIN fwd : fwd[i] \in Entry
  /\ DOMAIN rev \subseteq Address /\ \A a \in DOMAIN rev : rev[a] \in Id
  /\ nextId \in 0..(MaxId + 1)
  /\ lastPurge \in Nat /\ purgeAt \subseteq Nat
  /\ db.count \in Nat /\ db.lines \in Seq(Line)
=============================================================================
