------------------------- MODULE TunnelIngressProofs -------------------------
(* Proofs about TunnelIngress, for all channels, sizes and bounds, and      *)
(* whatever the order of events, the peers, the resolver and the network.   *)
EXTENDS TunnelIngress, TLAPS

\* The variables that are no more than bounded.
Typed ==
  /\ link \in Links
  /\ connected \in BOOLEAN /\ writable \in BOOLEAN
  /\ armed \in SUBSET {"out", "hup"} /\ got \in SUBSET {"out", "hup"}
  /\ reset \in BOOLEAN /\ signalled \in BOOLEAN
  /\ lookup \in {"off", "running", "answered", "failed"}
  /\ idle \in SUBSET Channels
  /\ batch \in SUBSET (Channels \cup {"fd", "reset", "signal"})
  /\ sending \in BOOLEAN /\ cut \in BOOLEAN /\ overtaken \in BOOLEAN

\* So are the numbers.
Counted ==
  /\ room \in 0..Room /\ ainf \in 1..(Addresses + 1) /\ faults \in 0..MaxFaults

\* Of socket, timer and look-up one at most is about, also while the timer
\* is in the batch, unless a channel was ahead of it there.  What is in the
\* batch for the socket is of this socket, and an answer is being told.
Guarded ==
  /\ AssertsHold
  /\ link = "none" => armed = {} /\ "fd" \notin batch
  /\ link # "none" => lookup = "off"
  /\ link # "none" \/ lookup # "off" => ~reset
  /\ "reset" \in batch /\ ~overtaken => link = "none" /\ lookup = "off" /\ ~reset
  /\ lookup = "answered" => signalled \/ "signal" \in batch
  /\ "fd" \in batch => got # {}
  /\ sending => link # "none" /\ connected

\* A socket that is not connected is waited for.
Awaited ==
  link # "none" /\ ~connected =>
    /\ link = "pending" => "fd" \notin batch
    /\ "fd" \notin batch => got = {}
    /\ "out" \in armed \/ "fd" \in batch

\* A channel is told of a payload, or waits its turn, and never both.
Told ==
  /\ streamers \in Seq(Channels)
  /\ pushed \in [Channels -> 0..MaxPushes] /\ sent \in [Channels -> 0..MaxPushes]
  /\ \A c \in Channels :
       /\ sent[c] <= pushed[c]
       /\ pushed[c] > sent[c] => c \in idle \cup batch \/ InStreamers(c)
       /\ c \in idle \cup batch => pushed[c] > sent[c] /\ ~InStreamers(c)
       /\ ~(c \in idle /\ c \in batch)
  /\ \A i, j \in 1..Len(streamers) :
       /\ pushed[streamers[i]] > sent[streamers[i]]
       /\ streamers[i] = streamers[j] => i = j

\* What waits is going to be served.
Served == NotStalled /\ (sending => streamers # <<>>)

\* How far channels are with their messages.
Begun ==
  /\ current \in [Channels -> BOOLEAN] /\ done \in [Channels -> 0..Pieces]
  /\ \A c \in Channels :
       /\ done[c] < Pieces
       /\ done[c] > 0 => current[c] /\ streamers # <<>> /\ Head(streamers) = c

\* The pieces on the wire come before what is sent next, and the last of them
\* directly so.
Wired ==
  /\ wire \in Seq(Piece)
  /\ link = "none" \/ ~connected => wire = <<>>
  /\ \A i \in 1..Len(wire) :
       LET p == wire[i] IN
       \/ p.msg <= sent[p.chan]
       \/ p.msg = sent[p.chan] + 1 /\ p.part <= done[p.chan]
  /\ wire # <<>> =>
       LET p == wire[Len(wire)] IN
       IF p.part = Pieces THEN \A c \in Channels : done[c] = 0
       ELSE p.msg = sent[p.chan] + 1 /\ p.part = done[p.chan]
  /\ Contiguous /\ FramedUnlessCut
  /\ ~cut => \A c \in Channels : done[c] <= Len(wire)

IngressInv == Typed /\ Counted /\ Guarded /\ Awaited /\ Told /\ Served /\ Begun /\ Wired

\* Channels are told from the other events of a batch.
LEMMA ChannelsApart == \A c \in Channels : c # "fd" /\ c # "reset" /\ c # "signal"
BY IngressAssumption

\* The ingress starts with nothing to do.
LEMMA IngressInit == Init => IngressInv
<1> SUFFICES ASSUME Init PROVE IngressInv
  OBVIOUS
<1>0. MaxPushes \in Nat /\ Pieces \in Nat \ {0}
  BY IngressAssumption
<1> USE DEF Init
<1>1. Typed
  BY DEF Typed, Links
<1>2. Counted
  BY IngressAssumption DEF Counted
<1>3. Guarded /\ Awaited
  BY DEF Guarded, Awaited, AssertsHold
<1>4. Told
  BY <1>0 DEF Told, InStreamers
<1>5. Served /\ Begun
  BY <1>0 DEF Served, NotStalled, Begun
<1>6. Wired
  <2>1. wire = <<>> /\ Len(wire) = 0 /\ 1..0 = {}
    OBVIOUS
  <2>2. \A c \in Channels : done[c] = 0
    OBVIOUS
  <2> QED BY <2>1, <2>2 DEF Wired, Contiguous, FramedUnlessCut
<1> QED BY <1>1, <1>2, <1>3, <1>4, <1>5, <1>6 DEF IngressInv

----------------------------------------------------------------------------
(* Steps that leave the channels and the wire alone.                        *)

\* Whose turn it is depends on the queue of streamers and on the events that
\* channels have.
LEMMA ToldKept ==
  ASSUME Told, UNCHANGED <<streamers, pushed, sent>>,
         \A c \in Channels : c \in idle \cup batch <=> c \in idle' \cup batch',
         idle' = {} \/ (idle' = idle /\ \A c \in Channels : c \in batch' => c \in batch)
  PROVE  Told'
BY DEF Told, InStreamers

\* What was begun depends on it too, and the wire on that.
LEMMA BegunKept ==
  ASSUME Begun, UNCHANGED <<streamers, current, done>>
  PROVE  Begun'
BY DEF Begun

\* The wire of a socket that stays.
LEMMA WiredKept ==
  ASSUME Wired, UNCHANGED <<wire, sent, done, cut>>,
         link' = "none" \/ ~connected' => link = "none" \/ ~connected
  PROVE  Wired'
BY DEF Wired, Contiguous, FramedUnlessCut

\* The kernel and the peer.
LEMMA EnvironmentStep ==
  ASSUME IngressInv,
         Established \/ Refused \/ PeerReads \/ PeerEnds \/ Broken
  PROVE  IngressInv'
<1>1. PICK l \in Links, r \in 0..Room :
        /\ Environment(l, r)
        /\ link # "none" /\ l # "none"
        /\ l # "pending"
  <2>1. room \in 0..Room /\ Room \in Nat
    BY IngressAssumption DEF IngressInv, Counted
  <2>2. CASE Established
    BY <2>1, <2>2 DEF Established, Links
  <2>3. CASE Refused
    BY <2>1, <2>3 DEF Refused, Links
  <2>4. CASE PeerReads
    <3>1. room + 1 \in 0..Room
      BY <2>1, <2>4 DEF PeerReads
    <3> QED BY <2>4, <3>1 DEF PeerReads, Links
  <2>5. CASE PeerEnds
    BY <2>1, <2>5 DEF PeerEnds, Links
  <2>6. CASE Broken
    BY <2>1, <2>6 DEF Broken, Links
  <2> QED BY <2>2, <2>3, <2>4, <2>5, <2>6
<1>2. faults' \in 0..MaxFaults
  <2>1. faults' = faults \/ (faults + 1 <= MaxFaults /\ faults' = faults + 1)
    BY DEF Established, Refused, PeerReads, PeerEnds, Broken, Fault
  <2> QED BY <2>1, IngressAssumption DEF IngressInv, Counted
<1>3. /\ link' = l /\ room' = r
      /\ UNCHANGED <<wire, signalled, sockVars, fdVars, timeVars, idle, batch,
                     streamers, sending, chanVars, cut, overtaken, aborted>>
  BY <1>1 DEF Environment
<1> USE DEF sockVars, fdVars, timeVars, chanVars, IngressInv
<1>4. Typed'
  BY <1>1, <1>3 DEF Typed
<1>5. Counted'
  BY <1>1, <1>2, <1>3 DEF Counted
<1>6. Guarded'
  BY <1>1, <1>3 DEF Guarded, AssertsHold
<1>7. Awaited'
  BY <1>1, <1>3 DEF Awaited
<1>8. Told' /\ Begun'
  BY <1>3, ToldKept, BegunKept
<1>9. Served'
  BY <1>1, <1>3 DEF Served, NotStalled
<1>10. Wired'
  BY <1>1, <1>3, WiredKept
<1> QED BY <1>4, <1>5, <1>6, <1>7, <1>8, <1>9, <1>10

\* The resolver answers, or fails, for this ingress or another.
LEMMA LookupStep ==
  ASSUME IngressInv, LookupEnds \/ OtherAnswers
  PROVE  IngressInv'
<1> USE DEF sockVars, fdVars, timeVars, chanVars, IngressInv
<1>1. /\ \/ lookup = "running" /\ lookup' \in {"answered", "failed"}
         \/ lookup' = lookup
      /\ signalled' = TRUE
      /\ UNCHANGED <<link, room, wire, sockVars, fdVars, reset, idle, batch,
                     streamers, sending, chanVars, cut, overtaken, aborted>>
  BY DEF LookupEnds, OtherAnswers
<1>2. Typed'
  BY <1>1 DEF Typed
<1>3. Counted'
  <2>1. faults' = faults \/ (faults + 1 <= MaxFaults /\ faults' = faults + 1)
    BY DEF LookupEnds, OtherAnswers, Fault
  <2> QED BY <1>1, <2>1, IngressAssumption DEF Counted
<1>4. Guarded' /\ Awaited'
  BY <1>1 DEF Guarded, Awaited, AssertsHold
<1>5. Told' /\ Begun'
  BY <1>1, ToldKept, BegunKept
<1>6. Served'
  BY <1>1 DEF Served, NotStalled
<1>7. Wired'
  BY <1>1, WiredKept
<1> QED BY <1>2, <1>3, <1>4, <1>5, <1>6, <1>7

\* A poll moves events to the batch, and what was expected with them.
LEMMA CollectStep ==
  ASSUME IngressInv, NEW due \in BOOLEAN, due => reset, Collect(due)
  PROVE  IngressInv'
<1> USE DEF sockVars, chanVars, IngressInv
<1>1. /\ aborted = "no" /\ ~sending /\ batch = {}
      /\ batch' = idle \cup (IF Triggered # {} THEN {"fd"} ELSE {})
                       \cup (IF signalled THEN {"signal"} ELSE {})
                       \cup (IF due THEN {"reset"} ELSE {})
      /\ got' = got \cup Triggered /\ armed' = armed \ Triggered
      /\ idle' = {} /\ signalled' = FALSE /\ reset' = (reset /\ ~due)
      /\ overtaken' = FALSE
      /\ UNCHANGED <<link, room, wire, sockVars, lookup, streamers, sending,
                     chanVars, cut, faults, aborted>>
  BY DEF Collect, Running
<1>2. /\ idle \in SUBSET Channels /\ armed \in SUBSET {"out", "hup"}
      /\ got \in SUBSET {"out", "hup"}
  BY DEF Typed
<1>3. /\ "fd" \in batch' <=> Triggered # {}
      /\ "reset" \in batch' <=> due
      /\ "signal" \in batch' <=> signalled
      /\ \A c \in Channels : c \in batch' <=> c \in idle
      /\ batch' \in SUBSET (Channels \cup {"fd", "reset", "signal"})
  BY <1>1, <1>2, ChannelsApart
<1>4. Triggered \in SUBSET {"out", "hup"}
  BY <1>2 DEF Triggered
<1>5. link = "none" => Triggered = {}
  BY DEF Guarded, Triggered, Raised
<1>6. link = "pending" => Triggered = {}
  BY DEF Triggered, Raised
<1>7. link = "open" => Triggered \subseteq {"out"}
  BY DEF Triggered, Raised
<1>8. Typed'
  BY <1>1, <1>2, <1>3, <1>4 DEF Typed
<1>9. Counted'
  BY <1>1 DEF Counted
<1>10. Guarded'
  BY <1>1, <1>3, <1>5 DEF Guarded, AssertsHold
<1>11. Awaited'
  BY <1>1, <1>3, <1>4, <1>6, <1>7 DEF Awaited
<1>12. Told' /\ Begun'
  BY <1>1, <1>3, ToldKept, BegunKept
<1>13. Served'
  BY <1>1, <1>3 DEF Served, NotStalled, Guarded
<1>14. Wired'
  BY <1>1, WiredKept
<1> QED BY <1>8, <1>9, <1>10, <1>11, <1>12, <1>13, <1>14

----------------------------------------------------------------------------
(* Channels.                                                                *)

\* A channel is told of its first payload.
LEMMA SubmitStep ==
  ASSUME IngressInv, NEW c \in Channels, Submit(c)
  PROVE  IngressInv'
<1> USE DEF kernelVars, sockVars, fdVars, timeVars, auxVars, IngressInv
<1>1. /\ ~sending /\ pushed[c] < MaxPushes
      /\ pushed' = [pushed EXCEPT ![c] = @ + 1]
      /\ idle' = IF pushed[c] = sent[c] THEN idle \cup {c} ELSE idle
      /\ UNCHANGED <<kernelVars, sockVars, fdVars, timeVars, batch, streamers,
                     sending, sent, current, done, auxVars>>
  BY DEF Submit, Running
<1>2. /\ pushed \in [Channels -> 0..MaxPushes] /\ sent \in [Channels -> 0..MaxPushes]
      /\ streamers \in Seq(Channels) /\ MaxPushes \in Nat
  BY IngressAssumption DEF Told
<1>3. /\ pushed' \in [Channels -> 0..MaxPushes]
      /\ pushed'[c] = pushed[c] + 1
      /\ \A d \in Channels \ {c} : pushed'[d] = pushed[d]
  BY <1>1, <1>2
<1>4. Typed'
  BY <1>1 DEF Typed
<1>5. Counted'
  BY <1>1 DEF Counted
<1>6. Guarded' /\ Awaited'
  BY <1>1 DEF Guarded, Awaited, AssertsHold
<1>7. Told'
  <2>1. \A d \in Channels : InStreamers(d)' <=> InStreamers(d)
    BY <1>1 DEF InStreamers
  <2>2. \A d \in Channels : pushed'[d] >= pushed[d]
    BY <1>2, <1>3
  <2>3. ASSUME NEW d \in Channels
        PROVE  /\ sent[d] <= pushed'[d]
               /\ pushed'[d] > sent[d] => d \in idle' \cup batch \/ InStreamers(d)
               /\ d \in idle' \cup batch => pushed'[d] > sent[d] /\ ~InStreamers(d)
               /\ ~(d \in idle' /\ d \in batch)
    <3>1. CASE d # c
      BY <1>1, <1>3, <3>1 DEF Told
    <3>2. CASE d = c /\ pushed[c] = sent[c]
      <4>1. ~InStreamers(c)
        BY <1>2, <3>2 DEF Told, InStreamers
      <4>2. c \in idle'
        BY <1>1, <3>2
      <4>3. sent[c] < pushed'[c]
        BY <1>2, <1>3, <3>2
      <4>4. c \notin batch
        BY <1>2, <3>2 DEF Told
      <4> QED BY <1>2, <1>3, <3>2, <4>1, <4>2, <4>3, <4>4
    <3>3. CASE d = c /\ pushed[c] # sent[c]
      <4>1. pushed[c] > sent[c] /\ idle' = idle
        BY <1>1, <1>2, <3>3 DEF Told
      <4>2. pushed'[c] > sent[c]
        BY <1>2, <1>3, <4>1
      <4>3. c \in idle \cup batch \/ InStreamers(c)
        BY <4>1 DEF Told
      <4>4. c \in idle \cup batch => ~InStreamers(c)
        BY DEF Told
      <4>5. ~(c \in idle' /\ c \in batch)
        BY <4>1 DEF Told
      <4> QED BY <1>2, <1>3, <3>3, <4>1, <4>2, <4>3, <4>4, <4>5
    <3> QED BY <3>1, <3>2, <3>3
  <2>4. \A i \in 1..Len(streamers) : pushed'[streamers[i]] > sent[streamers[i]]
    <3>1. \A i \in 1..Len(streamers) : streamers[i] \in Channels
      BY <1>2
    <3>2. \A d \in Channels : pushed[d] \in Nat /\ sent[d] \in Nat /\ pushed'[d] \in Nat
      BY <1>2, <1>3
    <3>3. \A i \in 1..Len(streamers) : pushed[streamers[i]] > sent[streamers[i]]
      BY DEF Told
    <3> QED BY <2>2, <3>1, <3>2, <3>3
  <2> QED BY <1>1, <1>2, <1>3, <2>1, <2>3, <2>4 DEF Told
<1>8. Served'
  BY <1>1 DEF Served, NotStalled
<1>9. Begun'
  BY <1>1, BegunKept
<1>10. Wired'
  BY <1>1, WiredKept
<1> QED BY <1>4, <1>5, <1>6, <1>7, <1>8, <1>9, <1>10

\* A channel that is told joins the queue, and what is to serve it is under
\* way or is started.
LEMMA ReadyStep ==
  ASSUME IngressInv, NEW c \in Channels, Ready(c)
  PROVE  IngressInv'
<1> USE DEF kernelVars, sockVars, fdVars, timeVars, chanVars, IngressInv
<1>1. /\ aborted = "no" /\ ~sending /\ c \in batch
      /\ overtaken' = (overtaken \/ "reset" \in batch)
      /\ streamers' = IF InStreamers(c) THEN streamers ELSE Append(streamers, c)
      /\ UNCHANGED <<kernelVars, sockVars, reset, idle, chanVars, cut, faults>>
  BY DEF Ready, Turn, Running
<1>2. streamers \in Seq(Channels) /\ ~InStreamers(c) /\ pushed[c] > sent[c]
  BY <1>1 DEF Told
<1>3. streamers' = Append(streamers, c)
  BY <1>1, <1>2
<1> DEFINE
     Asks == /\ streamers = <<>> /\ link = "none" /\ ~reset /\ lookup = "off"
             /\ lookup' = "running" /\ batch' = batch \ {c}
             /\ UNCHANGED <<fdVars, aborted, sending>>
     Waits == /\ streamers = <<>> /\ link # "none" /\ connected
              /\ armed' = {"out", "hup"} /\ got' = {} /\ batch' = (batch \ {c}) \ {"fd"}
              /\ UNCHANGED <<lookup, aborted, sending>>
     Sends == /\ streamers = <<>> /\ link # "none" /\ connected
              /\ sending' = TRUE /\ batch' = batch \ {c}
              /\ UNCHANGED <<fdVars, lookup, aborted>>
     Joins == /\ \/ streamers # <<>> \/ reset \/ lookup # "off"
                 \/ link # "none" /\ ~connected
              /\ batch' = batch \ {c}
              /\ UNCHANGED <<fdVars, lookup, aborted, sending>>
<1>4. Asks \/ Waits \/ Sends \/ Joins
  <2>1. CASE streamers = <<>> /\ link = "none" /\ ~reset /\ lookup = "off"
    BY <2>1 DEF Ready, InitiateLookup
  <2>2. CASE streamers = <<>> /\ link # "none" /\ connected /\ ~writable
    BY <2>2 DEF Ready, Arm
  <2>3. CASE streamers = <<>> /\ link # "none" /\ connected /\ writable
    BY <2>3 DEF Ready
  <2>4. CASE /\ ~(streamers = <<>> /\ link = "none" /\ ~reset /\ lookup = "off")
             /\ ~(streamers = <<>> /\ link # "none" /\ connected)
    BY <2>4 DEF Ready
  <2> QED BY <2>1, <2>2, <2>3, <2>4
<1>5. /\ \A d \in Channels : d \in batch' <=> d \in batch \ {c}
      /\ "reset" \in batch' <=> "reset" \in batch
      /\ "signal" \in batch' <=> "signal" \in batch
      /\ "fd" \in batch' => "fd" \in batch
      /\ batch' \in SUBSET (Channels \cup {"fd", "reset", "signal"})
  BY <1>1, <1>4, ChannelsApart DEF Typed
<1>6. Typed'
  BY <1>1, <1>4, <1>5 DEF Typed
<1>7. Counted'
  BY <1>1 DEF Counted
<1>8. Guarded'
  <2>1. AssertsHold' /\ aborted' = aborted
    BY <1>1, <1>4 DEF AssertsHold
  <2>2. "reset" \in batch' => overtaken'
    BY <1>1, <1>5
  <2>3. UNCHANGED <<link, reset, signalled, connected>>
    BY <1>1
  <2>4. CASE Asks
    <3>1. /\ link = "none" /\ ~reset /\ lookup' = "running"
          /\ UNCHANGED <<armed, got, sending>>
      BY <2>4
    <3> HIDE DEF Asks, Waits, Sends, Joins
    <3> QED BY <1>1, <1>5, <2>1, <2>2, <2>3, <3>1 DEF Guarded
  <2>5. CASE Waits
    <3>1. /\ link # "none" /\ lookup' = lookup /\ sending' = sending
          /\ "fd" \notin batch'
      BY <2>5
    <3> HIDE DEF Asks, Waits, Sends, Joins
    <3> QED BY <1>1, <1>5, <2>1, <2>2, <2>3, <3>1 DEF Guarded
  <2>6. CASE Sends \/ Joins
    <3>1. UNCHANGED <<armed, got, lookup>>
      BY <2>6
    <3>2. sending' => link # "none" /\ connected
      BY <1>1, <2>6
    <3> HIDE DEF Sends, Joins
    <3> QED BY <1>5, <2>1, <2>2, <2>3, <3>1, <3>2 DEF Guarded
  <2> QED BY <1>4, <2>4, <2>5, <2>6
<1>9. Awaited'
  BY <1>1, <1>4, <1>5, ChannelsApart DEF Awaited
<1> HIDE DEF Asks, Waits, Sends, Joins
<1>10. /\ streamers' \in Seq(Channels) /\ streamers' # <<>>
       /\ Head(streamers') = IF streamers = <<>> THEN c ELSE Head(streamers)
       /\ 1..Len(streamers) \subseteq 1..Len(streamers')
       /\ \A i \in 1..Len(streamers) : streamers'[i] = streamers[i]
       /\ \A i \in 1..Len(streamers') :
            i \in 1..Len(streamers) \/ (i = Len(streamers) + 1 /\ streamers'[i] = c)
       /\ Len(streamers) + 1 \in 1..Len(streamers')
       /\ streamers'[Len(streamers) + 1] = c
  BY <1>2, <1>3
<1>11. Told'
  <2>1. \A d \in Channels : InStreamers(d)' <=> InStreamers(d) \/ d = c
    BY <1>10 DEF InStreamers
  <2>2. \A i, j \in 1..Len(streamers') : streamers'[i] = streamers'[j] => i = j
    <3>1. \A i \in 1..Len(streamers) : streamers[i] # c
      BY <1>2 DEF InStreamers
    <3>2. \A i, j \in 1..Len(streamers) : streamers[i] = streamers[j] => i = j
      BY DEF Told
    <3> QED BY <1>10, <3>1, <3>2
  <2>3. \A i \in 1..Len(streamers') : pushed[streamers'[i]] > sent[streamers'[i]]
    <3>1. \A i \in 1..Len(streamers) : pushed[streamers[i]] > sent[streamers[i]]
      BY DEF Told
    <3> QED BY <1>2, <1>10, <3>1
  <2>4. \A d \in Channels :
          /\ sent[d] <= pushed[d]
          /\ pushed[d] > sent[d] => d \in idle \cup batch' \/ InStreamers(d)'
          /\ d \in idle \cup batch' => pushed[d] > sent[d] /\ ~InStreamers(d)'
          /\ ~(d \in idle /\ d \in batch')
    <3>1. c \notin idle
      BY <1>1 DEF Told
    <3> QED BY <1>5, <2>1, <3>1 DEF Told
  <2>5. pushed \in [Channels -> 0..MaxPushes] /\ sent \in [Channels -> 0..MaxPushes]
    BY DEF Told
  <2> QED BY <1>1, <1>10, <2>2, <2>3, <2>4, <2>5 DEF Told
<1>12. Served'
  <2>1. CASE streamers = <<>>
    <3>1. CASE Asks
      BY <1>1, <1>10, <3>1 DEF Served, NotStalled, Asks
    <3>2. CASE Waits \/ Sends
      BY <1>1, <1>10, <3>2 DEF Served, NotStalled, Waits, Sends
    <3>3. CASE Joins
      <4>1. lookup \in {"off", "running", "answered", "failed"}
        BY DEF Typed
      <4>2. "fd" \in batch' <=> "fd" \in batch
        BY <1>1, <3>3, ChannelsApart DEF Joins
      <4>3. link # "none" => "out" \in armed \/ "fd" \in batch
        BY <2>1, <3>3 DEF Joins, Awaited, Guarded
      <4>4. lookup = "answered" => signalled \/ "signal" \in batch
        BY DEF Guarded
      <4> QED BY <1>1, <1>5, <2>1, <3>3, <4>1, <4>2, <4>3, <4>4
              DEF Served, NotStalled, Joins
    <3> QED BY <1>4, <3>1, <3>2, <3>3
  <2>2. CASE streamers # <<>>
    BY <1>1, <1>4, <1>5, <1>10, <2>2, ChannelsApart
       DEF Served, NotStalled, Awaited, Asks, Waits, Sends, Joins
  <2> QED BY <2>1, <2>2
<1>13. Begun'
  BY <1>1, <1>10 DEF Begun
<1>14. Wired'
  BY <1>1, WiredKept
<1> QED BY <1>6, <1>7, <1>8, <1>9, <1>11, <1>12, <1>13, <1>14
----------------------------------------------------------------------------
(* Connecting.                                                              *)

\* All addresses failed, or one is being tried.
Abandoned(b) == ClearSocket(b) /\ reset' = TRUE /\ connected' = FALSE

Attempted(b) ==
  /\ Arm(b) /\ wire' = <<>> /\ UNCHANGED reset
  /\ \/ link' = "pending" /\ connected' = FALSE
     \/ link' = "open" /\ connected' = TRUE

\* try_connect() gives up or has begun to connect to some address.
LEMMA TryConnectOutcome ==
  ASSUME Counted, NEW a \in Nat \ {0}, NEW b, TryConnect(a, b)
  PROVE  Counted' /\ (Abandoned(b) \/ Attempted(b))
<1>1. /\ Room \in Nat \ {0} /\ Addresses \in Nat \ {0} /\ MaxFaults \in Nat
      /\ room \in 0..Room /\ faults \in 0..MaxFaults
  BY IngressAssumption DEF Counted
<1>2. PICK n \in a..(Addresses + 1) :
        /\ Fault(n - a) /\ ainf' = n
        /\ IF n > Addresses
           THEN RetryLater /\ ClearSocket(b) /\ connected' = FALSE /\ UNCHANGED room
           ELSE /\ \/ link' = "pending" /\ connected' = FALSE
                   \/ link' = "open" /\ connected' = TRUE
                /\ room' = Room /\ wire' = <<>>
                /\ Arm(b)
                /\ UNCHANGED reset
  BY DEF TryConnect
<1>3. n \in 1..(Addresses + 1) /\ n - a \in Nat
  BY <1>1
<1>4. faults' \in 0..MaxFaults
  BY <1>1, <1>2, <1>3 DEF Fault
<1>5. room' \in 0..Room
  BY <1>1, <1>2
<1> QED BY <1>2, <1>3, <1>4, <1>5 DEF Counted, Abandoned, Attempted, RetryLater

\* An address is tried when there is no connection, no timer and, from here
\* on, no look-up.
LEMMA ConnectStep ==
  ASSUME IngressInv, NEW a \in Nat \ {0}, NEW b \in {batch, batch \ {"signal"}},
         TryConnect(a, b), ~sending, link = "none" \/ ~connected,
         link # "none" \/ lookup # "off", lookup' = "off",
         UNCHANGED <<signalled, writable, idle, streamers, sending, chanVars,
                     cut, overtaken, aborted>>
  PROVE  IngressInv'
<1> USE DEF IngressInv, chanVars
<1>1. ~reset /\ ("reset" \in b => overtaken) /\ wire = <<>>
  BY DEF Guarded, Wired
<1>2. Counted'
  BY TryConnectOutcome
<1>3. Abandoned(b) \/ Attempted(b)
  BY TryConnectOutcome
<1>4. /\ wire' = <<>> /\ batch' = b \ {"fd"} /\ got' = {}
      /\ armed' \in SUBSET {"out", "hup"} /\ link' \in Links
      /\ connected' \in BOOLEAN /\ reset' \in BOOLEAN
  BY <1>3 DEF Abandoned, Attempted, ClearSocket, Arm, Links, Typed
<1>5. /\ batch' \in SUBSET (Channels \cup {"fd", "reset", "signal"})
      /\ \A c \in Channels : c \in batch' <=> c \in batch
      /\ "fd" \notin batch' /\ ("reset" \in batch' => overtaken)
  BY <1>1, <1>4, ChannelsApart DEF Typed
<1>6. \/ link' = "none" /\ armed' = {} /\ reset' = TRUE
      \/ link' \in {"pending", "open"} /\ armed' = {"out", "hup"} /\ reset' = FALSE
  BY <1>1, <1>3 DEF Abandoned, Attempted, ClearSocket, Arm, Typed
<1>7. Typed'
  BY <1>4, <1>5 DEF Typed
<1>8. Guarded'
  BY <1>5, <1>6 DEF Guarded, AssertsHold
<1>9. Awaited'
  BY <1>4, <1>5, <1>6 DEF Awaited
<1>10. Told' /\ Begun'
  BY <1>5, ToldKept, BegunKept
<1>11. Served'
  BY <1>6 DEF Served, NotStalled
<1>12. Wired'
  BY <1>1, <1>4, WiredKept
<1> QED BY <1>2, <1>7, <1>8, <1>9, <1>10, <1>11, <1>12

\* The next address is tried.
LEMMA ConnectFailedStep ==
  ASSUME IngressInv, ConnectFailed
  PROVE  IngressInv'
<1>1. /\ ~sending /\ ~connected /\ link \in {"refused", "broken"}
      /\ TryConnect(ainf + 1, batch)
      /\ UNCHANGED <<signalled, writable, lookup, idle, streamers, sending,
                     chanVars, cut, overtaken, aborted>>
  BY DEF ConnectFailed, Connecting, Turn, Running
<1>2. ainf + 1 \in Nat \ {0}
  BY IngressAssumption DEF IngressInv, Counted
<1>3. lookup = "off"
  BY <1>1 DEF IngressInv, Guarded
<1> QED BY <1>1, <1>2, <1>3, ConnectStep

\* An assertion that may fail does, and nothing else is changed.
LEMMA FailsStep ==
  ASSUME IngressInv, AssertsHold', aborted' # "no", overtaken' = overtaken,
         UNCHANGED <<kernelVars, sockVars, fdVars, timeVars, idle, streamers,
                     sending, chanVars, cut, faults>>,
         batch' \in {batch, batch \ {"reset"}}
  PROVE  IngressInv'
<1> USE DEF IngressInv, kernelVars, sockVars, fdVars, timeVars, chanVars
<1>1. /\ batch' \in SUBSET (Channels \cup {"fd", "reset", "signal"})
      /\ \A c \in Channels : c \in batch' <=> c \in batch
      /\ "reset" \in batch' => "reset" \in batch
      /\ "fd" \in batch' <=> "fd" \in batch
      /\ "signal" \in batch' <=> "signal" \in batch
  BY ChannelsApart DEF Typed
<1>2. Typed' /\ Counted'
  BY <1>1 DEF Typed, Counted
<1>3. Guarded' /\ Awaited'
  BY <1>1 DEF Guarded, Awaited
<1>4. Told' /\ Begun'
  BY <1>1, ToldKept, BegunKept
<1>5. Served'
  BY DEF Served, NotStalled
<1>6. Wired'
  BY WiredKept
<1> QED BY <1>2, <1>3, <1>4, <1>5, <1>6

\* The connection is complete, or the peer has hung up already.
LEMMA ConnectDoneStep ==
  ASSUME IngressInv, ConnectDone
  PROVE  IngressInv'
<1> USE DEF IngressInv, kernelVars, sockVars, timeVars, chanVars
<1>1. /\ ~sending /\ ~connected /\ link # "none" /\ "fd" \in batch
      /\ UNCHANGED <<kernelVars, writable, ainf, timeVars, idle, streamers,
                     sending, chanVars, cut, faults, overtaken>>
  BY DEF ConnectDone, Connecting, Turn, Running, Guarded
<1>2. CASE got = {"out"}
  <2>1. /\ connected' = TRUE /\ UNCHANGED aborted
        /\ armed' = {"out", "hup"} /\ got' = {} /\ batch' = batch \ {"fd"}
    BY <1>1, <1>2 DEF ConnectDone, Arm
  <2>2. /\ batch' \in SUBSET (Channels \cup {"fd", "reset", "signal"})
        /\ \A c \in Channels : c \in batch' <=> c \in batch
        /\ "reset" \in batch' <=> "reset" \in batch
        /\ "signal" \in batch' <=> "signal" \in batch
        /\ "fd" \notin batch'
    BY <2>1, ChannelsApart DEF Typed
  <2>3. Typed'
    BY <1>1, <2>1, <2>2 DEF Typed
  <2>4. Counted'
    BY <1>1 DEF Counted
  <2>5. Guarded' /\ Awaited'
    BY <1>1, <2>1, <2>2 DEF Guarded, Awaited, AssertsHold
  <2>6. Told' /\ Begun'
    BY <1>1, <2>2, ToldKept, BegunKept
  <2>7. Served'
    BY <1>1, <2>1 DEF Served, NotStalled
  <2>8. Wired'
    BY <1>1, <2>1, WiredKept
  <2> QED BY <2>3, <2>4, <2>5, <2>6, <2>7, <2>8
<1>3. CASE got # {"out"}
  <2>1. aborted' = "soerr" /\ UNCHANGED <<connected, fdVars, batch>>
    BY <1>1, <1>3 DEF ConnectDone, Fails
  <2>2. AssertsHold' /\ aborted' # "no"
    BY <2>1 DEF AssertsHold
  <2> QED BY <1>1, <2>1, <2>2, FailsStep
<1> QED BY <1>2, <1>3

\* The timer starts a look-up: nothing else is about, unless a channel was
\* handled first.
LEMMA ResetStep ==
  ASSUME IngressInv, Reset
  PROVE  IngressInv'
<1> USE DEF IngressInv, kernelVars, sockVars, fdVars, timeVars, chanVars
<1>1. /\ aborted = "no" /\ ~sending /\ "reset" \in batch /\ InitiateLookup
      /\ batch' = batch \ {"reset"}
      /\ UNCHANGED <<kernelVars, sockVars, fdVars, reset, idle, streamers,
                     sending, chanVars, cut, faults, overtaken>>
  BY DEF Reset, Turn, Running
<1>2. CASE link = "none" /\ lookup = "off" /\ ~reset
  <2>1. lookup' = "running" /\ UNCHANGED aborted
    BY <1>1, <1>2 DEF InitiateLookup
  <2>2. /\ batch' \in SUBSET (Channels \cup {"fd", "reset", "signal"})
        /\ \A c \in Channels : c \in batch' <=> c \in batch
        /\ "reset" \notin batch' /\ ("fd" \in batch' <=> "fd" \in batch)
        /\ "signal" \in batch' <=> "signal" \in batch
    BY <1>1, ChannelsApart DEF Typed
  <2>3. Typed'
    BY <1>1, <2>1, <2>2 DEF Typed
  <2>4. Counted'
    BY <1>1 DEF Counted
  <2>5. Guarded' /\ Awaited'
    BY <1>1, <1>2, <2>1, <2>2 DEF Guarded, Awaited, AssertsHold
  <2>6. Told' /\ Begun'
    BY <1>1, <2>2, ToldKept, BegunKept
  <2>7. Served'
    BY <1>1, <1>2, <2>1, <2>2 DEF Served, NotStalled
  <2>8. Wired'
    BY <1>1, WiredKept
  <2> QED BY <2>3, <2>4, <2>5, <2>6, <2>7, <2>8
<1>3. CASE ~(link = "none" /\ lookup = "off" /\ ~reset)
  <2>1. aborted' \in LookupAsserts /\ UNCHANGED lookup
    BY <1>1, <1>3 DEF InitiateLookup, Fails, LookupAsserts, Typed
  <2>2. overtaken
    BY <1>1, <1>3 DEF Guarded, Typed
  <2>3. AssertsHold' /\ aborted' # "no"
    BY <1>1, <2>1, <2>2 DEF AssertsHold, LookupAsserts
  <2> QED BY <1>1, <2>1, <2>3, FailsStep
<1> QED BY <1>2, <1>3

\* The look-up has succeeded, or the signal is of no account.
LEMMA ResolvedStep ==
  ASSUME IngressInv, Resolved
  PROVE  IngressInv'
<1> USE DEF IngressInv
<1>1. /\ ~sending /\ "signal" \in batch
      /\ UNCHANGED <<signalled, writable, idle, streamers, sending, chanVars,
                     cut, overtaken>>
  BY DEF Resolved, Turn, Running
<1>2. CASE lookup = "answered"
  <2>1. link = "none"
    BY <1>2 DEF Guarded
  <2>2. lookup' = "off" /\ TryConnect(1, batch \ {"signal"}) /\ UNCHANGED aborted
    BY <1>2, <2>1 DEF Resolved
  <2> QED BY <1>1, <1>2, <2>1, <2>2, ConnectStep
<1>3. CASE lookup # "answered"
  <2> USE DEF sockVars, fdVars, chanVars
  <2>1. /\ batch' = batch \ {"signal"}
        /\ UNCHANGED <<lookup, link, room, wire, connected, ainf, fdVars,
                       reset, faults, aborted>>
    BY <1>3 DEF Resolved
  <2>2. /\ batch' \in SUBSET (Channels \cup {"fd", "reset", "signal"})
        /\ \A c \in Channels : c \in batch' <=> c \in batch
        /\ "reset" \in batch' <=> "reset" \in batch
        /\ "fd" \in batch' <=> "fd" \in batch
    BY <2>1, ChannelsApart DEF Typed
  <2>3. Typed'
    BY <1>1, <2>1, <2>2 DEF Typed
  <2>4. Counted'
    BY <2>1 DEF Counted
  <2>5. Guarded' /\ Awaited'
    BY <1>1, <1>3, <2>1, <2>2 DEF Guarded, Awaited, AssertsHold
  <2>6. Told' /\ Begun'
    BY <1>1, <2>2, ToldKept, BegunKept
  <2>7. Served'
    BY <1>1, <1>3, <2>1, <2>2 DEF Served, NotStalled
  <2>8. Wired'
    BY <1>1, <2>1, WiredKept
  <2> QED BY <2>3, <2>4, <2>5, <2>6, <2>7, <2>8
<1> QED BY <1>2, <1>3

----------------------------------------------------------------------------
(* A connection.                                                            *)

\* There is room again, and a streamer to use it.
LEMMA WritableStep ==
  ASSUME IngressInv, Writable
  PROVE  IngressInv'
<1> USE DEF IngressInv, kernelVars, fdVars, timeVars, chanVars
<1>1. /\ ~sending /\ "fd" \in batch /\ "hup" \notin got /\ connected
      /\ batch' = batch \ {"fd"}
      /\ UNCHANGED <<kernelVars, connected, ainf, fdVars, timeVars, idle,
                     streamers, chanVars, cut, faults, overtaken>>
  BY DEF Writable, WriteReady, Turn, Running
<1>2. "out" \in got /\ link # "none"
  BY <1>1 DEF Guarded, Typed
<1>3. writable' = TRUE /\ sending' = (streamers # <<>>) /\ UNCHANGED aborted
  BY <1>2 DEF Writable
<1>4. /\ batch' \in SUBSET (Channels \cup {"fd", "reset", "signal"})
      /\ \A c \in Channels : c \in batch' <=> c \in batch
      /\ "reset" \in batch' <=> "reset" \in batch
      /\ "signal" \in batch' <=> "signal" \in batch
      /\ "fd" \notin batch'
  BY <1>1, ChannelsApart DEF Typed
<1>5. Typed'
  BY <1>1, <1>3, <1>4 DEF Typed
<1>6. Counted'
  BY <1>1 DEF Counted
<1>7. Guarded' /\ Awaited'
  BY <1>1, <1>2, <1>3, <1>4 DEF Guarded, Awaited, AssertsHold
<1>8. Told' /\ Begun'
  BY <1>1, <1>4, ToldKept, BegunKept
<1>9. Served'
  BY <1>1, <1>3 DEF Served, NotStalled
<1>10. Wired'
  BY <1>1, WiredKept
<1> QED BY <1>5, <1>6, <1>7, <1>8, <1>9, <1>10

\* The socket is cleared and the timer set.
LEMMA DroppedStep ==
  ASSUME IngressInv, ClearSocket(batch), reset' = TRUE, link # "none",
         sending' = FALSE, writable' \in BOOLEAN, cut' \in BOOLEAN,
         Begun', ~cut' => \A c \in Channels : done'[c] = 0,
         \A c \in Channels : done'[c] \in {0, done[c]},
         UNCHANGED <<room, signalled, connected, ainf, lookup, idle, streamers,
                     pushed, sent, faults, overtaken, aborted>>
  PROVE  IngressInv'
<1> USE DEF IngressInv
<1>1. /\ link' = "none" /\ wire' = <<>> /\ armed' = {} /\ got' = {}
      /\ batch' = batch \ {"fd"}
  BY DEF ClearSocket
<1>2. /\ batch' \in SUBSET (Channels \cup {"fd", "reset", "signal"})
      /\ \A c \in Channels : c \in batch' <=> c \in batch
      /\ "reset" \in batch' <=> "reset" \in batch
      /\ "signal" \in batch' <=> "signal" \in batch
      /\ "fd" \notin batch'
  BY <1>1, ChannelsApart DEF Typed
<1>3. Typed'
  BY <1>1, <1>2 DEF Typed, Links
<1>4. Counted'
  BY DEF Counted
<1>5. Guarded' /\ Awaited'
  BY <1>1, <1>2 DEF Guarded, Awaited, AssertsHold
<1>6. Told'
  BY <1>2, ToldKept
<1>7. Served'
  BY <1>1 DEF Served, NotStalled
<1>8. Wired'
  BY <1>1 DEF Wired, Contiguous, FramedUnlessCut
<1> QED BY <1>3, <1>4, <1>5, <1>6, <1>7, <1>8

\* The peer hung up.
LEMMA PeerClosedStep ==
  ASSUME IngressInv, PeerClosed
  PROVE  IngressInv'
<1> USE DEF IngressInv, sockVars, chanVars
<1>1. ~sending /\ "fd" \in batch
  BY DEF PeerClosed, HungUp, Turn, Running
<1>2. link # "none"
  BY <1>1 DEF Guarded
<1>3. /\ ClearSocket(batch) /\ reset' = TRUE
      /\ cut' = \E c \in Channels : current[c] /\ done[c] > 0
      /\ UNCHANGED <<room, signalled, sockVars, lookup, idle, streamers,
                     sending, chanVars, faults, overtaken, aborted>>
  BY <1>2 DEF PeerClosed
<1>4. Begun'
  BY <1>3, BegunKept
<1>5. ~cut' => \A c \in Channels : done'[c] = 0
  <2>1. \A c \in Channels : done[c] \in Nat /\ (done[c] > 0 => current[c])
    BY IngressAssumption DEF Begun
  <2> QED BY <1>3, <2>1
<1>6. cut' \in BOOLEAN /\ writable' \in BOOLEAN /\ sending' = FALSE
  BY <1>1, <1>3 DEF Typed
<1> QED BY <1>2, <1>3, <1>4, <1>5, <1>6, DroppedStep

\* A send failed: the message will be sent anew.
LEMMA SendFailedStep ==
  ASSUME IngressInv, SendFailed
  PROVE  IngressInv'
<1> USE DEF IngressInv
<1>1. /\ sending /\ link \in {"ended", "broken"} /\ Failed(Head(streamers))
      /\ cut' = FALSE /\ ClearSocket(batch) /\ reset' = TRUE
      /\ writable' = FALSE /\ sending' = FALSE
      /\ UNCHANGED <<room, signalled, connected, ainf, lookup, idle, streamers,
                     pushed, sent, faults, overtaken, aborted>>
  BY DEF SendFailed
<1>2. streamers \in Seq(Channels) /\ streamers # <<>>
  BY <1>1 DEF Served, Told
<1>3. Head(streamers) \in Channels
  BY <1>2
<1>4. /\ current' = [current EXCEPT ![Head(streamers)] = FALSE]
      /\ done' = [done EXCEPT ![Head(streamers)] = 0]
  BY <1>1 DEF Failed
<1>5. /\ current' \in [Channels -> BOOLEAN] /\ done' \in [Channels -> 0..Pieces]
      /\ \A c \in Channels : done'[c] = 0
  <2>1. Pieces \in Nat \ {0}
    BY IngressAssumption
  <2>2. current \in [Channels -> BOOLEAN] /\ done \in [Channels -> 0..Pieces]
    BY DEF Begun
  <2>3. \A c \in Channels \ {Head(streamers)} : done[c] = 0
    BY <2>1, <2>2 DEF Begun
  <2> QED BY <1>3, <1>4, <2>1, <2>2, <2>3
<1>6. Begun'
  BY <1>5, IngressAssumption DEF Begun
<1> QED BY <1>1, <1>5, <1>6, DroppedStep

\* The buffer is full: the ingress waits, and the streamer keeps its turn.
LEMMA SendBlockedStep ==
  ASSUME IngressInv, SendBlocked
  PROVE  IngressInv'
<1> USE DEF IngressInv, kernelVars, timeVars, auxVars
<1>1. /\ sending /\ link \in {"open", "ended"}
      /\ current' = [current EXCEPT ![Head(streamers)] = TRUE]
      /\ done' = [done EXCEPT ![Head(streamers)] = Restarted(Head(streamers))]
      /\ writable' = FALSE /\ sending' = FALSE
      /\ armed' = {"out", "hup"} /\ got' = {} /\ batch' = batch \ {"fd"}
      /\ streamers' = streamers
      /\ UNCHANGED <<kernelVars, connected, ainf, timeVars, idle, pushed, sent,
                     auxVars>>
  BY DEF SendBlocked, AwaitRoom, KeepsTurn, Arm
<1>2. streamers \in Seq(Channels) /\ streamers # <<>> /\ connected
  BY <1>1 DEF Served, Told, Guarded
<1>3. Head(streamers) \in Channels
  BY <1>2
<1>4. /\ current \in [Channels -> BOOLEAN] /\ done \in [Channels -> 0..Pieces]
      /\ Pieces \in Nat \ {0}
  BY IngressAssumption DEF Begun
<1>5. Restarted(Head(streamers)) = done[Head(streamers)]
  <2>1. ~current[Head(streamers)] => done[Head(streamers)] = 0
    BY <1>3, <1>4 DEF Begun
  <2> QED BY <2>1 DEF Restarted
<1>6. done' = done
  BY <1>1, <1>4, <1>5
<1>7. /\ batch' \in SUBSET (Channels \cup {"fd", "reset", "signal"})
      /\ \A c \in Channels : c \in batch' <=> c \in batch
      /\ "reset" \in batch' <=> "reset" \in batch
      /\ "signal" \in batch' <=> "signal" \in batch
      /\ "fd" \notin batch'
  BY <1>1, ChannelsApart DEF Typed
<1>8. Typed'
  BY <1>1, <1>7 DEF Typed
<1>9. Counted'
  BY <1>1 DEF Counted
<1>10. Guarded' /\ Awaited'
  BY <1>1, <1>2, <1>7 DEF Guarded, Awaited, AssertsHold
<1>11. Told'
  BY <1>1, <1>7, ToldKept
<1>12. Served'
  BY <1>1 DEF Served, NotStalled
<1>13. Begun'
  <2>1. current' \in [Channels -> BOOLEAN]
    BY <1>1, <1>3, <1>4
  <2>2. \A c \in Channels : current[c] => current'[c]
    BY <1>1, <1>3, <1>4
  <2> QED BY <1>1, <1>6, <2>1, <2>2 DEF Begun
<1>14. Wired'
  BY <1>1, <1>2, <1>6, WiredKept
<1> QED BY <1>8, <1>9, <1>10, <1>11, <1>12, <1>13, <1>14
----------------------------------------------------------------------------
(* Sending.                                                                 *)

\* The first streamer c sends k more pieces of the message of which n are
\* gone already; nobody else has begun one.
Front(c, n, k) ==
  /\ streamers \in Seq(Channels) /\ streamers # <<>>
  /\ c \in Channels /\ c = Head(streamers)
  /\ n \in Nat /\ n = done[c] /\ k \in Nat \ {0} /\ k <= room /\ n + k <= Pieces
  /\ sent[c] \in Nat /\ sent[c] < pushed[c] /\ sent[c] + 1 \in 1..MaxPushes
  /\ \A d \in Channels : d # c => done[d] = 0

Added(c, n, k) ==
  wire' = wire \o [i \in 1..k |-> [chan |-> c, msg |-> sent[c] + 1, part |-> n + i]]

\* It has more to send, or is done, which the queue is told.
Partial(c, m) ==
  /\ m # Pieces
  /\ current' = [current EXCEPT ![c] = TRUE] /\ done' = [done EXCEPT ![c] = m]
  /\ UNCHANGED <<sent, idle, streamers, sending>>

Whole(c, m) ==
  /\ m = Pieces
  /\ sent' = [sent EXCEPT ![c] = @ + 1]
  /\ idle' = IF pushed[c] > sent'[c] THEN idle \cup {c} ELSE idle
  /\ current' = [current EXCEPT ![c] = FALSE] /\ done' = [done EXCEPT ![c] = 0]
  /\ streamers' = Tail(streamers) /\ sending' = (Tail(streamers) # <<>>)

\* What send_some() sends is of the first streamer, in part or all of the rest.
LEMMA SendSomeOutcome ==
  ASSUME IngressInv, SendSome
  PROVE  \E c \in Channels, n \in Nat, k \in Nat :
           /\ Front(c, n, k) /\ Added(c, n, k) /\ room' = room - k
           /\ Partial(c, n + k) \/ Whole(c, n + k)
<1> USE DEF IngressInv
<1> DEFINE c == Head(streamers)
           n == done[c]
           k == MinOf(room, Pieces - n)
<1>1. /\ Pieces \in Nat \ {0} /\ Room \in Nat \ {0} /\ MaxPushes \in Nat
      /\ room \in 0..Room
  BY IngressAssumption DEF Counted
<1>2. sending /\ room > 0
  BY DEF SendSome
<1>3. streamers \in Seq(Channels) /\ streamers # <<>>
  BY <1>2 DEF Served, Told
<1>4. c \in Channels /\ c = streamers[1] /\ 1 \in 1..Len(streamers)
  BY <1>3
<1>5. /\ current \in [Channels -> BOOLEAN] /\ done \in [Channels -> 0..Pieces]
      /\ \A d \in Channels :
           /\ done[d] < Pieces
           /\ done[d] > 0 => current[d] /\ Head(streamers) = d
  BY DEF Begun
<1>6. sent[c] < pushed[c] /\ sent[c] \in 0..MaxPushes /\ pushed[c] \in 0..MaxPushes
  <2>1. pushed[streamers[1]] > sent[streamers[1]]
    BY <1>4 DEF Told
  <2>2. pushed \in [Channels -> 0..MaxPushes] /\ sent \in [Channels -> 0..MaxPushes]
    BY DEF Told
  <2> QED BY <1>1, <1>4, <2>1, <2>2
<1>7. sent[c] \in Nat /\ sent[c] + 1 \in 1..MaxPushes
  BY <1>1, <1>6
<1>8. n \in Nat /\ n < Pieces /\ (~current[c] => n = 0)
  BY <1>1, <1>4, <1>5
<1>9. Restarted(c) = n
  BY <1>8 DEF Restarted
<1>10. k \in Nat \ {0} /\ k <= room /\ n + k <= Pieces
  BY <1>1, <1>2, <1>8 DEF MinOf
<1>11. \A d \in Channels : d # c => done[d] = 0
  BY <1>1, <1>5
<1>12. Front(c, n, k)
  BY <1>3, <1>4, <1>6, <1>7, <1>8, <1>10, <1>11 DEF Front
<1>13. Added(c, n, k) /\ room' = room - k
  BY <1>9 DEF SendSome, Added
<1>14. Partial(c, n + k) \/ Whole(c, n + k)
  BY <1>9 DEF SendSome, Partial, Whole, AllDone, Progress, Poked
<1> QED BY <1>4, <1>8, <1>10, <1>12, <1>13, <1>14

\* A whole message leaves the first streamer for the end of the line, if it
\* has more.
LEMMA WholeTold ==
  ASSUME Told, NEW c, NEW n, NEW k, Front(c, n, k), Whole(c, n + k),
         UNCHANGED <<pushed, batch>>
  PROVE  Told'
<1>1. /\ streamers \in Seq(Channels) /\ streamers # <<>> /\ c = Head(streamers)
      /\ c \in Channels /\ sent[c] < pushed[c]
  BY DEF Front
<1>2. /\ streamers' = Tail(streamers)
      /\ sent' = [sent EXCEPT ![c] = @ + 1]
      /\ idle' = IF pushed[c] > sent'[c] THEN idle \cup {c} ELSE idle
  BY DEF Whole
<1>3. /\ pushed \in [Channels -> 0..MaxPushes] /\ sent \in [Channels -> 0..MaxPushes]
      /\ MaxPushes \in Nat
  BY IngressAssumption DEF Told
<1>4. /\ sent' \in [Channels -> 0..MaxPushes] /\ sent'[c] = sent[c] + 1
      /\ sent'[c] <= pushed[c]
      /\ \A d \in Channels : d # c => sent'[d] = sent[d]
  BY <1>1, <1>2, <1>3
<1>5. /\ streamers' \in Seq(Channels) /\ Len(streamers') = Len(streamers) - 1
      /\ Len(streamers) \in Nat \ {0} /\ c = streamers[1]
      /\ \A i \in 1..Len(streamers') : streamers'[i] = streamers[i + 1]
  BY <1>1, <1>2
<1>6. \A i, j \in 1..Len(streamers) : streamers[i] = streamers[j] => i = j
  BY DEF Told
<1>7. \A i \in 1..Len(streamers') : streamers'[i] \in Channels /\ streamers'[i] # c
  BY <1>5, <1>6
<1>8. \A i, j \in 1..Len(streamers') : streamers'[i] = streamers'[j] => i = j
  BY <1>5, <1>6
<1>9. \A i \in 1..Len(streamers') : pushed[streamers'[i]] > sent'[streamers'[i]]
  <2>1. \A i \in 1..Len(streamers) : pushed[streamers[i]] > sent[streamers[i]]
    BY DEF Told
  <2>2. \A i \in 1..Len(streamers') : i + 1 \in 1..Len(streamers)
    BY <1>5
  <2>3. \A i \in 1..Len(streamers') : pushed[streamers'[i]] > sent[streamers'[i]]
    BY <1>5, <2>1, <2>2
  <2> QED BY <1>4, <1>7, <2>3
<1>10. InStreamers(c) /\ ~InStreamers(c)'
  BY <1>5, <1>7 DEF InStreamers
<1>11. \A d \in Channels : d # c => (InStreamers(d)' <=> InStreamers(d))
  <2> SUFFICES ASSUME NEW d \in Channels, d # c
               PROVE  InStreamers(d)' <=> InStreamers(d)
    OBVIOUS
  <2>1. ASSUME NEW i \in 1..Len(streamers'), streamers'[i] = d
        PROVE  InStreamers(d)
    <3>1. i + 1 \in 1..Len(streamers) /\ streamers[i + 1] = d
      BY <1>5, <2>1
    <3> QED BY <3>1 DEF InStreamers
  <2>2. ASSUME NEW i \in 1..Len(streamers), streamers[i] = d
        PROVE  InStreamers(d)'
    <3>1. i - 1 \in 1..Len(streamers') /\ streamers'[i - 1] = d
      BY <1>5, <2>2
    <3> QED BY <3>1 DEF InStreamers
  <2> QED BY <2>1, <2>2 DEF InStreamers
<1>12. \A d \in Channels :
         /\ sent'[d] <= pushed[d]
         /\ pushed[d] > sent'[d] => d \in idle' \cup batch \/ InStreamers(d)'
         /\ d \in idle' \cup batch => pushed[d] > sent'[d] /\ ~InStreamers(d)'
         /\ ~(d \in idle' /\ d \in batch)
  <2>1. ASSUME NEW d \in Channels
        PROVE  /\ sent[d] <= pushed[d]
               /\ pushed[d] > sent[d] => d \in idle \cup batch \/ InStreamers(d)
               /\ d \in idle \cup batch => pushed[d] > sent[d] /\ ~InStreamers(d)
               /\ ~(d \in idle /\ d \in batch)
    BY DEF Told
  <2>2. c \notin idle \cup batch
    BY <1>1, <1>10, <2>1
  <2>3. c \in idle' => pushed[c] > sent'[c]
    BY <1>2, <2>2
  <2>4. pushed[c] > sent'[c] => c \in idle'
    BY <1>2
  <2>5. \A d \in Channels : d # c => (d \in idle' <=> d \in idle)
    BY <1>2
  <2>6. ASSUME NEW d \in Channels, d # c
        PROVE  /\ sent'[d] <= pushed[d]
               /\ pushed[d] > sent'[d] => d \in idle' \cup batch \/ InStreamers(d)'
               /\ d \in idle' \cup batch => pushed[d] > sent'[d] /\ ~InStreamers(d)'
               /\ ~(d \in idle' /\ d \in batch)
    BY <1>4, <1>11, <2>1, <2>5, <2>6
  <2>7. /\ pushed[c] > sent'[c] => c \in idle' \cup batch \/ InStreamers(c)'
        /\ c \in idle' \cup batch => pushed[c] > sent'[c] /\ ~InStreamers(c)'
        /\ ~(c \in idle' /\ c \in batch)
    BY <1>10, <2>2, <2>3, <2>4
  <2> QED BY <1>4, <2>6, <2>7
<1> QED BY <1>3, <1>4, <1>5, <1>8, <1>9, <1>12 DEF Told

\* What a concatenation consists of.
LEMMA Concatenation ==
  ASSUME NEW S, NEW s \in Seq(S), NEW t \in Seq(S)
  PROVE  /\ s \o t \in Seq(S) /\ Len(s \o t) = Len(s) + Len(t)
         /\ \A i \in 1..Len(s) : (s \o t)[i] = s[i]
         /\ \A i \in 1..Len(t) : (s \o t)[Len(s) + i] = t[i]
OBVIOUS

\* The wire grows by pieces that follow each other and what is there.
LEMMA Growth ==
  ASSUME Wired, Begun, NEW c, NEW n, NEW k, Front(c, n, k), Added(c, n, k)
  PROVE  /\ wire' \in Seq(Piece) /\ Len(wire') = Len(wire) + k
         /\ \A i \in 1..Len(wire) : wire'[i] = wire[i]
         /\ \A i \in 1..k :
              wire'[Len(wire) + i] = [chan |-> c, msg |-> sent[c] + 1, part |-> n + i]
<1> DEFINE tail == [i \in 1..k |-> [chan |-> c, msg |-> sent[c] + 1, part |-> n + i]]
<1>1. /\ c \in Channels /\ n \in Nat /\ k \in Nat /\ n + k <= Pieces
      /\ sent[c] + 1 \in 1..MaxPushes
  BY DEF Front
<1>2. Pieces \in Nat
  BY IngressAssumption
<1>3. ASSUME NEW i \in 1..k
      PROVE  [chan |-> c, msg |-> sent[c] + 1, part |-> n + i] \in Piece
  <2>1. n + i \in 1..Pieces
    BY <1>1, <1>2
  <2> QED BY <1>1, <2>1 DEF Piece
<1>4. tail \in Seq(Piece) /\ Len(tail) = k
  BY <1>1, <1>3
<1>5. wire \in Seq(Piece) /\ wire' = wire \o tail
  BY DEF Wired, Added
<1>6. \A i \in 1..k : tail[i] = [chan |-> c, msg |-> sent[c] + 1, part |-> n + i]
  OBVIOUS
<1>7. PICK t \in Seq(Piece) :
        /\ Len(t) = k /\ wire' = wire \o t
        /\ \A i \in 1..k : t[i] = [chan |-> c, msg |-> sent[c] + 1, part |-> n + i]
  <2> HIDE DEF tail
  <2> QED BY <1>4, <1>5, <1>6
<1> HIDE DEF tail
<1>8. /\ wire' \in Seq(Piece) /\ Len(wire') = Len(wire) + k
      /\ \A i \in 1..Len(wire) : wire'[i] = wire[i]
      /\ \A i \in 1..k : wire'[Len(wire) + i] = t[i]
  <2>1. \A s \in Seq(Piece) :
          /\ s \o t \in Seq(Piece) /\ Len(s \o t) = Len(s) + Len(t)
          /\ \A i \in 1..Len(s) : (s \o t)[i] = s[i]
          /\ \A i \in 1..Len(t) : (s \o t)[Len(s) + i] = t[i]
    BY Concatenation
  <2> QED BY <1>5, <1>7, <2>1
<1> QED BY <1>7, <1>8

\* The last piece on the wire is the one before the next of the first
\* streamer, or ends a message if that is at the beginning of its own.
LEMMA Junction ==
  ASSUME Wired, Begun, NEW c, NEW n, NEW k, Front(c, n, k), wire # <<>>
  PROVE  LET p == wire[Len(wire)] IN
         /\ n = 0 => p.part = Pieces
         /\ n > 0 => p = [chan |-> c, msg |-> sent[c] + 1, part |-> n]
<1> DEFINE p == wire[Len(wire)]
<1>1. /\ c \in Channels /\ n \in Nat /\ n = done[c]
      /\ \A d \in Channels : d # c => done[d] = 0
  BY DEF Front
<1>2. p \in Piece
  BY DEF Wired
<1>3. p.chan \in Channels /\ p.part \in Nat \ {0}
  BY <1>2, IngressAssumption DEF Piece
<1>4. p.part # Pieces => p.msg = sent[p.chan] + 1 /\ p.part = done[p.chan]
  BY DEF Wired
<1>5. p.part = Pieces => \A d \in Channels : done[d] = 0
  BY DEF Wired
<1> HIDE DEF p
<1>6. ASSUME n = 0 PROVE p.part = Pieces
  <2>1. \A d \in Channels : done[d] = 0
    BY <1>1, <1>6
  <2> QED BY <1>3, <1>4, <2>1
<1>7. ASSUME n > 0 PROVE p = [chan |-> c, msg |-> sent[c] + 1, part |-> n]
  <2>1. p.part # Pieces
    BY <1>1, <1>5, <1>7
  <2>2. p.chan = c
    BY <1>1, <1>3, <1>4, <2>1
  <2>3. p.msg = sent[c] + 1 /\ p.part = n
    BY <1>1, <1>4, <2>1, <2>2
  <2> QED BY <1>2, <2>2, <2>3 DEF Piece
<1> QED BY <1>6, <1>7 DEF p

\* So the pieces on the wire stay in order and without repetition.
LEMMA GrowthContiguous ==
  ASSUME Wired, Begun, NEW c, NEW n, NEW k, Front(c, n, k), Added(c, n, k)
  PROVE  Contiguous'
<1> DEFINE L == Len(wire)
           New(i) == [chan |-> c, msg |-> sent[c] + 1, part |-> n + i]
<1>1. /\ wire' \in Seq(Piece) /\ Len(wire') = L + k
      /\ \A i \in 1..L : wire'[i] = wire[i]
      /\ \A i \in 1..k : wire'[L + i] = New(i)
  BY Growth
<1>2. /\ c \in Channels /\ n \in Nat /\ n = done[c] /\ k \in Nat \ {0}
      /\ \A d \in Channels : d # c => done[d] = 0
      /\ L \in Nat /\ wire \in Seq(Piece)
  BY DEF Front, Wired
<1>3. ASSUME NEW i \in 1..L, NEW j \in 1..k PROVE wire[i] # New(j)
  <2>1. \/ wire[i].msg <= sent[wire[i].chan]
        \/ wire[i].msg = sent[wire[i].chan] + 1 /\ wire[i].part <= done[wire[i].chan]
    BY DEF Wired
  <2>2. wire[i] \in Piece
    BY <1>2
  <2>3. SUFFICES ASSUME wire[i] = New(j) PROVE FALSE
    OBVIOUS
  <2>4. wire[i].chan = c /\ wire[i].msg = sent[c] + 1 /\ wire[i].part = n + j
    BY <2>3
  <2>5. sent[c] \in Nat
    BY DEF Front
  <2> QED BY <1>2, <2>1, <2>4, <2>5
<1>4. ASSUME NEW i \in 1..k, NEW j \in 1..k, i < j PROVE New(i) # New(j)
  BY <1>2, <1>4
<1>5. ASSUME NEW i \in 1..L, NEW j \in 1..L
      PROVE  /\ i < j => wire[i] # wire[j]
             /\ j = i + 1 =>
                  IF wire[j].part = 1 THEN wire[i].part = Pieces
                  ELSE wire[i] = [wire[j] EXCEPT !.part = @ - 1]
  BY DEF Wired, Contiguous
<1>6. ASSUME NEW i \in 1..k, i > 1
      PROVE  New(i).part # 1 /\ New(i - 1) = [New(i) EXCEPT !.part = @ - 1]
  BY <1>2, <1>6
<1>7. ASSUME L > 0
      PROVE  IF New(1).part = 1 THEN wire[L].part = Pieces
             ELSE wire[L] = [New(1) EXCEPT !.part = @ - 1]
  <2>1. /\ n = 0 => wire[L].part = Pieces
        /\ n > 0 => wire[L] = [chan |-> c, msg |-> sent[c] + 1, part |-> n]
    BY <1>2, <1>7, Junction
  <2> QED BY <1>2, <2>1
<1> HIDE DEF L, New
<1>8. ASSUME NEW i \in 1..(L + k), NEW j \in 1..(L + k), i < j
      PROVE  wire'[i] # wire'[j]
  <2>1. CASE i \in 1..L /\ j \in 1..L
    <3>1. wire'[i] = wire[i] /\ wire'[j] = wire[j]
      BY <1>1, <2>1
    <3>2. wire[i] # wire[j]
      BY <1>5, <1>8, <2>1
    <3> QED BY <3>1, <3>2
  <2>2. CASE i \in 1..L /\ j \notin 1..L
    <3>1. j - L \in 1..k /\ j = L + (j - L)
      BY <1>2, <2>2
    <3>2. wire'[j] = New(j - L)
      BY <1>1, <3>1
    <3> QED BY <1>1, <1>3, <2>2, <3>1, <3>2
  <2>3. CASE i \notin 1..L
    <3>1. /\ i - L \in 1..k /\ i = L + (i - L)
          /\ j - L \in 1..k /\ j = L + (j - L) /\ i - L < j - L
      BY <1>2, <1>8, <2>3
    <3>2. wire'[i] = New(i - L) /\ wire'[j] = New(j - L)
      BY <1>1, <3>1
    <3> QED BY <1>4, <3>1, <3>2
  <2> QED BY <2>1, <2>2, <2>3
<1>9. ASSUME NEW i \in 1..(L + k), NEW j \in 1..(L + k), j = i + 1
      PROVE  IF wire'[j].part = 1 THEN wire'[i].part = Pieces
             ELSE wire'[i] = [wire'[j] EXCEPT !.part = @ - 1]
  <2>1. CASE j \in 1..L
    <3>1. i \in 1..L
      BY <1>2, <1>9, <2>1
    <3>2. wire'[i] = wire[i] /\ wire'[j] = wire[j]
      BY <1>1, <2>1, <3>1
    <3>3. IF wire[j].part = 1 THEN wire[i].part = Pieces
          ELSE wire[i] = [wire[j] EXCEPT !.part = @ - 1]
      BY <1>5, <1>9, <2>1, <3>1
    <3> QED BY <3>2, <3>3
  <2>2. CASE i = L
    <3>1. L > 0 /\ 1 \in 1..k /\ L \in 1..L
      BY <1>2, <2>2
    <3>2. wire'[i] = wire[L] /\ wire'[j] = New(1)
      BY <1>1, <1>9, <2>2, <3>1
    <3> QED BY <1>7, <3>1, <3>2
  <2>3. CASE i > L
    <3>1. /\ i - L \in 1..k /\ i = L + (i - L)
          /\ j - L \in 1..k /\ j = L + (j - L) /\ j - L > 1 /\ (j - L) - 1 = i - L
      BY <1>2, <1>9, <2>3
    <3>2. wire'[i] = New(i - L) /\ wire'[j] = New(j - L)
      BY <1>1, <3>1
    <3> QED BY <1>6, <3>1, <3>2
  <2> QED BY <1>2, <1>9, <2>1, <2>2, <2>3
<1> QED BY <1>1, <1>8, <1>9 DEF Contiguous

\* A streamer sends what the buffer takes of its message.
LEMMA SendSomeStep ==
  ASSUME IngressInv, SendSome
  PROVE  IngressInv'
<1> USE DEF IngressInv, fdVars, timeVars, auxVars
<1>1. PICK c \in Channels, n \in Nat, k \in Nat :
        /\ Front(c, n, k) /\ Added(c, n, k) /\ room' = room - k
        /\ Partial(c, n + k) \/ Whole(c, n + k)
  BY SendSomeOutcome
<1>2. /\ sending /\ writable' = FALSE /\ link \in {"open", "ended"}
      /\ UNCHANGED <<link, signalled, connected, ainf, fdVars, timeVars,
                     batch, pushed, auxVars>>
  BY DEF SendSome
<1>3. /\ streamers \in Seq(Channels) /\ streamers # <<>> /\ c = Head(streamers)
      /\ n = done[c] /\ k \in Nat \ {0} /\ k <= room /\ n + k <= Pieces
      /\ \A d \in Channels : d # c => done[d] = 0
  BY <1>1 DEF Front
<1>4. /\ current \in [Channels -> BOOLEAN] /\ done \in [Channels -> 0..Pieces]
      /\ Pieces \in Nat \ {0} /\ Room \in Nat
  BY IngressAssumption DEF Begun
<1>5. sending' \in BOOLEAN /\ idle' \in SUBSET Channels /\ (sending' => streamers' # <<>>)
      /\ (~sending' => streamers' = <<>>)
  BY <1>1, <1>2, <1>3 DEF Partial, Whole, Typed
<1>6. Typed'
  BY <1>2, <1>5 DEF Typed
<1>7. Counted'
  <2>1. room' \in 0..Room
    BY <1>1, <1>3, <1>4 DEF Counted
  <2> QED BY <1>2, <2>1 DEF Counted
<1>8. Guarded' /\ Awaited'
  BY <1>2 DEF Guarded, Awaited, AssertsHold
<1>9. Told'
  <2>1. CASE Whole(c, n + k)
    BY <1>1, <1>2, <2>1, WholeTold
  <2>2. CASE Partial(c, n + k)
    BY <1>2, <2>2, ToldKept DEF Partial
  <2> QED BY <1>1, <2>1, <2>2
<1>10. Served'
  BY <1>5 DEF Served, NotStalled
<1>11. /\ done' \in [Channels -> 0..Pieces] /\ current' \in [Channels -> BOOLEAN]
       /\ done'[c] = IF n + k = Pieces THEN 0 ELSE n + k
       /\ \A d \in Channels : d # c => done'[d] = 0
  <2>1. CASE Partial(c, n + k)
    <3>1. n + k \in 0..Pieces /\ n + k # Pieces
      BY <1>3, <1>4, <2>1 DEF Partial
    <3>2. done' = [done EXCEPT ![c] = n + k] /\ current' = [current EXCEPT ![c] = TRUE]
      BY <2>1 DEF Partial
    <3> QED BY <1>3, <1>4, <3>1, <3>2
  <2>2. CASE Whole(c, n + k)
    <3>1. n + k = Pieces /\ 0 \in 0..Pieces
      BY <1>4, <2>2 DEF Whole
    <3>2. done' = [done EXCEPT ![c] = 0] /\ current' = [current EXCEPT ![c] = FALSE]
      BY <2>2 DEF Whole
    <3> QED BY <1>3, <1>4, <3>1, <3>2
  <2> QED BY <1>1, <2>1, <2>2
<1>12. Begun'
  <2>1. \A d \in Channels : done'[d] < Pieces
    BY <1>3, <1>4, <1>11
  <2>2. \A d \in Channels : done'[d] > 0 => d = c /\ n + k # Pieces
    BY <1>11
  <2>3. n + k # Pieces => current'[c] /\ streamers' = streamers
    BY <1>1, <1>4 DEF Partial, Whole
  <2> QED BY <1>3, <1>11, <2>1, <2>2, <2>3 DEF Begun
<1>13. /\ wire' \in Seq(Piece) /\ Len(wire') = Len(wire) + k
       /\ \A i \in 1..Len(wire) : wire'[i] = wire[i]
       /\ \A i \in 1..k :
            wire'[Len(wire) + i] = [chan |-> c, msg |-> sent[c] + 1, part |-> n + i]
  BY <1>1, Growth
<1>14. /\ sent'[c] = IF n + k = Pieces THEN sent[c] + 1 ELSE sent[c]
       /\ \A d \in Channels : d # c => sent'[d] = sent[d]
       /\ \A d \in Channels : sent[d] \in Nat
  <2>1. sent \in [Channels -> 0..MaxPushes] /\ MaxPushes \in Nat
    BY IngressAssumption DEF Told
  <2> QED BY <1>1, <2>1 DEF Partial, Whole
<1>15. wire \in Seq(Piece) /\ Len(wire) \in Nat
  BY DEF Wired
<1>16. \A i \in 1..Len(wire') :
         LET p == wire'[i] IN
         \/ p.msg <= sent'[p.chan]
         \/ p.msg = sent'[p.chan] + 1 /\ p.part <= done'[p.chan]
  <2> SUFFICES ASSUME NEW i \in 1..Len(wire')
               PROVE  \/ wire'[i].msg <= sent'[wire'[i].chan]
                      \/ /\ wire'[i].msg = sent'[wire'[i].chan] + 1
                         /\ wire'[i].part <= done'[wire'[i].chan]
    OBVIOUS
  <2>1. CASE i \in 1..Len(wire)
    <3> DEFINE p == wire[i]
    <3>1. p \in Piece /\ wire'[i] = p
      BY <1>13, <1>15, <2>1
    <3>2. \/ p.msg <= sent[p.chan]
          \/ p.msg = sent[p.chan] + 1 /\ p.part <= done[p.chan]
      BY <2>1 DEF Wired
    <3>3. p.chan \in Channels /\ p.part \in Nat \ {0} /\ p.msg \in Nat
      BY <3>1, IngressAssumption DEF Piece
    <3> HIDE DEF p
    <3>4. CASE p.chan = c
      <4>1. \/ p.msg <= sent[c]
            \/ p.msg = sent[c] + 1 /\ p.part <= n
        BY <1>3, <3>2, <3>4
      <4>2. \/ p.msg <= sent'[c]
            \/ p.msg = sent'[c] + 1 /\ p.part <= done'[c]
        <5>1. CASE n + k = Pieces
          <6>1. sent'[c] = sent[c] + 1
            BY <1>14, <5>1
          <6> QED BY <1>14, <3>3, <4>1, <6>1
        <5>2. CASE n + k # Pieces
          <6>1. sent'[c] = sent[c] /\ done'[c] = n + k
            BY <1>11, <1>14, <5>2
          <6> QED BY <1>3, <1>14, <3>3, <4>1, <6>1
        <5> QED BY <5>1, <5>2
      <4> QED BY <3>1, <3>4, <4>2
    <3>5. CASE p.chan # c
      <4>1. p.msg <= sent[p.chan]
        BY <1>3, <3>2, <3>3, <3>5
      <4> QED BY <1>14, <3>1, <3>3, <3>5, <4>1
    <3> QED BY <3>4, <3>5
  <2>2. CASE i \notin 1..Len(wire)
    <3>1. PICK j \in 1..k : i = Len(wire) + j
      <4>1. i - Len(wire) \in 1..k /\ i = Len(wire) + (i - Len(wire))
        BY <1>3, <1>13, <1>15, <2>2
      <4> QED BY <4>1
    <3>2. wire'[i] = [chan |-> c, msg |-> sent[c] + 1, part |-> n + j]
      BY <1>13, <3>1, Zenon
    <3>3. wire'[i].part <= n + k
      BY <1>3, <3>1, <3>2
    <3> QED BY <1>3, <1>4, <1>11, <1>14, <3>2, <3>3
  <2> QED BY <2>1, <2>2
<1>17. LET p == wire'[Len(wire')] IN
       IF p.part = Pieces THEN \A d \in Channels : done'[d] = 0
       ELSE p.msg = sent'[p.chan] + 1 /\ p.part = done'[p.chan]
  <2>1. k \in 1..k
    BY <1>3
  <2>2. wire'[Len(wire')] = [chan |-> c, msg |-> sent[c] + 1, part |-> n + k]
    BY <1>13, <2>1
  <2>3. n + k = Pieces => \A d \in Channels : done'[d] = 0
    BY <1>11
  <2> QED BY <1>11, <1>14, <2>2, <2>3
<1>18. Contiguous'
  BY <1>1, GrowthContiguous
<1>19. FramedUnlessCut'
  <2>1. CASE wire = <<>>
    <3>1. 1 \in 1..k /\ Len(wire) = 0 /\ Len(wire) + 1 = 1
      BY <1>3, <2>1
    <3>2. wire'[1].part = n + 1
      BY <1>13, <3>1
    <3>3. ~cut => n <= 0
      BY <1>3, <3>1 DEF Wired
    <3> QED BY <1>2, <3>2, <3>3 DEF FramedUnlessCut
  <2>2. CASE wire # <<>>
    <3>1. 1 \in 1..Len(wire)
      BY <1>15, <2>2
    <3>2. wire'[1] = wire[1]
      BY <1>13, <3>1
    <3> QED BY <1>2, <2>2, <3>2 DEF Wired, FramedUnlessCut
  <2> QED BY <2>1, <2>2
<1>20. ~cut' => \A d \in Channels : done'[d] <= Len(wire')
  <2>1. ~cut => n <= Len(wire)
    BY <1>3 DEF Wired
  <2>2. ~cut => done'[c] <= Len(wire')
    BY <1>3, <1>4, <1>11, <1>13, <1>15, <2>1
  <2>3. \A d \in Channels : d # c => done'[d] <= Len(wire')
    BY <1>3, <1>11, <1>13, <1>15
  <2>4. cut' = cut
    BY <1>2
  <2> QED BY <2>2, <2>3, <2>4
<1>21. Wired'
  <2>1. ~(link' = "none" \/ ~connected')
    BY <1>2 DEF Guarded
  <2> QED BY <1>13, <1>16, <1>17, <1>18, <1>19, <1>20, <2>1 DEF Wired
<1> QED BY <1>6, <1>7, <1>8, <1>9, <1>10, <1>12, <1>21
----------------------------------------------------------------------------
(* The whole.                                                               *)

\* Every step of the ingress keeps its invariant.
LEMMA IngressStep ==
  ASSUME IngressInv, [Next]_vars
  PROVE  IngressInv'
<1>1. CASE Poll
  BY <1>1, CollectStep DEF Poll
<1>2. CASE PollReset
  BY <1>2, CollectStep DEF PollReset
<1>3. CASE Handle
  BY <1>3, ConnectFailedStep, ConnectDoneStep, WritableStep, PeerClosedStep,
     ResetStep, ResolvedStep, ReadyStep DEF Handle
<1>4. CASE Send
  BY <1>4, SendSomeStep, SendBlockedStep, SendFailedStep DEF Send
<1>5. CASE \E c \in Channels : Submit(c)
  BY <1>5, SubmitStep
<1>6. CASE LookupEnds \/ OtherAnswers
  BY <1>6, LookupStep
<1>7. CASE Established \/ Refused \/ PeerReads \/ PeerEnds \/ Broken
  BY <1>7, EnvironmentStep
<1>8. CASE UNCHANGED vars
  <2> USE <1>8 DEF vars, kernelVars, sockVars, fdVars, timeVars, chanVars,
                   auxVars, IngressInv
  <2>1. Typed' /\ Counted' /\ Guarded' /\ Awaited'
    BY DEF Typed, Counted, Guarded, Awaited, AssertsHold
  <2>2. Told' /\ Begun' /\ Wired'
    BY ToldKept, BegunKept, WiredKept
  <2>3. Served'
    BY DEF Served, NotStalled
  <2> QED BY <2>1, <2>2, <2>3
<1> QED BY <1>1, <1>2, <1>3, <1>4, <1>5, <1>6, <1>7, <1>8 DEF Next

\* The invariant holds in every state.
LEMMA IngressInvariant == Spec => []IngressInv
<1>1. Init => IngressInv
  BY IngressInit
<1>2. IngressInv /\ [Next]_vars => IngressInv'
  BY IngressStep
<1> QED BY <1>1, <1>2, PTL DEF Spec

\* The state has the right types, and nothing is expected of a socket that
\* clear_socket() has closed.
THEOREM TypeCorrect == Spec => []TypeOK
<1>1. IngressInv => TypeOK
  <2> SUFFICES ASSUME IngressInv PROVE TypeOK
    OBVIOUS
  <2> USE DEF IngressInv
  <2>1. /\ link \in Links /\ connected \in BOOLEAN /\ writable \in BOOLEAN
        /\ armed \subseteq {"out", "hup"} /\ got \subseteq {"out", "hup"}
        /\ reset \in BOOLEAN /\ signalled \in BOOLEAN
        /\ lookup \in {"off", "running", "answered", "failed"}
        /\ idle \subseteq Channels
        /\ batch \subseteq Channels \cup {"fd", "reset", "signal"}
        /\ sending \in BOOLEAN /\ cut \in BOOLEAN
    BY DEF Typed
  <2>2. room \in 0..Room /\ ainf \in 1..(Addresses + 1) /\ faults \in 0..MaxFaults
    BY DEF Counted
  <2>3. /\ overtaken \in BOOLEAN
        /\ link = "none" => armed = {} /\ "fd" \notin batch
        /\ aborted \in {"no"} \cup LookupAsserts \cup OtherAsserts
    BY DEF Typed, Guarded, AssertsHold, OtherAsserts
  <2>4. /\ streamers \in Seq(Channels)
        /\ pushed \in [Channels -> 0..MaxPushes] /\ sent \in [Channels -> 0..MaxPushes]
    BY DEF Told
  <2>5. current \in [Channels -> BOOLEAN] /\ done \in [Channels -> 0..Pieces]
    BY DEF Begun
  <2>6. wire \in Seq(Piece)
    BY DEF Wired
  <2> HIDE DEF IngressInv
  <2> QED BY <2>1, <2>2, <2>3, <2>4, <2>5, <2>6 DEF TypeOK
<1> QED BY <1>1, IngressInvariant, PTL

\* Of the assertions of descriptor_ready(), initiate_lookup() and
\* address_resolved() only soerr's can fail, and, where a channel was handled
\* ahead of the timer of its batch, those of initiate_lookup().
THEOREM AssertsCorrect == Spec => []AssertsHold
<1>1. IngressInv => AssertsHold
  BY DEF IngressInv, Guarded
<1> QED BY <1>1, IngressInvariant, PTL

\* No channel is forgotten between its queue and the ingress's (ready(),
\* queue_ready(), consumed()), and none is in the latter twice.
THEOREM AttendedCorrect == Spec => []Attended
<1>1. IngressInv => Attended
  BY DEF IngressInv, Told, Attended
<1> QED BY <1>1, IngressInvariant, PTL

\* While streamers wait, something that will serve them is under way, until a
\* look-up or an assertion fails.
THEOREM NotStalledCorrect == Spec => []NotStalled
<1>1. IngressInv => NotStalled
  BY DEF IngressInv, Served
<1> QED BY <1>1, IngressInvariant, PTL

\* A streamer that has begun a message keeps its turn until it is sent
\* (try_send()).
THEOREM HeadCorrect == Spec => []OnlyHeadStarted
<1>1. IngressInv => OnlyHeadStarted
  BY DEF IngressInv, Begun, OnlyHeadStarted
<1> QED BY <1>1, IngressInvariant, PTL

\* The messages of a connection are never interleaved or repeated.
THEOREM ContiguousCorrect == Spec => []Contiguous
<1>1. IngressInv => Contiguous
  BY DEF IngressInv, Wired
<1> QED BY <1>1, IngressInvariant, PTL

\* A connection begins with the beginning of a message, unless its predecessor
\* was hung up on within one.
THEOREM FramedCorrect == Spec => []FramedUnlessCut
<1>1. IngressInv => FramedUnlessCut
  BY DEF IngressInv, Wired
<1> QED BY <1>1, IngressInvariant, PTL

\* Only a whole message is consumed (Channel::consumed()).
Taken ==
  \A c \in Channels : sent'[c] # sent[c] =>
    /\ sent'[c] = sent[c] + 1
    /\ wire'[Len(wire')] = [chan |-> c, msg |-> sent'[c], part |-> Pieces]
    /\ Len(wire') >= Pieces \/ cut

\* No step takes a payload off but the one that sends its last piece.
LEMMA TakenStep ==
  ASSUME IngressInv, [Next]_vars
  PROVE  Taken
<1>1. CASE SendSome
  <2>1. PICK c \in Channels, n \in Nat, k \in Nat :
          /\ Front(c, n, k) /\ Added(c, n, k)
          /\ Partial(c, n + k) \/ Whole(c, n + k)
    BY <1>1, SendSomeOutcome
  <2>2. CASE Partial(c, n + k)
    BY <2>2 DEF Partial, Taken
  <2>3. CASE Whole(c, n + k)
    <3>1. /\ n + k = Pieces /\ sent' = [sent EXCEPT ![c] = @ + 1]
          /\ k \in Nat \ {0} /\ n = done[c]
      BY <2>1, <2>3 DEF Whole, Front
    <3>2. sent'[c] = sent[c] + 1 /\ \A d \in Channels : d # c => sent'[d] = sent[d]
      BY <3>1 DEF IngressInv, Told
    <3>3. /\ Len(wire') = Len(wire) + k
          /\ wire'[Len(wire) + k] = [chan |-> c, msg |-> sent[c] + 1, part |-> n + k]
      <4>1. k \in 1..k
        BY <3>1
      <4> QED BY <2>1, <4>1, Growth DEF IngressInv
    <3>4. wire'[Len(wire')] = [chan |-> c, msg |-> sent'[c], part |-> Pieces]
      BY <3>1, <3>2, <3>3
    <3>5. Len(wire') >= Pieces \/ cut
      <4>1. ~cut => n <= Len(wire)
        BY <3>1 DEF IngressInv, Wired
      <4>2. Len(wire) \in Nat
        BY DEF IngressInv, Wired
      <4> QED BY <3>1, <3>3, <4>1, <4>2
    <3> QED BY <3>2, <3>4, <3>5 DEF Taken
  <2> QED BY <2>1, <2>2, <2>3
<1>2. CASE ~SendSome
  <2>1. sent' = sent
    BY <1>2 DEF Next, Handle, Send, Poll, PollReset, Collect, Submit, Ready,
       SendBlocked, SendFailed, ConnectFailed, ConnectDone, Writable,
       PeerClosed, Reset, Resolved, LookupEnds, OtherAnswers, Established, Refused,
       PeerReads, PeerEnds, Broken, Environment, chanVars, vars
  <2> QED BY <2>1 DEF Taken
<1> QED BY <1>1, <1>2

\* A payload leaves its queue only with the last piece of its message, behind
\* all of the others unless some went before a cut (consumed(), channels.cc).
THEOREM TakenCorrect == Spec => TakenWhole
<1>1. IngressInv /\ [Next]_vars => [Taken]_vars
  BY TakenStep
<1> QED BY <1>1, IngressInvariant, PTL DEF Spec, TakenWhole, Taken
=============================================================================
